--------------------------- MODULE WerewolfServer ---------------------------
(***************************************************************************)
(* The server process: the select loop of server.c's main over the game    *)
(* manager, the client list and the four channels, and under it the        *)
(* sockets as Linux shows them to the process.                             *)
(*                                                                         *)
(* main makes the listening socket once; then one loop is setup (rebuild    *)
(* read_fds, one list node per step), select, accept (at most one          *)
(* connection) and walk (one ready client per step).  A handler is one     *)
(* action; the peers act between any two steps.                            *)
(***************************************************************************)
EXTENDS GameManager, Messenger

CONSTANTS
  Lines,        \* the lines a client can type
  RxBound,      \* bound on the lines waiting unread in a socket
  MaxArrivals,  \* bound on the connections made in a behaviour
  Resets,       \* whether a connection may be reset otherwise than in answer
                \* to what is sent to it after its peer has closed
  SlowPeers     \* whether a peer may stop reading

ASSUME BoundsAssumption ==
  /\ RxBound \in Nat \ {0} /\ MaxArrivals \in Nat
  /\ Resets \in BOOLEAN /\ SlowPeers \in BOOLEAN
  /\ MaxPlayers <= MaxSubscriptions

\* main closes stdin first, so the listening socket is descriptor 0 and the
\* clients get the lowest free ones from 3 on; one is for a refused client.
Listener == 0
FirstFd  == 3
Fd       == FirstFd .. FirstFd + MaxPlayers

(***************************************************************************)
(* A line is [kind, to]: "blank", "whisper" ("/whisper <to> <text>") or    *)
(* "talk", anything else.  "/ww ..." is talk: its handler does nothing and *)
(* the result of handle_if_command is not looked at.                       *)
(***************************************************************************)
Queues == UNION {[1 .. n -> Lines] : n \in 0 .. RxBound}

ChannelNames == {"chat", "announcement", "server", "werewolf"}

(***************************************************************************)
(* The kernel's side of a descriptor: "none" (closed), "up", "full" (the   *)
(* peer has stopped reading and the send buffer has no room), "fin" (the   *)
(* peer closed its end), "shut" (and was written to since), "rst" (reset,  *)
(* the error not yet reported), "pipe" (reset after the peer's close),     *)
(* "dead" (reset and reported once).                                       *)
(***************************************************************************)
LinkStates == {"none", "up", "full", "fin", "shut", "rst", "pipe", "dead"}
NewLinks   == IF Resets THEN {"up", "fin", "rst", "pipe"} ELSE {"up", "fin"}

VARIABLES
  gm,         \* the game manager
  clients,    \* the client list from its head, as sockets
  listening,  \* the listening socket is open and listens
  headFreed,  \* main's list pointer is to a node setup_fd_sets has freed
  channels,   \* the subscriptions of each channel
  pc,         \* where the loop is
  current,    \* the nodes the running list walk has still to visit
  read_fds,   \* the descriptor set given to select, then returned by it
  server,     \* "running", or how the process died
  out,        \* the messages the last step sent
  link, rx,   \* per descriptor: state and unread lines
  pending,    \* connections waiting in the listen queue
  arrived     \* connections made so far, for MaxArrivals

gameVars   == <<gm, listening, clients, headFreed, channels>>
loopVars   == <<pc, current, read_fds>>
socketVars == <<link, rx, pending, arrived>>
vars       == <<gameVars, loopVars, server, out, socketVars>>

Init ==
  /\ gm = game_manager_create /\ listening = FALSE
  /\ clients = <<>> /\ headFreed = FALSE
  /\ channels = [c \in ChannelNames |-> <<>>]
  /\ pc = "start" /\ current = <<>> /\ read_fds = {}
  /\ server = "running" /\ out = <<>>
  /\ link = [fd \in Fd |-> "none"] /\ rx = [fd \in Fd |-> <<>>]
  /\ pending = 0 /\ arrived = 0

-----------------------------------------------------------------------------
(* The peers. *)

Peer == server = "running" /\ out' = <<>> /\ UNCHANGED <<gameVars, loopVars, server>>

ClientConnects ==
  /\ Peer /\ listening /\ arrived < MaxArrivals
  /\ arrived' = arrived + 1 /\ pending' = pending + 1
  /\ UNCHANGED <<link, rx>>

ClientSends(fd) ==
  /\ Peer /\ link[fd] \in {"up", "full"} /\ Len(rx[fd]) < RxBound
  /\ \E line \in Lines : rx' = [rx EXCEPT ![fd] = Append(@, line)]
  /\ UNCHANGED <<link, pending, arrived>>

\* The connection goes from one state to another.
Becomes(fd, from, to) ==
  /\ Peer /\ link[fd] = from
  /\ link' = [link EXCEPT ![fd] = to]
  /\ UNCHANGED <<rx, pending, arrived>>

ClientCloses(fd) == Becomes(fd, "up", "fin")

\* What is sent to a peer that has closed is answered with a reset.
ConnectionAnswers(fd) == Becomes(fd, "shut", "pipe")

\* The peer fails, or closes with messages unread or still on their way.
ConnectionReset(fd) ==
  /\ Resets
  /\ Becomes(fd, "up", "rst") \/ Becomes(fd, "full", "rst") \/ Becomes(fd, "fin", "pipe")

ClientStalls(fd) == SlowPeers /\ Becomes(fd, "up", "full")
ClientCatchesUp(fd) == Becomes(fd, "full", "up")

PeerStep ==
  \/ ClientConnects
  \/ \E fd \in Fd : \/ ClientSends(fd) \/ ClientCloses(fd)
                    \/ ConnectionAnswers(fd) \/ ConnectionReset(fd)
                    \/ ClientStalls(fd) \/ ClientCatchesUp(fd)

-----------------------------------------------------------------------------
(* What system calls return. *)

\* getsockopt(SO_ERROR) finds no pending error on an open descriptor.
is_socket_connected(fd) == link[fd] \in {"up", "full", "fin", "shut", "dead"}

\* read would return at once: data, end of file or an error.
Readable(fd) == rx[fd] # <<>> \/ link[fd] \in {"fin", "shut", "rst", "pipe", "dead"}

(***************************************************************************)
(* send on the kernel record k: a connection that its peer has closed      *)
(* takes it, a full buffer fails it; a reset is reported by one failed     *)
(* send, and the next one raises SIGPIPE, which the program does not       *)
(* handle.  Nothing is sent by a dead process.                             *)
(***************************************************************************)
Kernel == [link |-> link, out |-> <<>>, alive |-> TRUE]

Sends(k, fd) == k.alive /\ k.link[fd] \in {"up", "fin", "shut"}

SendTo(k, m) ==
  IF Sends(k, m.to) THEN [k EXCEPT !.out = Append(@, m),
                                   !.link[m.to] = IF @ = "fin" THEN "shut" ELSE @]
  ELSE [k EXCEPT !.link[m.to] = IF k.alive /\ @ = "rst" THEN "dead" ELSE @,
                 !.alive      = @ /\ k.link[m.to] \notin {"pipe", "dead"}]

\* Mutant: the sending of several messages stops at the first that fails.
SendAllUntilFailure(k, messages) ==
  LET failing == SelectInSeq(messages, LAMBDA m : ~Sends(k, m.to))
  IN  FoldLeft(SendTo, k, IF failing = 0 THEN messages ELSE SubSeq(messages, 1, failing))

\* One send after the other, whatever became of those before.
SendAll(k, messages) ==
  LET sent[i \in 0 .. Len(messages)] ==
        IF i = 0 THEN k ELSE SendTo(sent[i - 1], messages[i])
  IN  sent[Len(messages)]

\* about is the sockets a notice names, or the buffer a text was read from.
Message(to, channel, what, about) ==
  [to |-> to, channel |-> channel, what |-> what, about |-> about]

\* Leaves a handler with the kernel as its sends have made it.
Return(k) ==
  /\ out' = k.out
  /\ server' = IF k.alive THEN "running" ELSE "sigpipe"

-----------------------------------------------------------------------------
(* The pieces of the handlers. *)

\* Mutant: only a finished game is closed to newcomers.
InLobbyUnlessEnded == gm.state.current_phase # "ENDED"

InLobby == gm.state.current_phase = "LOBBY"
InNight == gm.state.current_phase = "NIGHT"

add_client_fd(list, fd) == <<fd>> \o list

\* Mutant: only the head of the list is looked at.
remove_client_fd_head_only(list, fd) ==
  IF list # <<>> /\ Head(list) = fd THEN Tail(list) ELSE list

remove_client_fd(list, fd) == RemoveFirst(list, fd)

SubscribeTo(names, fd) ==
  [c \in ChannelNames |-> IF c \in names THEN subscribe_to_channel(channels[c], fd)
                                         ELSE channels[c]]

\* The werewolf channel after the loop over the players of a started game g.
SubscribePack(channel, g) ==
  LET socks == game_manager_get_players_sockets(g)
      after[i \in 0 .. Len(socks)] ==
        IF i = 0 THEN channel
        ELSE IF game_manager_is_player_werewolf(g, socks[i])
             THEN subscribe_to_channel(after[i - 1], socks[i])
        ELSE after[i - 1]
  IN  after[Len(socks)]

UnsubscribeFromAll(fd) ==
  [c \in ChannelNames |-> unsubscribe_from_channel(channels[c], fd)]

close(fd) == /\ link' = [link EXCEPT ![fd] = "none"]
             /\ rx' = [rx EXCEPT ![fd] = <<>>]

(***************************************************************************)
(* The notices of a started game g, player by player in list order: its    *)
(* role, and for a werewolf of a larger pack its teammates.  The text      *)
(* says "Player %d" of each teammate and prints its socket.                *)
(***************************************************************************)
Pack(g) == {s \in ToSet(game_manager_get_players_sockets(g)) :
              game_manager_is_player_werewolf(g, s)}

NoticesTo(g, s) ==
  LET role == <<Message(s, "ANNOUNCEMENT", "role", game_manager_get_player_role(g, s))>>
      team == <<Message(s, "ANNOUNCEMENT", "team", Pack(g) \ {s})>>
  IN  IF game_manager_is_player_werewolf(g, s) /\ g.roles["WEREWOLF"].total_count > 1
      THEN role \o team ELSE role

StartNotices(g) ==
  LET socks == game_manager_get_players_sockets(g)
  IN  FlattenSeq([i \in DOMAIN socks |-> NoticesTo(g, socks[i])])

(***************************************************************************)
(* What a read buffer makes the server send.  The buffer is every line     *)
(* that was waiting; only its beginning is looked at for a command, and    *)
(* the rest of it is the text.                                             *)
(***************************************************************************)
Blank(buffer) == \A i \in DOMAIN buffer : buffer[i].kind = "blank"

handle_whisper_command(k, fd, buffer) ==
  LET to      == game_manager_get_socket_by_player_number(gm, buffer[1].to)
      copy(s) == Message(s, "WHISPER", "whisper", buffer)
  IN  IF to <= 0 THEN k
      ELSE IF Sends(k, to) THEN SendAll(k, <<copy(to), copy(fd)>>)
      ELSE SendTo(k, copy(to))

handle_if_command(k, fd, buffer) ==
  IF buffer[1].kind = "whisper" THEN handle_whisper_command(k, fd, buffer) ELSE k

forward_message(k, channel, buffer) ==
  LET to == forward_targets(channel)
  IN  SendAll(k, [i \in DOMAIN to |-> Message(to[i], "CHAT", "talk", buffer)])

\* Mutant: the night falls through to the day's forwarding.
handle_speech_fallthrough(k, fd, buffer) ==
  IF InNight THEN forward_message(k, channels["chat"], buffer) ELSE k

\* The switch on the phase, reached whether or not the buffer was a command.
handle_speech(k, fd, buffer) ==
  CASE gm.state.current_phase = "DAY" -> forward_message(k, channels["chat"], buffer)
    [] InNight /\ game_manager_is_player_werewolf(gm, fd) ->
         SendTo(k, Message(fd, "WEREWOLF", "talk", buffer))
    [] InNight /\ ~game_manager_is_player_werewolf(gm, fd) ->
         SendTo(k, Message(fd, "SERVER", "refusal", buffer))
    [] OTHER -> k

handle_buffer(fd, buffer) ==
  LET done == handle_if_command(Kernel, fd, buffer)
  IN  IF Blank(buffer) THEN Kernel
      ELSE IF game_manager_get_player_number(gm, fd) <= 0 THEN done
      ELSE handle_speech(done, fd, buffer)

-----------------------------------------------------------------------------
(* main up to its loop. *)

Loop(here) == server = "running" /\ pc = here

\* Mutant: the set is cleared but the clients are not walked again.
BackToSetupNoScan(list) ==
  pc' = "setup" /\ current' = <<>> /\ read_fds' = {Listener}

\* Mutant: the listening socket is not set again after FD_ZERO.
BackToSetupNoListener(list) ==
  pc' = "setup" /\ current' = list /\ read_fds' = {}

BackToSetup(list) ==
  pc' = "setup" /\ current' = list /\ read_fds' = {Listener}

Start(listens) ==
  /\ Loop("start")
  /\ listening' = listens
  /\ out' = <<>>
  /\ UNCHANGED <<gm, clients, headFreed, channels, socketVars>>

\* The port is not valid or no socket can be made: main returns 1.
SetupRefused == Start(FALSE) /\ server' = "exited" /\ UNCHANGED loopVars

\* The options, bind or listen fail on the only address that "0.0.0.0" has:
\* the socket is closed, and its number, 0, returned as a good one.
SetupFails == Start(FALSE) /\ BackToSetup(clients) /\ UNCHANGED server

SetupSucceeds == Start(TRUE) /\ BackToSetup(clients) /\ UNCHANGED server

-----------------------------------------------------------------------------
(* setup_fd_sets. *)

SetupConnected ==
  /\ Loop("setup") /\ current # <<>>
  /\ is_socket_connected(Head(current))
  /\ read_fds' = read_fds \union {Head(current)}
  /\ current' = Tail(current)
  /\ out' = <<>>
  /\ UNCHANGED <<gameVars, pc, server, socketVars>>

\* The socket is closed, player and node removed and the scan begun again;
\* no channel is told.  The head is removed from a copy of main's pointer.
SetupDisconnected ==
  /\ Loop("setup") /\ current # <<>>
  /\ LET fd == Head(current) IN
       /\ ~is_socket_connected(fd)
       /\ close(fd)
       /\ gm' = game_manager_remove_player(gm, fd)
       /\ clients' = remove_client_fd(clients, fd)
       /\ headFreed' = (headFreed \/ fd = Head(clients))
  /\ current' = clients'
  /\ out' = <<>>
  /\ UNCHANGED <<listening, channels, pc, read_fds, server, pending, arrived>>

SetupDone ==
  /\ Loop("setup") /\ current = <<>>
  /\ pc' = "select"
  /\ out' = <<>>
  /\ UNCHANGED <<gameVars, current, read_fds, server, socketVars>>

-----------------------------------------------------------------------------
(* select. *)

\* EBADF: a descriptor set before the scan restarted and closed after it, or
\* the listening socket when its setup has failed.
BadSet ==
  \/ \E fd \in read_fds \ {Listener} : link[fd] = "none"
  \/ ~listening

SelectFails ==
  /\ Loop("select") /\ BadSet /\ ~headFreed
  /\ BackToSetup(clients)
  /\ out' = <<>>
  /\ UNCHANGED <<gameVars, server, socketVars>>

SelectReturns ==
  /\ Loop("select") /\ ~BadSet
  /\ read_fds' = {fd \in read_fds : IF fd = Listener THEN pending > 0 ELSE Readable(fd)}
  /\ read_fds' # {}
  /\ pc' = "accept"
  /\ out' = <<>>
  /\ UNCHANGED <<gameVars, current, server, socketVars>>

-----------------------------------------------------------------------------
(* accept_tcp_connection and handle_new_connection. *)

NewFd == Min({fd \in Fd : link[fd] = "none"})

\* The kernel with the accepted connection open, in the state its peer has
\* put it in meanwhile.
Opened(l) == [Kernel EXCEPT !.link[NewFd] = l]

Accept ==
  /\ Loop("accept") /\ Listener \in read_fds
  /\ pending' = pending - 1
  /\ UNCHANGED <<listening, headFreed, arrived>>

StartWalk(list) == pc' = "walk" /\ current' = list /\ UNCHANGED read_fds

NothingToAccept ==
  /\ Loop("accept") /\ Listener \notin read_fds
  /\ StartWalk(clients)
  /\ out' = <<>>
  /\ UNCHANGED <<gameVars, server, socketVars>>

\* accept or the setting of the socket's options failed.
ConnectionDropped ==
  /\ Accept
  /\ out' = <<>>
  /\ StartWalk(clients)
  /\ UNCHANGED <<gm, clients, channels, server, link, rx>>

RefuseConnection ==
  /\ Accept /\ ~InLobby
  /\ \E l \in NewLinks :
       Return(SendTo(Opened(l), Message(NewFd, "ANNOUNCEMENT", "started", {})))
  /\ channels' = UnsubscribeFromAll(NewFd)
  /\ StartWalk(clients)
  /\ UNCHANGED <<gm, clients, link, rx>>

\* The new client is in the game, the list and the three common channels.
Seat(fd, l, game, subscriptions, messages) ==
  LET k == SendAll(Opened(l), messages) IN
    /\ gm' = game
    /\ clients' = add_client_fd(clients, fd)
    /\ StartWalk(clients')
    /\ channels' = subscriptions
    /\ link' = k.link
    /\ \E unread \in Queues : rx' = [rx EXCEPT ![fd] = unread]
    /\ Return(k)

CommonChannels == {"chat", "announcement", "server"}

Admit ==
  /\ Accept /\ InLobby /\ add_player_accepts(gm, NewFd)
  /\ gm.player_count + 1 < MaxPlayers
  /\ \E l \in NewLinks :
       Seat(NewFd, l, game_manager_add_player(gm, NewFd),
            SubscribeTo(CommonChannels, NewFd), <<>>)

\* The last seat starts the game: roles dealt, the pack subscribed, notices.
AdmitLast ==
  /\ Accept /\ InLobby /\ add_player_accepts(gm, NewFd)
  /\ gm.player_count + 1 = MaxPlayers
  /\ LET joined == game_manager_add_player(gm, NewFd)
         common == SubscribeTo(CommonChannels, NewFd)
     IN  \E l \in NewLinks, seat \in Seatings :
           LET game == game_manager_start_game(joined, seat)
           IN  Seat(NewFd, l, game,
                    [common EXCEPT !["werewolf"] = SubscribePack(@, game)],
                    StartNotices(game))

-----------------------------------------------------------------------------
(* The walk over the client list and handle_client_data. *)

\* The walk, or setup_fd_sets after a failed select, reads the freed node.
UseFreedNode ==
  /\ headFreed
  /\ Loop("walk") \/ (Loop("select") /\ BadSet)
  /\ server' = "freed"
  /\ out' = <<>>
  /\ UNCHANGED <<gameVars, loopVars, socketVars>>

\* Mutant: FD_ISSET is not asked.
ReadyAll == DOMAIN current

\* The places of the nodes still to visit that select found ready.
Ready == {i \in DOMAIN current : current[i] \in read_fds}

\* The next of them, whose client this step of the walk handles.
Visited == current[Min(Ready)]

Visit ==
  /\ Loop("walk") /\ ~headFreed /\ Ready # {}
  /\ current' = SubSeq(current, Min(Ready) + 1, Len(current))

\* read returned 0 or an error.
ClientGone ==
  /\ Visit
  /\ LET fd == Visited IN
       /\ rx[fd] = <<>>
       /\ close(fd)
       /\ clients' = remove_client_fd(clients, fd)
       /\ gm' = game_manager_remove_player(gm, fd)
       /\ channels' = UnsubscribeFromAll(fd)
  /\ out' = <<>>
  /\ UNCHANGED <<listening, headFreed, pc, read_fds, server, pending, arrived>>

ClientData ==
  /\ Visit
  /\ LET fd == Visited
         k  == handle_buffer(fd, rx[fd])
     IN  /\ rx[fd] # <<>>
         /\ rx' = [rx EXCEPT ![fd] = <<>>]
         /\ link' = k.link
         /\ Return(k)
  /\ UNCHANGED <<gameVars, pc, read_fds, pending, arrived>>

WalkDone ==
  /\ Loop("walk") /\ ~headFreed /\ Ready = {}
  /\ BackToSetup(clients)
  /\ out' = <<>>
  /\ UNCHANGED <<gameVars, server, socketVars>>

-----------------------------------------------------------------------------
ServerStep ==
  \/ SetupRefused \/ SetupFails \/ SetupSucceeds
  \/ SetupConnected \/ SetupDisconnected \/ SetupDone
  \/ SelectFails \/ SelectReturns
  \/ NothingToAccept \/ ConnectionDropped \/ RefuseConnection \/ Admit \/ AdmitLast
  \/ UseFreedNode \/ ClientGone \/ ClientData \/ WalkDone

Next == ServerStep \/ PeerStep

Spec == Init /\ [][Next]_vars

\* The process is scheduled; nothing is asked of the peers.
FairSpec == Spec /\ WF_vars(ServerStep)

-----------------------------------------------------------------------------
(* Properties.  A dead server promises nothing. *)

Running == server = "running"
OpenFds == {fd \in Fd : link[fd] # "none"}

MessageKinds == {"role", "team", "started", "whisper", "talk", "refusal"}

\* The shape of the loop's and the sockets' state.
TypeOK ==
  /\ gm \in ManagerType(Fd)
  /\ clients \in Seq(Fd) /\ current \in Seq(Fd)
  /\ listening \in BOOLEAN /\ headFreed \in BOOLEAN
  /\ channels \in [ChannelNames -> Seq(Fd)]
  /\ pc \in {"start", "setup", "select", "accept", "walk"}
  /\ read_fds \subseteq {Listener} \union Fd
  /\ server \in {"running", "exited", "sigpipe", "freed"}
  /\ \A i \in DOMAIN out : out[i].to \in Fd /\ out[i].what \in MessageKinds
  /\ link \in [Fd -> LinkStates] /\ rx \in [Fd -> Queues]
  /\ pending \in 0 .. MaxArrivals /\ arrived \in 0 .. MaxArrivals

\* The three registers of who is connected never drift apart, although each
\* of the paths that add or remove a client (accept, a failed read, the check
\* in setup_fd_sets) updates them one by one: the client list, the player
\* list and the open descriptors hold the same sockets, in the same order, as
\* long as the list main walks is the one its removals have worked on.
RegistriesAgree ==
  Running /\ ~headFreed =>
    /\ clients = game_manager_get_players_sockets(gm)
    /\ ToSet(clients) = OpenFds
    /\ Len(clients) = Cardinality(OpenFds)

\* Although setup_fd_sets leaves the subscriptions of the clients it removes
\* in the arrays, and descriptors are reused, every open connection is in the
\* three common channels, and the werewolf channel has an open connection in
\* it exactly when its player is a werewolf.
SubscriptionsServed ==
  Running => \A fd \in OpenFds :
    /\ \A c \in CommonChannels : is_subscribed(channels[c], fd)
    /\ is_subscribed(channels["werewolf"], fd) <=> game_manager_is_player_werewolf(gm, fd)

\* The server closes the connection of no client that is still there: select
\* results from before a close, an accept or a reuse of a descriptor are never
\* taken for the end of another client's connection.
NoLiveClientDropped ==
  [][\A fd \in Fd : link[fd] \in {"up", "full"} => link'[fd] # "none"]_vars

R == INSTANCE GameRoster WITH Sockets <- Fd

\* Whatever the loop, the peers and the descriptors do, the game manager sees
\* a roster's joins and leaves: nobody joins a started game or joins twice.
ImplementsRoster == R!Spec

\* The messages to one socket.
Mail(messages, fd) ==
  LET kept[i \in 0 .. Len(messages)] ==
        IF i = 0 THEN <<>>
        ELSE IF messages[i].to = fd THEN Append(kept[i - 1], messages[i])
        ELSE kept[i - 1]
  IN  kept[Len(messages)]

\* At the start every player that can still be reached is told its own role,
\* and a werewolf its pack, whatever happened to the connections of others.
RolesTold ==
  [][InLobby /\ ~InLobby' /\ Running' =>
       \A fd \in ToSet(clients') :
         link'[fd] \in {"up", "fin", "shut"} => Mail(out', fd) = NoticesTo(gm', fd)]_vars

Addressees(number) ==
  {gm.players[i].socket_id :
     i \in {j \in DOMAIN gm.players : gm.players[j].player_number = number}}

\* What a client types is sent to nobody else unless it began with a whisper,
\* and then only to a player with the number the whisper named: at night no
\* other speech gets through, a werewolf's included.
TextConfined ==
  [][\A i \in DOMAIN out' :
       LET m == out'[i] IN
         m.what \in {"whisper", "talk"} /\ m.to # Visited =>
           m.about[1].kind = "whisper" /\ m.to \in Addressees(m.about[1].to)]_vars

\* The server never follows its list pointer to a node it has freed.
ListPointerValid == server # "freed"

\* The server is not killed by a send to a client that is gone.
NoSigpipe == server # "sigpipe"

\* What a werewolf says at night reaches every connected werewolf.
WolvesHearWolves ==
  \A i \in DOMAIN out : out[i].channel = "WEREWOLF" =>
    \A fd \in OpenFds :
      game_manager_is_player_werewolf(gm, fd) /\ link[fd] = "up" => Mail(out, fd) # <<>>

\* A connection that has ended is closed, or found closed, by the server.
EndedAreClosed ==
  \A fd \in Fd : link[fd] \in LinkStates \ {"none", "up", "full"} ~> link[fd] = "none" \/ ~Running

\* Every connection in the listen queue is answered.
ArrivalsAnswered == pending > 0 ~> pending = 0 \/ ~Running
=============================================================================
