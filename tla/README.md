# Werewolf over sockets: a TLA+ model

TLA+ modules, TLC configurations and TLAPS proofs for the Werewolf game in
`src/`: its server, a single-threaded C program around `select`, its client,
another one, and the operations both are built from. Paths below are relative
to the repository's `src/` directory:
`server.c` is `src/src/server/server.c` in `PROJECT.json`.

## 1. The system

### Components

| Component | State it keeps | Operations |
|---|---|---|
| Role table, `include/game_config.h` | `GAME_CONFIGS`, constant | `get_game_config` |
| Game manager, `server/game/game_manager.c` | the player list (socket, number, role, alive), `player_count`, `alive_count`, counts per role, phase and day/night counters | create, add player, remove player, start game, getters |
| Channels, `utils/game_messanger.c` | an array of at most `MAX_SUBSCRIPTIONS` sockets per channel; four channels are static in `server.c` | subscribe, unsubscribe, `is_subscribed`, forward |
| Sending and formatting, `utils/game_messanger.c` | none | `send_message`, `send_whisper`, the `format_*` functions |
| Client list, `utils/tcp_server_util.c` | a linked list of descriptors whose head is a local of `main` | add, remove, `is_socket_connected` |
| Command handler, `server/command_handler.c` | none | `/whisper`, `/ww` |
| Event loop, `server/server.c` | the above, and the descriptor set | set up the set, `select`, accept one connection, walk the list |
| Listening socket, `utils/tcp_server_util.c` | none after the setup | `setup_tcp_server`, `accept_tcp_connection` |
| Client, `client/*.c`, `utils/tcp_client_util.c` | its socket, the input that stdio has read ahead, the table of commands | connect to one of the server's addresses, read and print, send lines, `/help`, `/whisper`, `/ww` |
| Logger, address printing, role names | none | formatting |

### How they interact

`main` closes stdin, creates the game manager and the listening socket (which
therefore is descriptor 0) and loops: `setup_fd_sets` rebuilds the set and
drops every client whose socket has an error; `select` waits without a timeout;
at most one connection is accepted and handed to `handle_new_connection`; then
the walk over the client list calls `handle_client_data` for each descriptor
in the set. A connection that is accepted in the lobby goes into the player
list, the client list and three channels; the one that fills the table starts
the game in the same call: the array of players is shuffled, roles are dealt,
werewolves subscribed to their channel and everybody notified. Everything runs
in one thread by direct calls. The concurrency is between the server and its
peers: connections are made, closed and reset, and lines arrive, between any two
system calls, while the loop works from what an earlier call has returned.

The client tries the addresses of its host one after the other, waiting for
each connection with a timeout, and then loops: `select` returns at once, the
socket is read if it is ready and printed as one string, then one line is taken
from stdin if that is ready, and sent or dispatched as a command. It waits in
one place only, in `fgets`, when what has been typed is not yet a whole line.
Server and client share the text of the messages and nothing else.

### What is hard

* **Who is connected is written down seven times** (descriptors, client list,
  player list, four arrays), one at a time, on three paths that differ:
  `handle_new_connection`, the failed read, and the check in `setup_fd_sets`,
  which tells no channel and changes a copy of the list head.
* **Descriptors are reused at once** by the kernel, and stale values of them
  survive in `read_fds` and in the arrays.
* **Peers fail between any two steps**: a closed connection can still be
  written to, which its host answers with a reset; a reset one fails once, or
  raises SIGPIPE.
* **A stream has no lines and no messages**: one read returns what has
  arrived, in the server and in the client, and the client takes it for a
  string, which ends at its first zero, and whose end is cut when the colours
  around it leave no room.
* **Some peers stop reading**: a send to a full buffer fails and is not retried.
* **Two buffers for one input**: the client's `select` looks at the kernel's
  input, `fgets` at stdio's, and what is ready for the one may be less than the
  line that the other waits for.
* **Answers come late**: a connection is made or refused while the client is
  giving it up.
* **The deal** indexes an array with loops that trust the table.
* **Waiting** happens in one place, for all connections.

`PROJECT.json` lists these under `hazards`, each at its line with the
properties about it; the hazards no property covers say why.

### What makes each component correct

* Role table: each accepted number of players has one row, and it fits.
* Game manager: a socket plays once; the counters count; the phase, the flags
  and the roles agree; the deck that is dealt is the row's; once dealt a hand
  does not change.
* Channels: an array behaves as a bounded set.
* Event loop: the registers of who is connected agree, each open connection is
  subscribed as its role says, no live client is dropped, an ended one is
  noticed, an arrival is answered, each player that can be reached learns its
  role, and typed text goes where the code's rules send it.
* Messages: what a player must know is still printed when several messages, or
  parts of them, are read at once.
* Client: one connection at a time, and a connected one when it is used; the
  loop ends when it should and only then; messages are read while lines are
  typed; it waits for the rest of a line only; a command comes back.

## 2. Modules

```
GameConfig            the role table, the deal by position, the assumptions on both
  |-- Lobby           abstract: seats and hands
  `-- GameManager     the manager's operations, as operators on a record
        |-- GameManagerProofs        the operations, with no machine
        |-- GameRoster        machine: joins, leaves, start       (implements Lobby)
        |     |-- MCRoster                                        (with Shuffle)
        |     `-- GameRosterProofs -- RosterDealProofs            (and GameManagerProofs)
        `-- WerewolfServer    machine: the event loop             (implements GameRoster)
              |-- MCServer
              |-- WerewolfServerProofs               (and GameManagerProofs, MessengerProofs)
              `-- WerewolfSession    the server with its clients' screens
                    |-- MCSession
                    `-- WerewolfSessionProofs        (and WerewolfServerProofs)
Shuffle               shuffle_array, with the results of rand as an argument
Messenger             the channel's operations                    (used by WerewolfServer)
  |-- MessengerProofs        the operations on an array, with no machine
  `-- Channel         machine: one channel                        (implements ChannelSet)
        |-- MCChannel
        `-- ChannelProofs                                         (and MessengerProofs)
CommandDispatcher     the client's table of commands and its search
  `-- WerewolfClient  machine: the client process
        |-- MCClient
        `-- WerewolfClientProofs
```

Names are the source's wherever a definition stands for one function:
`game_manager_add_player(gm, s)` is the manager after the call, `SendTo(k, m)`
is `send_message`. `PROJECT.json` gives the source lines of every definition
(`map`); definitions for the kernel and for the peers are marked external.
Definitions whose comment starts with "Mutant" are not used by any action: each
is the definition below it with a bug put in, and one property of one run is
known to fail when it takes that definition's place (`mutants`).

**GameConfig.** `GAME_CONFIGS` is the program's table; the machines take the
table as the constant `GameConfigs`, so the same definitions run on the real
table and on scaled ones. `role_at(k)` is the role that the four loops of
`game_manager_start_game` give to position `k` of the shuffled array.
`DeckCount(r)` says how many cards of role `r` the row stands for, computed
from the row and not from the loops. `ConfigAssumption` is what the loops trust.

**GameManager.** `gm` is one record with the fields of `game_manager_cdt`.
`players` is a sequence, head first. The lookup functions return the first
match, as the code's do. `Seatings` is every permutation. That it stands for
`shuffle_array` is what **Shuffle** is for: the loop as a function of what
`rand` returns, and `ShuffleIsFair` (in `MCRoster`) that each permutation comes
from exactly one sequence of results, for up to five players.

**GameRoster.** `Join` is what `handle_new_connection` does to the manager, the
start included; `Leave` what both disconnection paths do. The refinement to
`Lobby` maps the list to a set of sockets and a hand per socket; `Lobby` says
that the last seat deals one full deck and that hands then stay.

**Channel.** The calls of the server on one array, in any order, with more
sockets than slots. It implements `ChannelSet`, a bounded set of members. That
specification lets one member miss a message: `forward_message` starts its
loop at index 1, so the first subscriber never hears anything. The server as
it stands reaches `forward_message` in the day only, which never comes.

**WerewolfServer.** The event loop and what it runs over.

| Variable | Code |
|---|---|
| `gm` | `game_manager` |
| `listening` | the socket of `setup_tcp_server` is open and listens |
| `clients`, `headFreed` | `client_fd_list`; whether `main`'s head pointer is to a freed node |
| `channels` | the four static `channel_subscription_t` |
| `pc`, `current`, `read_fds` | the loop's position, the nodes the running walk has still to visit, the set |
| `server` | running, or how the process ended |
| `out` | the messages sent by the last step |
| `link`, `rx`, `pending` | the kernel's side: each descriptor's connection, its unread lines, the listen queue |

| Action | Code |
|---|---|
| `SetupRefused`, `SetupFails`, `SetupSucceeds` | `main` up to its loop, `setup_tcp_server` |
| `SetupConnected`, `SetupDisconnected`, `SetupDone` | one node of the scan in `setup_fd_sets` |
| `SelectReturns`, `SelectFails` | `select`, its EBADF when the set holds a closed descriptor |
| `NothingToAccept`, `ConnectionDropped`, `RefuseConnection`, `Admit`, `AdmitLast` | the accept and `handle_new_connection` |
| `ClientGone`, `ClientData` | `handle_client_data` for the next ready client |
| `UseFreedNode`, `WalkDone` | the walk's read of a freed node, its end |
| `ClientConnects`, `ClientSends`, `ClientCloses`, `ConnectionAnswers`, `ConnectionReset`, `ClientStalls`, `ClientCatchesUp` | the peers |

A handler is one action and contains every call it makes: `AdmitLast` adds,
subscribes, deals, subscribes the pack and sends the notices one by one
through `SendAll`, where each send sees what the one before has done to the
connection or the process. `SendAll`, `SubscribePack` and `Mail` are recursive
functions over a sequence, one value per iteration of the loop they stand for,
so that proofs can follow them. When the options, `bind` or `listen` fail on the
last address, `setup_tcp_server` closes the socket and returns its number all
the same; `main` passes a literal address, so the first is the last, and
`SetupFails` enters the loop with a set that `select` refuses for ever.

**WerewolfSession.** The server with what its clients see of it: `stream` is
what is on its way to each client, `shown` the notices of the start its client
has printed. A message travels as pieces (`Wire`): its tag, which is the channel
in brackets, its text, and the zero that `send_message` sends and `send_whisper`
and `forward_message` do not (`Terminated`). A typed text has one piece per
line, as many as the formatting buffer has room for; a notice's has one.
`ServerActs` is a step of the server with its sends put on the streams.
`ClientReads` is one `read`, of any number of pieces up to `ReadMax`, so that it
may end in the middle of a message, and what is printed of it
(`PrintedLength`): the pieces before the first zero, and of a buffer that begins
with a tag, which is rewritten through a buffer of the same size with colour
codes around it, only those that leave room for the codes (`Colour`).

**WerewolfClient.** The client process over its sockets, one for each address.

| Variable | Code |
|---|---|
| `client`, `pc` | running, or how the process ended; where it is |
| `addresses`, `paddr`, `sockfd` | how many addresses `getaddrinfo` has returned, the one the loop is at, the socket in use (named by its address) |
| `ready` | the set that `select` has returned |
| `sockets`, `unread`, `unsent` | the kernel's side: the state of each socket, what waits in the one in use |
| `input`, `piece`, `eof` | the lines the user has typed, where the part of the next one is (in the kernel, read by stdio), whether the input has ended |
| `pulled`, `handled` | how many lines stdio has read ahead, how many `fgets` has returned |

| Action | Code |
|---|---|
| `AddressFails`, `AddressOpens`, `NoAddress` | `socket`, its options and `connect` for the next address; none left, and the log at level FATAL exits |
| `ConnectTimesOut`, `ConnectionFails`, `ConnectionMade` | the wait of a connection in progress and its `SO_ERROR` |
| `SetOptions` | the two settings in `main` |
| `Select`, `ReadMessages`, `ReadNothing`, `ReadFails` | `select`, and `read_and_format_message` on a ready socket |
| `ReadLine`, `EndOfInput`, `NoInput` | `fgets` and everything done with the line; its null pointer |
| `Exit` | the end of `main` |
| `Types`, `BeginsLine`, `EndsInput`, `Answers`, `ServerCloses`, `ConnectionLost`, `ServerSends`, `ServerReads` | user, network and server |

`ReadLine` is one action, possible when the line is complete: while it is not,
and the input goes on, `fgets` does not return, and no step of the client is
possible (`Waits`). The end of the input completes a line that was begun. In
`ReadLine` the command is looked up with `dispatch_command` of
**CommandDispatcher** and its function's send, if any, is done. The aliases of
a row are 16 slots of which the unnamed ones are null pointers, and the search
hands each to `strcmp`; with that length no command but `/help` is ever
dispatched, so `whisper_command` has no step in the runs. It would have with a
table whose rows are full, and the proofs cover it.

### Choices worth knowing

* A connection is `up`; `full` (the peer has stopped reading and the send
  buffer has no room: a send fails and changes nothing); `fin` (closed by the
  peer, still writable); `shut` (and written to since, which the peer's host may
  answer with a reset at any time: `ConnectionAnswers`, always possible); `pipe`
  (that reset has come: `SO_ERROR` pending and sends raise SIGPIPE); `rst`
  (reset while up, `SO_ERROR` pending, one send fails); `dead` (the error was
  collected by that send: `getsockopt` finds nothing, reads return 0, sends
  raise SIGPIPE); `none`. This is what Linux does. The program neither ignores
  SIGPIPE nor passes `MSG_NOSIGNAL`. `Resets` says whether a connection may be
  reset otherwise than by that answer: the peer or its host fails, or closes
  with something unread.
* Peers act between the server's steps, and what a peer did to a connection
  before it was accepted is chosen at the accept: its state and its unread
  lines. During one handler no peer acts; a handler that makes several sends
  sees the peers as they were when it began.
* The client's sockets have the same states under the same names. `fgets` may
  take several lines from the kernel at once and some of the next (a pipe) or
  one (a terminal). A `send` of an empty line is a call with nothing to send:
  it fails on a reset connection and takes no room. A file of lines and its end
  may come at any time; a message that the client reads may be read in parts
  (`ReadMessages` leaves any number).
* A line, in the server, is one of: blank, a well-formed whisper to a number,
  talk. `/ww` and malformed whispers change nothing and the result of
  `handle_if_command` stops nothing, so they are talk. One read returns every
  waiting line, as the lines together fit the buffer of 1023 bytes; only the
  beginning of the buffer is examined, as in the code.
* In a stream, a typed text is taken to have no zero, which a terminal gives no
  way to type, and no brackets of its own; a buffer that begins in the middle of
  a message is not coloured. A notice's text is one piece, which a
  read takes or leaves: when a read cuts it in two, its first half counts as
  the end of what goes before, and is lost only in a read as full as the one
  `RoleKept` excepts.
* `read_fds` is not cleared when the scan in `setup_fd_sets` starts again.
* A use of the freed list node is taken to end the process: with glibc the
  freed node's link is overwritten at once, so the walk never reaches the rest
  of the list. After `headFreed` the model promises nothing.
* After a fatal signal in the middle of a handler the model sets `server` and
  keeps what the handler assigns; nothing reads the state of a dead server.
* Left out: memory allocation failure, pieces of lines, sends that take part of
  a message. The branches that cannot be taken (`player_count >
  max_players`, a refused `game_manager_add_player` in the lobby) have no
  action; the day's branch of `handle_client_data` is kept in `handle_speech`.

## 3. Runs

All bounds are in the `.cfg` files. Deadlock is off where the system may stop:
`select` blocks for ever when no peer does anything, and a bounded roster runs
out of joins.

| Run | Instance | Shows |
|---|---|---|
| `roster_scaled` | 3 players, row 1/1/SEER, 4 descriptors in any order, 3 leaves in the lobby | type, `SocketsDistinct`, `CountsAgree`, `PhaseCoherent`, `RoleAccounting`, `HandsKept`, refinement of `Lobby` |
| `channel` | 5 sockets, 4 slots | type and bound, `NoDuplicates`, refinement of `ChannelSet` |
| `server_registers` | 3 players, a pack of two, 4 connections, talk, resets | type, `RegistriesAgree`, `SubscriptionsServed`, `NoLiveClientDropped`, refinement of `GameRoster` |
| `server_live` | 3 players, 4 connections, resets, slow peers, fair server | `EndedAreClosed`, `ArrivalsAnswered`, `RolesTold` with closed, reset and full connections |
| `session` | 2 players, 2 connections, up to two lines waiting, every kind of line, reads of at most 4 pieces of which colours take 1, no resets but the answers | `RoleKept`, `TextConfined` |
| `client` | 2 addresses, 2 lines of six kinds, buffers of 2, fair client | type, `OneSocket`, `ServingIsConnected`, `WaitsMidLine`, `LoopLeft`, `InputEndsClient`, `MessagesRead` |
| `roster_numbers` | as `roster_scaled` | violation: two players with one number |
| `server_head` | 2 players | violation: the freed list head is read |
| `server_sigpipe` | 2 players, whispers, no resets but the answers | violation: SIGPIPE kills the server |
| `server_wolves` | 3 players, a pack of two | violation: the pack does not hear its members |
| `session_team` | 3 players, a pack of two | violation: the notice that names the teammates is not printed |
| `client_commands` | the table with its 16 slots, the commands `/help` lists | violation: a command ends the client |

`MCRoster` also has TLC evaluate `RealTableFits`: each number of players that
`main` accepts, 6 to 16, has exactly one row of the program's table, and that
row's werewolves and villagers fit, which is what `ConfigAssumption` asks.

**Why the bounds are enough.** The scaled row has each kind of card: a
werewolf, a villager and a special role in the last slot; three players is the
smallest table where a removal can hit the head, the middle and the end of the
list. One descriptor more than seats lets a connection be refused while the
table is full, and a freed one be reused while another is open. `MaxArrivals`
of one more than the seats gives a client that leaves the lobby and a successor
with its descriptor, before or after others. Leaves are counted only in the
lobby, where they could go on for ever (the placeholder's `alive_count` goes
down by one each time); after the start they are bounded by the players. Two
waiting lines are enough to glue a whisper to other text. The slow peers of
`server_live` let any player's buffer be full when the last seat starts the
game. `session` has two players and two connections so that lines of every
kind, glued or not, can be checked together with every cut of what is printed
of them (1.2 million states); a whisper before the start is the only message
that can precede a role on its way, and the player that waits in the lobby can
send one to itself. A third connection would reuse a descriptor, which is what
`server_registers` and `server_live` are for. With `ReadMax` 4 a whisper of two
lines fills a read together with the tag of what follows, a shorter one leaves
room for the role's text with the colours or without, and reads of every
smaller length cut each message in each place. A werewolf with a teammate needs
three players, in `session_team`, whose reads have room for all notices.
`MailBound` stops the typing of lines while as much is on its way, so that the
streams stay short; it never stops the server. Two addresses let an attempt
fail in each of its ways before another one is made; two lines let one wait in
stdio's buffer while the other is handled, and with the buffers of two let the
send buffer be full, the socket be reset between two sends, and a read leave
something behind; the part of a line can be in each of its places before,
between and after them.

**Fairness.** `FairSpec` is weak fairness of `ServerStep`, the disjunction of
the server's steps: the process is scheduled. Nothing is assumed of the peers,
and no fairness within the loop is needed since each of its positions has one
way on. `select` may wait for ever, but only when nothing is readable. The
client's `FairSpec` is weak fairness of its steps in the same sense; some step
is possible until the process ends, except while `fgets` waits for the rest of
a line. Whether that rest ever comes is the user's, of whom nothing is assumed:
`MessagesRead` leaves out a user who begins a line and never ends it. The one
choice within it that fairness leaves open, how long a connection in progress
is waited for, ends by the timeout. `InputEndsClient` is about a user who ends
the input, which ends the line as well; `MessagesRead` holds with a user who
types for ever and with a server that sends for ever.

### What the violations say

Each is a disagreement between the code and what a comment, a message or a
document of the repository says; `findings` in `PROJECT.json` quotes both.

* `roster_numbers`: A, B join (1, 2); A leaves; C joins and is 2 as well.
  Whispers to 2 reach C only.
* `server_head`: the most recent client is reset; `setup_fd_sets` frees the
  list head and `main` walks the freed node.
* `server_sigpipe`: a client closes; the server, which has not read the end
  of its connection yet, sends it the notices of the start; its host answers
  with a reset, and the next send, a whisper from another player, kills the
  process. Nothing but an ordinary close is needed.
* `server_wolves`: at night a werewolf's text goes back to itself.
* `session_team`: role and teammates are sent one right after the other, both
  with their zero; a client that reads them with one `read` prints the first.
  `RoleKept` says what does not happen: the role itself is not hidden in the
  same way, since it is the first message with a zero that a client is sent.
* `client_commands`: `/whisper` is compared with the null pointer after "help".

Seen while modelling and not given a run: `handle_if_command` returns 0 for
"handled" and its caller tests for `> 0` (`server.c:65`), so a whisper at night
is also echoed or refused as speech (`handle_buffer`); the notice to the pack
prints sockets where it says "Player %d" (`server.c:177`); `forward_message`
leaves out the first subscriber (`game_messanger.c:166`); two whispers that are
read at once become one, for the first one's addressee (`server.c:34`); no
statement sets a phase after the first night, so the "cycle of night and day
phases" (`README.md:22`) stops in it, the code of the day being unwritten; the
end of a read that fills the client's buffer is cut by the colour codes
(`game_messanger.c:105`), a role that follows a long whisper perhaps; `fgets`
waits for the rest of a line with the socket unattended (`client.c:75`); a
server whose `bind` fails runs on without a socket (`tcp_server_util.c:189`);
the client polls without waiting (`client.c:50`) and goes on after the server
has closed, losing the lines typed (`client.c:63`); a line that `fgets` has
read ahead is handled only when more input comes or the input ends
(`client.c:74`); the README's recommended distribution (`README.md:144-149`)
differs from the table.

## 4. Proofs

The theorems hold for every `MaxPlayers`, table and set of sockets that satisfy
`PlayersAssumption` and `ConfigAssumption` (`GameConfig`), and for every array
length that satisfies `SubscriptionsAssumption` (`Messenger`). Those about the
server hold besides for every set of lines and every bound on arrivals and on
waiting lines, with the table no larger than a channel's array
(`BoundsAssumption`: both are 16 in the code), whether peers reset and stall or
not. `RoleNotLost` holds besides for every bound on what is on its way and
every size of the client's buffer and of the colour codes (`MailAssumption`).
Those about the client hold for every number of addresses, lines and sizes of
the buffers that satisfy `ClientAssumption`, and whatever the table of commands
says.

| Module | Theorem | Statement |
|---|---|---|
| `GameRosterProofs` | `TypeCorrect` | `Spec => []TypeOK` |
| | `NoSocketTwice` | `Spec => []SocketsDistinct` |
| | `CountersRight` | `Spec => []CountsAgree` |
| | `PhasesRight` | `Spec => []PhaseCoherent` |
| | `HandsStayDealt` | `Spec => HandsKept` |
| `RosterDealProofs` | `RolesCounted` | `Spec => []RoleAccounting` |
| | `LobbyImplemented` | `Spec => ImplementsLobby` |
| `ChannelProofs` | `TypeCorrect` | `Spec => []TypeOK` |
| | `NothingTwice` | `Spec => []NoDuplicates` |
| | `ChannelIsASet` | `Spec => ImplementsSet` |
| `WerewolfClientProofs` | `TypeCorrect` | `Spec => []TypeOK` |
| | `OneSocketAtATime` | `Spec => []OneSocket` |
| | `LoopConnected` | `Spec => []ServingIsConnected` |
| | `LeftForAReason` | `Spec => LoopLeft` |
| | `WaitsForARest` | `Spec => []WaitsMidLine` |
| `WerewolfServerProofs` | `Invariance` | `Spec => []IInv` |
| | `TypeCorrect` | `Spec => []TypeOK` |
| | `RegistersRight` | `Spec => []RegistriesAgree` |
| | `SubscriptionsRight` | `Spec => []SubscriptionsServed` |
| | `SpeechConfined` | `Spec => TextConfined` |
| | `NoClientDropped` | `Spec => NoLiveClientDropped` |
| | `EveryoneTold` | `Spec => RolesTold` |
| | `RosterImplemented` | `Spec => ImplementsRoster` |
| `WerewolfSessionProofs` | `RoleNotLost` | `SessionSpec => RoleKept` |

**The roster.** None of these is inductive alone. `CountsAgree` relates
`alive_count` to the living in the list, and a removal takes one off only for a
living player, so it needs that everybody lives; that everybody has a role at
night needs that the deal covers each position of the list, hence that
`player_count` is the list's length, and that a seat is in `1 .. MaxPlayers`;
that no socket is there twice is what makes the shortened list free of the
socket that left. The inductive invariant `Good` (named `IInv` on the variable)
is their conjunction with the shape of the fields. It is a predicate on the
manager's record and a set of sockets, not on the state, so that roster and
server use the same lemmas, in `GameManagerProofs`: `AddEffect`, `RemoveEffect`
and `StartEffect` say what an operation leaves of each field, `GoodCreate`,
`SeatTaken` and `SeatLeft` that it preserves `Good`, `SocketsAdded`,
`SocketsRemoved` and `SocketsStarted` what becomes of the list of sockets.
`DealtRole` is where `ConfigAssumption` is needed: a position of the array gets
a role that is dealt.

**The deal.** `DeckCounted` is about the table and the loops alone: the array
splits into the werewolves' places, the places of the special roles and the
rest, and the positions that hold a role are as many as the row has cards of it,
cut-off special roles included. `HoldersAfterStart` adds that a permutation
carries positions to players one to one. `DInv` is the roster's invariant with
`Accounted`, which equates each role's `alive_count` with its living holders;
a leave takes the leaver from the holders of its own role (`AccountedLeave`)
and in the lobby no dealt role has any holder, so the start adds to 0.

**The lobby.** The refinement maps the list to the set of its sockets (`Seats`)
and a role for each (`Hands`). `RoleHeld` says that the lookup by socket finds
the right player, which needs distinct sockets; `SeatsCounted` that the set has
as many members as the list has players, so a full list is a full table;
`DealtIsADeal` that a fully dealt list is one of the deals of the deck.
`JoinTakesASeat` and `LeaveLeavesASeat` map the steps. `SameRow` and `SameDeck`
identify the copies of the table's operators that `INSTANCE` makes.

**The channel.** The array has no duplicates, which makes it as long as its set
of members is large (`MembersCounted`): "the array is full" is then "the set is
full". Removing swaps the last entry into the gap; it stays a member because it
was one at another index (`UnsubscribeEffect`). Without `is_subscribed` in
`subscribe_to_channel` neither would hold.

**The client.** `OneSocket` is not inductive: that the next attempt finds no
socket open needs that none is in use between two attempts, and that a failed
one was for the address the loop is at. `Held` says what the process holds at
each place: no socket, a socket of some state, a connected one. The network may
move a socket between two steps, and `OutsideKeeps` shows that it moves only
the one in use and keeps a connected one connected. `RoundKeeps` states once
what a step of the loop may do (its own socket stays connected while the
process runs, the rest keeps its type); each action is then shown to do no
more, `SendsKeep` and `LinesKeep` for the sends under `ReadLine`, where
`dispatch_command` is left unexpanded: no result of it does harm to the three
properties. `LoopLeft` needs one fact more, across a round: an input that
`select` has called ready still has a line that stdio has not read, or has
ended, when `fgets` is called (`Offered`, `OfferedKeeps`), or part of the next
one, so that `fgets` has nothing to return only at the end, or waits for the
rest of what was begun, which is `WaitsForARest`. `LeavesWhenDone` then goes
through the three ways out of the loop.

**The event loop.** `RegistriesAgree` is not inductive, and neither are the
others, for reasons that meet in one invariant, `IInv` (TLC finds it true on
the server's runs). `Registered`: client list and player list can only be
shortened alike because no socket is twice in either (`Good`), and the list
equals the open descriptors only because the kernel hands out a closed one
(`NewFdIsFree`). `Subscribed`: a full array refuses silently, so a newcomer is
subscribed only if there is room, and there is room since the entries are
distinct and all of the descriptors a full table can use (`LowFds`,
`ChannelHasRoom`), the stale ones that `setup_fd_sets` leaves behind included;
this holds because the kernel gives the lowest free descriptor and a refused
client, which may get a higher one, is never subscribed. In the lobby the
werewolf channel is empty, so no stale entry can make a newcomer hear the
pack. `Walking`: what `select` has returned, and what the walk has still to
visit, are open descriptors whose read returns at once, through every accept
and close in between; `NoClientDropped` is what this is for. One lemma per
action shows `IInv` kept (`...Keeps`), and `NextKeeps` puts them together; the
three branches after an accept that seat a client share `SeatKeeps`.

**Loops over sequences.** The sends of a handler, the subscription of the pack
and the notices are loops, as recursive functions. The prover has no
induction with a predicate for a parameter, so `NatInduct` states induction for
a set, from the least element of a set of numbers that is not empty
(`LeastElement`), and `KeptByRecursion` and `RecursionExists` say from it that
a recursive function exists and what all of its values keep. `SendAllSteps`,
`MailSteps`, `FlattenSteps` and `PackSubscribed` then unfold one loop each.
`SendAllEffect` says what any sequence of sends leaves of the connections (each
is as before, or a reset one whose error has been collected), and
`MailDelivered` that a descriptor which can still be written to at the end has
been sent all of its messages, in order. With `NoticesFor`, that the notices
for one player are exactly `NoticesTo`, this is `EveryoneTold`.

**What is sent.** `OutByStep` names, for each step, the set its messages are
in: a refusal, notices (`Notices`), replies to a buffer (`Replies`), or
nothing. `SpeechConfined` follows from these sets. `RosterImplemented` maps
admissions to `Join`, both removals to `Leave`, everything else to a stutter
(`RosterStep`), which carries the theorems about `GameRoster` to the server.

**The session.** A client loses its role when a read returns it behind a zero.
`SInv` therefore adds to `IInv` that every stream is `Clear`, no zero in it is
before a role, and, which makes this inductive, that in the lobby no stream has
a zero or a role at all. `PostedByStep` has what each step can put on a stream:
before the start only whispers, which carry no zero, the start the notices,
later steps no role. The notices of the start are the hard case, because the
sends before the role may fail: `FirstKept` says that failed sends take
messages away but put none before a role, so with `NoticesInOrder` what is
posted to a player at the start has its role first or not at all
(`StartedFirst`). `WireEffect` and `PostedEffect` carry this from messages to
pieces, `Appended` and `Suffix` say that what is added behind a clear stream
and what a read leaves of it are clear, and `RolePrinted` that `printf` prints
the role of a read from a clear stream unless the read had more than
`ReadMax - Colour` pieces.

**Only model-checked.** All liveness (`EndedAreClosed`, `ArrivalsAnswered`,
`InputEndsClient`, `MessagesRead`), since the prover handles neither fairness
nor `ENABLED`; `ShuffleIsFair`, evaluated for up to five players, and
`RealTableFits`, evaluated on the program's table.

## 5. Not modelled

Logging, wording, which colour a channel has, the names that addresses and roles
are printed with, argument parsing, the build. In `WerewolfServer` a peer is
more general than the client program (a connection may be reset, and a line be
blank); `WerewolfSession` joins the server with the client's reading only, since
what the client sends is covered by those peers. Memory allocation succeeds:
when it fails in `add_client_fd` (`tcp_server_util.c:18`) a player is seated
whose socket is in no list.

## 6. Plan

Done: the game manager with its abstract lobby and its shuffle, the channels
with their abstract set, the client's connection and loop, the server's setup
and event loop with slow, closed and reset peers, the session of server and
clients; and the proofs of every invariant and action property that the runs
find true.

Next, in this order:

1. **Shuffle**: the loop as a machine that implements one step to some element
   of `Seatings`, proved for every length with `NatInduct`.
2. **What kills the server**: as theorems, which node can be freed under `main`
   and which sends can raise the signal.
3. **Pieces of lines in the server**: a line that arrives in two reads, and a
   failing allocation in `add_client_fd`.
