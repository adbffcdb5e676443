-------------------------- MODULE WerewolfSession --------------------------
(***************************************************************************)
(* The server together with what its clients see: what is on its way to    *)
(* each connected client, and what the client program prints of it.        *)
(*                                                                         *)
(* A connection is a stream: a read returns at most a buffer of it, of one *)
(* message or of several, and may end in the middle of one; the buffer is  *)
(* printed as one string, which ends with its first zero, and is cut when  *)
(* the colour codes put around it leave no room for all of it.             *)
(***************************************************************************)
EXTENDS WerewolfServer

CONSTANTS
  MailBound,   \* bound on what is on its way while lines are typed
  ReadMax,     \* the most that one read of the client returns
  Colour       \* the room the colour codes take of it

ASSUME MailAssumption ==
  MailBound \in Nat \ {0} /\ ReadMax \in Nat /\ Colour \in 1 .. ReadMax - 1

VARIABLES
  stream,   \* per descriptor: what is sent and not yet read by the client
  shown     \* per descriptor: the notices its client has printed

sessionVars == <<vars, stream, shown>>

SessionInit ==
  /\ Init
  /\ stream = [fd \in Fd |-> <<>>] /\ shown = [fd \in Fd |-> {}]

\* Mutant: whispers and forwarded messages are sent with their zero as well.
TerminatedAlways(message) == TRUE

\* send_message sends the zero at the end of the text, send_whisper and
\* forward_message do not.
Terminated(message) == message.channel \notin {"WHISPER", "CHAT"}

(***************************************************************************)
(* A message as it travels is its "tag", the channel in brackets, its      *)
(* "text" and maybe a "zero".  A notice's text is one piece; that of what  *)
(* was typed has one for each line, as many as the formatting buffer,      *)
(* which is as long as the client's, has room for after the tag.           *)
(***************************************************************************)
Piece(message, part) == [what |-> message.what, part |-> part]

TextLength(message) ==
  IF message.what \in {"whisper", "talk"} THEN Min({Len(message.about), ReadMax - 1}) ELSE 1

Wire(message) ==
  <<Piece(message, "tag")>> \o [i \in 1 .. TextLength(message) |-> Piece(message, "text")]
    \o IF Terminated(message) THEN <<Piece(message, "zero")>> ELSE <<>>

Posted(messages) == FlattenSeq([i \in DOMAIN messages |-> Wire(messages[i])])

\* A connection that is closed takes what its client saw with it.
ServerActs ==
  /\ ServerStep
  /\ stream' = [fd \in Fd |-> IF link'[fd] = "none" THEN <<>>
                              ELSE stream[fd] \o Posted(Mail(out', fd))]
  /\ shown'  = [fd \in Fd |-> IF link'[fd] = "none" THEN {} ELSE shown[fd]]

PeersAct ==
  /\ PeerStep
  /\ rx' # rx => \A fd \in Fd : Len(stream[fd]) < MailBound
  /\ UNCHANGED <<stream, shown>>

\* The zeros among the pieces a read has returned.
Zeros(pieces) == {i \in DOMAIN pieces : pieces[i].part = "zero"}

\* How many of them are printed: those before the first zero, and of a buffer
\* that begins with a channel, which is coloured, those there is room for.
PrintedLength(pieces) ==
  LET string == Min({Len(pieces)} \union {i - 1 : i \in Zeros(pieces)})
  IN  IF pieces[1].part = "tag" THEN Min({string, ReadMax - Colour}) ELSE string

\* The notices of the start whose text is among the first n pieces.
StartKinds == {"role", "team"}

Kinds(pieces, n) ==
  {kind \in StartKinds : \E i \in 1 .. n : pieces[i] = [what |-> kind, part |-> "text"]}

ClientReads(fd) ==
  /\ link[fd] = "up" /\ stream[fd] # <<>>
  /\ \E n \in 1 .. Min({ReadMax, Len(stream[fd])}) :
       LET read == SubSeq(stream[fd], 1, n) IN
         /\ stream' = [stream EXCEPT ![fd] = SubSeq(@, n + 1, Len(@))]
         /\ shown' = [shown EXCEPT ![fd] = @ \union Kinds(read, PrintedLength(read))]
  /\ out' = <<>>
  /\ UNCHANGED <<gameVars, loopVars, server, socketVars>>

SessionNext == ServerActs \/ PeersAct \/ \E fd \in Fd : ClientReads(fd)

SessionSpec == SessionInit /\ [][SessionNext]_sessionVars

-----------------------------------------------------------------------------
(* Properties. *)

\* The notices that are still on their way.
Coming(fd) == Kinds(stream[fd], Len(stream[fd]))

\* What a step has read of a client's stream.
TakenFrom(fd) == Len(stream[fd]) - Len(stream'[fd])

\* A player's role leaves the connection of a client only to be shown: nothing
\* sent before the start carries a zero that would hide it from the client,
\* whichever whispers are under way and wherever they are cut.  The one way to
\* lose it is a read so full that its colours do not fit.
RoleKept ==
  [][\A fd \in Fd :
       link'[fd] = "up" /\ "role" \in Coming(fd) /\ "role" \notin Coming(fd)' =>
         "role" \in shown'[fd] \/ TakenFrom(fd) > ReadMax - Colour]_sessionVars

\* A werewolf of a larger pack is shown its teammates, or will be.
TeamNotLost ==
  InNight /\ Cardinality({i \in DOMAIN gm.players : gm.players[i].role = "WEREWOLF"}) > 1 =>
    \A fd \in OpenFds :
      link[fd] = "up" /\ game_manager_is_player_werewolf(gm, fd) =>
        "team" \in shown[fd] \union Coming(fd)
=============================================================================
