--------------------------- MODULE WerewolfClient ---------------------------
(***************************************************************************)
(* The client process: main of client.c with tcp_client_socket's loop over *)
(* the server's addresses, the loop of while_active over the socket and    *)
(* the terminal, and under both the sockets and the input as Linux shows   *)
(* them to the process.  The user, the server and the network act between  *)
(* any two steps.                                                          *)
(***************************************************************************)
EXTENDS CommandDispatcher

CONSTANTS
  MaxAddresses,  \* bound on the addresses a host name resolves to
  Typed,         \* the lines a user can type
  MaxLines,      \* bound on the lines typed in a behaviour
  RxBound,       \* bound on the messages waiting unread in the socket
  TxBound        \* the lines that fill the send buffer

(***************************************************************************)
(* A line is [text, command, args]: "blank" (an empty line), "speech", or  *)
(* "command" (it begins with a slash) with the word after the slash and    *)
(* its arguments, "missing", "bad" (no positive number first) or "good".   *)
(* A line fits the buffer.                                                 *)
(***************************************************************************)
ASSUME ClientAssumption ==
  /\ MaxAddresses \in Nat /\ MaxLines \in Nat
  /\ RxBound \in Nat \ {0} /\ TxBound \in Nat \ {0}
  /\ \A line \in Typed : line.text \in {"blank", "speech", "command"}

(***************************************************************************)
(* The socket made for the i-th address: "none" (closed or not yet made),  *)
(* "connecting", "refused" (failed, the error not yet collected), "up",    *)
(* "fin" (the server closed its end), "shut" (and was written to since),   *)
(* "pipe" (and answered that with a reset), "rst" (reset while up), "dead" *)
(* (the error of that reset was reported).                                 *)
(***************************************************************************)
Connected  == {"up", "fin", "shut", "pipe", "rst", "dead"}
SockStates == {"none", "connecting", "refused"} \union Connected

VARIABLES
  client,    \* "running", or how the process ended
  pc,        \* where it is
  addresses, \* the number of addresses getaddrinfo has returned, 0 if it or
             \* the check of host and port before it has failed
  paddr,     \* the address the loop is at, from 1
  sockfd,    \* the socket in use, -1 for none
  ready,     \* what the last select returned
  sockets,   \* the kernel's sockets, by address
  unread,    \* messages waiting in the socket
  unsent,    \* lines in the send buffer
  input,     \* the complete lines typed so far
  piece,     \* where what was typed of the next line is: "none" if nothing
             \* was, "kernel" if some of it waits there, "stdio" if all was read
  eof,       \* the input has ended
  pulled,    \* how many lines stdio has read from the kernel
  handled    \* how many lines fgets has returned

connectVars == <<addresses, paddr, sockfd>>
inputVars   == <<input, piece, eof>>
stdioVars   == <<pulled, handled>>
queueVars   == <<unread, unsent>>
vars == <<client, pc, ready, sockets, connectVars, inputVars, stdioVars, queueVars>>

Init ==
  /\ client = "running" /\ pc = "connect" /\ ready = {}
  /\ addresses \in 0 .. MaxAddresses /\ paddr = 1 /\ sockfd = -1
  /\ sockets = [i \in 1 .. MaxAddresses |-> "none"]
  /\ unread = 0 /\ unsent = 0
  /\ input = <<>> /\ piece = "none" /\ eof = FALSE /\ pulled = 0 /\ handled = 0

-----------------------------------------------------------------------------
(* The user, the server and the network. *)

Outside == client = "running" /\ UNCHANGED <<client, pc, ready, connectVars, stdioVars>>

\* A new line, or the rest of the one begun, which is then not blank.
LineEnds ==
  /\ \E line \in Typed :
       /\ piece # "none" => line.text # "blank"
       /\ input' = Append(input, line)
  /\ piece' = "none"

Types ==
  /\ Outside /\ ~eof /\ Len(input) < MaxLines
  /\ LineEnds
  /\ UNCHANGED <<eof, sockets, queueVars>>

\* Some of a line reaches the kernel's buffer, through a pipe or by Ctrl-D.
BeginsLine ==
  /\ Outside /\ ~eof /\ Len(input) < MaxLines
  /\ piece # "kernel" /\ piece' = "kernel"
  /\ UNCHANGED <<input, eof, sockets, queueVars>>

\* The end of the input ends the line that was begun.
EndsInput ==
  /\ Outside /\ ~eof /\ eof' = TRUE
  /\ IF piece = "none" THEN UNCHANGED <<input, piece>> ELSE LineEnds
  /\ UNCHANGED <<sockets, queueVars>>

\* The state of socket i changes from one in the set to another.
Becomes(i, from, to) ==
  /\ Outside /\ sockets[i] \in from
  /\ sockets' = [sockets EXCEPT ![i] = to]
  /\ UNCHANGED <<inputVars, queueVars>>

Answers(i)        == Becomes(i, {"connecting"}, "up") \/ Becomes(i, {"connecting"}, "refused")
ServerCloses(i)   == Becomes(i, {"up"}, "fin")
ConnectionLost(i) == Becomes(i, {"up"}, "rst") \/ Becomes(i, {"shut"}, "pipe")

ServerSends(i) ==
  /\ Outside /\ sockets[i] = "up" /\ unread < RxBound
  /\ unread' = unread + 1
  /\ UNCHANGED <<inputVars, sockets, unsent>>

ServerReads(i) ==
  /\ Outside /\ sockets[i] = "up" /\ unsent > 0
  /\ unsent' = 0
  /\ UNCHANGED <<inputVars, sockets, unread>>

OutsideStep ==
  \/ Types \/ BeginsLine \/ EndsInput
  \/ \E i \in 1 .. MaxAddresses :
       Answers(i) \/ ServerCloses(i) \/ ConnectionLost(i) \/ ServerSends(i) \/ ServerReads(i)

-----------------------------------------------------------------------------
(* tcp_client_socket: one address after the other until one connects. *)

At(here) == client = "running" /\ pc = here

\* Nothing but the connecting is done before the loop.
Connecting == UNCHANGED <<addresses, ready, inputVars, stdioVars, queueVars>>

\* Mutant: the socket of the failed attempt is not closed.
NextAddressLeaks(i) ==
  /\ paddr' = paddr + 1 /\ sockfd' = -1 /\ pc' = "connect"
  /\ UNCHANGED <<client, sockets>>

NextAddress(i) ==
  /\ paddr' = paddr + 1 /\ sockfd' = -1 /\ pc' = "connect"
  /\ sockets' = [sockets EXCEPT ![i] = "none"]
  /\ UNCHANGED client

\* The address has its socket, in the state that connect has left it in.
Open(state, next) ==
  /\ sockfd' = paddr /\ pc' = next
  /\ sockets' = [sockets EXCEPT ![paddr] = state]
  /\ UNCHANGED <<client, paddr>>

\* socket, the setting of its options or connect fails at once.
AddressFails ==
  /\ At("connect") /\ paddr <= addresses
  /\ NextAddress(paddr)
  /\ Connecting

\* connect succeeds at once, or is in progress.
AddressOpens ==
  /\ At("connect") /\ paddr <= addresses
  /\ Open("up", "options") \/ Open("connecting", "wait")
  /\ Connecting

\* No address was left: the log at level FATAL exits.
NoAddress ==
  /\ At("connect") /\ paddr > addresses
  /\ client' = "failed"
  /\ UNCHANGED <<pc, paddr, sockfd, sockets>>
  /\ Connecting

ConnectTimesOut ==
  /\ At("wait") /\ sockets[sockfd] = "connecting"
  /\ NextAddress(sockfd)
  /\ Connecting

\* getsockopt(SO_ERROR) finds an error on the socket.
ConnectError(i) == sockets[i] \in {"refused", "rst", "pipe"}

ConnectionFails ==
  /\ At("wait") /\ ConnectError(sockfd)
  /\ NextAddress(sockfd)
  /\ Connecting

\* Mutant: writable is taken for connected.
ConnectionMadeUnchecked ==
  /\ At("wait") /\ sockets[sockfd] # "connecting"
  /\ pc' = "options"
  /\ UNCHANGED <<client, paddr, sockfd, sockets>>
  /\ Connecting

ConnectionMade ==
  /\ At("wait") /\ sockets[sockfd] # "connecting" /\ ~ConnectError(sockfd)
  /\ pc' = "options"
  /\ UNCHANGED <<client, paddr, sockfd, sockets>>
  /\ Connecting

\* main: the two settings that follow either work or end the program.
SetOptions ==
  /\ At("options")
  /\ \/ pc' = "select" /\ UNCHANGED <<client, sockets>>
     \/ /\ client' = "failed"
        /\ sockets' = [sockets EXCEPT ![sockfd] = "none"]
        /\ UNCHANGED pc
  /\ UNCHANGED <<paddr, sockfd>>
  /\ Connecting

ConnectStep ==
  \/ AddressFails \/ AddressOpens \/ NoAddress
  \/ ConnectTimesOut \/ ConnectionFails \/ ConnectionMade \/ SetOptions

-----------------------------------------------------------------------------
(* while_active: select without waiting, then the socket, then the input.  *)
(* select looks at the kernel's input; what stdio has already taken from   *)
(* it is not seen.                                                         *)

link == sockets[sockfd]

\* A step of the loop from one place to another.
InLoop(here, next) ==
  /\ At(here) /\ pc' = next
  /\ UNCHANGED <<connectVars, input, eof>>

Sets(socket, stdin) ==
  /\ ready' = {s \in {"socket", "stdin"} : IF s = "socket" THEN socket ELSE stdin}
  /\ UNCHANGED <<client, sockets, piece, stdioVars, queueVars>>

\* The kernel has some of the input, or its end.
InputWaits == pulled < Len(input) \/ piece = "kernel" \/ eof

\* Mutant: select is given the highest descriptor, not one more.
SelectOneShort == InLoop("select", "socket") /\ Sets(FALSE, InputWaits)

\* Mutant: the input is taken for ready without asking.
SelectNotAsked == InLoop("select", "socket") /\ Sets(unread > 0 \/ link # "up", TRUE)

Select == InLoop("select", "socket") /\ Sets(unread > 0 \/ link # "up", InputWaits)

\* A read takes what is there, up to the size of the buffer.
ReadMessages ==
  /\ InLoop("socket", "stdin")
  /\ "socket" \in ready /\ unread > 0
  /\ unread' \in 0 .. unread - 1
  /\ UNCHANGED <<client, ready, sockets, piece, stdioVars, unsent>>

NothingRead ==
  /\ "socket" \in ready => unread = 0 /\ link # "rst"
  /\ UNCHANGED <<client, ready, sockets, piece, stdioVars, queueVars>>

\* Mutant: the end of the stream is a reason to look at the socket again.
ReadNothingContinues ==
  NothingRead /\ InLoop("socket", IF "socket" \in ready THEN "select" ELSE "stdin")

\* Mutant: the loop is left as soon as the server has closed.
ReadNothingLeaves ==
  NothingRead /\ InLoop("socket", IF "socket" \in ready THEN "close" ELSE "stdin")

\* The socket was not ready, or read returns 0, the end of the stream.
ReadNothing == NothingRead /\ InLoop("socket", "stdin")

\* The reset that read reports ends the loop.
ReadFails ==
  /\ InLoop("socket", "close")
  /\ "socket" \in ready /\ unread = 0 /\ link = "rst"
  /\ sockets' = [sockets EXCEPT ![sockfd] = "dead"]
  /\ UNCHANGED <<client, ready, piece, stdioVars, queueVars>>

(***************************************************************************)
(* A send of n lines, 0 for an empty one: a closed connection takes it, a  *)
(* reset one fails once and then raises SIGPIPE, which is not handled, and *)
(* a full buffer fails.  A failure leads to the place after_error.         *)
(***************************************************************************)
Send(n, after_error) ==
  LET full  == link = "up" /\ n > 0 /\ unsent = TxBound
      error == link = "rst" \/ full
  IN  /\ client' = IF link \in {"pipe", "dead"} THEN "sigpipe" ELSE client
      /\ InLoop("stdin", IF error THEN after_error ELSE "select")
      /\ unsent' = IF link = "up" /\ ~full THEN unsent + n ELSE unsent
      /\ sockets' = [sockets EXCEPT ![sockfd] = IF @ = "rst" THEN "dead"
                                               ELSE IF @ = "fin" /\ n > 0 THEN "shut"
                                               ELSE @]

\* A command that sends nothing, or that strcmp does not return from.
SendNothing(outcome) ==
  /\ InLoop("stdin", "select")
  /\ client' = IF outcome = "segv" THEN "segv" ELSE client
  /\ UNCHANGED <<sockets, unsent>>

whisper_command(args) == IF args = "good" THEN Send(1, "select") ELSE SendNothing("usage")

run_command(line) ==
  LET outcome == dispatch_command(line.command)
  IN  IF outcome = "whisper" THEN whisper_command(line.args) ELSE SendNothing(outcome)

handle_line(line) ==
  CASE line.text = "command" -> run_command(line)
    [] line.text = "speech"  -> Send(1, "close")
    [] line.text = "blank"   -> Send(0, "close")

(***************************************************************************)
(* fgets asks the kernel when stdio has no complete line: a terminal gives *)
(* it one, a pipe may give it several and some of the next.                *)
(***************************************************************************)
Fills ==
  /\ pulled' \in handled + 1 .. Len(input)
  /\ piece' \in {piece} \union (IF pulled' = Len(input) /\ piece = "kernel" THEN {"stdio"} ELSE {})

\* fgets returns the next line.  While there is none and the input goes on it
\* does not return: no step of the client is possible then.
ReadLine ==
  /\ "stdin" \in ready /\ handled < Len(input)
  /\ IF handled < pulled THEN UNCHANGED <<pulled, piece>> ELSE Fills
  /\ handled' = handled + 1
  /\ handle_line(input[handled + 1])
  /\ UNCHANGED <<ready, unread>>

\* Mutant: the null pointer that fgets returns is handled like a line.
EndOfInputIgnored ==
  /\ InLoop("stdin", "select")
  /\ "stdin" \in ready /\ handled = Len(input) /\ eof
  /\ handled' = handled + 1
  /\ UNCHANGED <<client, ready, sockets, piece, pulled, queueVars>>

EndOfInput ==
  /\ InLoop("stdin", "close")
  /\ "stdin" \in ready /\ handled = Len(input) /\ eof
  /\ UNCHANGED <<client, ready, sockets, piece, stdioVars, queueVars>>

NoInput ==
  /\ InLoop("stdin", "select")
  /\ "stdin" \notin ready
  /\ UNCHANGED <<client, ready, sockets, piece, stdioVars, queueVars>>

\* After the loop main closes the socket and returns 0.
Exit ==
  /\ InLoop("close", "close")
  /\ client' = "exited"
  /\ sockets' = [sockets EXCEPT ![sockfd] = "none"]
  /\ UNCHANGED <<ready, piece, stdioVars, queueVars>>

LoopStep ==
  \/ Select \/ ReadMessages \/ ReadNothing \/ ReadFails
  \/ ReadLine \/ EndOfInput \/ NoInput \/ Exit

-----------------------------------------------------------------------------
ClientStep == ConnectStep \/ LoopStep

Next == ClientStep \/ OutsideStep

Spec == Init /\ [][Next]_vars

\* The process is scheduled; nothing is asked of the user or the server.
FairSpec == Spec /\ WF_vars(ClientStep)

-----------------------------------------------------------------------------
(* Properties. *)

Serving == client = "running" /\ pc \in {"options", "select", "socket", "stdin", "close"}

\* The shape of the state; stdio never hands out a line it has not read, nor
\* reads one that was not typed.
TypeOK ==
  /\ client \in {"running", "exited", "failed", "sigpipe", "segv"}
  /\ pc \in {"connect", "wait", "options", "select", "socket", "stdin", "close"}
  /\ addresses \in 0 .. MaxAddresses /\ paddr \in 1 .. addresses + 1
  /\ sockfd \in {-1} \union (1 .. MaxAddresses)
  /\ ready \subseteq {"socket", "stdin"}
  /\ sockets \in [1 .. MaxAddresses -> SockStates]
  /\ unread \in 0 .. RxBound /\ unsent \in 0 .. TxBound
  /\ input \in Seq(Typed) /\ piece \in {"none", "kernel", "stdio"} /\ eof \in BOOLEAN
  /\ pulled \in 0 .. Len(input) /\ handled \in 0 .. pulled

\* However many addresses were tried, whichever of the three ways the attempts
\* failed and whenever their answers came, no socket but the one in use is
\* open: the server never sees a second connection of the same client, which
\* would take a seat in the game.
OneSocket ==
  client = "running" => \A i \in 1 .. MaxAddresses : sockets[i] # "none" => i = sockfd

\* The loop runs on a socket that has been connected: a connection that was
\* refused while select waited is never taken for one that was made.
ServingIsConnected == Serving => link \in Connected

\* The loop is left only when every line typed has been handled, those that
\* wait in stdio's buffer at the end of the input included, when the reset of
\* the connection has been reported, or on a line that a full send buffer did
\* not take: not because the server has closed.
LoopLeft ==
  [][pc' = "close" /\ pc # "close" =>
       \/ eof /\ handled' = Len(input)
       \/ link' = "dead"
       \/ unsent = TxBound /\ link = "up" /\ handled' = handled + 1]_vars

\* The end of the input ends the client, although from the server's close on
\* the socket is ready in every round and read returns 0 each time.
InputEndsClient == eof ~> client # "running"

\* fgets waits for the user.
Waits == At("stdin") /\ "stdin" \in ready /\ handled = Len(input) /\ ~eof

\* The client waits for its user, its socket unattended, only in the middle of
\* a line: stdio's read-ahead never makes select's answer that of a line which
\* fgets has already returned.
WaitsMidLine == Waits => piece # "none"

\* No message stays unread for ever, unless the client waits for ever for the
\* end of a line that was begun: it ends, or its socket is empty again and
\* again, or it is read again and again.
MessagesRead ==
  \/ []<>(unread = 0 \/ client # "running")
  \/ []<><<unread' < unread>>_vars
  \/ <>[](Waits /\ piece # "none")

\* A command that /help lists does not end the client.
CommandsReturn == client # "segv"
=============================================================================
