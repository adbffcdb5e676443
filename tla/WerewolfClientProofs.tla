------------------------ MODULE WerewolfClientProofs ------------------------
(***************************************************************************)
(* Proofs about WerewolfClient, for any number of addresses, any lines and *)
(* buffers of any size: one socket at a time, and a connected one under    *)
(* the loop.                                                               *)
(***************************************************************************)
EXTENDS WerewolfClient, TLAPS, SequenceTheorems

Sockets == 1 .. MaxAddresses

\* Where the process is says what it holds: no socket between two attempts, a
\* socket in any state but "none" while it waits, a connected one afterwards.
Held ==
  client = "running" =>
    /\ pc = "connect" => sockfd = -1
    /\ pc # "connect" => sockfd \in Sockets
    /\ pc = "wait" => link \in SockStates \ {"none"} /\ paddr <= addresses
    /\ pc \notin {"connect", "wait"} => link \in Connected

IInv == TypeOK /\ OneSocket /\ Held

\* The client starts with no socket.
LEMMA InvInit == Init => IInv
<1> SUFFICES ASSUME Init
             PROVE  IInv
  OBVIOUS
<1>1. input \in Seq(Typed) /\ Len(input) = 0
  BY EmptySeq DEF Init
<1>2. sockets \in [1 .. MaxAddresses -> SockStates]
  BY DEF Init, SockStates
<1>3. TypeOK
  <2>1. addresses \in 0 .. MaxAddresses /\ paddr \in 1 .. addresses + 1
    BY ClientAssumption DEF Init
  <2>2. unread \in 0 .. RxBound /\ unsent \in 0 .. TxBound
    BY ClientAssumption DEF Init
  <2>3. pulled \in 0 .. Len(input) /\ handled \in 0 .. pulled
    BY <1>1 DEF Init
  <2>4. input \in Seq(Typed) /\ piece = "none" /\ eof \in BOOLEAN
    BY <1>1 DEF Init
  <2>5. /\ client = "running" /\ pc = "connect" /\ ready = {} /\ sockfd = -1
    BY DEF Init
  <2> QED
    BY <1>2, <2>1, <2>2, <2>3, <2>4, <2>5 DEF TypeOK
<1>4. OneSocket
  BY DEF Init, OneSocket
<1>5. Held
  BY DEF Init, Held
<1> QED
  BY <1>3, <1>4, <1>5 DEF IInv

\* A line typed makes the input longer by one.
LEMMA LineAdded ==
  ASSUME TypeOK, LineEnds
  PROVE  input' \in Seq(Typed) /\ Len(input') = Len(input) + 1 /\ Len(input) \in Nat
<1>1. PICK line \in Typed : input' = Append(input, line)
  BY DEF LineEnds
<1>2. input \in Seq(Typed)
  BY DEF TypeOK
<1> QED
  BY <1>1, <1>2, AppendProperties, LenProperties

(***************************************************************************)
(* What happens around the client leaves its connection connected.         *)
(***************************************************************************)
LEMMA OutsideKeeps == IInv /\ OutsideStep => IInv'
<1> SUFFICES ASSUME IInv, OutsideStep
             PROVE  IInv'
  OBVIOUS
<1>t. Len(input) \in Nat
  BY LenProperties DEF IInv, TypeOK
<1>1. CASE Types \/ EndsInput \/ BeginsLine
  <2>1. /\ LineEnds \/ UNCHANGED input
        /\ piece' \in {"none", "kernel", "stdio"} /\ eof' \in BOOLEAN
    BY <1>1 DEF Types, EndsInput, BeginsLine, LineEnds, IInv, TypeOK
  <2>2. input' \in Seq(Typed) /\ Len(input') \in {Len(input), Len(input) + 1}
    BY <2>1, LineAdded DEF IInv, TypeOK
  <2>3. pulled \in 0 .. Len(input')
    BY <1>t, <2>2 DEF IInv, TypeOK
  <2>4. UNCHANGED <<client, pc, ready, addresses, paddr, sockfd, pulled, handled, sockets,
                    unread, unsent>>
    BY <1>1 DEF Types, EndsInput, BeginsLine, Outside, connectVars, stdioVars, queueVars
  <2> QED
    BY <2>1, <2>2, <2>3, <2>4 DEF IInv, TypeOK, OneSocket, Held, link
<1>3. ASSUME NEW i \in Sockets, Answers(i) \/ ServerCloses(i) \/ ConnectionLost(i)
      PROVE  IInv'
  <2>1. PICK to \in SockStates \ {"none"} :
          /\ sockets' = [sockets EXCEPT ![i] = to]
          /\ sockets[i] \in {"connecting", "up", "shut"}
          /\ sockets[i] # "connecting" => to \in Connected
    BY <1>3 DEF Answers, ServerCloses, ConnectionLost, Becomes, SockStates, Connected
  <2>2. /\ client = "running"
        /\ UNCHANGED <<client, pc, ready, addresses, paddr, sockfd, unread, unsent,
                       input, piece, eof, pulled, handled>>
    BY <1>3 DEF Answers, ServerCloses, ConnectionLost, Becomes, Outside,
                connectVars, stdioVars, inputVars, queueVars
  <2>3. i = sockfd
    BY <2>1, <2>2 DEF IInv, OneSocket, Sockets
  <2>4. sockets' \in [Sockets -> SockStates] /\ sockets'[i] = to
    BY <2>1 DEF IInv, TypeOK, Sockets
  <2>5. TypeOK'
    BY <2>2, <2>4 DEF IInv, TypeOK, Sockets
  <2>6. OneSocket'
    BY <2>1, <2>2, <2>3 DEF IInv, OneSocket, TypeOK
  <2>7. pc \notin {"connect", "wait"} => to \in Connected
    <3>1. "connecting" \notin Connected
      BY DEF Connected
    <3> QED
      BY <2>1, <2>2, <2>3, <3>1 DEF IInv, Held, link
  <2>8. Held'
    BY <2>2, <2>3, <2>4, <2>7 DEF IInv, Held, link
  <2> QED
    BY <2>5, <2>6, <2>8 DEF IInv
<1>4. ASSUME NEW i \in Sockets, ServerSends(i) \/ ServerReads(i)
      PROVE  IInv'
  <2>1. /\ UNCHANGED <<client, pc, ready, addresses, paddr, sockfd, sockets,
                       input, piece, eof, pulled, handled>>
        /\ unread' \in 0 .. RxBound /\ unsent' \in 0 .. TxBound
    BY <1>4, ClientAssumption
       DEF ServerSends, ServerReads, Outside, IInv, TypeOK, connectVars, stdioVars, inputVars
  <2> QED
    BY <2>1 DEF IInv, TypeOK, OneSocket, Held, link
<1> QED
  BY <1>1, <1>3, <1>4 DEF OutsideStep, Sockets

(***************************************************************************)
(* An attempt that fails leaves no socket behind, one that succeeds leaves *)
(* its own.                                                                *)
(***************************************************************************)
LEMMA ConnectKeeps == IInv /\ ConnectStep => IInv'
<1> SUFFICES ASSUME IInv, ConnectStep
             PROVE  IInv'
  OBVIOUS
<1> USE DEF At, Connecting, connectVars, inputVars, stdioVars, queueVars
<1>1. CASE AddressFails
  <2>1. paddr \in Sockets /\ sockfd = -1 /\ client = "running"
    BY <1>1, ClientAssumption DEF AddressFails, IInv, TypeOK, Held, Sockets
  <2> QED
    BY <1>1, <2>1, ClientAssumption
       DEF AddressFails, NextAddress, IInv, TypeOK, OneSocket, Held, SockStates, Sockets, link
<1>2. CASE AddressOpens
  <2>1. paddr \in Sockets /\ sockfd = -1 /\ client = "running"
    BY <1>2, ClientAssumption DEF AddressOpens, IInv, TypeOK, Held, Sockets
  <2>2. \A j \in Sockets : sockets[j] = "none"
    BY <2>1 DEF IInv, OneSocket, Sockets
  <2> QED
    BY <1>2, <2>1, <2>2
       DEF AddressOpens, Open, IInv, TypeOK, OneSocket, Held, SockStates, Connected, Sockets, link
<1>3. CASE NoAddress
  BY <1>3 DEF NoAddress, IInv, TypeOK, OneSocket, Held
<1>4. CASE ConnectTimesOut \/ ConnectionFails
  <2>1. /\ client = "running" /\ pc = "wait" /\ sockfd \in Sockets
        /\ NextAddress(sockfd)
        /\ Connecting
    BY <1>4 DEF ConnectTimesOut, ConnectionFails, IInv, Held
  <2>2. paddr + 1 \in 1 .. addresses + 1
    BY <2>1, ClientAssumption DEF IInv, TypeOK, Held
  <2> QED
    BY <2>1, <2>2 DEF NextAddress, IInv, TypeOK, OneSocket, Held, SockStates, Sockets, link
<1>5. CASE ConnectionMade
  BY <1>5 DEF ConnectionMade, ConnectError, IInv, TypeOK, OneSocket, Held, link,
              SockStates, Connected
<1>6. CASE SetOptions
  BY <1>6 DEF SetOptions, IInv, TypeOK, OneSocket, Held, link, SockStates, Connected, Sockets
<1> QED
  BY <1>1, <1>2, <1>3, <1>4, <1>5, <1>6 DEF ConnectStep

(***************************************************************************)
(* A round of the loop changes no socket but its own, and leaves that one  *)
(* connected as long as the process runs.                                  *)
(***************************************************************************)
Own ==
  /\ sockets' \in [Sockets -> SockStates]
  /\ \A j \in Sockets : j # sockfd => sockets'[j] = sockets[j]
  /\ client' = "running" => sockets'[sockfd] \in Connected

LoopPlaces == {"select", "socket", "stdin", "close"}

\* What a round leaves of the rest of the state.
Round ==
  /\ client' \in {"running", "exited", "sigpipe", "segv"}
  /\ pc' \in LoopPlaces /\ ready' \subseteq {"socket", "stdin"}
  /\ UNCHANGED <<addresses, paddr, sockfd, input, eof>>
  /\ unread' \in 0 .. RxBound /\ unsent' \in 0 .. TxBound
  /\ piece' \in {"none", "kernel", "stdio"}
  /\ pulled' \in 0 .. Len(input) /\ handled' \in 0 .. pulled'

\* A step of the loop that does no more than Round keeps the invariant.
LEMMA RoundKeeps ==
  ASSUME IInv, client = "running", pc \in LoopPlaces, Own, Round
  PROVE  IInv'
<1>1. sockfd \in Sockets
  BY DEF IInv, Held, LoopPlaces
<1>2. TypeOK'
  BY DEF IInv, TypeOK, Own, Round, LoopPlaces, Sockets
<1>3. OneSocket'
  BY <1>1 DEF IInv, OneSocket, Own, Round, Sockets
<1>4. Held'
  BY <1>1 DEF Held, Own, Round, LoopPlaces, link
<1> QED
  BY <1>2, <1>3, <1>4 DEF IInv

\* A send in the handling of a line does no more than Round.
LEMMA SendsKeep ==
  ASSUME IInv, At("stdin"), NEW n \in 0 .. 1, NEW after \in LoopPlaces, Send(n, after)
  PROVE  /\ Own
         /\ client' \in {"running", "sigpipe"} /\ pc' \in LoopPlaces
         /\ unsent' \in 0 .. TxBound
         /\ UNCHANGED <<addresses, paddr, sockfd, input, eof>>
<1>1. sockfd \in Sockets /\ link \in Connected /\ client = "running"
  BY DEF IInv, Held, At
<1>2. Own
  BY <1>1 DEF Own, Send, IInv, TypeOK, link, SockStates, Connected, Sockets
<1>3. unsent' \in 0 .. TxBound
  BY ClientAssumption DEF Send, IInv, TypeOK
<1>4. /\ client' \in {"running", "sigpipe"} /\ pc' \in LoopPlaces
      /\ UNCHANGED <<addresses, paddr, sockfd, input, eof>>
  BY <1>1 DEF Send, InLoop, LoopPlaces, connectVars
<1> QED
  BY <1>2, <1>3, <1>4

\* The same of a step that leaves the socket as it is.
LEMMA OwnKept ==
  ASSUME IInv, client = "running", pc \in LoopPlaces, UNCHANGED sockets
  PROVE  Own
<1> QED
  BY DEF Own, IInv, Held, TypeOK, link, LoopPlaces, Sockets

\* Whatever the table of commands makes of a line, its handling is one send or
\* none.
LEMMA LinesKeep ==
  ASSUME IInv, NEW line, handle_line(line),
         line.text \in {"command", "speech", "blank"}
  PROVE  /\ At("stdin")
         /\ Own
         /\ client' \in {"running", "sigpipe", "segv"} /\ pc' \in LoopPlaces
         /\ unsent' \in 0 .. TxBound
         /\ UNCHANGED <<addresses, paddr, sockfd, input, eof>>
<1>1. \/ Send(1, "select") \/ Send(1, "close") \/ Send(0, "close")
      \/ \E outcome : SendNothing(outcome)
  BY DEF handle_line, run_command, whisper_command
<1>2. At("stdin")
  BY <1>1 DEF Send, SendNothing, InLoop
<1>3. ASSUME NEW outcome, SendNothing(outcome)
      PROVE  /\ Own
             /\ client' \in {"running", "sigpipe", "segv"} /\ pc' \in LoopPlaces
             /\ unsent' \in 0 .. TxBound
             /\ UNCHANGED <<addresses, paddr, sockfd, input, eof>>
  <2>1. Own
    BY <1>3, OwnKept DEF SendNothing, InLoop, At, LoopPlaces
  <2> QED
    BY <1>3, <2>1 DEF SendNothing, InLoop, At, LoopPlaces, IInv, TypeOK, connectVars
<1>4. "select" \in LoopPlaces /\ "close" \in LoopPlaces /\ 0 \in 0 .. 1 /\ 1 \in 0 .. 1
  BY DEF LoopPlaces
<1>5. CASE Send(1, "select")
  BY <1>2, <1>4, <1>5, SendsKeep
<1>6. CASE Send(1, "close")
  BY <1>2, <1>4, <1>6, SendsKeep
<1>7. CASE Send(0, "close")
  BY <1>2, <1>4, <1>7, SendsKeep
<1> QED
  BY <1>2, <1>1, <1>3, <1>5, <1>6, <1>7

\* What fgets returns is a line that was typed.
LEMMA LineRead ==
  ASSUME IInv, handled < Len(input)
  PROVE  input[handled + 1].text \in {"command", "speech", "blank"}
<1>1. handled + 1 \in 1 .. Len(input)
  BY LenProperties DEF IInv, TypeOK
<1> QED
  BY <1>1, ElementOfSeq, ClientAssumption DEF IInv, TypeOK

\* A step of the loop does to the socket and the buffers what a round may do.
LEMMA LoopKeeps == IInv /\ LoopStep => IInv'
<1> SUFFICES ASSUME IInv, LoopStep
             PROVE  IInv'
  OBVIOUS
<1>1. CASE ReadLine
  <2>1. handled + 1 \in 1 .. Len(input)
    BY <1>1, LenProperties DEF ReadLine, IInv, TypeOK
  <2>2. input[handled + 1].text \in {"command", "speech", "blank"}
    BY <1>1, LineRead DEF ReadLine
  <2>3. /\ At("stdin")
        /\ Own
        /\ client' \in {"running", "sigpipe", "segv"} /\ pc' \in LoopPlaces
        /\ unsent' \in 0 .. TxBound
        /\ UNCHANGED <<addresses, paddr, sockfd, input, eof>>
    BY <1>1, <2>2, LinesKeep DEF ReadLine
  <2>4. /\ pulled' \in 0 .. Len(input) /\ handled' \in 0 .. pulled'
        /\ piece' \in {"none", "kernel", "stdio"}
    BY <1>1, <2>1 DEF ReadLine, Fills, IInv, TypeOK
  <2>5. Round
    BY <1>1, <2>3, <2>4 DEF ReadLine, Round, IInv, TypeOK
  <2>6. client = "running" /\ pc \in LoopPlaces
    BY <2>3 DEF At, LoopPlaces
  <2> QED
    BY <2>3, <2>5, <2>6, RoundKeeps
<1>2. ASSUME Select \/ ReadMessages \/ ReadNothing \/ ReadFails \/ EndOfInput \/ NoInput \/ Exit
      PROVE  IInv'
  <2>1. client = "running" /\ pc \in LoopPlaces
    BY <1>2 DEF Select, ReadMessages, ReadNothing, ReadFails, EndOfInput, NoInput,
                Exit, InLoop, At, LoopPlaces
  <2>2. sockfd \in Sockets /\ link \in Connected
    BY <2>1 DEF IInv, Held, LoopPlaces
  <2>3. CASE Select \/ ReadMessages \/ ReadNothing \/ EndOfInput \/ NoInput
    <3>1. Own
      BY <2>1, <2>3, OwnKept DEF Select, Sets, ReadMessages, ReadNothing, NothingRead,
                                 EndOfInput, NoInput
    <3>2. ready' \subseteq {"socket", "stdin"}
      BY <2>3 DEF Select, Sets, ReadMessages, ReadNothing, NothingRead, EndOfInput, NoInput,
                  IInv, TypeOK
    <3>3. /\ pc' \in LoopPlaces
          /\ UNCHANGED <<client, addresses, paddr, sockfd, input, piece, eof, unsent, pulled,
                         handled>>
          /\ unread' \in 0 .. RxBound
      BY <2>3, ClientAssumption
         DEF Select, Sets, ReadMessages, ReadNothing, NothingRead, EndOfInput, NoInput, InLoop,
             LoopPlaces, IInv, TypeOK, connectVars, stdioVars, queueVars
    <3>4. Round
      BY <2>1, <3>2, <3>3 DEF Round, IInv, TypeOK
    <3> QED
      BY <2>1, <3>1, <3>4, RoundKeeps
  <2>4. CASE ReadFails \/ Exit
    <3>1. Own
      BY <2>2, <2>4 DEF ReadFails, Exit, Own, IInv, TypeOK, SockStates, Connected, Sockets
    <3>2. Round
      BY <2>1, <2>4 DEF ReadFails, Exit, InLoop, Round, LoopPlaces, IInv, TypeOK,
                        connectVars, stdioVars, queueVars
    <3> QED
      BY <2>1, <3>1, <3>2, RoundKeeps
  <2> QED
    BY <1>2, <2>3, <2>4
<1> QED
  BY <1>1, <1>2 DEF LoopStep

-----------------------------------------------------------------------------
\* Every state a client reaches has the shape TypeOK gives it, holds the socket
\* of one attempt at most, and the one its place calls for (tcp_client_socket,
\* while_active).
THEOREM Invariance == Spec => []IInv
<1>1. IInv /\ [Next]_vars => IInv'
  <2> SUFFICES ASSUME IInv, [Next]_vars
               PROVE  IInv'
    OBVIOUS
  <2>1. CASE Next
    BY <2>1, OutsideKeeps, ConnectKeeps, LoopKeeps DEF Next, ClientStep
  <2>2. CASE UNCHANGED vars
    BY <2>2 DEF vars, connectVars, inputVars, stdioVars, queueVars, IInv, TypeOK, OneSocket,
                Held, link
  <2> QED
    BY <2>1, <2>2
<1> QED
  BY InvInit, <1>1, PTL DEF Spec

\* The variables keep their shape, and stdio hands out no line that was not
\* typed: fgets is at most where its buffer is, and that where the input is.
THEOREM TypeCorrect == Spec => []TypeOK
<1>1. IInv => TypeOK
  BY DEF IInv
<1> QED
  BY Invariance, <1>1, PTL

\* The loop of tcp_client_socket closes what it gives up, by whichever of its
\* three ways, and main closes the rest: for any number of addresses the server
\* never meets two connections of one client.
THEOREM OneSocketAtATime == Spec => []OneSocket
<1>1. IInv => OneSocket
  BY DEF IInv
<1> QED
  BY Invariance, <1>1, PTL

\* while_active and the settings before it work on a connected socket: the
\* error that getsockopt reports is asked for before the socket is used.
THEOREM LoopConnected == Spec => []ServingIsConnected
<1>1. IInv => ServingIsConnected
  BY DEF IInv, Held, ServingIsConnected, Serving
<1> QED
  BY Invariance, <1>1, PTL

-----------------------------------------------------------------------------
(* Why the loop is left.                                                   *)

\* While a round is under way, an input that select has called ready has
\* something that stdio has not read, or has ended.
Offered == pc \in {"socket", "stdin"} /\ "stdin" \in ready => InputWaits

\* select makes it so, and until fgets is called no one but the user touches the
\* input.
LEMMA OfferedKeeps == IInv /\ Offered /\ [Next]_vars => Offered'
<1> SUFFICES ASSUME IInv, Offered, [Next]_vars
             PROVE  Offered'
  OBVIOUS
<1> USE DEF Offered, InputWaits, connectVars, inputVars, stdioVars, queueVars
<1>1. CASE Types
  <2>1. pulled \in 0 .. Len(input) /\ pulled' = pulled /\ LineEnds /\ TypeOK
    BY <1>1 DEF Types, Outside, IInv, TypeOK
  <2>2. Len(input') = Len(input) + 1 /\ Len(input) \in Nat
    BY <2>1, LineAdded
  <2>3. pulled' < Len(input')
    BY <2>1, <2>2
  <2> QED
    BY <2>3
<1>2. CASE OutsideStep /\ ~Types
  BY <1>2 DEF OutsideStep, BeginsLine, EndsInput, Answers, ServerCloses, ConnectionLost, Becomes,
              ServerSends, ServerReads, Outside
<1>3. CASE ConnectStep
  BY <1>3 DEF ConnectStep, AddressFails, AddressOpens, NoAddress, ConnectTimesOut,
              ConnectionFails, ConnectionMade, SetOptions, NextAddress, Open, Connecting, At
<1>4. CASE Select
  BY <1>4 DEF Select, Sets, InLoop
<1>5. CASE ReadMessages \/ ReadNothing
  BY <1>5 DEF ReadMessages, ReadNothing, NothingRead, InLoop, At
<1>6. CASE ReadFails \/ EndOfInput \/ NoInput \/ Exit
  BY <1>6 DEF ReadFails, EndOfInput, NoInput, Exit, InLoop
<1>7. CASE ReadLine
  <2>1. PICK line : handle_line(line) /\ line.text \in {"command", "speech", "blank"}
    BY <1>7, LineRead DEF ReadLine
  <2>2. pc' \in {"select", "close"}
    BY <2>1 DEF handle_line, run_command, whisper_command, Send, SendNothing, InLoop
  <2> QED
    BY <2>2
<1>8. CASE UNCHANGED vars
  BY <1>8 DEF vars
<1> QED
  BY <1>1, <1>2, <1>3, <1>4, <1>5, <1>6, <1>7, <1>8 DEF Next, ClientStep, LoopStep

\* A line whose handling leads out of the loop was not taken by the connection.
LEMMA UnsentLeaves ==
  ASSUME IInv, NEW line, handle_line(line), pc' = "close",
         line.text \in {"command", "speech", "blank"}
  PROVE  link' = "dead" \/ (unsent = TxBound /\ link = "up")
<1>1. At("stdin") /\ sockfd' = sockfd
  BY DEF handle_line, run_command, whisper_command, Send, SendNothing, InLoop, connectVars
<1>2. sockfd \in Sockets /\ sockets \in [Sockets -> SockStates]
  BY <1>1 DEF IInv, TypeOK, Held, At, Sockets
<1>3. Send(1, "close") \/ Send(0, "close") \/ Send(1, "select")
  BY DEF handle_line, run_command, whisper_command, SendNothing, InLoop
<1>4. ASSUME NEW n, NEW after, Send(n, after)
      PROVE  link' = "dead" \/ (unsent = TxBound /\ link = "up")
  <2>1. link = "rst" \/ (unsent = TxBound /\ link = "up")
    BY <1>4 DEF Send, InLoop
  <2>2. link = "rst" => sockets'[sockfd] = "dead"
    BY <1>2, <1>4 DEF Send, link
  <2> QED
    BY <1>1, <2>1, <2>2 DEF link
<1> QED
  BY <1>3, <1>4

\* Each way out of the loop is one of those that LoopLeft allows.
LEMMA LeavesWhenDone ==
  IInv /\ [Next]_vars /\ pc' = "close" /\ pc # "close" =>
    \/ eof /\ handled' = Len(input)
    \/ link' = "dead"
    \/ unsent = TxBound /\ link = "up" /\ handled' = handled + 1
<1> SUFFICES ASSUME IInv, [Next]_vars, pc' = "close", pc # "close"
             PROVE  \/ eof /\ handled' = Len(input)
                    \/ link' = "dead"
                    \/ unsent = TxBound /\ link = "up" /\ handled' = handled + 1
  OBVIOUS
<1>1. ~OutsideStep /\ ~ConnectStep /\ ~UNCHANGED vars
  BY DEF OutsideStep, Types, BeginsLine, EndsInput, Answers, ServerCloses, ConnectionLost,
         Becomes, ServerSends, ServerReads, Outside, vars, ConnectStep, AddressFails,
         AddressOpens, NoAddress, ConnectTimesOut, ConnectionFails, ConnectionMade,
         SetOptions, NextAddress, Open, At
<1>2. ReadFails \/ ReadLine \/ EndOfInput
  BY <1>1 DEF Next, ClientStep, LoopStep, Select, ReadMessages, ReadNothing, NoInput, Exit,
               InLoop, At
<1>3. CASE ReadFails
  <2>1. sockfd \in Sockets /\ sockets \in [Sockets -> SockStates]
    BY <1>3 DEF ReadFails, InLoop, At, IInv, TypeOK, Held, Sockets
  <2> QED
    BY <1>3, <2>1 DEF ReadFails, InLoop, connectVars, link
<1>4. CASE ReadLine
  BY <1>4, LineRead, UnsentLeaves DEF ReadLine
<1>5. CASE EndOfInput
  BY <1>5 DEF EndOfInput, stdioVars
<1> QED
  BY <1>2, <1>3, <1>4, <1>5

\* while_active returns at the end of the input with every line of stdio's
\* buffer handled, on the error of a read or of a send, and in no other case: a
\* server that has closed its end does not make it return.
THEOREM LeftForAReason == Spec => LoopLeft
<1>1. IInv /\ [Next]_vars =>
        [pc' = "close" /\ pc # "close" =>
           \/ eof /\ handled' = Len(input)
           \/ link' = "dead"
           \/ unsent = TxBound /\ link = "up" /\ handled' = handled + 1]_vars
  BY LeavesWhenDone
<1> QED
  BY Invariance, <1>1, PTL DEF Spec, LoopLeft

\* Whenever while_active is in a call of fgets that does not return, the user
\* has begun a line: what select has seen of the input was not a line that
\* stdio had read before.
THEOREM WaitsForARest == Spec => []WaitsMidLine
<1>1. Init => Offered
  BY DEF Init, Offered
<1>2. Spec => []Offered
  BY Invariance, <1>1, OfferedKeeps, PTL DEF Spec
<1>3. IInv /\ Offered => WaitsMidLine
  <2> SUFFICES ASSUME IInv, Offered, Waits
               PROVE  piece # "none"
    BY DEF WaitsMidLine
  <2>1. InputWaits /\ ~eof /\ handled = Len(input)
    BY DEF Waits, At, Offered
  <2>2. pulled \in 0 .. Len(input) /\ handled \in 0 .. pulled /\ Len(input) \in Nat
    BY LenProperties DEF IInv, TypeOK
  <2>3. ~(pulled < Len(input))
    BY <2>1, <2>2
  <2> QED
    BY <2>1, <2>3 DEF InputWaits
<1> QED
  BY Invariance, <1>2, <1>3, PTL
=============================================================================
