--------------------------- MODULE ChannelProofs ---------------------------
(***************************************************************************)
(* Proofs about Channel, for every length of the array and every set of    *)
(* sockets: the machine keeps its invariants and implements ChannelSet.    *)
(***************************************************************************)
EXTENDS Channel, MessengerProofs

IInv ==
  /\ Proper(Sockets, socket_ids) /\ Len(socket_ids) <= MaxSubscriptions
  /\ Proper(Sockets, reached)
  /\ call \in Calls

\* The empty array satisfies the invariant.
LEMMA InvInit == Init => IInv
<1>1. <<>> \in Seq(Sockets) /\ Len(<<>>) = 0 /\ DOMAIN <<>> = {}
  BY EmptySeq
<1> QED
  BY <1>1, SubscriptionsAssumption DEF Init, IInv, Proper, Unrepeated, Calls

\* Each call of the server on a channel keeps the invariant.
LEMMA InvStep == IInv /\ [Next]_channelVars => IInv'
<1> SUFFICES ASSUME IInv, [Next]_channelVars
             PROVE  IInv'
  OBVIOUS
<1>1. Proper(Sockets, <<>>)
  BY EmptySeq DEF Proper, Unrepeated
<1>2. ASSUME NEW s \in Sockets, Subscribe(s)
      PROVE  IInv'
  BY <1>1, <1>2, SubscribeEffect DEF IInv, Subscribe, Calls, Proper, Unrepeated
<1>3. ASSUME NEW s \in Sockets, Unsubscribe(s)
      PROVE  IInv'
  BY <1>1, <1>3, UnsubscribeEffect DEF IInv, Unsubscribe, Calls, Proper, Unrepeated
<1>4. CASE Forward
  BY <1>4, ForwardEffect DEF IInv, Forward, Calls, Proper, Unrepeated
<1>5. CASE UNCHANGED channelVars
  BY <1>5 DEF IInv, channelVars, Proper, Unrepeated, Calls
<1> QED
  BY <1>2, <1>3, <1>4, <1>5 DEF Next

\* The array stays a bounded one of distinct sockets under any sequence of
\* subscribe_to_channel, unsubscribe_from_channel and forward_message.
THEOREM Invariance == Spec => []IInv
<1> QED
  BY InvInit, InvStep, PTL DEF Spec

\* The array never runs over its bound and holds sockets only.
THEOREM TypeCorrect == Spec => []TypeOK
<1>1. IInv => TypeOK
  BY DEF IInv, TypeOK, Proper
<1> QED
  BY <1>1, Invariance, PTL

\* No socket is subscribed twice or sent a forwarded message twice.
THEOREM NothingTwice == Spec => []NoDuplicates
<1>1. IInv => NoDuplicates
  BY DEF IInv, NoDuplicates, Proper, Unrepeated
<1> QED
  BY <1>1, Invariance, PTL

(***************************************************************************)
(* Cardinality is the same operator on both sides of the refinement.       *)
(***************************************************************************)
LEMMA SameCardinality == \A T : S!Cardinality(T) = Cardinality(T)
BY DEF S!Cardinality, Cardinality

\* The array of game_messanger.c implements the bounded set of ChannelSet.
THEOREM ChannelIsASet == Spec => ImplementsSet
<1>1. Init => S!SetInit
  <2>1. ToSet(<<>>) = {}
    BY DEF ToSet
  <2> QED
    BY <2>1 DEF Init, S!SetInit
<1>2. IInv /\ [Next]_channelVars => [S!SetNext]_(S!setVars)
  <2> SUFFICES ASSUME IInv, [Next]_channelVars
               PROVE  [S!SetNext]_(S!setVars)
    OBVIOUS
  <2>1. ToSet(<<>>) = {}
    BY DEF ToSet
  <2>2. ASSUME NEW s \in Sockets, Subscribe(s)
        PROVE  S!AddMember(s)
    BY <2>1, <2>2, SubscribeEffect, SameCardinality DEF IInv, Subscribe, S!AddMember
  <2>3. ASSUME NEW s \in Sockets, Unsubscribe(s)
        PROVE  S!DropMember(s)
    BY <2>1, <2>3, UnsubscribeEffect DEF IInv, Unsubscribe, S!DropMember
  <2>4. CASE Forward
    <3>1. S!Hear
      BY <2>4, ForwardEffect, SameCardinality DEF IInv, Forward, S!Hear
    <3> QED
      BY <3>1 DEF S!SetNext
  <2>5. CASE UNCHANGED channelVars
    BY <2>5 DEF channelVars, S!setVars
  <2> QED
    BY <2>2, <2>3, <2>4, <2>5 DEF Next, S!SetNext
<1> QED
  BY <1>1, <1>2, Invariance, PTL DEF Spec, ImplementsSet, S!SetSpec
=============================================================================
