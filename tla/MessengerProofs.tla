--------------------------- MODULE MessengerProofs ---------------------------
(***************************************************************************)
(* What the channel operations of Messenger do to an array of sockets, for *)
(* every length of the array and every set S of sockets: an array without  *)
(* duplicates is a bounded set under them.                                 *)
(***************************************************************************)
EXTENDS Messenger, TLAPS, FiniteSetTheorems, SequenceTheorems

Unrepeated(q) == \A i, j \in DOMAIN q : q[i] = q[j] => i = j

Proper(S, q) == q \in Seq(S) /\ Unrepeated(q)

\* A sequence without repetitions, in terms of its places.
LEMMA ProperFacts ==
  ASSUME NEW S, NEW q, Proper(S, q)
  PROVE  /\ Len(q) \in Nat
         /\ DOMAIN q = 1 .. Len(q)
         /\ q \in [1 .. Len(q) -> S]
         /\ \A i, j \in 1 .. Len(q) : q[i] = q[j] => i = j
         /\ ToSet(q) = {q[i] : i \in 1 .. Len(q)}
BY LenProperties DEF Proper, Unrepeated, ToSet

(***************************************************************************)
(* An array without duplicates has as many members as entries.             *)
(***************************************************************************)
LEMMA MembersCounted ==
  ASSUME NEW S, NEW q, Proper(S, q)
  PROVE  IsFiniteSet(ToSet(q)) /\ Cardinality(ToSet(q)) = Len(q)
<1>1. q \in Surjection(1 .. Len(q), ToSet(q))
  BY ProperFacts DEF Surjection
<1>2. q \in Injection(1 .. Len(q), ToSet(q))
  BY <1>1, ProperFacts DEF Surjection, Injection, IsInjective
<1>3. IsFiniteSet(1 .. Len(q)) /\ Cardinality(1 .. Len(q)) = Len(q)
  BY ProperFacts, FS_Interval
<1> QED
  BY <1>1, <1>2, <1>3, FS_Surjection

(***************************************************************************)
(* subscribe_to_channel adds the socket when there is room, and once.      *)
(***************************************************************************)
LEMMA SubscribeEffect ==
  ASSUME NEW S, NEW q, Proper(S, q), Len(q) <= MaxSubscriptions, NEW s \in S
  PROVE  LET h == subscribe_to_channel(q, s) IN
         /\ Proper(S, h)
         /\ Len(h) <= MaxSubscriptions
         /\ ToSet(h) = IF Cardinality(ToSet(q)) < MaxSubscriptions
                       THEN ToSet(q) \union {s} ELSE ToSet(q)
<1> DEFINE h == subscribe_to_channel(q, s)
<1> SUFFICES /\ Proper(S, h)
             /\ Len(h) <= MaxSubscriptions
             /\ ToSet(h) = IF Cardinality(ToSet(q)) < MaxSubscriptions
                           THEN ToSet(q) \union {s} ELSE ToSet(q)
  OBVIOUS
<1>1. is_subscribed(q, s) <=> s \in ToSet(q)
  BY DEF is_subscribed, ToSet
<1>2. Cardinality(ToSet(q)) = Len(q)
  BY MembersCounted
<1>3. CASE Len(q) < MaxSubscriptions /\ ~is_subscribed(q, s)
  <2>1. h = Append(q, s)
    BY <1>3 DEF subscribe_to_channel
  <2>2. /\ h \in Seq(S) /\ Len(h) = Len(q) + 1
        /\ \A i \in 1 .. Len(q) : h[i] = q[i]
        /\ h[Len(q) + 1] = s
    BY <2>1, AppendProperties DEF Proper
  <2>3. DOMAIN h = 1 .. Len(q) + 1
    BY <2>2, LenProperties
  <2>4. \A i \in 1 .. Len(q) : q[i] # s
    BY <1>1, <1>3, ProperFacts
  <2>5. Unrepeated(h)
    BY <2>2, <2>3, <2>4, ProperFacts DEF Unrepeated
  <2>6. ToSet(h) = ToSet(q) \union {s}
    <3>1. ToSet(h) = {h[i] : i \in 1 .. Len(q) + 1}
      BY <2>3 DEF ToSet
    <3>2. 1 .. Len(q) + 1 = 1 .. Len(q) \union {Len(q) + 1}
      BY ProperFacts
    <3> QED
      BY <3>1, <3>2, <2>2, ProperFacts
  <2>7. Len(h) <= MaxSubscriptions
    BY <2>2, <1>3, ProperFacts, SubscriptionsAssumption
  <2> HIDE DEF h
  <2> QED
    BY <1>2, <1>3, <2>2, <2>5, <2>6, <2>7 DEF Proper
<1>4. CASE ~(Len(q) < MaxSubscriptions /\ ~is_subscribed(q, s))
  <2>1. h = q
    BY <1>4 DEF subscribe_to_channel
  <2>2. Len(q) < MaxSubscriptions => ToSet(q) \union {s} = ToSet(q)
    BY <1>1, <1>4
  <2> HIDE DEF h
  <2> QED
    BY <1>2, <2>1, <2>2
<1> QED
  BY <1>3, <1>4

(***************************************************************************)
(* unsubscribe_from_channel takes the socket out, and the entry that it    *)
(* moves into the gap stays a member.                                      *)
(***************************************************************************)
LEMMA UnsubscribeEffect ==
  ASSUME NEW S, NEW q, Proper(S, q), Len(q) <= MaxSubscriptions, NEW s
  PROVE  LET h == unsubscribe_from_channel(q, s) IN
         /\ Proper(S, h)
         /\ Len(h) <= MaxSubscriptions
         /\ ToSet(h) = ToSet(q) \ {s}
<1> DEFINE h == unsubscribe_from_channel(q, s)
           I == {i \in 1 .. Len(q) : q[i] = s}
           k == IF I # {} THEN Min(I) ELSE 0
           n == Len(q)
<1> SUFFICES /\ Proper(S, h)
             /\ Len(h) <= MaxSubscriptions
             /\ ToSet(h) = ToSet(q) \ {s}
  OBVIOUS
<1>1. h = IF k = 0 THEN q ELSE SubSeq([q EXCEPT ![k] = q[n]], 1, n - 1)
  BY DEF unsubscribe_from_channel, SelectInSeq
<1>2. CASE I = {}
  <2>1. h = q
    BY <1>1, <1>2
  <2>2. s \notin ToSet(q)
    BY <1>2, ProperFacts
  <2> HIDE DEF h
  <2> QED
    BY <2>1, <2>2
<1>3. CASE I # {}
  <2>1. PICK i \in 1 .. n : q[i] = s
    BY <1>3
  <2>2. I = {i}
    BY <2>1, ProperFacts
  <2>3. Min({i}) = i
    BY <2>1 DEF Min
  <2>4. k = i /\ i # 0
    <3>1. i \in Nat /\ i # 0
      BY <2>1, ProperFacts
    <3> HIDE DEF I
    <3> QED
      BY <3>1, <2>2, <2>3
  <2> DEFINE p == [q EXCEPT ![i] = q[n]]
  <2>5. h = SubSeq(p, 1, n - 1)
    BY <1>1, <2>4
  <2>6. n \in Nat \ {0} /\ n \in 1 .. n
    BY <2>1, ProperFacts
  <2>7. /\ p \in Seq(S) /\ Len(p) = n
        /\ \A j \in 1 .. n : p[j] = IF j = i THEN q[n] ELSE q[j]
    <3>1. q \in Seq(S) /\ q[n] \in S
      BY <2>6, ProperFacts DEF Proper
    <3> QED
      BY <2>1, <3>1, ExceptSeq
  <2> HIDE DEF p
  <2>8. /\ h \in Seq(S) /\ Len(h) = n - 1
        /\ \A j \in 1 .. n - 1 : h[j] = IF j = i THEN q[n] ELSE q[j]
    <3>1. \A j \in 1 .. n - 1 : p[j] \in S
      BY <2>6, <2>7, ElementOfSeq
    <3>2. /\ SubSeq(p, 1, n - 1) \in Seq(S)
          /\ Len(SubSeq(p, 1, n - 1)) = IF 1 <= n - 1 THEN n - 1 - 1 + 1 ELSE 0
          /\ \A j \in 1 .. n - 1 - 1 + 1 : SubSeq(p, 1, n - 1)[j] = p[1 + j - 1]
      BY <3>1, <2>6, SubSeqProperties
    <3> HIDE DEF h
    <3> QED
      BY <3>2, <2>5, <2>6, <2>7
  <2> HIDE DEF h, k, I
  <2>9. DOMAIN h = 1 .. n - 1
    BY <2>8, LenProperties
  <2>10. Unrepeated(h)
    BY <2>1, <2>6, <2>8, <2>9, ProperFacts DEF Unrepeated
  <2>11. ToSet(h) = ToSet(q) \ {s}
    <3>1. ToSet(h) = {h[j] : j \in 1 .. n - 1}
      BY <2>9 DEF ToSet
    <3>2. \A j \in 1 .. n - 1 : h[j] \in ToSet(q) \ {s}
      BY <2>1, <2>6, <2>8, ProperFacts
    <3>3. ASSUME NEW j \in 1 .. n, q[j] # s
          PROVE  q[j] \in {h[m] : m \in 1 .. n - 1}
      <4>1. CASE j = n
        <5>1. i \in 1 .. n - 1 /\ h[i] = q[n]
          BY <3>3, <4>1, <2>1, <2>6, <2>8
        <5> QED
          BY <5>1, <4>1
      <4>2. CASE j # n
        <5>1. j \in 1 .. n - 1 /\ h[j] = q[j]
          BY <3>3, <4>2, <2>1, <2>6, <2>8
        <5> QED
          BY <5>1
      <4> QED
        BY <4>1, <4>2
    <3> QED
      BY <3>1, <3>2, <3>3, ProperFacts
  <2> QED
    BY <2>6, <2>8, <2>10, <2>11, SubscriptionsAssumption DEF Proper
<1> QED
  BY <1>2, <1>3

(***************************************************************************)
(* forward_message sends to members, each once, and leaves out one at most.*)
(***************************************************************************)
LEMMA ForwardEffect ==
  ASSUME NEW S, NEW q, Proper(S, q)
  PROVE  LET t == forward_targets(q) IN
         /\ Proper(S, t)
         /\ ToSet(t) \in SUBSET ToSet(q)
         /\ Cardinality(ToSet(q) \ ToSet(t)) <= 1
<1> DEFINE t == forward_targets(q)
           n == Len(q)
<1> SUFFICES /\ Proper(S, t)
             /\ ToSet(t) \in SUBSET ToSet(q)
             /\ Cardinality(ToSet(q) \ ToSet(t)) <= 1
  OBVIOUS
<1>1. n \in Nat /\ \A i \in 2 .. n : q[i] \in S
  BY ProperFacts
<1>2. /\ SubSeq(q, 2, n) \in Seq(S)
      /\ Len(SubSeq(q, 2, n)) = IF 2 <= n THEN n - 2 + 1 ELSE 0
      /\ \A i \in 1 .. n - 2 + 1 : SubSeq(q, 2, n)[i] = q[2 + i - 1]
  BY <1>1, SubSeqProperties
<1>3. t = SubSeq(q, 2, n)
  BY DEF forward_targets
<1> HIDE DEF t
<1>4. /\ t \in Seq(S)
      /\ Len(t) = IF n = 0 THEN 0 ELSE n - 1
      /\ \A i \in 1 .. n - 1 : t[i] = q[i + 1]
  BY <1>1, <1>2, <1>3
<1>5. DOMAIN t = 1 .. n - 1
  BY <1>1, <1>4, LenProperties
<1>6. Proper(S, t)
  BY <1>1, <1>4, <1>5, ProperFacts DEF Proper, Unrepeated
<1>7. ToSet(t) = {t[i] : i \in 1 .. n - 1}
  BY <1>5 DEF ToSet
<1>8. ToSet(t) \subseteq ToSet(q)
  BY <1>1, <1>4, <1>7, ProperFacts
<1>9. ToSet(q) \ ToSet(t) \subseteq {q[1]}
  <2>1. ASSUME NEW i \in 2 .. n
        PROVE  q[i] \in ToSet(t)
    <3>1. i - 1 \in 1 .. n - 1 /\ t[i - 1] = q[i]
      BY <1>1, <1>4
    <3> QED
      BY <3>1, <1>7
  <2> QED
    BY <2>1, <1>1, ProperFacts
<1>10. Cardinality(ToSet(q) \ ToSet(t)) <= 1
  <2>1. IsFiniteSet({q[1]}) /\ Cardinality({q[1]}) = 1
    BY FS_Singleton
  <2>2. Cardinality(ToSet(q) \ ToSet(t)) <= Cardinality({q[1]})
    BY <2>1, <1>9, FS_Subset
  <2> QED
    BY <2>1, <2>2
<1> QED
  BY <1>6, <1>8, <1>10
=============================================================================
