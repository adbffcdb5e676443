------------------------ MODULE WerewolfServerProofs ------------------------
(***************************************************************************)
(* Proofs about WerewolfServer, for every number of players, every table   *)
(* of configurations that fits it, every set of lines and every bound.     *)
(***************************************************************************)
EXTENDS WerewolfServer, GameManagerProofs, MessengerProofs, WellFoundedInduction

-----------------------------------------------------------------------------
(* Induction.  The library's induction theorems have an operator as a      *)
(* parameter; stated of a set, induction follows from the well-foundedness *)
(* of the natural numbers.                                                 *)

\* A set of numbers that is not empty has a least one.
LEMMA LeastElement ==
  ASSUME NEW T, T \subseteq Nat, T # {}
  PROVE  \E x \in T : \A y \in T : x <= y
<1> DEFINE B == OpToRel(<, Nat)
<1>1. PICK x \in T : \A y \in T : ~(<<y, x>> \in B)
  <2>1. IsWellFoundedOn(B, Nat)
    BY NatLessThanWellFounded, Zenon
  <2> HIDE DEF B
  <2> QED
    BY <2>1, WFMin
<1>2. \A y \in T : ~(y < x)
  BY <1>1 DEF OpToRel
<1> QED
  BY <1>2

\* Min returns it.
LEMMA MinIsLeast ==
  ASSUME NEW T, T \subseteq Nat, T # {}
  PROVE  Min(T) \in T /\ \A y \in T : Min(T) <= y
BY LeastElement DEF Min

\* Induction over the numbers, with a set in place of a predicate.
LEMMA NatInduct ==
  ASSUME NEW T, 0 \in T, \A n \in Nat : n \in T => n + 1 \in T
  PROVE  Nat \subseteq T
<1> SUFFICES ASSUME Nat \ T # {} PROVE FALSE
  OBVIOUS
<1>1. PICK x \in Nat \ T : \A y \in Nat \ T : x <= y
  <2>1. Nat \ T \subseteq Nat
    OBVIOUS
  <2> QED
    BY <2>1, LeastElement
<1>2. x - 1 \in Nat
  BY 0 \in T
<1> QED
  BY <1>1, <1>2

(***************************************************************************)
(* What a step of a recursion keeps, all of its values have.               *)
(***************************************************************************)
LEMMA KeptByRecursion ==
  ASSUME NEW N \in Nat, NEW D, NEW f, f[0] \in D,
         \A i \in 1 .. N : f[i - 1] \in D => f[i] \in D
  PROVE  \A i \in 0 .. N : f[i] \in D
<1> DEFINE T == {n \in Nat : n <= N => f[n] \in D}
<1>1. 0 \in T
  OBVIOUS
<1>2. ASSUME NEW n \in Nat, n \in T PROVE n + 1 \in T
  <2> SUFFICES ASSUME n + 1 <= N PROVE f[n + 1] \in D
    OBVIOUS
  <2>1. n + 1 \in 1 .. N /\ (n + 1) - 1 = n /\ n <= N
    OBVIOUS
  <2> QED
    BY <1>2, <2>1
<1> HIDE DEF T
<1>3. Nat \subseteq T
  BY <1>1, <1>2, NatInduct
<1> QED
  BY <1>3 DEF T

\* f takes a, the value for no places, through the steps of N places.
Recursion(f, N, D, a, step) ==
  /\ f \in [0 .. N -> D]
  /\ f[0] = a /\ \A i \in 1 .. N : f[i] = step[i][f[i - 1]]

(***************************************************************************)
(* A recursion over the places of a sequence has a solution, so that the   *)
(* function a definition chooses is one.                                   *)
(***************************************************************************)
LEMMA RecursionExists ==
  ASSUME NEW D, NEW a \in D, NEW step \in [Nat -> [D -> D]], NEW N \in Nat
  PROVE  \E f : Recursion(f, N, D, a, step)
<1> DEFINE Runs(f, n) == f[0] = a /\ \A i \in 1 .. n : f[i] = step[i][f[i - 1]]
           T == {n \in Nat : \E f \in [0 .. n -> D] : Runs(f, n)}
<1>1. 0 \in T
  <2>1. [i \in 0 .. 0 |-> a] \in [0 .. 0 -> D] /\ Runs([i \in 0 .. 0 |-> a], 0)
    OBVIOUS
  <2> QED
    BY <2>1
<1>2. ASSUME NEW n \in Nat, n \in T PROVE n + 1 \in T
  <2>1. PICK f \in [0 .. n -> D] : Runs(f, n)
    BY <1>2
  <2> DEFINE g == [i \in 0 .. n + 1 |-> IF i = n + 1 THEN step[n + 1][f[n]] ELSE f[i]]
  <2>2. f[n] \in D /\ step[n + 1] \in [D -> D]
    OBVIOUS
  <2>3. g \in [0 .. n + 1 -> D]
    <3>1. step[n + 1][f[n]] \in D
      BY <2>2
    <3>2. \A i \in 0 .. n + 1 : i # n + 1 => f[i] \in D
      OBVIOUS
    <3> QED
      BY <3>1, <3>2
  <2>4. /\ g[n + 1] = step[n + 1][f[n]]
        /\ \A i \in 0 .. n : g[i] = f[i]
    OBVIOUS
  <2> HIDE DEF g
  <2>5. ASSUME NEW i \in 1 .. n + 1 PROVE g[i] = step[i][g[i - 1]]
    <3>1. CASE i = n + 1
      <4>1. g[i - 1] = f[n]
        BY <2>4, <3>1
      <4> QED
        BY <2>4, <3>1, <4>1
    <3>2. CASE i \in 1 .. n
      <4>1. i \in 0 .. n /\ i - 1 \in 0 .. n
        BY <3>2
      <4> QED
        BY <2>1, <2>4, <3>2, <4>1
    <3> QED
      BY <3>1, <3>2
  <2>6. g[0] = a
    BY <2>1, <2>4
  <2> QED
    BY <2>3, <2>5, <2>6
<1> HIDE DEF T
<1>3. N \in T
  BY <1>1, <1>2, NatInduct
<1> QED
  BY <1>3 DEF T, Recursion

(***************************************************************************)
(* FlattenSeq puts the sequences together one after the other.             *)
(***************************************************************************)
Flattening(h, seqs, T) ==
  /\ h[0] = <<>>
  /\ \A i \in 1 .. Len(seqs) : h[i - 1] \in Seq(T) /\ h[i] = h[i - 1] \o seqs[i]

\* FlattenSeq joins the sequences one after the other.
LEMMA FlattenSteps ==
  ASSUME NEW T, NEW seqs \in Seq(Seq(T))
  PROVE  \E h : Flattening(h, seqs, T) /\ FlattenSeq(seqs) = h[Len(seqs)]
<1> DEFINE N == Len(seqs)
           Flattens(f) == f = [i \in 1 .. N |-> IF i = 1 THEN seqs[i]
                                                ELSE f[i - 1] \o seqs[i]]
           flatten == CHOOSE f : Flattens(f)
           D == Seq(T)
           step == [i \in Nat |-> [q \in D |-> IF i \in 1 .. N THEN q \o seqs[i] ELSE q]]
<1>1. N \in Nat /\ \A i \in 1 .. N : seqs[i] \in Seq(T)
  BY LenProperties, ElementOfSeq
<1>2. CASE N = 0
  <2>1. seqs = <<>>
    BY <1>2, EmptySeq
  <2>2. FlattenSeq(seqs) = <<>>
    BY <1>2, <2>1 DEF FlattenSeq
  <2> DEFINE h == [i \in 0 .. 0 |-> <<>>]
  <2>3. h[0] = <<>>
    OBVIOUS
  <2>4. Flattening(h, seqs, T)
    <3> HIDE DEF h
    <3> QED
      BY <1>2, <2>3 DEF Flattening
  <2>5. FlattenSeq(seqs) = h[Len(seqs)]
    BY <1>2, <2>2, <2>3
  <2> QED
    BY <2>4, <2>5
<1>3. CASE N # 0
  <2>1. <<>> \in D /\ \A q \in D, i \in 1 .. N : q \o seqs[i] \in D
    BY <1>1, ConcatProperties
  <2> HIDE DEF D, N
  <2>2. step \in [Nat -> [D -> D]]
    BY <2>1
  <2>3. PICK g : Recursion(g, N, D, <<>>, step)
    <3> HIDE DEF step
    <3> QED
      BY <1>1, <2>1, <2>2, RecursionExists
  <2> DEFINE f == [i \in 1 .. N |-> g[i]]
  <2>4. ASSUME NEW i \in 1 .. N PROVE g[i - 1] \in D /\ g[i] = g[i - 1] \o seqs[i]
    <3>1. i \in Nat /\ g[i - 1] \in D
      BY <1>1, <2>3 DEF Recursion
    <3> QED
      BY <2>3, <3>1 DEF Recursion
  <2>5. ASSUME NEW i \in 1 .. N
        PROVE  f[i] = IF i = 1 THEN seqs[i] ELSE f[i - 1] \o seqs[i]
    <3>1. CASE i = 1
      <4>1. g[0] = <<>> /\ seqs[1] \in Seq(T)
        BY <1>1, <2>3, <3>1 DEF Recursion
      <4>2. <<>> \o seqs[1] = seqs[1]
        BY <4>1, ConcatEmptySeq
      <4>3. g[1] = g[0] \o seqs[1]
        <5>1. 1 \in 1 .. N /\ 1 - 1 = 0
          BY <3>1
        <5> QED
          BY <2>4, <5>1
      <4> QED
        BY <3>1, <4>1, <4>2, <4>3
    <3>2. CASE i # 1
      <4>1. i - 1 \in 1 .. N
        BY <1>1, <3>2
      <4> QED
        BY <2>4, <3>2, <4>1
    <3> QED
      BY <3>1, <3>2
  <2>6. Flattens(f)
    BY <2>5
  <2>7. Flattens(flatten)
    <3> HIDE DEF Flattens, f
    <3> QED
      BY <2>6
  <2> HIDE DEF flatten
  <2>8. /\ flatten[1] \in D
        /\ \A i \in 2 .. N : flatten[i - 1] \in D => flatten[i] \in D
    <3>1. \A i \in 1 .. N : flatten[i] = IF i = 1 THEN seqs[i]
                                           ELSE flatten[i - 1] \o seqs[i]
      BY <2>7, Zenon
    <3>2. 1 \in 1 .. N /\ \A i \in 2 .. N : i \in 1 .. N /\ i # 1
      BY <1>1, <1>3
    <3>3. flatten[1] = seqs[1]
      BY <3>1, <3>2, Zenon
    <3>4. \A i \in 2 .. N : flatten[i] = flatten[i - 1] \o seqs[i]
      BY <3>1, <3>2, Zenon
    <3> QED
      BY <1>1, <2>1, <3>2, <3>3, <3>4 DEF D
  <2> DEFINE h == [i \in 0 .. N |-> IF i = 0 THEN <<>> ELSE flatten[i]]
  <2>9. \A i \in 0 .. N : h[i] \in D
    <3>1. h[0] = <<>>
      BY <1>1
    <3>2. ASSUME NEW i \in 1 .. N, h[i - 1] \in D PROVE h[i] \in D
      <4>1. h[i] = flatten[i]
        BY <1>1
      <4>2. CASE i = 1
        BY <2>8, <4>1, <4>2
      <4>3. CASE i # 1
        <5>1. i \in 2 .. N /\ h[i - 1] = flatten[i - 1]
          BY <1>1, <4>3
        <5> QED
          BY <2>8, <3>2, <4>1, <5>1
      <4> QED
        BY <4>2, <4>3
    <3> HIDE DEF h
    <3> QED
      BY <1>1, <2>1, <3>1, <3>2, KeptByRecursion
  <2>10. \A i \in 1 .. N : h[i] = h[i - 1] \o seqs[i]
    <3>1. \A i \in 1 .. N : flatten[i] = IF i = 1 THEN seqs[i]
                                           ELSE flatten[i - 1] \o seqs[i]
      BY <2>7, Zenon
    <3>2. /\ h[0] = <<>>
          /\ \A i \in 1 .. N : h[i] = flatten[i]
      BY <1>1
    <3> HIDE DEF h
    <3>3. ASSUME NEW i \in 1 .. N PROVE h[i] = h[i - 1] \o seqs[i]
      <4>1. CASE i = 1
        <5>1. h[i - 1] = <<>> /\ seqs[i] \in Seq(T)
          BY <1>1, <3>2, <4>1
        <5>2. h[i] = seqs[i]
          BY <3>1, <3>2, <4>1
        <5>3. <<>> \o seqs[i] = seqs[i]
          BY <5>1, ConcatEmptySeq
        <5> QED
          BY <5>1, <5>2, <5>3
      <4>2. CASE i # 1
        <5>1. i - 1 \in 1 .. N
          BY <1>1, <4>2
        <5>2. h[i - 1] = flatten[i - 1]
          BY <3>2, <5>1
        <5>3. h[i] = flatten[i]
          BY <3>2
        <5>4. flatten[i] = flatten[i - 1] \o seqs[i]
          BY <3>1, <4>2
        <5> QED
          BY <5>2, <5>3, <5>4
      <4> QED
        BY <4>1, <4>2
    <3> QED
      BY <3>3
  <2>11. FlattenSeq(seqs) = flatten[N]
    BY <1>3 DEF FlattenSeq, flatten, N
  <2>12. FlattenSeq(seqs) = h[N] /\ h[0] = <<>>
    BY <1>1, <1>3, <2>11
  <2>13. \A i \in 1 .. N : i - 1 \in 0 .. N
    BY <1>1
  <2> HIDE DEF h
  <2>14. Flattening(h, seqs, T)
    BY <2>9, <2>10, <2>12, <2>13 DEF Flattening, D, N
  <2> QED
    BY <2>12, <2>14 DEF N
<1> QED
  BY <1>2, <1>3

\* FlattenSeq of sequences over T is a sequence over T.
LEMMA FlattenType ==
  ASSUME NEW T, NEW seqs \in Seq(Seq(T))
  PROVE  FlattenSeq(seqs) \in Seq(T)
<1>1. Len(seqs) \in Nat /\ \A i \in 1 .. Len(seqs) : seqs[i] \in Seq(T)
  BY LenProperties, ElementOfSeq
<1>2. PICK h : Flattening(h, seqs, T) /\ FlattenSeq(seqs) = h[Len(seqs)]
  BY FlattenSteps
<1>3. h[0] \in Seq(T)
  BY <1>2 DEF Flattening
<1>4. \A i \in 1 .. Len(seqs) : h[i - 1] \in Seq(T) => h[i] \in Seq(T)
  BY <1>1, <1>2, ConcatProperties DEF Flattening
<1>5. h[Len(seqs)] \in Seq(T)
  <2> DEFINE D == Seq(T)
             N == Len(seqs)
  <2>1. N \in Nat /\ h[0] \in D /\ \A i \in 1 .. N : h[i - 1] \in D => h[i] \in D
    BY <1>1, <1>3, <1>4
  <2> HIDE DEF D, N
  <2>2. \A i \in 0 .. N : h[i] \in D
    BY <2>1, KeptByRecursion
  <2>3. h[N] \in D
    BY <2>1, <2>2
  <2> QED
    BY <2>3 DEF D, N
<1> QED
  BY <1>2, <1>5

-----------------------------------------------------------------------------
(* The kernel under the sends of one handler.                              *)

KernelType(T) == [link : [Fd -> LinkStates], out : Seq(T), alive : BOOLEAN]

\* What sends can do to the connections: a reset is reported, a connection
\* that its peer has closed is written to.
Wears(from, to) ==
  to = from \/ (from = "rst" /\ to = "dead") \/ (from = "fin" /\ to = "shut")

Worn(a, b) == \A fd \in Fd : Wears(a[fd], b[fd])

(***************************************************************************)
(* One send adds its message or marks a reset as reported.                 *)
(***************************************************************************)
LEMMA SendToEffect ==
  ASSUME NEW T, NEW k \in KernelType(T), NEW m \in T, m.to \in Fd
  PROVE  /\ SendTo(k, m) \in KernelType(T)
         /\ Worn(k.link, SendTo(k, m).link)
<1> DEFINE h == SendTo(k, m)
           met == IF k.link[m.to] = "fin" THEN "shut" ELSE k.link[m.to]
           state == IF k.alive /\ k.link[m.to] = "rst" THEN "dead" ELSE k.link[m.to]
           ok == k.alive /\ k.link[m.to] \notin {"pipe", "dead"}
<1>1. /\ k = [link |-> k.link, out |-> k.out, alive |-> k.alive]
      /\ k.link \in [Fd -> LinkStates] /\ k.out \in Seq(T) /\ k.alive \in BOOLEAN
  BY DEF KernelType
<1>2. CASE Sends(k, m.to)
  <2> DEFINE l == [k.link EXCEPT ![m.to] = met]
  <2>1. h = [k EXCEPT !.out = Append(k.out, m), !.link[m.to] = met]
    BY <1>2 DEF SendTo
  <2>2. /\ l \in [Fd -> LinkStates]
        /\ \A fd \in Fd : l[fd] = IF fd = m.to THEN met ELSE k.link[fd]
    BY <1>1 DEF LinkStates
  <2>3. Append(k.out, m) \in Seq(T)
    BY <1>1, AppendProperties
  <2>4. h = [link |-> l, out |-> Append(k.out, m), alive |-> k.alive]
    <3> HIDE DEF h, met
    <3> QED
      BY <1>1, <2>1
  <2> HIDE DEF h, l
  <2>5. h \in KernelType(T) /\ h.link = l
    BY <1>1, <2>2, <2>3, <2>4 DEF KernelType
  <2>6. Worn(k.link, h.link)
    BY <2>2, <2>5 DEF Worn, Wears
  <2> QED
    BY <2>5, <2>6 DEF h
<1>3. CASE ~Sends(k, m.to)
  <2> DEFINE l == [k.link EXCEPT ![m.to] = state]
  <2>1. h = [k EXCEPT !.link[m.to] = state, !.alive = ok]
    BY <1>3 DEF SendTo
  <2>2. /\ l \in [Fd -> LinkStates]
        /\ \A fd \in Fd : l[fd] = IF fd = m.to THEN state ELSE k.link[fd]
    BY <1>1 DEF LinkStates
  <2>3. ok \in BOOLEAN
    BY <1>1
  <2>4. h = [link |-> l, out |-> k.out, alive |-> ok]
    <3> HIDE DEF h, ok, state
    <3> QED
      BY <1>1, <2>1
  <2> HIDE DEF h, l, ok
  <2>5. h \in KernelType(T) /\ h.link = l /\ h.alive = ok
    BY <1>1, <2>2, <2>3, <2>4 DEF KernelType
  <2>6. Worn(k.link, h.link)
    BY <2>2, <2>5 DEF Worn, Wears
  <2> QED
    BY <2>5, <2>6 DEF h
<1> QED
  BY <1>2, <1>3

(***************************************************************************)
(* A handler's sends, one after the other.                                 *)
(***************************************************************************)
Sending(sent, k, messages, T) ==
  /\ sent[0] = k
  /\ \A i \in 1 .. Len(messages) : sent[i] = SendTo(sent[i - 1], messages[i])
  /\ \A i \in 0 .. Len(messages) : sent[i] \in KernelType(T)

\* SendAll is one SendTo after the other.
LEMMA SendAllSteps ==
  ASSUME NEW T, NEW k \in KernelType(T), NEW messages \in Seq(T),
         \A m \in T : m.to \in Fd
  PROVE  \E sent : Sending(sent, k, messages, T) /\ SendAll(k, messages) = sent[Len(messages)]
<1> DEFINE N == Len(messages)
           D == KernelType(T)
           step == [i \in Nat |-> [h \in D |-> IF i \in 1 .. N THEN SendTo(h, messages[i])
                                                ELSE h]]
           Runs(f) == f = [i \in 0 .. N |-> IF i = 0 THEN k
                                            ELSE SendTo(f[i - 1], messages[i])]
           sent == CHOOSE f : Runs(f)
<1>1. N \in Nat /\ \A i \in 1 .. N : messages[i] \in T
  BY LenProperties, ElementOfSeq
<1>2. k \in D
  OBVIOUS
<1>3. ASSUME NEW h \in D, NEW i \in 1 .. N PROVE SendTo(h, messages[i]) \in D
  BY <1>1, SendToEffect
<1> HIDE DEF D, Runs, N
<1>4. step \in [Nat -> [D -> D]]
  BY <1>3
<1>5. PICK f : Recursion(f, N, D, k, step)
  <2> HIDE DEF step
  <2> QED
    BY <1>1, <1>2, <1>4, RecursionExists
<1>6. Runs(f)
  <2>1. ASSUME NEW i \in 1 .. N PROVE f[i] = SendTo(f[i - 1], messages[i])
    <3>1. i \in Nat /\ f[i - 1] \in D
      BY <1>1, <1>5 DEF Recursion
    <3> QED
      BY <1>5, <3>1 DEF Recursion
  <2> HIDE DEF step
  <2>2. \A i \in 0 .. N : f[i] = IF i = 0 THEN k ELSE SendTo(f[i - 1], messages[i])
    BY <1>1, <1>5, <2>1 DEF Recursion
  <2> QED
    BY <1>5, <2>2 DEF Runs, Recursion
<1>7. Runs(sent)
  BY <1>6
<1> HIDE DEF step, sent
<1>8. /\ sent[0] = k
      /\ \A i \in 1 .. N : sent[i] = SendTo(sent[i - 1], messages[i])
  BY <1>1, <1>7 DEF Runs
<1>9. \A i \in 0 .. N : sent[i] \in D
  BY <1>1, <1>2, <1>3, <1>8, KeptByRecursion
<1>10. SendAll(k, messages) = sent[N]
  BY DEF SendAll, sent, Runs, N
<1>11. Sending(sent, k, messages, T)
  BY <1>8, <1>9 DEF Sending, D, N
<1> QED
  BY <1>10, <1>11 DEF N

\* What the sends of a handler leave of the kernel, by induction on their number.
LEMMA SendAllEffect ==
  ASSUME NEW T, NEW k \in KernelType(T), NEW messages \in Seq(T),
         \A m \in T : m.to \in Fd
  PROVE  /\ SendAll(k, messages) \in KernelType(T)
         /\ Worn(k.link, SendAll(k, messages).link)
<1> DEFINE N == Len(messages)
           Fine(h) == Worn(k.link, h.link)
           D == {h \in KernelType(T) : Fine(h)}
<1>1. N \in Nat /\ \A i \in 1 .. N : messages[i] \in T
  BY LenProperties, ElementOfSeq
<1>2. k \in D
  BY DEF Worn, Wears
<1>3. ASSUME NEW h \in D, NEW i \in 1 .. N PROVE SendTo(h, messages[i]) \in D
  <2> DEFINE m == messages[i]
             b == SendTo(h, m)
  <2>1. m \in T /\ m.to \in Fd /\ h \in KernelType(T)
    BY <1>1
  <2> HIDE DEF m
  <2>2. /\ b \in KernelType(T)
        /\ Worn(h.link, b.link)
    BY <2>1, SendToEffect
  <2>3. Fine(h)
    OBVIOUS
  <2> HIDE DEF b
  <2>4. Fine(b)
    BY <2>2, <2>3 DEF Worn, Wears
  <2> QED
    BY <2>2, <2>4 DEF b, m
<1>4. PICK sent : Sending(sent, k, messages, T) /\ SendAll(k, messages) = sent[N]
  BY SendAllSteps
<1> HIDE DEF D, N
<1>5. /\ sent[0] = k
      /\ \A i \in 1 .. N : sent[i] = SendTo(sent[i - 1], messages[i])
  BY <1>4 DEF Sending, N
<1>6. \A i \in 0 .. N : sent[i] \in D
  BY <1>1, <1>2, <1>3, <1>5, KeptByRecursion
<1>7. sent[N] \in D
  BY <1>1, <1>6
<1> QED
  BY <1>4, <1>7 DEF D

-----------------------------------------------------------------------------
(***************************************************************************)
(* The inductive invariant.  The registers agree only together with the    *)
(* game manager's own order (Good); that the open descriptors are always   *)
(* the low ones is why a channel has room for a newcomer; and a descriptor *)
(* that select returned, or that the walk has still to visit, is one whose *)
(* read returns at once.                                                   *)
(***************************************************************************)
LowFds == FirstFd .. FirstFd + MaxPlayers - 1

Registered ==
  /\ Good(Fd, gm)
  /\ clients = game_manager_get_players_sockets(gm)
  /\ ToSet(clients) = OpenFds
  /\ OpenFds \subseteq LowFds

Walking ==
  /\ Unrepeated(current) /\ ToSet(current) \subseteq OpenFds
  /\ pc = "accept" => /\ \A fd \in read_fds \ {Listener} : link[fd] # "none" /\ Readable(fd)
                      /\ Listener \in read_fds => pending > 0
  /\ pc = "walk" => \A fd \in ToSet(current) \cap read_fds : Readable(fd)
  /\ pending <= arrived

Subscribed ==
  /\ \A c \in ChannelNames : Proper(LowFds, channels[c])
  /\ \A c \in CommonChannels : OpenFds \subseteq ToSet(channels[c])
  /\ InLobby => ToSet(channels["werewolf"]) = {}
  /\ \A fd \in OpenFds :
       fd \in ToSet(channels["werewolf"]) <=> game_manager_is_player_werewolf(gm, fd)

IInv == TypeOK /\ Registered /\ Walking /\ Subscribed

(***************************************************************************)
(* The client list is the players' sockets, each once: as many as there    *)
(* are players.                                                            *)
(***************************************************************************)
LEMMA ClientsCounted ==
  ASSUME Registered
  PROVE  /\ Proper(Fd, clients)
         /\ Len(clients) = Len(gm.players)
         /\ Len(clients) = gm.player_count
         /\ IsFiniteSet(OpenFds) /\ Cardinality(OpenFds) = gm.player_count
<1>1. gm \in ManagerType(Fd) /\ Distinct(gm) /\ gm.player_count = Len(gm.players)
  BY DEF Registered, Good, Counted
<1>2. /\ clients \in Seq(Fd) /\ Len(clients) = Len(gm.players)
      /\ \A i, j \in DOMAIN clients : clients[i] = clients[j] => i = j
  BY <1>1, SocketsListed DEF Registered
<1>3. Proper(Fd, clients)
  BY <1>2 DEF Proper, Unrepeated
<1>4. IsFiniteSet(ToSet(clients)) /\ Cardinality(ToSet(clients)) = Len(clients)
  BY <1>3, MembersCounted
<1> QED
  BY <1>1, <1>2, <1>3, <1>4 DEF Registered

(***************************************************************************)
(* accept finds a free descriptor: a low one while there is a free seat.   *)
(***************************************************************************)
LEMMA NewFdIsFree ==
  ASSUME Registered
  PROVE  /\ NewFd \in Fd /\ link[NewFd] = "none" /\ NewFd \notin OpenFds
         /\ gm.player_count < MaxPlayers => NewFd \in LowFds
<1> DEFINE Free == {fd \in Fd : link[fd] = "none"}
<1>1. MaxPlayers \in Nat \ {0} /\ FirstFd = 3
  BY PlayersAssumption DEF FirstFd
<1>2. OpenFds \subseteq LowFds
  BY DEF Registered
<1>3. FirstFd + MaxPlayers \in Free
  BY <1>1, <1>2 DEF OpenFds, LowFds, Fd
<1>4. Free \subseteq Nat
  BY <1>1 DEF Fd
<1>5. NewFd \in Free /\ \A y \in Free : NewFd <= y
  <2> HIDE DEF Free
  <2>1. Min(Free) \in Free /\ \A y \in Free : Min(Free) <= y
    BY <1>3, <1>4, MinIsLeast
  <2> QED
    BY <2>1 DEF NewFd, Free
<1>6. ASSUME gm.player_count < MaxPlayers PROVE NewFd \in LowFds
  <2>1. IsFiniteSet(LowFds) /\ Cardinality(LowFds) = MaxPlayers
    <3>1. FirstFd \in Int /\ FirstFd + MaxPlayers - 1 \in Int /\ FirstFd <= FirstFd + MaxPlayers - 1
      BY <1>1
    <3> QED
      BY <3>1, <1>1, FS_Interval DEF LowFds
  <2>2. OpenFds # LowFds
    BY <1>1, <1>6, <2>1, ClientsCounted
  <2>3. PICK fd \in LowFds : fd \notin OpenFds
    BY <1>2, <2>2
  <2>4. fd \in Free
    BY <1>1, <2>3 DEF LowFds, OpenFds, Fd
  <2> QED
    BY <1>1, <1>4, <1>5, <2>3, <2>4 DEF LowFds, Fd
<1> QED
  BY <1>5, <1>6 DEF OpenFds

(***************************************************************************)
(* A client that is closed leaves the three registers together.            *)
(***************************************************************************)
LEMMA ClientRemoved ==
  ASSUME Registered, link \in [Fd -> LinkStates], NEW fd \in OpenFds,
         gm' = game_manager_remove_player(gm, fd),
         clients' = remove_client_fd(clients, fd),
         link' = [link EXCEPT ![fd] = "none"]
  PROVE  /\ find_player_by_socket(gm, fd) # 0
         /\ Registered'
         /\ OpenFds' = OpenFds \ {fd}
         /\ link' \in [Fd -> LinkStates]
         /\ gm'.state = gm.state
         /\ \A t \in OpenFds' : game_manager_is_player_werewolf(gm', t)
                                <=> game_manager_is_player_werewolf(gm, t)
<1> DEFINE n == Len(gm.players)
<1>1. gm \in ManagerType(Fd) /\ Distinct(gm) /\ Good(Fd, gm)
  BY DEF Registered, Good
<1>2. /\ Len(clients) = n /\ n \in Nat
      /\ \A i \in 1 .. n : clients[i] = gm.players[i].socket_id
      /\ ToSet(clients) = {gm.players[i].socket_id : i \in 1 .. n}
  BY <1>1, SocketsListed, ManagerFields DEF Registered
<1>3. PICK i \in 1 .. n : gm.players[i].socket_id = fd
  BY <1>2 DEF Registered
<1>4. find_player_by_socket(gm, fd) # 0
  BY <1>1, <1>2, <1>3, RoleHeld
<1>5. remove_client_fd(clients, fd) = RemoveAt(clients, find_player_by_socket(gm, fd))
  <2> DEFINE I == {j \in 1 .. n : gm.players[j].socket_id = fd}
             J == {j \in 1 .. Len(clients) : clients[j] = fd}
  <2>1. find_player_by_socket(gm, fd) = IF I # {} THEN Min(I) ELSE 0
    BY DEF find_player_by_socket, SelectInSeq
  <2>2. I = J /\ \E j \in 1 .. Len(clients) : clients[j] = fd
    BY <1>2, <1>3
  <2>3. SelectInSeq(clients, LAMBDA v : v = fd) = IF J # {} THEN Min(J) ELSE 0
    BY DEF SelectInSeq
  <2> HIDE DEF I, J
  <2> QED
    BY <2>1, <2>2, <2>3 DEF remove_client_fd, RemoveFirst
<1>6. /\ clients' = game_manager_get_players_sockets(gm')
      /\ ToSet(clients') = ToSet(clients) \ {fd}
      /\ \A t \in ToSet(clients') : game_manager_get_player_role(gm', t)
                                    = game_manager_get_player_role(gm, t)
      /\ gm'.state = gm.state
  BY <1>1, <1>4, <1>5, SocketsRemoved DEF Registered
<1>7. Good(Fd, gm')
  BY <1>1, <1>4, SeatLeft
<1>8. link' \in [Fd -> LinkStates] /\ OpenFds' = OpenFds \ {fd}
  BY DEF OpenFds, LinkStates
<1>9. Registered'
  BY <1>6, <1>7, <1>8 DEF Registered
<1> QED
  BY <1>4, <1>6, <1>8, <1>9 DEF game_manager_is_player_werewolf, Registered

-----------------------------------------------------------------------------
(* The channels: a channel of low descriptors has room for all of them.    *)

\* There are as many low descriptors as seats.
LEMMA LowFdsCounted ==
  IsFiniteSet(LowFds) /\ Cardinality(LowFds) = MaxPlayers /\ LowFds \subseteq Fd
<1>1. MaxPlayers \in Nat \ {0} /\ FirstFd = 3
  BY PlayersAssumption DEF FirstFd
<1>2. /\ FirstFd \in Int /\ FirstFd + MaxPlayers - 1 \in Int
      /\ FirstFd <= FirstFd + MaxPlayers - 1
  BY <1>1
<1> QED
  BY <1>1, <1>2, FS_Interval DEF LowFds, Fd

\* A channel of low descriptors never runs over its array.
LEMMA ChannelHasRoom ==
  ASSUME NEW q, Proper(LowFds, q)
  PROVE  Len(q) <= MaxPlayers /\ Len(q) <= MaxSubscriptions
<1>1. IsFiniteSet(ToSet(q)) /\ Cardinality(ToSet(q)) = Len(q)
  BY MembersCounted
<1>2. ToSet(q) \subseteq LowFds
  BY ProperFacts
<1>3. Cardinality(ToSet(q)) <= Cardinality(LowFds)
  BY <1>2, LowFdsCounted, FS_Subset
<1>4. Len(q) \in Nat
  BY ProperFacts
<1> QED
  BY <1>1, <1>3, <1>4, LowFdsCounted, BoundsAssumption, PlayersAssumption, SubscriptionsAssumption

(***************************************************************************)
(* A client with a seat is never refused by a full channel.                *)
(***************************************************************************)
LEMMA SubscribesLow ==
  ASSUME NEW q, Proper(LowFds, q), NEW s \in LowFds
  PROVE  /\ Proper(LowFds, subscribe_to_channel(q, s))
         /\ ToSet(subscribe_to_channel(q, s)) = ToSet(q) \union {s}
<1> DEFINE h == subscribe_to_channel(q, s)
<1>1. Len(q) <= MaxSubscriptions
  BY ChannelHasRoom
<1>2. /\ Proper(LowFds, h)
      /\ ToSet(h) = IF Cardinality(ToSet(q)) < MaxSubscriptions
                    THEN ToSet(q) \union {s} ELSE ToSet(q)
  BY <1>1, SubscribeEffect
<1> HIDE DEF h
<1>3. CASE Cardinality(ToSet(q)) < MaxSubscriptions
  BY <1>2, <1>3 DEF h
<1>4. CASE ~(Cardinality(ToSet(q)) < MaxSubscriptions)
  <2>1. /\ IsFiniteSet(ToSet(q)) /\ Cardinality(ToSet(q)) = Len(q) /\ Len(q) \in Nat
        /\ ToSet(q) \subseteq LowFds
    BY MembersCounted, ProperFacts
  <2>2. Cardinality(ToSet(q)) = Cardinality(LowFds)
    BY <2>1, <1>4, ChannelHasRoom, LowFdsCounted, BoundsAssumption, PlayersAssumption,
       SubscriptionsAssumption
  <2>3. ToSet(q) = LowFds
    BY <2>1, <2>2, LowFdsCounted, FS_Subset
  <2> QED
    BY <1>2, <1>4, <2>3 DEF h
<1> QED
  BY <1>3, <1>4

\* Unsubscribing takes out the socket and nothing else.
LEMMA UnsubscribesLow ==
  ASSUME NEW q, Proper(LowFds, q), NEW s
  PROVE  /\ Proper(LowFds, unsubscribe_from_channel(q, s))
         /\ ToSet(unsubscribe_from_channel(q, s)) = ToSet(q) \ {s}
BY ChannelHasRoom, UnsubscribeEffect

(***************************************************************************)
(* The loop that subscribes the pack: the werewolves of the list join the  *)
(* channel, and no one else.                                               *)
(***************************************************************************)
LEMMA PackSubscribed ==
  ASSUME NEW g, NEW q, Proper(LowFds, q),
         game_manager_get_players_sockets(g) \in Seq(LowFds)
  PROVE  /\ Proper(LowFds, SubscribePack(q, g))
         /\ ToSet(SubscribePack(q, g)) = ToSet(q) \union Pack(g)
<1> DEFINE socks == game_manager_get_players_sockets(g)
           N == Len(socks)
           W(s) == game_manager_is_player_werewolf(g, s)
           Runs(f) == f = [i \in 0 .. N |->
                             IF i = 0 THEN q
                             ELSE IF W(socks[i])
                                  THEN subscribe_to_channel(f[i - 1], socks[i])
                             ELSE f[i - 1]]
           after == CHOOSE f : Runs(f)
           D == {c \in Seq(LowFds) : Proper(LowFds, c)}
           step == [i \in Nat |-> [c \in D |->
                      IF i \in 1 .. N /\ W(socks[i])
                      THEN subscribe_to_channel(c, socks[i]) ELSE c]]
<1>1. /\ N \in Nat /\ DOMAIN socks = 1 .. N
      /\ \A i \in 1 .. N : socks[i] \in LowFds
  BY LenProperties, ElementOfSeq
<1>2. SubscribePack(q, g) = after[N]
  BY DEF SubscribePack
<1>3. Pack(g) = {s \in {socks[i] : i \in 1 .. N} : W(s)}
  BY <1>1 DEF Pack, ToSet
<1> HIDE DEF N, socks, W
<1>4. q \in D /\ \A c \in D, s \in LowFds : subscribe_to_channel(c, s) \in D
  BY SubscribesLow DEF Proper
<1>5. \A c \in D : Proper(LowFds, c)
  OBVIOUS
<1> HIDE DEF D
<1>6. step \in [Nat -> [D -> D]]
  BY <1>1, <1>4
<1>7. PICK f : Recursion(f, N, D, q, step)
  <2> HIDE DEF step
  <2> QED
    BY <1>1, <1>4, <1>6, RecursionExists
<1>8. Runs(f)
  <2>1. ASSUME NEW i \in 1 .. N
        PROVE  f[i] = IF W(socks[i]) THEN subscribe_to_channel(f[i - 1], socks[i])
                      ELSE f[i - 1]
    <3>1. i \in Nat /\ f[i - 1] \in D
      BY <1>1, <1>7 DEF Recursion
    <3> QED
      BY <1>7, <3>1 DEF Recursion
  <2> HIDE DEF step
  <2>2. \A i \in 0 .. N :
          f[i] = IF i = 0 THEN q
                 ELSE IF W(socks[i]) THEN subscribe_to_channel(f[i - 1], socks[i])
                 ELSE f[i - 1]
    BY <1>1, <1>7, <2>1 DEF Recursion
  <2> QED
    BY <1>7, <2>2 DEF Recursion
<1>9. Runs(after)
  <2> HIDE DEF Runs
  <2> QED
    BY <1>8
<1> HIDE DEF after, step
<1>10. /\ after[0] = q
       /\ \A i \in 1 .. N :
            after[i] = IF W(socks[i]) THEN subscribe_to_channel(after[i - 1], socks[i])
                       ELSE after[i - 1]
  BY <1>1, <1>9
<1> HIDE DEF Runs
<1> DEFINE Met(i) == {s \in {socks[j] : j \in 1 .. i} : W(s)}
           Right(i) == /\ Proper(LowFds, after[i])
                       /\ ToSet(after[i]) = ToSet(q) \union Met(i)
           T == {i \in Nat : i <= N => Right(i)}
<1>11. 0 \in T
  <2>1. Met(0) = {}
    OBVIOUS
  <2> QED
    BY <1>10, <2>1
<1>12. ASSUME NEW i \in Nat, i \in T PROVE i + 1 \in T
  <2> SUFFICES ASSUME i + 1 <= N PROVE Right(i + 1)
    OBVIOUS
  <2>1. Proper(LowFds, after[i]) /\ ToSet(after[i]) = ToSet(q) \union Met(i)
    BY <1>1, <1>12
  <2>2. i + 1 \in 1 .. N /\ (i + 1) - 1 = i
    BY <1>1
  <2> DEFINE s == socks[i + 1]
  <2>3. s \in LowFds /\ after[i + 1] = IF W(s) THEN subscribe_to_channel(after[i], s)
                                      ELSE after[i]
    BY <1>1, <1>10, <2>2
  <2>4. Met(i + 1) = Met(i) \union (IF W(s) THEN {s} ELSE {})
    <3>1. 1 .. i + 1 = (1 .. i) \union {i + 1}
      OBVIOUS
    <3> QED
      BY <3>1
  <2> HIDE DEF s, Met
  <2>5. /\ Proper(LowFds, subscribe_to_channel(after[i], s))
        /\ ToSet(subscribe_to_channel(after[i], s)) = ToSet(after[i]) \union {s}
    BY <2>1, <2>3, SubscribesLow
  <2>6. CASE W(s)
    BY <2>1, <2>3, <2>4, <2>5, <2>6
  <2>7. CASE ~W(s)
    BY <2>1, <2>3, <2>4, <2>7
  <2> QED
    BY <2>6, <2>7
<1>13. Right(N)
  <2> HIDE DEF Right
  <2>1. N \in T
    <3> HIDE DEF T
    <3> QED
      BY <1>1, <1>11, <1>12, NatInduct
  <2> QED
    BY <1>1, <2>1
<1> QED
  BY <1>2, <1>3, <1>13

-----------------------------------------------------------------------------
(* The initial state, the peers and the quiet steps of the loop.           *)

\* The queues of unread lines are the sequences of bounded length.
LEMMA QueueFacts ==
  /\ <<>> \in Queues
  /\ \A q \in Queues : q \in Seq(Lines) /\ Len(q) \in Nat
  /\ \A q \in Seq(Lines) : Len(q) <= RxBound => q \in Queues
<1>1. RxBound \in Nat \ {0}
  BY BoundsAssumption
<1>2. <<>> \in [1 .. 0 -> Lines] /\ 0 \in 0 .. RxBound
  BY <1>1
<1>3. \A q \in Seq(Lines) : Len(q) \in Nat /\ q \in [1 .. Len(q) -> Lines]
  BY LenProperties
<1>4. \A n \in Nat : \A q \in [1 .. n -> Lines] : q \in Seq(Lines) /\ Len(q) = n
  OBVIOUS
<1>5. <<>> \in Queues
  BY <1>2 DEF Queues
<1>6. ASSUME NEW q \in Queues PROVE q \in Seq(Lines) /\ Len(q) \in Nat
  <2>1. PICK n \in 0 .. RxBound : q \in [1 .. n -> Lines]
    BY DEF Queues
  <2> QED
    BY <1>1, <1>4, <2>1
<1>7. ASSUME NEW q \in Seq(Lines), Len(q) <= RxBound PROVE q \in Queues
  <2>1. Len(q) \in 0 .. RxBound /\ q \in [1 .. Len(q) -> Lines]
    BY <1>1, <1>3, <1>7
  <2> QED
    BY <2>1 DEF Queues
<1> QED
  BY <1>5, <1>6, <1>7

\* The initial state satisfies the invariant.
LEMMA InitHolds == Init => IInv
<1> SUFFICES ASSUME Init PROVE IInv
  OBVIOUS
<1>1. Good(Fd, gm) /\ gm.players = <<>> /\ gm \in ManagerType(Fd)
  BY GoodCreate DEF Init, Good, game_manager_create
<1>2. game_manager_get_players_sockets(gm) = <<>>
  BY <1>1 DEF game_manager_get_players_sockets
<1>3. OpenFds = {} /\ clients = <<>> /\ ToSet(clients) = {}
  BY DEF Init, OpenFds, ToSet
<1>4. Registered
  BY <1>1, <1>2, <1>3 DEF Registered
<1>5. /\ \A c \in ChannelNames : channels[c] = <<>>
      /\ channels \in [ChannelNames -> Seq(Fd)]
      /\ "werewolf" \in ChannelNames
  BY DEF Init, ChannelNames
<1>6. Proper(LowFds, <<>>) /\ ToSet(<<>>) = {}
  BY DEF Proper, Unrepeated, ToSet
<1>7. Subscribed
  BY <1>3, <1>5, <1>6 DEF Subscribed
<1>8. Walking
  BY <1>6 DEF Init, Walking, Unrepeated
<1>9. TypeOK
  <2>1. link \in [Fd -> LinkStates] /\ rx \in [Fd -> Queues]
    BY QueueFacts DEF Init, LinkStates
  <2>2. \A i \in DOMAIN out : out[i].to \in Fd /\ out[i].what \in MessageKinds
    BY DEF Init
  <2>3. pending \in 0 .. MaxArrivals /\ arrived \in 0 .. MaxArrivals
    BY BoundsAssumption DEF Init
  <2> QED
    BY <1>1, <1>3, <1>5, <2>1, <2>2, <2>3 DEF Init, TypeOK
<1> QED
  BY <1>4, <1>7, <1>8, <1>9 DEF IInv

(***************************************************************************)
(* Steps that open and close no descriptor keep the registers.             *)
(***************************************************************************)
LEMMA RegistersKept ==
  ASSUME Registered, Subscribed, UNCHANGED <<gm, clients, channels>>,
         \A fd \in Fd : link'[fd] = "none" <=> link[fd] = "none"
  PROVE  OpenFds' = OpenFds /\ Registered' /\ Subscribed'
<1>1. OpenFds' = OpenFds
  BY DEF OpenFds
<1> QED
  BY <1>1 DEF Registered, Subscribed, InLobby

(***************************************************************************)
(* The peers open and close no descriptor of the server, and what would be *)
(* read at once stays so.                                                  *)
(***************************************************************************)
LEMMA PeerEffect ==
  ASSUME IInv, PeerStep
  PROVE  /\ link' \in [Fd -> LinkStates] /\ rx' \in [Fd -> Queues]
         /\ pending' \in 0 .. MaxArrivals /\ arrived' \in 0 .. MaxArrivals
         /\ pending <= pending' /\ pending' <= arrived'
         /\ \A fd \in Fd : /\ link'[fd] = "none" <=> link[fd] = "none"
                           /\ Readable(fd) => Readable(fd)'
         /\ out' = <<>> /\ UNCHANGED <<gameVars, loopVars, server>>
<1>1. /\ link \in [Fd -> LinkStates] /\ rx \in [Fd -> Queues]
      /\ pending \in 0 .. MaxArrivals /\ arrived \in 0 .. MaxArrivals
      /\ pending <= arrived /\ MaxArrivals \in Nat
  BY BoundsAssumption DEF IInv, TypeOK, Walking
<1>2. out' = <<>> /\ UNCHANGED <<gameVars, loopVars, server>>
  BY DEF PeerStep, ClientConnects, ClientSends, ClientCloses, ConnectionAnswers, ConnectionReset,
         ClientStalls, ClientCatchesUp, Becomes, Peer
<1>3. CASE ClientConnects
  BY <1>1, <1>2, <1>3 DEF ClientConnects, Readable
<1>4. ASSUME NEW fd \in Fd, ClientSends(fd)
      PROVE  /\ UNCHANGED <<link, pending, arrived>> /\ rx' \in [Fd -> Queues]
             /\ \A s \in Fd : Readable(s) => Readable(s)'
  <2>1. PICK line \in Lines : rx' = [rx EXCEPT ![fd] = Append(rx[fd], line)]
    BY <1>4 DEF ClientSends
  <2>2. rx[fd] \in Seq(Lines) /\ Len(rx[fd]) \in Nat /\ Len(rx[fd]) < RxBound
    BY <1>1, <1>4, QueueFacts DEF ClientSends
  <2>3. /\ Append(rx[fd], line) \in Seq(Lines)
        /\ Len(Append(rx[fd], line)) = Len(rx[fd]) + 1
    BY <2>2, AppendProperties
  <2>4. Append(rx[fd], line) \in Queues /\ Append(rx[fd], line) # <<>>
    <3>1. Len(Append(rx[fd], line)) <= RxBound /\ Len(Append(rx[fd], line)) # 0
      BY <2>2, <2>3, BoundsAssumption
    <3>2. Append(rx[fd], line) # <<>>
      BY <3>1, Len(<<>>) = 0
    <3> QED
      BY <2>3, <3>1, <3>2, QueueFacts
  <2> QED
    BY <1>1, <1>4, <2>1, <2>4 DEF ClientSends, Readable
<1>5. ASSUME NEW fd \in Fd, NEW from \in LinkStates \ {"none"}, NEW to \in LinkStates \ {"none"},
             Becomes(fd, from, to),
             Readable(fd) => rx[fd] # <<>> \/ to \in {"fin", "shut", "rst", "pipe", "dead"}
      PROVE  /\ UNCHANGED <<rx, pending, arrived>> /\ link' \in [Fd -> LinkStates]
             /\ \A s \in Fd : /\ link'[s] = "none" <=> link[s] = "none"
                              /\ Readable(s) => Readable(s)'
  BY <1>1, <1>5 DEF Becomes, Readable
<1>6. ASSUME NEW fd \in Fd,
             \/ ClientCloses(fd) \/ ConnectionAnswers(fd) \/ ConnectionReset(fd)
             \/ ClientStalls(fd) \/ ClientCatchesUp(fd)
      PROVE  \E from, to \in LinkStates \ {"none"} :
               /\ Becomes(fd, from, to)
               /\ Readable(fd) => rx[fd] # <<>> \/ to \in {"fin", "shut", "rst", "pipe", "dead"}
  BY <1>6 DEF ClientCloses, ConnectionAnswers, ConnectionReset, ClientStalls, ClientCatchesUp,
              LinkStates, Becomes, Readable
<1> QED
  BY <1>1, <1>2, <1>3, <1>4, <1>5, <1>6 DEF PeerStep

\* A step of a peer keeps the invariant.
LEMMA PeerKeeps ==
  ASSUME IInv, PeerStep
  PROVE  IInv'
<1>1. /\ link' \in [Fd -> LinkStates] /\ rx' \in [Fd -> Queues]
      /\ pending' \in 0 .. MaxArrivals /\ arrived' \in 0 .. MaxArrivals
      /\ pending <= pending' /\ pending' <= arrived'
      /\ \A fd \in Fd : /\ link'[fd] = "none" <=> link[fd] = "none"
                        /\ Readable(fd) => Readable(fd)'
      /\ out' = <<>> /\ UNCHANGED <<gameVars, loopVars, server>>
  BY PeerEffect
<1>2. OpenFds' = OpenFds /\ Registered' /\ Subscribed'
  BY <1>1, RegistersKept DEF IInv, gameVars
<1>3. TypeOK'
  BY <1>1 DEF IInv, TypeOK, gameVars, loopVars
<1>4. Walking'
  <2>1. read_fds \subseteq {Listener} \union Fd /\ pending \in Nat /\ pending' \in Nat
        /\ OpenFds \subseteq Fd
    BY <1>1, BoundsAssumption DEF IInv, TypeOK, OpenFds
  <2> QED
    BY <1>1, <1>2, <2>1 DEF IInv, Walking, loopVars
<1> QED
  BY <1>2, <1>3, <1>4 DEF IInv

(***************************************************************************)
(* Steps of the loop that touch neither the registers nor a socket.        *)
(***************************************************************************)
LEMMA QuietKept ==
  ASSUME IInv, UNCHANGED <<gm, clients, channels, socketVars>>, out' = <<>>,
         listening' \in BOOLEAN, headFreed' \in BOOLEAN,
         server' \in {"running", "exited", "sigpipe", "freed"},
         pc' \in {"start", "setup", "select", "accept", "walk"},
         read_fds' \subseteq {Listener} \union Fd,
         Proper(Fd, current'), ToSet(current') \subseteq OpenFds,
         pc' = "accept" => /\ \A fd \in read_fds' \ {Listener} : link[fd] # "none" /\ Readable(fd)
                           /\ Listener \in read_fds' => pending > 0,
         pc' = "walk" => \A fd \in ToSet(current') \cap read_fds' : Readable(fd)
  PROVE  IInv'
<1>1. OpenFds' = OpenFds /\ Registered' /\ Subscribed'
  BY RegistersKept DEF IInv, socketVars
<1>2. TypeOK'
  BY DEF IInv, TypeOK, socketVars, Proper
<1>3. Walking'
  BY <1>1 DEF IInv, Walking, socketVars, Proper, Readable
<1> QED
  BY <1>1, <1>2, <1>3 DEF IInv

\* What remains of a walk after its first node.
LEMMA TailProper ==
  ASSUME NEW S, NEW q, Proper(S, q), q # <<>>
  PROVE  /\ Proper(S, Tail(q)) /\ ToSet(Tail(q)) \subseteq ToSet(q)
         /\ Head(q) \in ToSet(q) /\ Head(q) = q[1]
<1>1. /\ q \in Seq(S) /\ Len(q) \in Nat /\ Len(q) # 0
      /\ \A i, j \in 1 .. Len(q) : q[i] = q[j] => i = j
      /\ ToSet(q) = {q[i] : i \in 1 .. Len(q)}
  BY ProperFacts, EmptySeq DEF Proper
<1>2. /\ Head(q) = q[1] /\ Tail(q) \in Seq(S) /\ Len(Tail(q)) = Len(q) - 1
      /\ \A i \in 1 .. Len(q) - 1 : Tail(q)[i] = q[i + 1]
  BY <1>1, HeadTailProperties
<1>3. DOMAIN Tail(q) = 1 .. Len(q) - 1
  BY <1>2, LenProperties
<1>4. \A i \in 1 .. Len(q) - 1 : i + 1 \in 1 .. Len(q)
  BY <1>1
<1> QED
  BY <1>1, <1>2, <1>3, <1>4 DEF Proper, Unrepeated, ToSet

\* The steps that touch no register keep the invariant.
LEMMA QuietKeeps ==
  ASSUME IInv,
         \/ SetupRefused \/ SetupFails \/ SetupSucceeds \/ SetupConnected \/ SetupDone
         \/ SelectFails \/ SelectReturns \/ NothingToAccept \/ UseFreedNode \/ WalkDone
  PROVE  IInv'
<1>1. /\ Proper(Fd, clients) /\ Proper(Fd, current)
      /\ ToSet(clients) = OpenFds /\ ToSet(current) \subseteq OpenFds
  BY ClientsCounted DEF IInv, Registered, Walking, TypeOK, Proper
<1>2. /\ listening \in BOOLEAN /\ headFreed \in BOOLEAN
      /\ server \in {"running", "exited", "sigpipe", "freed"}
      /\ read_fds \subseteq {Listener} \union Fd
      /\ Listener \notin Fd /\ OpenFds \subseteq Fd
  BY DEF IInv, TypeOK, Listener, Fd, FirstFd, OpenFds
<1> USE DEF Loop, gameVars, loopVars
<1>3. CASE SetupRefused
  BY <1>1, <1>2, <1>3, QuietKept DEF SetupRefused, Start
<1>4. CASE SetupFails \/ SetupSucceeds
  BY <1>1, <1>2, <1>4, QuietKept DEF SetupFails, SetupSucceeds, Start, BackToSetup
<1>5. CASE SetupConnected
  <2>1. /\ Proper(Fd, Tail(current)) /\ ToSet(Tail(current)) \subseteq ToSet(current)
        /\ Head(current) \in ToSet(current)
    BY <1>1, <1>5, TailProper DEF SetupConnected
  <2>2. /\ read_fds' \subseteq {Listener} \union Fd
        /\ Proper(Fd, current') /\ ToSet(current') \subseteq OpenFds
    BY <1>1, <1>2, <1>5, <2>1 DEF SetupConnected
  <2> QED
    BY <1>2, <1>5, <2>2, QuietKept DEF SetupConnected
<1>6. CASE SetupDone
  BY <1>1, <1>2, <1>6, QuietKept DEF SetupDone
<1>7. CASE SelectFails \/ WalkDone
  BY <1>1, <1>2, <1>7, QuietKept DEF SelectFails, WalkDone, BackToSetup
<1>8. CASE SelectReturns
  <2>1. /\ read_fds' \subseteq {Listener} \union Fd
        /\ \A fd \in read_fds' \ {Listener} : link[fd] # "none" /\ Readable(fd)
        /\ Listener \in read_fds' => pending > 0
    BY <1>2, <1>8 DEF SelectReturns, BadSet
  <2> QED
    BY <1>1, <1>2, <1>8, <2>1, QuietKept DEF SelectReturns
<1>9. CASE NothingToAccept
  <2>1. \A fd \in OpenFds \cap read_fds : Readable(fd)
    BY <1>2, <1>9 DEF IInv, Walking, NothingToAccept
  <2> QED
    BY <1>1, <1>2, <1>9, <2>1, QuietKept DEF NothingToAccept, StartWalk
<1>10. CASE UseFreedNode
  <2>1. pc = "walk" \/ pc = "select"
    BY <1>10 DEF UseFreedNode
  <2> QED
    BY <1>1, <1>2, <1>10, <2>1, QuietKept DEF UseFreedNode, IInv, Walking
<1> QED
  BY <1>3, <1>4, <1>5, <1>6, <1>7, <1>8, <1>9, <1>10

-----------------------------------------------------------------------------
(* The steps that close a client.                                          *)

(***************************************************************************)
(* The walk visits an open connection whose read returns at once, and no   *)
(* connection twice.                                                       *)
(***************************************************************************)
LEMMA VisitEffect ==
  ASSUME IInv, Visit
  PROVE  /\ Visited \in ToSet(current) \cap read_fds /\ Visited \in OpenFds
         /\ Readable(Visited)
         /\ Proper(Fd, current') /\ ToSet(current') \subseteq ToSet(current) \ {Visited}
<1> DEFINE n == Len(current)
           k == Min(Ready)
<1>1. /\ current \in Seq(Fd) /\ n \in Nat /\ DOMAIN current = 1 .. n
      /\ \A i, j \in 1 .. n : current[i] = current[j] => i = j
      /\ ToSet(current) = {current[i] : i \in 1 .. n}
      /\ ToSet(current) \subseteq OpenFds
  BY LenProperties DEF IInv, TypeOK, Walking, Unrepeated, ToSet
<1>2. k \in 1 .. n /\ current[k] \in read_fds
  <2>1. Ready \subseteq Nat /\ Ready # {}
    BY <1>1 DEF Ready, Visit
  <2>2. k \in Ready
    BY <2>1, MinIsLeast
  <2> QED
    BY <1>1, <2>2 DEF Ready
<1>3. current' = SubSeq(current, k + 1, n) /\ Visited = current[k]
  BY DEF Visit, Visited
<1> HIDE DEF k, n
<1>4. \A i \in k + 1 .. n : current[i] \in Fd
  BY <1>1, <1>2, ElementOfSeq DEF n
<1>5. /\ current' \in Seq(Fd)
      /\ Len(current') = IF k + 1 <= n THEN n - (k + 1) + 1 ELSE 0
      /\ \A i \in 1 .. n - (k + 1) + 1 : current'[i] = current[k + 1 + i - 1]
  BY <1>1, <1>2, <1>3, <1>4, SubSeqProperties
<1>6. /\ Len(current') = n - k
      /\ \A i \in 1 .. n - k : current'[i] = current[k + i] /\ k + i \in 1 .. n /\ k + i # k
  BY <1>1, <1>2, <1>5
<1>7. DOMAIN current' = 1 .. n - k
  BY <1>5, <1>6, LenProperties
<1>8. Proper(Fd, current')
  BY <1>1, <1>2, <1>5, <1>6, <1>7 DEF Proper, Unrepeated
<1>9. ToSet(current') \subseteq ToSet(current) \ {Visited}
  BY <1>1, <1>2, <1>3, <1>6, <1>7 DEF ToSet
<1>10. Visited \in ToSet(current) \cap read_fds
  BY <1>1, <1>2, <1>3
<1>11. pc = "walk"
  BY DEF Visit, Loop
<1> QED
  BY <1>1, <1>8, <1>9, <1>10, <1>11 DEF IInv, Walking

(***************************************************************************)
(* The subscriptions still serve who is left, whether the client that went *)
(* was taken out of the channels or not.                                   *)
(***************************************************************************)
LEMMA SubscribedWithout ==
  ASSUME Subscribed, NEW fd, OpenFds' = OpenFds \ {fd}, gm'.state = gm.state,
         \A t \in OpenFds' : game_manager_is_player_werewolf(gm', t)
                             <=> game_manager_is_player_werewolf(gm, t),
         \A c \in ChannelNames :
           /\ Proper(LowFds, channels'[c])
           /\ ToSet(channels[c]) \ {fd} \subseteq ToSet(channels'[c])
           /\ ToSet(channels'[c]) \subseteq ToSet(channels[c])
  PROVE  Subscribed'
<1>1. "werewolf" \in ChannelNames /\ CommonChannels \subseteq ChannelNames
  BY DEF ChannelNames, CommonChannels
<1>2. InLobby' <=> InLobby
  BY DEF InLobby
<1>3. \A c \in CommonChannels : OpenFds' \subseteq ToSet(channels'[c])
  BY <1>1 DEF Subscribed
<1>4. InLobby' => ToSet(channels'["werewolf"]) = {}
  BY <1>1, <1>2 DEF Subscribed
<1>5. \A t \in OpenFds' : t \in ToSet(channels'["werewolf"])
                          <=> game_manager_is_player_werewolf(gm', t)
  BY <1>1 DEF Subscribed
<1> QED
  BY <1>3, <1>4, <1>5 DEF Subscribed

\* The removal in setup_fd_sets keeps the invariant: it leaves stale subscriptions
\* behind, of a descriptor that is closed.
LEMMA DisconnectedKeeps ==
  ASSUME IInv, SetupDisconnected
  PROVE  IInv'
<1> DEFINE fd == Head(current)
<1>1. /\ pc = "setup" /\ pc' = pc /\ current # <<>> /\ current' = clients' /\ out' = <<>>
      /\ link' = [link EXCEPT ![fd] = "none"] /\ rx' = [rx EXCEPT ![fd] = <<>>]
      /\ gm' = game_manager_remove_player(gm, fd)
      /\ clients' = remove_client_fd(clients, fd)
      /\ headFreed' = (headFreed \/ fd = Head(clients))
      /\ UNCHANGED <<listening, channels, read_fds, server, pending, arrived>>
  BY DEF SetupDisconnected, Loop, close
<1>2. fd \in OpenFds
  <2>1. Proper(Fd, current) /\ ToSet(current) \subseteq OpenFds
    BY DEF IInv, Walking, TypeOK, Proper
  <2> QED
    BY <1>1, <2>1, TailProper
<1> HIDE DEF fd
<1>3. /\ Registered' /\ OpenFds' = OpenFds \ {fd} /\ link' \in [Fd -> LinkStates]
      /\ gm'.state = gm.state
      /\ \A t \in OpenFds' : game_manager_is_player_werewolf(gm', t)
                             <=> game_manager_is_player_werewolf(gm, t)
  BY <1>1, <1>2, ClientRemoved DEF IInv, TypeOK
<1>4. Subscribed'
  BY <1>1, <1>3, SubscribedWithout DEF IInv, Subscribed
<1>5. Proper(Fd, clients') /\ ToSet(clients') = OpenFds' /\ gm' \in ManagerType(Fd)
  <2>1. Proper(Fd, clients)'
    BY <1>3, ClientsCounted, PTL
  <2> QED
    BY <1>3, <2>1 DEF Registered, Good
<1>6. TypeOK'
  <2>1. rx' \in [Fd -> Queues] /\ headFreed' \in BOOLEAN
    BY <1>1, QueueFacts DEF IInv, TypeOK
  <2> QED
    BY <1>1, <1>3, <1>5, <2>1 DEF IInv, TypeOK, Proper
<1>7. Walking'
  BY <1>1, <1>5 DEF IInv, Walking, Proper
<1> QED
  BY <1>3, <1>4, <1>6, <1>7 DEF IInv

\* The removal after a failed read keeps the invariant.
LEMMA GoneKeeps ==
  ASSUME IInv, ClientGone
  PROVE  IInv'
<1> DEFINE fd == Visited
<1>1. /\ pc = "walk" /\ pc' = pc /\ out' = <<>>
      /\ link' = [link EXCEPT ![fd] = "none"] /\ rx' = [rx EXCEPT ![fd] = <<>>]
      /\ gm' = game_manager_remove_player(gm, fd)
      /\ clients' = remove_client_fd(clients, fd)
      /\ channels' = UnsubscribeFromAll(fd)
      /\ UNCHANGED <<listening, headFreed, read_fds, server, pending, arrived>>
  BY DEF ClientGone, Visit, Loop, close
<1>2. /\ fd \in OpenFds
      /\ Proper(Fd, current') /\ ToSet(current') \subseteq ToSet(current) \ {fd}
  BY VisitEffect DEF ClientGone
<1> HIDE DEF fd
<1>3. /\ Registered' /\ OpenFds' = OpenFds \ {fd} /\ link' \in [Fd -> LinkStates]
      /\ gm'.state = gm.state
      /\ \A t \in OpenFds' : game_manager_is_player_werewolf(gm', t)
                             <=> game_manager_is_player_werewolf(gm, t)
  BY <1>1, <1>2, ClientRemoved DEF IInv, TypeOK
<1>4. \A c \in ChannelNames :
        /\ Proper(LowFds, channels'[c])
        /\ ToSet(channels'[c]) = ToSet(channels[c]) \ {fd}
  BY <1>1, UnsubscribesLow DEF IInv, Subscribed, UnsubscribeFromAll
<1>5. Subscribed'
  BY <1>3, <1>4, SubscribedWithout DEF IInv
<1>6. Proper(Fd, clients') /\ gm' \in ManagerType(Fd)
  <2>1. Proper(Fd, clients)'
    BY <1>3, ClientsCounted, PTL
  <2> QED
    BY <1>3, <2>1 DEF Registered, Good
<1>7. channels' \in [ChannelNames -> Seq(Fd)]
  <2>1. Seq(LowFds) \subseteq Seq(Fd)
    BY LowFdsCounted, SeqMonotonic
  <2> QED
    BY <1>1, <1>4, <2>1 DEF UnsubscribeFromAll, Proper
<1>8. TypeOK'
  <2>1. rx' \in [Fd -> Queues]
    BY <1>1, QueueFacts DEF IInv, TypeOK
  <2> QED
    BY <1>1, <1>2, <1>3, <1>6, <1>7, <2>1 DEF IInv, TypeOK, Proper
<1>9. Walking'
  <2>1. ToSet(current') \subseteq OpenFds'
    BY <1>2, <1>3 DEF IInv, Walking
  <2>2. \A s \in ToSet(current') \cap read_fds : Readable(s)'
    <3>1. \A s \in ToSet(current') : s \in ToSet(current) /\ s # fd /\ s \in Fd
      BY <1>2 DEF IInv, Walking, OpenFds
    <3>2. \A s \in ToSet(current) \cap read_fds : Readable(s)
      BY <1>1 DEF IInv, Walking
    <3>3. link \in [Fd -> LinkStates] /\ rx \in [Fd -> Queues]
      BY DEF IInv, TypeOK
    <3> QED
      BY <1>1, <3>1, <3>2, <3>3 DEF Readable
  <2> QED
    BY <1>1, <1>2, <2>1, <2>2 DEF IInv, Walking, Proper
<1> QED
  BY <1>3, <1>5, <1>8, <1>9 DEF IInv

-----------------------------------------------------------------------------
(* The steps that take a connection from the listen queue.                 *)

\* What may be sent: messages with an address and a kind.
Sendable(T) == \A m \in T : m.to \in Fd /\ m.what \in MessageKinds

(***************************************************************************)
(* Leaving a handler with what was sent.                                   *)
(***************************************************************************)
LEMMA ReturnEffect ==
  ASSUME NEW T, Sendable(T), NEW k \in KernelType(T), Return(k)
  PROVE  /\ out' \in Seq(T)
         /\ \A i \in DOMAIN out' : /\ out'[i] \in T
                                   /\ out'[i].to \in Fd /\ out'[i].what \in MessageKinds
         /\ server' = IF k.alive THEN "running" ELSE "sigpipe"
<1>1. out' = k.out /\ k.out \in Seq(T)
  BY DEF Return, KernelType
<1>2. DOMAIN out' = 1 .. Len(out') /\ \A i \in 1 .. Len(out') : out'[i] \in T
  BY <1>1, LenProperties, ElementOfSeq
<1> QED
  BY <1>1, <1>2 DEF Return, Sendable

\* The kernel once the accepted connection is open.
LEMMA OpenedEffect ==
  ASSUME IInv, NEW l \in NewLinks, NEW T
  PROVE  LET k == Opened(l) IN
         /\ k \in KernelType(T)
         /\ k.link[NewFd] = l /\ l # "none" /\ l \in LinkStates
         /\ \A fd \in Fd : fd # NewFd => k.link[fd] = link[fd]
         /\ k.alive /\ k.out = <<>>
<1> DEFINE k == Opened(l)
<1>1. link \in [Fd -> LinkStates] /\ NewFd \in Fd
  BY NewFdIsFree DEF IInv, TypeOK
<1>2. k = [link |-> [link EXCEPT ![NewFd] = l], out |-> <<>>, alive |-> TRUE]
  <2> DEFINE n == NewFd
  <2>1. k = [Kernel EXCEPT !.link[n] = l]
    BY DEF Opened
  <2>2. Kernel = [link |-> link, out |-> <<>>, alive |-> TRUE]
    BY DEF Kernel
  <2> HIDE DEF k, n
  <2>3. k = [link |-> [link EXCEPT ![n] = l], out |-> <<>>, alive |-> TRUE]
    BY <2>1, <2>2
  <2> QED
    BY <2>3 DEF n
<1>3. l # "none" /\ l \in LinkStates
  BY DEF NewLinks, LinkStates
<1>4. <<>> \in Seq(T)
  OBVIOUS
<1> HIDE DEF k
<1>5. k \in KernelType(T)
  BY <1>1, <1>2, <1>3, <1>4 DEF KernelType
<1> QED
  BY <1>1, <1>2, <1>3, <1>5 DEF k

\* What every branch after an accept starts from.
LEMMA AcceptEffect ==
  ASSUME IInv, Accept
  PROVE  /\ pc = "accept" /\ server = "running" /\ pending' \in 0 .. MaxArrivals
         /\ pending' <= arrived /\ UNCHANGED <<listening, headFreed, arrived>>
         /\ NewFd \in Fd /\ NewFd \notin OpenFds /\ NewFd \notin read_fds
         /\ \A fd \in OpenFds \cap read_fds : Readable(fd)
<1>1. /\ pc = "accept" /\ pending > 0 /\ pending \in 0 .. MaxArrivals /\ pending <= arrived
      /\ arrived \in 0 .. MaxArrivals /\ MaxArrivals \in Nat
      /\ \A fd \in read_fds \ {Listener} : link[fd] # "none" /\ Readable(fd)
  BY BoundsAssumption DEF IInv, Walking, TypeOK, Accept, Loop
<1>2. NewFd \in Fd /\ link[NewFd] = "none" /\ NewFd \notin OpenFds
  BY NewFdIsFree DEF IInv
<1>3. Listener \notin Fd /\ OpenFds \subseteq Fd
  BY DEF Listener, Fd, FirstFd, OpenFds
<1> QED
  BY <1>1, <1>2, <1>3 DEF Accept, Loop

\* A connection dropped at the accept keeps the invariant.
LEMMA DroppedKeeps ==
  ASSUME IInv, ConnectionDropped
  PROVE  IInv'
<1>1. /\ pending' \in 0 .. MaxArrivals
      /\ pending' <= arrived /\ UNCHANGED <<listening, headFreed, arrived>>
      /\ \A fd \in OpenFds \cap read_fds : Readable(fd)
  BY AcceptEffect DEF ConnectionDropped
<1>2. /\ out' = <<>> /\ pc' = "walk" /\ current' = clients
      /\ UNCHANGED <<read_fds, gm, clients, channels, server, link, rx>>
  BY DEF ConnectionDropped, StartWalk
<1>3. OpenFds' = OpenFds /\ Registered' /\ Subscribed'
  BY <1>2, RegistersKept DEF IInv
<1>4. Proper(Fd, clients) /\ ToSet(clients) = OpenFds
  BY ClientsCounted DEF IInv, Registered
<1>5. TypeOK'
  BY <1>1, <1>2, <1>4 DEF IInv, TypeOK, Proper
<1>6. Walking'
  BY <1>1, <1>2, <1>3, <1>4 DEF Walking, Proper, Readable
<1> QED
  BY <1>3, <1>5, <1>6 DEF IInv

\* A connection refused after the start keeps the invariant.
LEMMA RefuseKeeps ==
  ASSUME IInv, RefuseConnection
  PROVE  IInv'
<1> DEFINE m == Message(NewFd, "ANNOUNCEMENT", "started", {})
<1>1. /\ pending' \in 0 .. MaxArrivals
      /\ pending' <= arrived /\ UNCHANGED <<listening, headFreed, arrived>>
      /\ NewFd \in Fd /\ NewFd \notin OpenFds
      /\ \A fd \in OpenFds \cap read_fds : Readable(fd)
  BY AcceptEffect DEF RefuseConnection
<1>2. /\ pc' = "walk" /\ current' = clients
      /\ UNCHANGED <<read_fds, gm, clients, link, rx>>
      /\ channels' = UnsubscribeFromAll(NewFd)
  BY DEF RefuseConnection, StartWalk
<1>3. /\ \A i \in DOMAIN out' : out'[i].to \in Fd /\ out'[i].what \in MessageKinds
      /\ server' \in {"running", "sigpipe"}
  <2>1. PICK l \in NewLinks : Return(SendTo(Opened(l), m))
    BY DEF RefuseConnection
  <2>2. m.to = NewFd /\ m.what = "started"
    BY DEF Message
  <2>3. Sendable({m})
    BY <1>1, <2>2 DEF Sendable, MessageKinds
  <2> HIDE DEF m
  <2>4. Opened(l) \in KernelType({m})
    BY OpenedEffect
  <2>5. SendTo(Opened(l), m) \in KernelType({m})
    BY <1>1, <2>2, <2>4, SendToEffect
  <2> QED
    BY <2>1, <2>3, <2>5, ReturnEffect
<1>4. \A c \in ChannelNames :
        /\ Proper(LowFds, channels'[c])
        /\ ToSet(channels'[c]) = ToSet(channels[c]) \ {NewFd}
  BY <1>2, UnsubscribesLow DEF IInv, Subscribed, UnsubscribeFromAll
<1>5. OpenFds' = OpenFds /\ OpenFds = OpenFds \ {NewFd}
  BY <1>1, <1>2 DEF OpenFds
<1>6. Registered' /\ Subscribed'
  <2>1. Registered'
    BY <1>2, <1>5 DEF IInv, Registered
  <2>2. Subscribed'
    BY <1>2, <1>4, <1>5, SubscribedWithout DEF IInv
  <2> QED
    BY <2>1, <2>2
<1>7. channels' \in [ChannelNames -> Seq(Fd)]
  <2>1. Seq(LowFds) \subseteq Seq(Fd)
    BY LowFdsCounted, SeqMonotonic
  <2> QED
    BY <1>2, <1>4, <2>1 DEF UnsubscribeFromAll, Proper
<1>8. Proper(Fd, clients) /\ ToSet(clients) = OpenFds
  BY ClientsCounted DEF IInv, Registered
<1>9. TypeOK'
  BY <1>1, <1>2, <1>3, <1>7, <1>8 DEF IInv, TypeOK, Proper
<1>10. Walking'
  BY <1>1, <1>2, <1>5, <1>8 DEF Walking, Proper, Readable
<1> QED
  BY <1>6, <1>9, <1>10 DEF IInv

(***************************************************************************)
(* Putting a member before a list.                                         *)
(***************************************************************************)
LEMMA PrependEffect ==
  ASSUME NEW S, NEW q \in Seq(S), NEW x \in S
  PROVE  <<x>> \o q \in Seq(S) /\ ToSet(<<x>> \o q) = ToSet(q) \union {x}
<1> DEFINE r == <<x>> \o q
<1>1. <<x>> \in Seq(S) /\ Len(<<x>>) = 1 /\ <<x>>[1] = x
  OBVIOUS
<1>2. /\ r \in Seq(S) /\ Len(r) = 1 + Len(q)
      /\ \A i \in 1 .. 1 + Len(q) : r[i] = IF i <= 1 THEN <<x>>[i] ELSE q[i - 1]
  BY <1>1, ConcatProperties
<1> HIDE DEF r
<1>3. /\ Len(q) \in Nat /\ DOMAIN q = 1 .. Len(q)
      /\ DOMAIN r = 1 .. 1 + Len(q)
  BY <1>2, LenProperties
<1>4. /\ r[1] = x /\ 1 \in DOMAIN r
      /\ \A i \in DOMAIN q : i + 1 \in DOMAIN r /\ r[i + 1] = q[i]
  BY <1>1, <1>2, <1>3
<1>5. \A i \in DOMAIN r : i = 1 \/ (i - 1 \in DOMAIN q /\ r[i] = q[i - 1])
  BY <1>2, <1>3
<1>6. ToSet(r) = ToSet(q) \union {x}
  BY <1>4, <1>5 DEF ToSet
<1> QED
  BY <1>2, <1>6 DEF r

(***************************************************************************)
(* A newcomer enters the registers together, and what the notices do to    *)
(* the other connections closes none.                                      *)
(***************************************************************************)
LEMMA SeatKeeps ==
  ASSUME IInv, Accept, NEW T, Sendable(T), NEW messages \in Seq(T),
         NEW l \in NewLinks, NEW game, NEW subs,
         Seat(NewFd, l, game, subs, messages),
         Good(Fd, game), NewFd \in LowFds,
         game_manager_get_players_sockets(game)
           = <<NewFd>> \o game_manager_get_players_sockets(gm),
         subs \in [ChannelNames -> Seq(LowFds)],
         \A c \in ChannelNames : Proper(LowFds, subs[c]),
         \A c \in CommonChannels : ToSet(channels[c]) \union {NewFd} \subseteq ToSet(subs[c]),
         game.state.current_phase = "LOBBY" => ToSet(subs["werewolf"]) = {},
         \A fd \in OpenFds \union {NewFd} :
           fd \in ToSet(subs["werewolf"]) <=> game_manager_is_player_werewolf(game, fd)
  PROVE  /\ IInv' /\ OpenFds' = OpenFds \union {NewFd} /\ out' \in Seq(T)
<1> DEFINE k == SendAll(Opened(l), messages)
<1>1. /\ pending' \in 0 .. MaxArrivals
      /\ pending' <= arrived /\ UNCHANGED <<listening, headFreed, arrived>>
      /\ NewFd \in Fd /\ NewFd \notin OpenFds /\ NewFd \notin read_fds
      /\ \A fd \in OpenFds \cap read_fds : Readable(fd)
  BY AcceptEffect
<1>2. /\ gm' = game /\ clients' = add_client_fd(clients, NewFd) /\ channels' = subs
      /\ pc' = "walk" /\ current' = clients' /\ read_fds' = read_fds
      /\ link' = k.link /\ Return(k)
      /\ \E unread \in Queues : rx' = [rx EXCEPT ![NewFd] = unread]
  BY DEF Seat, StartWalk
<1>3. /\ Opened(l) \in KernelType(T)
      /\ Opened(l).link[NewFd] = l /\ l # "none"
      /\ \A fd \in Fd : fd # NewFd => Opened(l).link[fd] = link[fd]
  BY OpenedEffect
<1>4. k \in KernelType(T) /\ Worn(Opened(l).link, k.link)
  BY <1>3, SendAllEffect DEF Sendable
<1> HIDE DEF k
<1>5. /\ link' \in [Fd -> LinkStates] /\ link'[NewFd] # "none"
      /\ \A fd \in Fd \ {NewFd} : Wears(link[fd], link'[fd])
  BY <1>1, <1>2, <1>3, <1>4 DEF Worn, Wears, KernelType
<1>6. OpenFds' = OpenFds \union {NewFd}
  BY <1>1, <1>5 DEF OpenFds, Wears
<1>7. clients' = game_manager_get_players_sockets(gm')
  BY <1>2 DEF IInv, Registered, add_client_fd
<1>8. ToSet(clients') = ToSet(clients) \union {NewFd}
  BY <1>1, <1>2, PrependEffect DEF IInv, TypeOK, add_client_fd
<1>9. Registered'
  BY <1>2, <1>6, <1>7, <1>8 DEF IInv, Registered
<1>10. Subscribed'
  <2>1. CommonChannels \subseteq ChannelNames
    BY DEF CommonChannels, ChannelNames
  <2>2. \A c \in CommonChannels : OpenFds' \subseteq ToSet(channels'[c])
    BY <1>2, <1>6, <2>1 DEF IInv, Subscribed
  <2> QED
    BY <1>2, <1>6, <2>2 DEF IInv, Subscribed, InLobby
<1>11. Proper(Fd, clients') /\ gm' \in ManagerType(Fd)
  <2>1. Proper(Fd, clients)'
    BY <1>9, ClientsCounted, PTL
  <2> QED
    BY <1>9, <2>1 DEF Registered, Good
<1>12. /\ out' \in Seq(T) /\ server' \in {"running", "sigpipe"}
       /\ \A i \in DOMAIN out' : out'[i].to \in Fd /\ out'[i].what \in MessageKinds
  BY <1>2, <1>4, ReturnEffect
<1>13. TypeOK'
  <2>1. channels' \in [ChannelNames -> Seq(Fd)]
    <3>1. Seq(LowFds) \subseteq Seq(Fd)
      BY LowFdsCounted, SeqMonotonic
    <3> QED
      BY <1>2, <3>1
  <2>2. rx' \in [Fd -> Queues]
    BY <1>2 DEF IInv, TypeOK
  <2> QED
    BY <1>1, <1>2, <1>5, <1>11, <1>12, <2>1, <2>2 DEF IInv, TypeOK, Proper
<1>14. Walking'
  <2>1. \A fd \in OpenFds' \cap read_fds : Readable(fd)'
    <3>1. \A fd \in OpenFds' \cap read_fds : fd \in OpenFds \cap read_fds /\ fd # NewFd /\ fd \in Fd
      BY <1>1, <1>6 DEF OpenFds
    <3>2. \A fd \in Fd : fd # NewFd => rx'[fd] = rx[fd]
      BY <1>2 DEF IInv, TypeOK
    <3> QED
      BY <1>1, <1>5, <3>1, <3>2 DEF Readable, Wears
  <2> QED
    BY <1>1, <1>2, <1>9, <1>11, <2>1 DEF Walking, Registered, Proper
<1> QED
  BY <1>6, <1>9, <1>10, <1>12, <1>13, <1>14 DEF IInv

(***************************************************************************)
(* Before the game starts nobody is a werewolf.                            *)
(***************************************************************************)
LEMMA NoWolfWaiting ==
  ASSUME NEW g \in ManagerType(Fd), Distinct(g), Waiting(g), NEW s
  PROVE  ~game_manager_is_player_werewolf(g, s)
<1>1. find_player_by_socket(g, s) \in 0 .. Len(g.players)
  BY FindPlayer
<1>2. Len(g.players) \in Nat /\ \A i \in 1 .. Len(g.players) : g.players[i].role = "UNASSIGNED"
  BY ManagerFields DEF Waiting
<1>3. game_manager_get_player_role(g, s) = "UNASSIGNED"
  BY <1>1, <1>2 DEF game_manager_get_player_role
<1> QED
  BY <1>3 DEF game_manager_is_player_werewolf

(***************************************************************************)
(* The common part of the two admissions: the seat and the subscriptions.  *)
(***************************************************************************)
LEMMA AdmissionEffect ==
  ASSUME IInv, InLobby, add_player_accepts(gm, NewFd)
  PROVE  LET h == game_manager_add_player(gm, NewFd)
             common == SubscribeTo(CommonChannels, NewFd)
         IN
         /\ h \in ManagerType(Fd) /\ h.player_count = gm.player_count + 1
         /\ Distinct(h) /\ Living(h) /\ Counted(h) /\ Phased(h) /\ Waiting(h)
         /\ NewFd \in LowFds
         /\ game_manager_get_players_sockets(h)
              = <<NewFd>> \o game_manager_get_players_sockets(gm)
         /\ common \in [ChannelNames -> Seq(LowFds)]
         /\ \A c \in ChannelNames : Proper(LowFds, common[c])
         /\ \A c \in CommonChannels : ToSet(channels[c]) \union {NewFd} \subseteq ToSet(common[c])
         /\ "werewolf" \in ChannelNames /\ ToSet(common["werewolf"]) = {}
<1> DEFINE h == game_manager_add_player(gm, NewFd)
           common == SubscribeTo(CommonChannels, NewFd)
<1>1. /\ Good(Fd, gm) /\ gm \in ManagerType(Fd) /\ Distinct(gm)
      /\ gm.state.current_phase = "LOBBY" /\ gm.player_count < MaxPlayers
      /\ NewFd \in Fd /\ NewFd \in LowFds
  BY NewFdIsFree DEF IInv, Registered, Good, InLobby, add_player_accepts
<1>2. /\ h \in ManagerType(Fd)
      /\ Distinct(h) /\ Living(h) /\ Counted(h) /\ Phased(h) /\ Waiting(h)
  BY <1>1, SeatTaken
<1>3. h.player_count = gm.player_count + 1
  BY <1>1, AddEffect
<1>4. game_manager_get_players_sockets(h) = <<NewFd>> \o game_manager_get_players_sockets(gm)
  BY <1>1, <1>2, SocketsAdded
<1>5. /\ "werewolf" \in ChannelNames \ CommonChannels /\ CommonChannels \subseteq ChannelNames
      /\ \A c \in ChannelNames : Proper(LowFds, channels[c])
  BY DEF ChannelNames, CommonChannels, IInv, Subscribed
<1>6. common = [c \in ChannelNames |-> IF c \in CommonChannels
                                       THEN subscribe_to_channel(channels[c], NewFd)
                                       ELSE channels[c]]
  BY DEF SubscribeTo
<1> HIDE DEF h, common
<1>7. \A c \in ChannelNames : Proper(LowFds, common[c])
  BY <1>1, <1>5, <1>6, SubscribesLow
<1>8. common \in [ChannelNames -> Seq(LowFds)]
  BY <1>6, <1>7 DEF Proper
<1>9. \A c \in CommonChannels : ToSet(common[c]) = ToSet(channels[c]) \union {NewFd}
  BY <1>1, <1>5, <1>6, SubscribesLow
<1>10. ToSet(common["werewolf"]) = {}
  <2>1. common["werewolf"] = channels["werewolf"]
    BY <1>5, <1>6
  <2> QED
    BY <2>1 DEF IInv, Subscribed
<1> QED
  BY <1>1, <1>2, <1>3, <1>4, <1>5, <1>7, <1>8, <1>9, <1>10 DEF h, common

\* An admission that does not fill the table keeps the invariant and sends nothing.
LEMMA AdmitKeeps ==
  ASSUME IInv, Admit
  PROVE  /\ IInv' /\ out' \in Seq({}) /\ OpenFds \subseteq OpenFds'
<1> DEFINE h == game_manager_add_player(gm, NewFd)
           common == SubscribeTo(CommonChannels, NewFd)
<1>1. /\ Accept /\ InLobby /\ add_player_accepts(gm, NewFd)
      /\ gm.player_count + 1 < MaxPlayers
  BY DEF Admit
<1>2. PICK l \in NewLinks : Seat(NewFd, l, h, common, <<>>)
  BY DEF Admit
<1>3. /\ h \in ManagerType(Fd) /\ h.player_count = gm.player_count + 1
      /\ Distinct(h) /\ Living(h) /\ Counted(h) /\ Phased(h) /\ Waiting(h)
      /\ NewFd \in LowFds
      /\ game_manager_get_players_sockets(h)
           = <<NewFd>> \o game_manager_get_players_sockets(gm)
      /\ common \in [ChannelNames -> Seq(LowFds)]
      /\ \A c \in ChannelNames : Proper(LowFds, common[c])
      /\ \A c \in CommonChannels : ToSet(channels[c]) \union {NewFd} \subseteq ToSet(common[c])
      /\ ToSet(common["werewolf"]) = {}
  BY <1>1, AdmissionEffect
<1> HIDE DEF h, common
<1>4. Good(Fd, h)
  BY <1>1, <1>3 DEF Good
<1>5. \A fd \in OpenFds \union {NewFd} :
        fd \in ToSet(common["werewolf"]) <=> game_manager_is_player_werewolf(h, fd)
  BY <1>3, NoWolfWaiting
<1>6. <<>> \in Seq({}) /\ Sendable({})
  BY DEF Sendable
<1> QED
  BY <1>1, <1>2, <1>3, <1>4, <1>5, <1>6, SeatKeeps

\* The notices that may be sent of a started game g.
Notices(g) ==
  {Message(s, "ANNOUNCEMENT", "role", game_manager_get_player_role(g, s)) :
     s \in ToSet(game_manager_get_players_sockets(g))}
  \union {Message(s, "ANNOUNCEMENT", "team", Pack(g) \ {s}) : s \in Pack(g)}

(***************************************************************************)
(* A start announces roles to their holders and packs to their wolves.     *)
(***************************************************************************)
LEMMA NoticesSent ==
  ASSUME NEW g, NEW S, game_manager_get_players_sockets(g) \in Seq(S)
  PROVE  StartNotices(g) \in Seq(Notices(g))
<1> DEFINE socks == game_manager_get_players_sockets(g)
           T == Notices(g)
           N == Len(socks)
           seqs == [i \in 1 .. N |-> NoticesTo(g, socks[i])]
<1>1. N \in Nat /\ DOMAIN socks = 1 .. N
  BY LenProperties
<1>2. ASSUME NEW s \in ToSet(socks) PROVE NoticesTo(g, s) \in Seq(T)
  <2> DEFINE a == Message(s, "ANNOUNCEMENT", "role", game_manager_get_player_role(g, s))
             b == Message(s, "ANNOUNCEMENT", "team", Pack(g) \ {s})
  <2>1. NoticesTo(g, s) \in {<<a>> \o <<b>>, <<a>>} /\
        (NoticesTo(g, s) = <<a>> \o <<b>> => game_manager_is_player_werewolf(g, s)
                                             \/ NoticesTo(g, s) = <<a>>)
    BY DEF NoticesTo
  <2>2. a \in T
    BY DEF Notices
  <2>3. game_manager_is_player_werewolf(g, s) => b \in T
    BY DEF Notices, Pack
  <2> HIDE DEF a, b, T
  <2>4. <<a>> \in Seq(T)
    BY <2>2
  <2>5. game_manager_is_player_werewolf(g, s) => <<a>> \o <<b>> \in Seq(T)
    <3>1. game_manager_is_player_werewolf(g, s) => <<b>> \in Seq(T)
      BY <2>3
    <3> QED
      BY <2>4, <3>1, ConcatProperties
  <2> QED
    BY <2>1, <2>4, <2>5
<1> HIDE DEF N, T
<1>3. seqs \in [1 .. N -> Seq(T)]
  BY <1>1, <1>2 DEF ToSet
<1>4. seqs \in Seq(Seq(T))
  BY <1>1, <1>3
<1>5. FlattenSeq(seqs) \in Seq(T)
  <2> HIDE DEF seqs
  <2> QED
    BY <1>4, FlattenType
<1>6. StartNotices(g) = FlattenSeq(seqs)
  BY <1>1 DEF StartNotices
<1> QED
  BY <1>5, <1>6 DEF T

\* The admission that starts the game keeps the invariant and sends the notices.
LEMMA AdmitLastKeeps ==
  ASSUME IInv, AdmitLast
  PROVE  /\ IInv' /\ out' \in Seq(Notices(gm')) /\ OpenFds \subseteq OpenFds'
         /\ ~InLobby'
<1> DEFINE h == game_manager_add_player(gm, NewFd)
           common == SubscribeTo(CommonChannels, NewFd)
<1>1. /\ Accept /\ InLobby /\ add_player_accepts(gm, NewFd)
      /\ gm.player_count + 1 = MaxPlayers
  BY DEF AdmitLast
<1>2. PICK l \in NewLinks, seat \in Seatings :
        Seat(NewFd, l, game_manager_start_game(h, seat),
             [common EXCEPT !["werewolf"] = SubscribePack(common["werewolf"],
                                                          game_manager_start_game(h, seat))],
             StartNotices(game_manager_start_game(h, seat)))
  BY DEF AdmitLast
<1>3. /\ h \in ManagerType(Fd) /\ h.player_count = gm.player_count + 1
      /\ Distinct(h) /\ Living(h) /\ Counted(h) /\ Phased(h) /\ Waiting(h)
      /\ NewFd \in LowFds
      /\ game_manager_get_players_sockets(h)
           = <<NewFd>> \o game_manager_get_players_sockets(gm)
      /\ common \in [ChannelNames -> Seq(LowFds)]
      /\ \A c \in ChannelNames : Proper(LowFds, common[c])
      /\ \A c \in CommonChannels : ToSet(channels[c]) \union {NewFd} \subseteq ToSet(common[c])
      /\ "werewolf" \in ChannelNames /\ ToSet(common["werewolf"]) = {}
  BY <1>1, AdmissionEffect
<1> HIDE DEF h, common
<1> DEFINE game == game_manager_start_game(h, seat)
           socks == game_manager_get_players_sockets(game)
           subs == [common EXCEPT !["werewolf"] = SubscribePack(common["werewolf"], game)]
<1>4. Good(Fd, game) /\ game.state.is_game_started
  BY <1>1, <1>3, GameStarted
<1>5. socks = <<NewFd>> \o game_manager_get_players_sockets(gm)
  BY <1>1, <1>3, SocketsStarted
<1>6. game.state.current_phase # "LOBBY"
  BY <1>4 DEF Good, Phased
<1>7. Seat(NewFd, l, game, subs, StartNotices(game))
  BY <1>2
<1> HIDE DEF game
<1>8. clients \in Seq(LowFds) /\ socks \in Seq(LowFds)
  <2>1. clients \in Seq(Fd) /\ ToSet(clients) \subseteq LowFds
    BY DEF IInv, TypeOK, Registered
  <2>2. clients \in Seq(LowFds)
    <3>1. /\ Len(clients) \in Nat /\ clients \in [1 .. Len(clients) -> Fd]
          /\ ToSet(clients) = {clients[i] : i \in 1 .. Len(clients)}
      BY <2>1, LenProperties DEF ToSet
    <3>2. clients \in [1 .. Len(clients) -> LowFds]
      BY <2>1, <3>1
    <3> QED
      BY <3>1, <3>2
  <2> QED
    BY <1>3, <1>5, <2>2, PrependEffect DEF IInv, Registered
<1>9. ToSet(socks) = OpenFds \union {NewFd}
  BY <1>3, <1>5, <1>8, PrependEffect DEF IInv, Registered
<1> DEFINE pack == SubscribePack(common["werewolf"], game)
<1>10. Proper(LowFds, pack) /\ ToSet(pack) = Pack(game)
  <2> DEFINE q == common["werewolf"]
  <2>1. Proper(LowFds, q) /\ ToSet(q) = {}
    BY <1>3
  <2> HIDE DEF q
  <2>2. /\ Proper(LowFds, SubscribePack(q, game))
        /\ ToSet(SubscribePack(q, game)) = ToSet(q) \union Pack(game)
    BY <1>8, <2>1, PackSubscribed
  <2> QED
    BY <2>1, <2>2 DEF q
<1> HIDE DEF pack
<1>11. /\ subs = [common EXCEPT !["werewolf"] = pack]
       /\ subs["werewolf"] = pack
       /\ \A c \in ChannelNames : c # "werewolf" => subs[c] = common[c]
  BY <1>3 DEF pack
<1>12. /\ subs \in [ChannelNames -> Seq(LowFds)]
       /\ \A c \in ChannelNames : Proper(LowFds, subs[c])
  BY <1>3, <1>10, <1>11 DEF Proper
<1>13. \A c \in CommonChannels : ToSet(channels[c]) \union {NewFd} \subseteq ToSet(subs[c])
  <2>1. \A c \in CommonChannels : c \in ChannelNames /\ c # "werewolf"
    BY DEF ChannelNames, CommonChannels
  <2> QED
    BY <1>3, <1>11, <2>1
<1>14. \A fd \in OpenFds \union {NewFd} :
         fd \in ToSet(subs["werewolf"]) <=> game_manager_is_player_werewolf(game, fd)
  BY <1>9, <1>10, <1>11 DEF Pack
<1>15. StartNotices(game) \in Seq(Notices(game))
  BY <1>8, NoticesSent
<1>16. Sendable(Notices(game))
  <2>1. ToSet(socks) \subseteq Fd /\ Pack(game) \subseteq ToSet(socks)
    BY <1>3, <1>9, LowFdsCounted DEF Pack, OpenFds
  <2> QED
    BY <2>1 DEF Sendable, Notices, Message, MessageKinds
<1> DEFINE T == Notices(game)
           messages == StartNotices(game)
<1>17. messages \in Seq(T) /\ Sendable(T) /\ Seat(NewFd, l, game, subs, messages)
  BY <1>7, <1>15, <1>16
<1>18. gm' = game
  BY <1>7 DEF Seat
<1> HIDE DEF T, messages, subs
<1>19. /\ IInv' /\ out' \in Seq(T) /\ OpenFds \subseteq OpenFds'
  BY <1>1, <1>3, <1>4, <1>5, <1>6, <1>12, <1>13, <1>14, <1>17, SeatKeeps
<1>20. ~InLobby'
  BY <1>6, <1>18 DEF InLobby
<1> QED
  BY <1>18, <1>19, <1>20 DEF T

-----------------------------------------------------------------------------
(* What a client types.                                                    *)

\* What a buffer read from fd can make the server send: before the start,
\* whispers only.
Replies(fd, buffer) ==
  {m \in {Message(fd, "WEREWOLF", "talk", buffer), Message(fd, "SERVER", "refusal", buffer)} :
     InNight}
  \union {Message(s, "WHISPER", "whisper", buffer) :
            s \in {t \in Addressees(buffer[1].to) \union {fd} : buffer[1].kind = "whisper"}}

\* Kernel k has become h by the sends of messages in T.
Sent(T, k, h) == h \in KernelType(T) /\ Worn(k.link, h.link)

\* The players' sockets are descriptors.
LEMMA PlayerSockets ==
  ASSUME IInv
  PROVE  /\ Len(gm.players) \in Nat /\ DOMAIN gm.players = 1 .. Len(gm.players)
         /\ \A i \in 1 .. Len(gm.players) : gm.players[i].socket_id \in Fd
<1>1. gm \in ManagerType(Fd)
  BY DEF IInv, TypeOK
<1>2. /\ gm.players \in Seq(PlayerType(Fd))
      /\ Len(gm.players) \in Nat /\ DOMAIN gm.players = 1 .. Len(gm.players)
  BY <1>1, ManagerFields
<1>3. \A i \in 1 .. Len(gm.players) : gm.players[i] \in PlayerType(Fd)
  BY <1>2, ElementOfSeq
<1> QED
  BY <1>2, <1>3 DEF PlayerType

(***************************************************************************)
(* A whisper reaches a player with the number it names and comes back to   *)
(* its sender.                                                             *)
(***************************************************************************)
LEMMA WhisperEffect ==
  ASSUME IInv, NEW fd \in Fd, NEW buffer, buffer[1].kind = "whisper",
         NEW T, Replies(fd, buffer) \subseteq T, Sendable(T), NEW k \in KernelType(T)
  PROVE  Sent(T, k, handle_whisper_command(k, fd, buffer))
<1> DEFINE to == game_manager_get_socket_by_player_number(gm, buffer[1].to)
           copy(s) == Message(s, "WHISPER", "whisper", buffer)
           h == handle_whisper_command(k, fd, buffer)
<1>1. CASE to <= 0
  <2>1. h = k
    BY <1>1 DEF handle_whisper_command
  <2> QED
    BY <2>1 DEF Sent, Worn, Wears
<1>2. CASE ~(to <= 0)
  <2> DEFINE I == {i \in 1 .. Len(gm.players) :
                     gm.players[i].player_number = buffer[1].to}
  <2>1. /\ Len(gm.players) \in Nat /\ DOMAIN gm.players = 1 .. Len(gm.players)
        /\ \A i \in 1 .. Len(gm.players) : gm.players[i].socket_id \in Fd
    BY PlayerSockets
  <2>2. SelectInSeq(gm.players, LAMBDA p : p.player_number = buffer[1].to)
          = IF I # {} THEN Min(I) ELSE 0
    BY DEF SelectInSeq
  <2>3. CASE I = {}
    <3>1. to = -1
      BY <2>2, <2>3 DEF game_manager_get_socket_by_player_number
    <3> QED
      BY <1>2, <3>1
  <2>4. CASE I # {}
    <3>1. Min(I) \in I
      <4>1. I \subseteq Nat
        BY <2>1
      <4> QED
        BY <2>4, <4>1, MinIsLeast
    <3>2. Min(I) # 0
      BY <2>1, <3>1
    <3>3. to = gm.players[Min(I)].socket_id
      <4> HIDE DEF I
      <4> QED
        BY <2>2, <2>4, <3>2 DEF game_manager_get_socket_by_player_number
    <3>4. to \in Addressees(buffer[1].to) /\ to \in Fd
      BY <2>1, <3>1, <3>3 DEF Addressees
    <3> HIDE DEF to
    <3>5. copy(to) \in T /\ copy(fd) \in T
      BY <3>4 DEF Replies
    <3>6. copy(to).to = to /\ \A m \in T : m.to \in Fd
      BY DEF Message, Sendable
    <3>7. h = IF Sends(k, to) THEN SendAll(k, <<copy(to), copy(fd)>>) ELSE SendTo(k, copy(to))
      BY <1>2 DEF handle_whisper_command, to
    <3> HIDE DEF copy, h
    <3>8. <<copy(to), copy(fd)>> \in Seq(T)
      BY <3>5
    <3>9. Sent(T, k, SendAll(k, <<copy(to), copy(fd)>>))
      BY <3>6, <3>8, SendAllEffect DEF Sent
    <3>10. Sent(T, k, SendTo(k, copy(to)))
      BY <3>4, <3>5, <3>6, SendToEffect DEF Sent
    <3> QED
      BY <3>7, <3>9, <3>10 DEF h
  <2> QED
    BY <2>3, <2>4
<1> QED
  BY <1>1, <1>2

(***************************************************************************)
(* A buffer is a whisper, or speech that comes back to the speaker, or     *)
(* makes nothing be sent: there is no day to forward it in.                *)
(***************************************************************************)
LEMMA BufferEffect ==
  ASSUME IInv, NEW fd \in Fd, NEW buffer,
         NEW T, Replies(fd, buffer) \subseteq T, Sendable(T)
  PROVE  Sent(T, Kernel, handle_buffer(fd, buffer))
<1> DEFINE done == handle_if_command(Kernel, fd, buffer)
           talk == Message(fd, "WEREWOLF", "talk", buffer)
           refusal == Message(fd, "SERVER", "refusal", buffer)
           spoken == handle_speech(done, fd, buffer)
<1>1. Kernel \in KernelType(T)
  BY DEF Kernel, KernelType, IInv, TypeOK
<1>2. Sent(T, Kernel, Kernel)
  BY <1>1 DEF Sent, Worn, Wears
<1>3. Sent(T, Kernel, done)
  <2>1. CASE buffer[1].kind = "whisper"
    BY <1>1, <2>1, WhisperEffect DEF handle_if_command
  <2>2. CASE buffer[1].kind # "whisper"
    BY <1>2, <2>2 DEF handle_if_command
  <2> QED
    BY <2>1, <2>2
<1>4. gm.state.current_phase \in {"LOBBY", "NIGHT"}
  BY DEF IInv, Registered, Good, Phased
<1>5. talk.to = fd /\ refusal.to = fd /\ (InNight => talk \in T /\ refusal \in T)
  BY DEF Replies, Message
<1>6. \/ spoken = done
      \/ InNight /\ spoken \in {SendTo(done, talk), SendTo(done, refusal)}
  BY <1>4 DEF handle_speech, InNight
<1>7. handle_buffer(fd, buffer) \in {Kernel, done, spoken}
  BY DEF handle_buffer
<1> HIDE DEF done, talk, refusal, spoken
<1>8. ASSUME InNight, NEW m \in {talk, refusal} PROVE Sent(T, Kernel, SendTo(done, m))
  <2>1. done \in KernelType(T) /\ m \in T /\ m.to \in Fd
    BY <1>3, <1>5, <1>8 DEF Sent
  <2>2. /\ SendTo(done, m) \in KernelType(T)
        /\ Worn(done.link, SendTo(done, m).link)
    BY <2>1, SendToEffect
  <2> QED
    BY <1>3, <2>2 DEF Sent, Worn, Wears
<1> QED
  BY <1>2, <1>3, <1>6, <1>7, <1>8

\* The handling of a read buffer keeps the invariant and sends only replies to it.
LEMMA DataKeeps ==
  ASSUME IInv, ClientData
  PROVE  /\ IInv' /\ out' \in Seq(Replies(Visited, rx[Visited])) /\ OpenFds' = OpenFds
<1> DEFINE fd == Visited
           T == Replies(fd, rx[fd])
           k == handle_buffer(fd, rx[fd])
<1>1. /\ pc = "walk" /\ pc' = pc /\ link' = k.link /\ Return(k)
      /\ rx' = [rx EXCEPT ![fd] = <<>>]
      /\ UNCHANGED <<gm, listening, clients, headFreed, channels, read_fds, pending, arrived>>
  BY DEF ClientData, Visit, Loop, gameVars
<1>2. /\ fd \in OpenFds /\ fd \in Fd
      /\ Proper(Fd, current') /\ ToSet(current') \subseteq ToSet(current) \ {fd}
  BY VisitEffect DEF ClientData, OpenFds
<1>3. Sendable(T)
  <2>1. Addressees(rx[fd][1].to) \subseteq Fd
    <3>1. \A i \in DOMAIN gm.players : gm.players[i].socket_id \in Fd
      BY PlayerSockets
    <3> QED
      BY <3>1 DEF Addressees
  <2> QED
    BY <1>2, <2>1 DEF Sendable, Replies, Message, MessageKinds
<1>4. Sent(T, Kernel, k)
  BY <1>2, <1>3, BufferEffect
<1> HIDE DEF fd, T, k
<1>5. /\ k \in KernelType(T)
      /\ \A s \in Fd : Wears(link[s], link'[s])
      /\ link' \in [Fd -> LinkStates]
  BY <1>1, <1>4 DEF Sent, Worn, Kernel, KernelType
<1>6. /\ out' \in Seq(T) /\ server' \in {"running", "sigpipe"}
      /\ \A i \in DOMAIN out' : out'[i].to \in Fd /\ out'[i].what \in MessageKinds
  BY <1>1, <1>3, <1>5, ReturnEffect
<1>7. OpenFds' = OpenFds /\ Registered' /\ Subscribed'
  BY <1>1, <1>5, RegistersKept DEF IInv, Wears
<1>8. TypeOK'
  <2>1. rx' \in [Fd -> Queues]
    BY <1>1, QueueFacts DEF IInv, TypeOK
  <2> QED
    BY <1>1, <1>2, <1>5, <1>6, <2>1 DEF IInv, TypeOK, Proper
<1>9. Walking'
  <2>1. \A s \in ToSet(current') \cap read_fds : Readable(s)'
    <3>1. \A s \in ToSet(current') : s \in ToSet(current) /\ s # fd /\ s \in Fd
      BY <1>2 DEF IInv, Walking, OpenFds
    <3>2. \A s \in ToSet(current) \cap read_fds : Readable(s)
      BY <1>1 DEF IInv, Walking
    <3>3. \A s \in Fd : s # fd => rx'[s] = rx[s]
      BY <1>1 DEF IInv, TypeOK
    <3> QED
      BY <1>5, <3>1, <3>2, <3>3 DEF Readable, Wears
  <2> QED
    BY <1>1, <1>2, <1>7, <2>1 DEF IInv, Walking, Proper
<1> QED
  BY <1>6, <1>7, <1>8, <1>9 DEF IInv, T, fd

-----------------------------------------------------------------------------
(***************************************************************************)
(* A step that leaves the server alone, its last messages apart.           *)
(***************************************************************************)
LEMMA StillKeeps ==
  ASSUME IInv, UNCHANGED <<gameVars, loopVars, server, socketVars>>,
         \A i \in DOMAIN out' : out'[i].to \in Fd /\ out'[i].what \in MessageKinds
  PROVE  IInv' /\ (InLobby' <=> InLobby) /\ (Running' <=> Running)
<1>1. UNCHANGED <<gm, listening, clients, headFreed, channels, pc, current, read_fds,
                  server, link, rx, pending, arrived>>
  BY DEF gameVars, loopVars, socketVars
<1>2. OpenFds' = OpenFds /\ Registered' /\ Subscribed'
  BY <1>1, RegistersKept DEF IInv
<1>3. TypeOK' /\ Walking'
  BY <1>1, <1>2 DEF IInv, TypeOK, Walking, Readable
<1> QED
  BY <1>1, <1>2, <1>3 DEF IInv, InLobby, Running

\* Each step of the server or of a peer keeps the invariant.
LEMMA NextKeeps ==
  ASSUME IInv, [Next]_vars
  PROVE  IInv'
<1>1. CASE PeerStep
  BY <1>1, PeerKeeps
<1>2. CASE \/ SetupRefused \/ SetupFails \/ SetupSucceeds \/ SetupConnected \/ SetupDone
           \/ SelectFails \/ SelectReturns \/ NothingToAccept \/ UseFreedNode \/ WalkDone
  BY <1>2, QuietKeeps
<1>3. CASE SetupDisconnected
  BY <1>3, DisconnectedKeeps
<1>4. CASE ClientGone
  BY <1>4, GoneKeeps
<1>5. CASE ConnectionDropped
  BY <1>5, DroppedKeeps
<1>6. CASE RefuseConnection
  BY <1>6, RefuseKeeps
<1>7. CASE Admit
  BY <1>7, AdmitKeeps
<1>8. CASE AdmitLast
  BY <1>8, AdmitLastKeeps
<1>9. CASE ClientData
  BY <1>9, DataKeeps
<1>10. CASE UNCHANGED vars
  BY <1>10, StillKeeps DEF vars, IInv, TypeOK
<1> QED
  BY <1>1, <1>2, <1>3, <1>4, <1>5, <1>6, <1>7, <1>8, <1>9, <1>10 DEF Next, ServerStep

(***************************************************************************)
(* The inductive invariant holds in every state of the event loop: the     *)
(* registers of who is connected are in step, the walk visits open         *)
(* descriptors only, and the subscriptions stay within the descriptors     *)
(* that a full table can use.                                              *)
(***************************************************************************)
THEOREM Invariance == Spec => []IInv
BY InitHolds, NextKeeps, PTL DEF Spec

(***************************************************************************)
(* Type correctness: the loop's variables, the channels, the sockets and   *)
(* the game manager keep their shape, whatever the peers do and however    *)
(* descriptors are reused.                                                 *)
(***************************************************************************)
THEOREM TypeCorrect == Spec => []TypeOK
<1>1. IInv => TypeOK
  BY DEF IInv
<1> QED
  BY <1>1, Invariance, PTL

(***************************************************************************)
(* The client list, the game manager's player list and the open            *)
(* descriptors always hold the same sockets: accept, a failed read and     *)
(* setup_fd_sets' check update the three one by one, and never let them    *)
(* drift apart.                                                            *)
(***************************************************************************)
THEOREM RegistersRight == Spec => []RegistriesAgree
<1>1. IInv => RegistriesAgree
  <2> SUFFICES ASSUME IInv PROVE RegistriesAgree
    OBVIOUS
  <2> QED
    BY ClientsCounted DEF IInv, Registered, RegistriesAgree
<1> QED
  BY <1>1, Invariance, PTL

(***************************************************************************)
(* Every open connection is in the three common channels, and in the       *)
(* werewolf channel exactly when its player is a werewolf, although        *)
(* setup_fd_sets tells no channel of the clients it removes and a full     *)
(* channel refuses silently.                                               *)
(***************************************************************************)
THEOREM SubscriptionsRight == Spec => []SubscriptionsServed
<1>1. IInv => SubscriptionsServed
  <2> SUFFICES ASSUME IInv PROVE SubscriptionsServed
    OBVIOUS
  <2>1. \A q, s : is_subscribed(q, s) <=> s \in ToSet(q)
    BY DEF is_subscribed, ToSet
  <2> QED
    BY <2>1 DEF IInv, Subscribed, SubscriptionsServed
<1> QED
  BY <1>1, Invariance, PTL

(***************************************************************************)
(* What the steps send, by the step.                                       *)
(***************************************************************************)
LEMMA OutByStep ==
  ASSUME IInv, Next
  PROVE  \/ out' = <<>>
         \/ RefuseConnection /\ out' \in Seq({Message(NewFd, "ANNOUNCEMENT", "started", {})})
         \/ AdmitLast /\ out' \in Seq(Notices(gm'))
         \/ ClientData /\ out' \in Seq(Replies(Visited, rx[Visited]))
<1>1. CASE Admit
  <2>1. out' \in Seq({})
    BY <1>1, AdmitKeeps
  <2>2. Len(out') \in Nat /\ \A i \in 1 .. Len(out') : out'[i] \in {}
    BY <2>1, LenProperties, ElementOfSeq
  <2>3. Len(out') = 0
    BY <2>2
  <2> QED
    BY <2>1, <2>3, EmptySeq
<1>2. CASE RefuseConnection
  <2> DEFINE m == Message(NewFd, "ANNOUNCEMENT", "started", {})
  <2>1. PICK l \in NewLinks : Return(SendTo(Opened(l), m))
    BY <1>2 DEF RefuseConnection
  <2>2. m.to = NewFd /\ NewFd \in Fd
    BY NewFdIsFree DEF Message, IInv
  <2> HIDE DEF m
  <2>3. Opened(l) \in KernelType({m})
    BY OpenedEffect
  <2>4. SendTo(Opened(l), m) \in KernelType({m})
    BY <2>2, <2>3, SendToEffect
  <2>5. out' \in Seq({m})
    BY <2>1, <2>4 DEF Return, KernelType
  <2> QED
    BY <1>2, <2>5 DEF m
<1>3. \/ out' = <<>> \/ Admit \/ AdmitLast \/ ClientData \/ RefuseConnection
  BY DEF Next, ServerStep, SetupRefused, SetupFails, SetupSucceeds, Start, SetupConnected,
         SetupDisconnected, SetupDone, SelectFails, SelectReturns, NothingToAccept,
         ConnectionDropped, UseFreedNode, ClientGone, WalkDone, PeerStep, ClientConnects,
         ClientSends, ClientCloses, ConnectionAnswers, ConnectionReset, ClientStalls,
         ClientCatchesUp, Becomes, Peer
<1> QED
  BY <1>1, <1>2, <1>3, AdmitLastKeeps, DataKeeps

\* The same of each of the messages.
LEMMA WhatIsSent ==
  ASSUME IInv, Next, NEW i \in DOMAIN out'
  PROVE  \/ RefuseConnection /\ out'[i].what = "started"
         \/ AdmitLast /\ out'[i] \in Notices(gm')
         \/ ClientData /\ out'[i] \in Replies(Visited, rx[Visited])
<1>1. \A T : out' \in Seq(T) => out'[i] \in T
  <2> TAKE T
  <2> HAVE out' \in Seq(T)
  <2>1. i \in 1 .. Len(out')
    BY LenProperties
  <2> QED
    BY <2>1, ElementOfSeq
<1>2. out' # <<>>
  OBVIOUS
<1>3. Message(NewFd, "ANNOUNCEMENT", "started", {}).what = "started"
  BY DEF Message
<1> QED
  BY <1>1, <1>2, <1>3, OutByStep

(***************************************************************************)
(* What a client types is sent to nobody else unless it began with a       *)
(* whisper, and then only to a player with the number it named.            *)
(***************************************************************************)
THEOREM SpeechConfined == Spec => TextConfined
<1>1. IInv /\ [Next]_vars =>
        [\A i \in DOMAIN out' :
           LET m == out'[i] IN
             m.what \in {"whisper", "talk"} /\ m.to # Visited =>
               m.about[1].kind = "whisper" /\ m.to \in Addressees(m.about[1].to)]_vars
  <2> SUFFICES ASSUME IInv, Next, NEW i \in DOMAIN out',
                      out'[i].what \in {"whisper", "talk"}, out'[i].to # Visited
               PROVE  /\ out'[i].about[1].kind = "whisper"
                      /\ out'[i].to \in Addressees(out'[i].about[1].to)
    BY DEF Addressees
  <2>1. CASE out'[i].what = "started"
    BY <2>1
  <2>2. CASE out'[i] \in Notices(gm')
    BY <2>2 DEF Notices, Message
  <2>3. CASE out'[i] \in Replies(Visited, rx[Visited])
    BY <2>3 DEF Replies, Message
  <2> QED
    BY <2>1, <2>2, <2>3, WhatIsSent
<1> QED
  BY <1>1, Invariance, PTL DEF Spec, TextConfined

(***************************************************************************)
(* The server closes the connection of no client that is still there: its  *)
(* two ways to close one look at the connection itself, and what select    *)
(* found readable before an accept or another close stays so.              *)
(***************************************************************************)
THEOREM NoClientDropped == Spec => NoLiveClientDropped
<1>1. IInv /\ [Next]_vars =>
        [\A fd \in Fd : link[fd] \in {"up", "full"} => link'[fd] # "none"]_vars
  <2> SUFFICES ASSUME IInv, Next, NEW fd \in Fd, link[fd] \in {"up", "full"}
               PROVE  link'[fd] # "none"
    OBVIOUS
  <2>1. link[fd] # "none" /\ fd \in OpenFds /\ link \in [Fd -> LinkStates]
    BY DEF OpenFds, IInv, TypeOK
  <2>2. CASE link' = link
    BY <2>1, <2>2
  <2>3. CASE PeerStep
    BY <2>1, <2>3, PeerEffect
  <2>4. CASE SetupDisconnected
    <3>1. Head(current) # fd
      BY <2>4 DEF SetupDisconnected, is_socket_connected
    <3>2. link' = [link EXCEPT ![Head(current)] = "none"]
      BY <2>4 DEF SetupDisconnected, close
    <3> QED
      BY <2>1, <3>1, <3>2
  <2>5. CASE ClientGone
    <3>1. Visited # fd
      <4>1. Readable(Visited) /\ rx[Visited] = <<>>
        BY <2>5, VisitEffect DEF ClientGone
      <4> QED
        BY <4>1 DEF Readable
    <3>2. link' = [link EXCEPT ![Visited] = "none"]
      BY <2>5 DEF ClientGone, close
    <3> QED
      BY <2>1, <3>1, <3>2
  <2>6. CASE Admit \/ AdmitLast \/ ClientData
    <3>1. OpenFds \subseteq OpenFds'
      BY <2>6, AdmitKeeps, AdmitLastKeeps, DataKeeps
    <3> QED
      BY <2>1, <3>1 DEF OpenFds
  <2>7. \/ link' = link \/ PeerStep \/ SetupDisconnected \/ ClientGone
        \/ Admit \/ AdmitLast \/ ClientData
    BY DEF Next, ServerStep, SetupRefused, SetupFails, SetupSucceeds, Start, SetupConnected,
           SetupDone, SelectFails, SelectReturns, NothingToAccept, ConnectionDropped,
           RefuseConnection, UseFreedNode, WalkDone, socketVars
  <2> QED
    BY <2>2, <2>3, <2>4, <2>5, <2>6, <2>7
<1> QED
  BY <1>1, Invariance, PTL DEF Spec, NoLiveClientDropped

-----------------------------------------------------------------------------
(* Who is told what at the start.                                          *)

\* kept[i] is what the first i messages of the sequence hold for fd.
Keeping(kept, messages, fd, T) ==
  /\ kept[0] = <<>>
  /\ \A i \in 0 .. Len(messages) : kept[i] \in Seq(T)
  /\ \A i \in 1 .. Len(messages) :
       kept[i] = IF messages[i].to = fd THEN Append(kept[i - 1], messages[i]) ELSE kept[i - 1]

\* Mail keeps, message by message, those for one descriptor.
LEMMA MailSteps ==
  ASSUME NEW T, NEW messages \in Seq(T), NEW fd
  PROVE  \E kept : Keeping(kept, messages, fd, T) /\ Mail(messages, fd) = kept[Len(messages)]
<1> DEFINE N == Len(messages)
           D == Seq(T)
           step == [i \in Nat |-> [q \in D |-> IF i \in 1 .. N /\ messages[i].to = fd
                                                THEN Append(q, messages[i]) ELSE q]]
           Runs(f) == f = [i \in 0 .. N |->
                             IF i = 0 THEN <<>>
                             ELSE IF messages[i].to = fd THEN Append(f[i - 1], messages[i])
                             ELSE f[i - 1]]
           kept == CHOOSE f : Runs(f)
<1>1. N \in Nat /\ \A i \in 1 .. N : messages[i] \in T
  BY LenProperties, ElementOfSeq
<1>2. <<>> \in D /\ \A q \in D, m \in T : Append(q, m) \in D
  BY AppendProperties
<1> HIDE DEF D, Runs, N
<1>3. step \in [Nat -> [D -> D]]
  BY <1>1, <1>2
<1>4. PICK f : Recursion(f, N, D, <<>>, step)
  <2> HIDE DEF step
  <2> QED
    BY <1>1, <1>2, <1>3, RecursionExists
<1>5. Runs(f)
  <2>1. ASSUME NEW i \in 1 .. N
        PROVE  f[i] = IF messages[i].to = fd THEN Append(f[i - 1], messages[i]) ELSE f[i - 1]
    <3>1. i \in Nat /\ f[i - 1] \in D
      BY <1>1, <1>4 DEF Recursion
    <3> QED
      BY <1>4, <3>1 DEF Recursion
  <2> HIDE DEF step
  <2>2. ASSUME NEW i \in 0 .. N
        PROVE  f[i] = IF i = 0 THEN <<>>
                      ELSE IF messages[i].to = fd THEN Append(f[i - 1], messages[i]) ELSE f[i - 1]
    <3>1. CASE i = 0
      BY <1>4, <3>1 DEF Recursion
    <3>2. CASE i # 0
      <4>1. i \in 1 .. N
        BY <1>1, <3>2
      <4> QED
        BY <2>1, <3>2, <4>1
    <3> QED
      BY <3>1, <3>2
  <2> QED
    BY <1>4, <2>2 DEF Runs, Recursion
<1>6. Runs(kept)
  BY <1>5
<1> HIDE DEF step, kept
<1>7. /\ kept[0] = <<>>
      /\ \A i \in 1 .. N :
           kept[i] = IF messages[i].to = fd THEN Append(kept[i - 1], messages[i]) ELSE kept[i - 1]
  <2>1. kept = [i \in 0 .. N |->
                  IF i = 0 THEN <<>>
                  ELSE IF messages[i].to = fd THEN Append(kept[i - 1], messages[i])
                  ELSE kept[i - 1]]
    BY <1>6 DEF Runs
  <2>2. 0 \in 0 .. N /\ \A i \in 1 .. N : i \in 0 .. N /\ i # 0
    BY <1>1
  <2>3. kept[0] = <<>>
    BY <2>1, <2>2
  <2>4. ASSUME NEW i \in 1 .. N
        PROVE  kept[i] = IF messages[i].to = fd THEN Append(kept[i - 1], messages[i]) ELSE kept[i - 1]
    BY <2>1, <2>2
  <2> QED
    BY <2>3, <2>4
<1>8. \A i \in 1 .. N : kept[i - 1] \in D => kept[i] \in D
  BY <1>1, <1>2, <1>7
<1>9. \A i \in 0 .. N : kept[i] \in D
  BY <1>1, <1>2, <1>7, <1>8, KeptByRecursion
<1>10. Keeping(kept, messages, fd, T)
  BY <1>7, <1>9 DEF Keeping, D, N
<1>11. Mail(messages, fd) = kept[N]
  BY DEF Mail, kept, Runs, N
<1> QED
  BY <1>10, <1>11 DEF N

(***************************************************************************)
(* Two such selections agree as far as their messages do.                  *)
(***************************************************************************)
LEMMA MailAgrees ==
  ASSUME NEW T, NEW p, NEW q, NEW fd, NEW a, NEW b, NEW N \in Nat,
         Keeping(a, p, fd, T), Keeping(b, q, fd, T), N <= Len(p), N <= Len(q),
         Len(p) \in Nat, Len(q) \in Nat,
         \A i \in 1 .. N : p[i] = q[i]
  PROVE  a[N] = b[N]
<1> DEFINE P == {n \in Nat : n <= N => a[n] = b[n]}
<1>1. 0 \in P
  BY DEF Keeping
<1>2. ASSUME NEW n \in Nat, n \in P PROVE n + 1 \in P
  <2> SUFFICES ASSUME n + 1 <= N PROVE a[n + 1] = b[n + 1]
    OBVIOUS
  <2> DEFINE i == n + 1
  <2>1. i \in 1 .. N /\ i \in 1 .. Len(p) /\ i \in 1 .. Len(q) /\ i - 1 = n
    OBVIOUS
  <2>2. a[n] = b[n]
    BY <1>2
  <2> HIDE DEF i
  <2>3. a[i] = b[i]
    BY <2>1, <2>2 DEF Keeping
  <2> QED
    BY <2>3 DEF i
<1> HIDE DEF P
<1>3. N \in P
  BY <1>1, <1>2, NatInduct
<1> QED
  BY <1>3 DEF P

\* One more message is mail for the one it is to.
LEMMA MailAppended ==
  ASSUME NEW T, NEW q \in Seq(T), NEW m \in T, NEW fd
  PROVE  /\ Mail(q, fd) \in Seq(T)
         /\ Mail(Append(q, m), fd) = IF m.to = fd THEN Append(Mail(q, fd), m) ELSE Mail(q, fd)
<1> DEFINE r == Append(q, m)
           N == Len(q)
<1>1. /\ N \in Nat /\ r \in Seq(T) /\ Len(r) = N + 1
      /\ r[N + 1] = m /\ \A i \in 1 .. N : r[i] = q[i]
  BY LenProperties, AppendProperties
<1> HIDE DEF r, N
<1>2. PICK a : Keeping(a, q, fd, T) /\ Mail(q, fd) = a[N]
  BY MailSteps DEF N
<1>3. PICK b : Keeping(b, r, fd, T) /\ Mail(r, fd) = b[N + 1]
  BY <1>1, MailSteps
<1>4. a[N] = b[N]
  BY <1>1, <1>2, <1>3, MailAgrees DEF N
<1>5. b[N + 1] = IF m.to = fd THEN Append(b[N], m) ELSE b[N]
  <2>1. N + 1 \in 1 .. Len(r) /\ (N + 1) - 1 = N
    BY <1>1
  <2> QED
    BY <1>1, <1>3, <2>1 DEF Keeping
<1>6. a[N] \in Seq(T)
  BY <1>1, <1>2 DEF Keeping, N
<1> QED
  BY <1>2, <1>3, <1>4, <1>5, <1>6 DEF r

\* No message, no mail.
LEMMA NoMail ==
  ASSUME NEW fd
  PROVE  Mail(<<>>, fd) = <<>>
<1>1. <<>> \in Seq({}) /\ Len(<<>>) = 0
  OBVIOUS
<1>2. PICK a : Keeping(a, <<>>, fd, {}) /\ Mail(<<>>, fd) = a[Len(<<>>)]
  BY <1>1, MailSteps
<1> QED
  BY <1>1, <1>2 DEF Keeping

(***************************************************************************)
(* When the process has outlived the sends of a handler, a connection that *)
(* is still good was sent everything that was to it, in order, whatever    *)
(* the sends to others have done.                                          *)
(***************************************************************************)
LEMMA MailDelivered ==
  ASSUME NEW T, NEW k \in KernelType(T), NEW messages \in Seq(T),
         \A m \in T : m.to \in Fd, k.out = <<>>, NEW fd \in Fd,
         SendAll(k, messages).alive,
         SendAll(k, messages).link[fd] \in {"up", "fin", "shut"}
  PROVE  Mail(SendAll(k, messages).out, fd) = Mail(messages, fd)
<1> DEFINE N == Len(messages)
<1>1. N \in Nat /\ \A i \in 1 .. N : messages[i] \in T
  BY LenProperties, ElementOfSeq
<1>2. PICK sent : Sending(sent, k, messages, T) /\ SendAll(k, messages) = sent[N]
  BY SendAllSteps
<1>3. PICK kept : Keeping(kept, messages, fd, T) /\ Mail(messages, fd) = kept[N]
  BY MailSteps
<1> HIDE DEF N
<1> DEFINE Reached(i) == sent[i].alive /\ sent[i].link[fd] \in {"up", "fin", "shut"}
           P == {n \in Nat : n <= N /\ Reached(n) => Mail(sent[n].out, fd) = kept[n]}
<1>4. 0 \in P
  <2>1. sent[0].out = <<>> /\ kept[0] = <<>>
    BY <1>2, <1>3 DEF Sending, Keeping
  <2> QED
    BY <2>1, NoMail
<1>5. ASSUME NEW n \in Nat, n \in P PROVE n + 1 \in P
  <2> SUFFICES ASSUME n + 1 <= N, Reached(n + 1)
               PROVE  Mail(sent[n + 1].out, fd) = kept[n + 1]
    OBVIOUS
  <2> DEFINE i == n + 1
             m == messages[i]
             h == sent[n]
  <2>1. i \in 1 .. N /\ n \in 0 .. N /\ i - 1 = n /\ n <= N
    BY <1>1
  <2>2. sent[i] = SendTo(h, m) /\ h \in KernelType(T) /\ m \in T /\ m.to \in Fd
    BY <1>1, <1>2, <2>1 DEF Sending, N
  <2>3. kept[i] = IF m.to = fd THEN Append(kept[n], m) ELSE kept[n]
    BY <1>3, <2>1 DEF Keeping, N
  <2>4. Reached(i)
    OBVIOUS
  <2>5. Reached(n) => Mail(h.out, fd) = kept[n]
    BY <1>5, <2>1
  <2> HIDE DEF i, m, h
  <2>6. /\ h = [link |-> h.link, out |-> h.out, alive |-> h.alive]
        /\ h.link \in [Fd -> LinkStates] /\ h.out \in Seq(T) /\ h.alive \in BOOLEAN
    BY <2>2 DEF KernelType
  <2>7. CASE Sends(h, m.to)
    <3> DEFINE met == IF h.link[m.to] = "fin" THEN "shut" ELSE h.link[m.to]
               l == [h.link EXCEPT ![m.to] = met]
    <3>1. sent[i] = [h EXCEPT !.out = Append(h.out, m), !.link[m.to] = met]
      BY <2>2, <2>7 DEF SendTo
    <3>5. l[fd] = IF fd = m.to THEN met ELSE h.link[fd]
      BY <2>6
    <3>6. met \in {"up", "fin", "shut"} => h.link[m.to] \in {"up", "fin", "shut"}
      OBVIOUS
    <3>2. sent[i] = [link |-> l, out |-> Append(h.out, m), alive |-> h.alive]
      <4> HIDE DEF met
      <4> QED
        BY <2>6, <3>1
    <3> HIDE DEF met, l
    <3>7. h.alive /\ l[fd] \in {"up", "fin", "shut"}
      BY <2>4, <3>2
    <3>3. Reached(n)
      BY <3>5, <3>6, <3>7 DEF h
    <3>4. Mail(sent[i].out, fd) = IF m.to = fd THEN Append(Mail(h.out, fd), m)
                                  ELSE Mail(h.out, fd)
      BY <2>2, <2>6, <3>2, MailAppended
    <3> QED
      BY <2>3, <2>5, <3>3, <3>4 DEF i
  <2>8. CASE ~Sends(h, m.to)
    <3> DEFINE state == IF h.alive /\ h.link[m.to] = "rst" THEN "dead" ELSE h.link[m.to]
               ok == h.alive /\ h.link[m.to] \notin {"pipe", "dead"}
               l == [h.link EXCEPT ![m.to] = state]
    <3>1. sent[i] = [h EXCEPT !.link[m.to] = state, !.alive = ok]
      BY <2>2, <2>8 DEF SendTo
    <3>2. ok \in BOOLEAN
      BY <2>6
    <3>3. l[fd] = IF fd = m.to THEN state ELSE h.link[fd]
      BY <2>6
    <3>4. ok => h.alive
      OBVIOUS
    <3>5. state \in {"up", "fin", "shut"} => h.link[m.to] = state
      OBVIOUS
    <3>6. sent[i] = [link |-> l, out |-> h.out, alive |-> ok]
      <4> HIDE DEF ok, state
      <4> QED
        BY <2>6, <3>1
    <3> HIDE DEF ok, state, l
    <3>7. ok /\ l[fd] \in {"up", "fin", "shut"} /\ sent[i].out = h.out
      BY <2>4, <3>6
    <3>8. h.alive /\ h.link[fd] \in {"up", "fin", "shut"}
      BY <3>3, <3>4, <3>5, <3>7
    <3>9. m.to # fd
      BY <2>8, <3>8 DEF Sends
    <3>10. Mail(h.out, fd) = kept[n]
      BY <2>5, <3>8 DEF h
    <3> QED
      BY <2>3, <3>7, <3>9, <3>10 DEF i
  <2> QED
    BY <2>7, <2>8
<1> HIDE DEF P
<1>6. N \in P
  BY <1>1, <1>4, <1>5, NatInduct
<1>7. Reached(N)
  BY <1>2
<1>8. Mail(sent[N].out, fd) = kept[N]
  BY <1>1, <1>6, <1>7 DEF P
<1> QED
  BY <1>2, <1>3, <1>8

\* Messages put at the end of a sequence, one or two of them.
LEMMA OneByOne ==
  ASSUME NEW M, NEW q \in Seq(M), NEW a \in M, NEW b \in M
  PROVE  /\ q \o <<a>> = Append(q, a)
         /\ q \o (<<a>> \o <<b>>) = Append(Append(q, a), b)
         /\ Append(q, a) \in Seq(M) /\ <<a>> \in Seq(M) /\ <<a>> \o <<b>> \in Seq(M)
<1>1. <<a>> \in Seq(M) /\ <<b>> \in Seq(M)
  OBVIOUS
<1>2. <<a>> \o <<b>> \in Seq(M)
  BY <1>1, ConcatProperties
<1>3. q \o <<a>> = Append(q, a) /\ Append(q, a) \in Seq(M)
  BY AppendIsConcat, AppendProperties
<1>4. Append(Append(q, a), b) = Append(q, a) \o <<b>>
  BY <1>3, AppendIsConcat
<1>5. (q \o <<a>>) \o <<b>> = q \o (<<a>> \o <<b>>)
  BY <1>1, ConcatAssociative
<1> QED
  BY <1>1, <1>2, <1>3, <1>4, <1>5

(***************************************************************************)
(* The notices of a started game have for each player of the list its own, *)
(* in their order: the list has no socket twice.                           *)
(***************************************************************************)
LEMMA NoticesFor ==
  ASSUME NEW g, NEW S, Proper(S, game_manager_get_players_sockets(g)),
         NEW fd \in ToSet(game_manager_get_players_sockets(g))
  PROVE  Mail(StartNotices(g), fd) = NoticesTo(g, fd)
<1> DEFINE socks == game_manager_get_players_sockets(g)
           N == Len(socks)
           seqs == [i \in 1 .. N |-> NoticesTo(g, socks[i])]
           role(s) == Message(s, "ANNOUNCEMENT", "role", game_manager_get_player_role(g, s))
           team(s) == Message(s, "ANNOUNCEMENT", "team", Pack(g) \ {s})
<1>1. /\ N \in Nat /\ DOMAIN socks = 1 .. N /\ \A i \in 1 .. N : socks[i] \in S
      /\ \A i, j \in 1 .. N : socks[i] = socks[j] => i = j
      /\ ToSet(socks) = {socks[i] : i \in 1 .. N}
  BY ProperFacts, LenProperties, ElementOfSeq DEF Proper, Unrepeated, ToSet
<1>2. ASSUME NEW s \in S
      PROVE  /\ NoticesTo(g, s) = <<role(s)>> \/ NoticesTo(g, s) = <<role(s)>> \o <<team(s)>>
             /\ role(s).to = s /\ team(s).to = s
             /\ NoticesTo(g, s) \in Seq({role(t) : t \in S} \union {team(t) : t \in S})
  <2> DEFINE M == {role(t) : t \in S} \union {team(t) : t \in S}
  <2>2. NoticesTo(g, s) = <<role(s)>> \/ NoticesTo(g, s) = <<role(s)>> \o <<team(s)>>
    BY DEF NoticesTo
  <2>3. role(s).to = s /\ team(s).to = s
    BY DEF Message
  <2>4. role(s) \in M /\ team(s) \in M
    OBVIOUS
  <2> HIDE DEF role, team, M
  <2>5. <<role(s)>> \in Seq(M) /\ <<role(s)>> \o <<team(s)>> \in Seq(M)
    <3>1. <<>> \in Seq(M)
      OBVIOUS
    <3> QED
      BY <2>4, <3>1, OneByOne
  <2> QED
    BY <2>2, <2>3, <2>5 DEF M
<1> DEFINE M == {role(t) : t \in S} \union {team(t) : t \in S}
<1>3. \A s \in S : role(s) \in M /\ team(s) \in M
  OBVIOUS
<1> HIDE DEF role, team, N, socks, M
<1>4. seqs \in Seq(Seq(M)) /\ Len(seqs) = N /\ \A i \in 1 .. N : seqs[i] = NoticesTo(g, socks[i])
  <2>1. \A i \in 1 .. N : NoticesTo(g, socks[i]) \in Seq(M)
    BY <1>1, <1>2 DEF M
  <2> QED
    BY <1>1, <2>1
<1>5. StartNotices(g) = FlattenSeq(seqs)
  BY <1>1 DEF StartNotices, socks
<1> HIDE DEF seqs
<1>6. PICK h : Flattening(h, seqs, M) /\ FlattenSeq(seqs) = h[N]
  BY <1>4, FlattenSteps
<1> DEFINE Told(n) == IF \E j \in 1 .. n : socks[j] = fd THEN NoticesTo(g, fd) ELSE <<>>
           P == {n \in Nat : n <= N => Mail(h[n], fd) = Told(n)}
<1>7. 0 \in P
  <2>1. h[0] = <<>> /\ Told(0) = <<>>
    BY <1>6 DEF Flattening
  <2> QED
    BY <2>1, NoMail
<1>8. ASSUME NEW n \in Nat, n \in P PROVE n + 1 \in P
  <2> SUFFICES ASSUME n + 1 <= N PROVE Mail(h[n + 1], fd) = Told(n + 1)
    OBVIOUS
  <2> DEFINE i == n + 1
             s == socks[i]
             q == h[n]
             a == role(s)
             b == team(s)
  <2>1. i \in 1 .. N /\ i - 1 = n /\ n <= N
    BY <1>1
  <2>2. q \in Seq(M) /\ h[i] = q \o NoticesTo(g, s)
    <3>1. h[i - 1] \in Seq(M) /\ h[i] = h[i - 1] \o seqs[i]
      BY <1>4, <1>6, <2>1 DEF Flattening
    <3> QED
      BY <1>4, <2>1, <3>1
  <2>3. /\ s \in S /\ a \in M /\ b \in M /\ a.to = s /\ b.to = s
        /\ NoticesTo(g, s) = <<a>> \/ NoticesTo(g, s) = <<a>> \o <<b>>
    BY <1>1, <1>2, <1>3, <2>1
  <2>4. Mail(q, fd) = Told(n)
    BY <1>8, <2>1
  <2>5. s = fd => \A j \in 1 .. n : socks[j] # fd
    BY <1>1, <2>1
  <2>6. Told(i) = IF s = fd THEN NoticesTo(g, fd) ELSE Told(n)
    <3>1. 1 .. i = (1 .. n) \union {i}
      BY <2>1
    <3> QED
      BY <3>1
  <2>7. Told(n) = <<>> \/ s # fd
    BY <2>5
  <2> HIDE DEF Told, i, s, q, a, b
  <2>8. /\ q \o <<a>> = Append(q, a) /\ q \o (<<a>> \o <<b>>) = Append(Append(q, a), b)
        /\ Append(q, a) \in Seq(M)
    <3>1. q \in Seq(M) /\ a \in M /\ b \in M
      BY <2>2, <2>3
    <3> QED
      BY <3>1, OneByOne
  <2>9. /\ Append(<<>>, a) = <<a>>
        /\ Append(Append(<<>>, a), b) = <<a>> \o <<b>>
    <3>1. <<>> \in Seq(M)
      OBVIOUS
    <3>2. /\ <<>> \o <<a>> = Append(<<>>, a)
          /\ <<>> \o (<<a>> \o <<b>>) = Append(Append(<<>>, a), b)
          /\ <<a>> \in Seq(M) /\ <<a>> \o <<b>> \in Seq(M)
      BY <2>3, <3>1, OneByOne
    <3> QED
      BY <3>2, ConcatEmptySeq
  <2>10. Mail(Append(q, a), fd) = IF s = fd THEN Append(Mail(q, fd), a) ELSE Mail(q, fd)
    <3>1. Mail(Append(q, a), fd) = IF a.to = fd THEN Append(Mail(q, fd), a) ELSE Mail(q, fd)
      BY <2>2, <2>3, MailAppended
    <3> QED
      BY <2>3, <3>1
  <2>11. Mail(Append(Append(q, a), b), fd) = IF s = fd THEN Append(Append(Mail(q, fd), a), b)
                                             ELSE Mail(q, fd)
    <3> DEFINE r == Append(q, a)
    <3>1. r \in Seq(M) /\ b \in M /\ b.to = s
      BY <2>3, <2>8
    <3> HIDE DEF r
    <3>2. Mail(Append(r, b), fd) = IF b.to = fd THEN Append(Mail(r, fd), b) ELSE Mail(r, fd)
      BY <3>1, MailAppended
    <3>3. Mail(Append(r, b), fd) = IF s = fd THEN Append(Mail(r, fd), b) ELSE Mail(r, fd)
      BY <3>1, <3>2
    <3> QED
      BY <2>10, <3>3 DEF r
  <2>12. CASE s # fd
    <3>1. h[i] = Append(q, a) \/ h[i] = Append(Append(q, a), b)
      <4>1. CASE NoticesTo(g, s) = <<a>>
        BY <2>2, <2>8, <4>1, Zenon
      <4>2. CASE NoticesTo(g, s) = <<a>> \o <<b>>
        BY <2>2, <2>8, <4>2, Zenon
      <4> QED
        BY <2>3, <4>1, <4>2
    <3>2. Mail(h[i], fd) = Mail(q, fd)
      <4>1. /\ Mail(Append(q, a), fd) = Mail(q, fd)
            /\ Mail(Append(Append(q, a), b), fd) = Mail(q, fd)
        BY <2>10, <2>11, <2>12
      <4> QED
        BY <3>1, <4>1, Zenon
    <3> QED
      BY <2>4, <2>6, <2>12, <3>2 DEF i
  <2>13. CASE s = fd
    <3>1. Mail(q, fd) = <<>>
      BY <2>4, <2>7, <2>13
    <3>2. CASE NoticesTo(g, s) = <<a>>
      <4>1. Mail(h[i], fd) = Append(<<>>, a)
        BY <2>2, <2>8, <2>10, <2>13, <3>1, <3>2
      <4> QED
        BY <2>6, <2>9, <2>13, <3>2, <4>1 DEF i
    <3>3. CASE NoticesTo(g, s) = <<a>> \o <<b>>
      <4>1. Mail(h[i], fd) = Append(Append(<<>>, a), b)
        BY <2>2, <2>8, <2>11, <2>13, <3>1, <3>3
      <4> QED
        BY <2>6, <2>9, <2>13, <3>3, <4>1 DEF i
    <3> QED
      BY <2>3, <3>2, <3>3
  <2> QED
    BY <2>12, <2>13
<1> HIDE DEF P
<1>9. N \in P
  BY <1>1, <1>7, <1>8, NatInduct
<1>10. \E j \in 1 .. N : socks[j] = fd
  BY <1>1 DEF socks
<1> QED
  BY <1>1, <1>5, <1>6, <1>9, <1>10 DEF P

(***************************************************************************)
(* Neither a new player nor one that leaves changes the phase.             *)
(***************************************************************************)
LEMMA StateKept ==
  ASSUME gm \in ManagerType(Fd), NEW s
  PROVE  /\ game_manager_add_player(gm, s).state = gm.state
         /\ game_manager_remove_player(gm, s).state = gm.state
<1>1. /\ gm = [players |-> gm.players, player_count |-> gm.player_count,
               alive_count |-> gm.alive_count, roles |-> gm.roles, state |-> gm.state]
      /\ DOMAIN gm = {"players", "player_count", "alive_count", "roles", "state"}
  BY DEF ManagerType
<1>2. \A p, c, a, r : [gm EXCEPT !.players = p, !.player_count = c, !.alive_count = a,
                                 !.roles = r].state = gm.state
  BY <1>1
<1>3. \A p, c, a : [gm EXCEPT !.players = p, !.player_count = c, !.alive_count = a].state
                     = gm.state
  BY <1>1
<1>4. game_manager_add_player(gm, s).state = gm.state
  BY <1>3 DEF game_manager_add_player
<1>5. game_manager_remove_player(gm, s).state = gm.state
  <2> DEFINE i == find_player_by_socket(gm, s)
             dead == IF gm.players[i].is_alive THEN 1 ELSE 0
             p == RemoveAt(gm.players, i)
             c == gm.player_count - 1
             a == gm.alive_count - dead
             r == [gm.roles EXCEPT ![gm.players[i].role].alive_count
                     = gm.roles[gm.players[i].role].alive_count - dead]
  <2>1. \/ game_manager_remove_player(gm, s) = gm
        \/ game_manager_remove_player(gm, s)
              = [gm EXCEPT !.players = p, !.player_count = c, !.alive_count = a, !.roles = r]
    BY <1>1 DEF game_manager_remove_player
  <2> HIDE DEF p, c, a, r
  <2>2. [gm EXCEPT !.players = p, !.player_count = c, !.alive_count = a, !.roles = r].state
          = gm.state
    BY <1>2
  <2> QED
    BY <2>1, <2>2
<1> QED
  BY <1>4, <1>5

(***************************************************************************)
(* Only the last admission leaves the lobby.                               *)
(***************************************************************************)
LEMMA OnlyTheLastStarts ==
  ASSUME IInv, [Next]_vars, InLobby, ~InLobby'
  PROVE  AdmitLast
<1>1. ASSUME gm'.state = gm.state PROVE FALSE
  BY <1>1 DEF InLobby
<1>g. gm \in ManagerType(Fd)
  BY DEF IInv, TypeOK
<1>2. CASE gm' = gm
  BY <1>1, <1>2
<1>3. CASE SetupDisconnected
  BY <1>g, <1>1, <1>3, StateKept DEF SetupDisconnected
<1>4. CASE ClientGone
  BY <1>g, <1>1, <1>4, StateKept DEF ClientGone
<1>5. CASE Admit
  BY <1>g, <1>1, <1>5, StateKept DEF Admit, Seat
<1>6. gm' = gm \/ SetupDisconnected \/ ClientGone \/ Admit \/ AdmitLast
  <2>1. PeerStep => gm' = gm
    BY PeerEffect DEF gameVars
  <2> QED
    BY <2>1 DEF vars, gameVars, Next, ServerStep, SetupRefused, SetupFails, SetupSucceeds,
           Start, SetupConnected, SetupDone, SelectFails, SelectReturns, NothingToAccept,
           ConnectionDropped, RefuseConnection, UseFreedNode, ClientData, WalkDone
<1> QED
  BY <1>2, <1>3, <1>4, <1>5, <1>6

(***************************************************************************)
(* The step that starts the game sends each player that can still be       *)
(* reached its notices: a send that fails stops none that follow.          *)
(***************************************************************************)
LEMMA AllTold ==
  ASSUME IInv, [Next]_vars, InLobby, ~InLobby', Running',
         NEW fd \in ToSet(clients'), link'[fd] \in {"up", "fin", "shut"}
  PROVE  Mail(out', fd) = NoticesTo(gm', fd)
<1>1. AdmitLast /\ IInv'
  BY OnlyTheLastStarts, AdmitLastKeeps
<1>11. PICK l \in NewLinks : \E game, subs : Seat(NewFd, l, game, subs, StartNotices(game))
  BY <1>1 DEF AdmitLast
<1>2. PICK game, subs : Seat(NewFd, l, game, subs, StartNotices(game))
  BY <1>11
<1> DEFINE messages == StartNotices(game)
           T == Notices(game)
           k == SendAll(Opened(l), messages)
<1>3. gm' = game /\ link' = k.link /\ out' = k.out /\ k.alive
  BY <1>2 DEF Seat, Return, Running
<1>4. Proper(Fd, clients') /\ clients' = game_manager_get_players_sockets(game)
  <2>1. Registered'
    BY <1>1 DEF IInv
  <2>2. Proper(Fd, clients)'
    BY <2>1, ClientsCounted, PTL
  <2> QED
    BY <1>3, <2>1, <2>2 DEF Registered
<1>5. fd \in Fd
  BY <1>4, ProperFacts
<1>6. messages \in Seq(T)
  BY <1>4, NoticesSent DEF Proper
<1>7. \A m \in T : m.to \in Fd
  <2>1. ToSet(game_manager_get_players_sockets(game)) \subseteq Fd
    BY <1>4, ProperFacts
  <2> QED
    BY <2>1 DEF Notices, Message, Pack
<1>8. Opened(l) \in KernelType(T) /\ Opened(l).out = <<>>
  BY <1>1, OpenedEffect
<1> HIDE DEF T, messages
<1>9. Mail(k.out, fd) = Mail(messages, fd)
  BY <1>3, <1>5, <1>6, <1>7, <1>8, MailDelivered
<1>10. Mail(messages, fd) = NoticesTo(game, fd)
  BY <1>4, NoticesFor DEF messages
<1> QED
  BY <1>3, <1>9, <1>10

(***************************************************************************)
(* At the start every player that can still be reached is told its own     *)
(* role, and a werewolf of a larger pack its teammates, and nothing else,  *)
(* whatever the connections of the others are.                             *)
(***************************************************************************)
THEOREM EveryoneTold == Spec => RolesTold
<1>1. IInv /\ [Next]_vars =>
        [InLobby /\ ~InLobby' /\ Running' =>
           \A fd \in ToSet(clients') :
             link'[fd] \in {"up", "fin", "shut"} => Mail(out', fd) = NoticesTo(gm', fd)]_vars
  BY AllTold
<1> QED
  BY <1>1, Invariance, PTL DEF Spec, RolesTold

-----------------------------------------------------------------------------
(***************************************************************************)
(* The game manager of the server is a roster of its own module: the       *)
(* operations of the instance are the server's.                            *)
(***************************************************************************)
LEMMA RosterOperations ==
  ASSUME NEW g, NEW s
  PROVE  /\ R!find_player_by_socket(g, s) = find_player_by_socket(g, s)
         /\ R!add_player_accepts(g, s) = add_player_accepts(g, s)
         /\ R!game_manager_add_player(g, s) = game_manager_add_player(g, s)
         /\ R!game_manager_remove_player(g, s) = game_manager_remove_player(g, s)
<1>1. R!find_player_by_socket(g, s) = find_player_by_socket(g, s)
  BY DEF R!find_player_by_socket, find_player_by_socket, R!SelectInSeq, SelectInSeq,
         R!Min, Min
<1>2. R!add_player_accepts(g, s) = add_player_accepts(g, s)
  BY <1>1 DEF R!add_player_accepts, add_player_accepts
<1>3. R!game_manager_add_player(g, s) = game_manager_add_player(g, s)
  BY DEF R!game_manager_add_player, game_manager_add_player
<1>4. R!game_manager_remove_player(g, s) = game_manager_remove_player(g, s)
  BY <1>1 DEF R!game_manager_remove_player, game_manager_remove_player, R!RemoveAt, RemoveAt
<1> QED
  BY <1>1, <1>2, <1>3, <1>4

\* The start of the instance is the server's.
LEMMA RosterStart ==
  ASSUME NEW g, NEW seat
  PROVE  /\ R!Seatings = Seatings
         /\ R!game_manager_start_game(g, seat) = game_manager_start_game(g, seat)
<1>1. R!Seatings = Seatings
  BY DEF R!Seatings, Seatings, R!Bijection, Bijection, R!Injection, Injection,
         R!Surjection, Surjection, R!IsInjective, IsInjective
<1>2. \A k : R!role_at(k) = role_at(k)
  BY DEF R!role_at, role_at, R!config, config, R!get_game_config, get_game_config,
         R!SelectInSeq, SelectInSeq, R!Min, Min
<1>3. \A S : R!Cardinality(S) = Cardinality(S)
  BY DEF R!Cardinality, Cardinality
<1>4. R!game_manager_start_game(g, seat) = game_manager_start_game(g, seat)
  BY <1>2, <1>3 DEF R!game_manager_start_game, game_manager_start_game,
                    R!first_night, first_night, R!Roles, Roles
<1> QED
  BY <1>1, <1>4

(***************************************************************************)
(* A step of the server is a join or a leave of the roster, or does not    *)
(* concern it: an admission is a join of the lowest free descriptor, and   *)
(* both ways to lose a client are leaves.                                  *)
(***************************************************************************)
LEMMA RosterStep ==
  ASSUME IInv, [Next]_vars
  PROVE  [R!Next]_gm
<1>1. CASE gm' = gm
  BY <1>1
<1>2. ASSUME NEW s \in OpenFds, gm' = game_manager_remove_player(gm, s)
      PROVE  R!Next
  <2>1. find_player_by_socket(gm, s) # 0
    <3>1. PICK i \in 1 .. Len(gm.players) : gm.players[i].socket_id = s
      <4>1. gm \in ManagerType(Fd) /\ Distinct(gm)
        BY DEF IInv, Registered, Good
      <4>2. OpenFds = {gm.players[i].socket_id : i \in 1 .. Len(gm.players)}
        BY <4>1, SocketsListed DEF IInv, Registered
      <4> QED
        BY <4>2
    <3>2. find_player_by_socket(gm, s) = i /\ i # 0
      BY <3>1, RoleHeld, PlayerSockets DEF IInv, Registered, Good
    <3> QED
      BY <3>2
  <2>2. R!Leave(s)
    BY <1>2, <2>1, RosterOperations DEF R!Leave
  <2> QED
    BY <2>2 DEF R!Next, OpenFds
<1>3. CASE SetupDisconnected
  <2>1. Proper(Fd, current) /\ ToSet(current) \subseteq OpenFds /\ current # <<>>
    BY <1>3 DEF SetupDisconnected, IInv, Walking, TypeOK, Proper
  <2>2. Head(current) \in OpenFds
    BY <2>1, TailProper
  <2> QED
    BY <1>2, <1>3, <2>2 DEF SetupDisconnected
<1>4. CASE ClientGone
  BY <1>2, <1>4, VisitEffect DEF ClientGone
<1>5. CASE Admit \/ AdmitLast
  <2> DEFINE s == NewFd
             h == game_manager_add_player(gm, s)
  <2>1. /\ InLobby /\ add_player_accepts(gm, s) /\ s \in Fd
        /\ h.player_count = gm.player_count + 1
    BY <1>5, AdmissionEffect, NewFdIsFree DEF Admit, AdmitLast, IInv
  <2>2. R!InLobby /\ R!add_player_accepts(gm, s)
    BY <2>1, RosterOperations DEF R!InLobby, InLobby
  <2>3. R!game_manager_add_player(gm, s) = h
    BY RosterOperations
  <2>4. CASE Admit
    <3>1. gm' = h /\ gm.player_count + 1 < MaxPlayers
      BY <2>4 DEF Admit, Seat
    <3>2. gm' = h /\ h.player_count # MaxPlayers
      BY <2>1, <3>1, PlayersAssumption DEF IInv, TypeOK, ManagerType
    <3> HIDE DEF h, s
    <3> QED
      BY <2>1, <2>2, <2>3, <3>2 DEF R!Next, R!Join
  <2>5. CASE AdmitLast
    <3>1. PICK seat \in Seatings : gm' = game_manager_start_game(h, seat)
      BY <2>5 DEF AdmitLast, Seat
    <3>2. h.player_count = MaxPlayers
      BY <2>1, <2>5 DEF AdmitLast
    <3> HIDE DEF h, s
    <3>3. seat \in R!Seatings /\ gm' = R!game_manager_start_game(h, seat)
      BY <3>1, RosterStart
    <3> QED
      BY <2>1, <2>2, <2>3, <3>2, <3>3 DEF R!Next, R!Join
  <2> QED
    BY <1>5, <2>4, <2>5
<1>6. gm' = gm \/ SetupDisconnected \/ ClientGone \/ Admit \/ AdmitLast
  <2>1. PeerStep => gm' = gm
    BY PeerEffect DEF gameVars
  <2> QED
    BY <2>1 DEF vars, gameVars, Next, ServerStep, SetupRefused, SetupFails, SetupSucceeds,
           Start, SetupConnected, SetupDone, SelectFails, SelectReturns, NothingToAccept,
           ConnectionDropped, RefuseConnection, UseFreedNode, ClientData, WalkDone
<1> QED
  BY <1>1, <1>3, <1>4, <1>5, <1>6

(***************************************************************************)
(* The server implements the roster of GameRoster: whatever the loop, the  *)
(* peers and the descriptors do, the game manager sees a roster's joins    *)
(* and leaves, so that what is proved of GameRoster holds in the server.   *)
(***************************************************************************)
THEOREM RosterImplemented == Spec => ImplementsRoster
<1>1. Init => R!Init
  BY DEF Init, R!Init, R!game_manager_create, game_manager_create, R!Roles, Roles
<1>2. IInv /\ [Next]_vars => [R!Next]_gm
  BY RosterStep
<1> QED
  BY <1>1, <1>2, Invariance, PTL DEF Spec, ImplementsRoster, R!Spec
=============================================================================
