----------------------- MODULE WerewolfSessionProofs -----------------------
(***************************************************************************)
(* Proofs about WerewolfSession: what is on its way to a client before its *)
(* role carries no zero, so that a read that takes the role prints it when *)
(* its colours fit, for every number of players, every size of the buffer  *)
(* and wherever the reads cut the messages.                                *)
(***************************************************************************)
EXTENDS WerewolfSession, WerewolfServerProofs

-----------------------------------------------------------------------------
(* Streams and what is printed of them.                                    *)

Pieces   == [what : MessageKinds, part : {"tag", "text", "zero"}]
RoleText == [what |-> "role", part |-> "text"]

NoRole(q) == \A i \in DOMAIN q : q[i] # RoleText
NoZero(q) == \A i \in DOMAIN q : q[i].part # "zero"

\* No zero comes before a role.
Clear(q) ==
  \A i \in DOMAIN q : q[i] = RoleText => \A j \in 1 .. i - 1 : q[j].part # "zero"

\* The two parts of a sequence.
LEMMA Parts ==
  ASSUME NEW T, NEW q \in Seq(T), NEW n \in 1 .. Len(q)
  PROVE  LET a == SubSeq(q, 1, n)
             b == SubSeq(q, n + 1, Len(q))
         IN  /\ Len(q) \in Nat /\ DOMAIN q = 1 .. Len(q)
             /\ a \in Seq(T) /\ DOMAIN a = 1 .. n /\ \A i \in 1 .. n : a[i] = q[i]
             /\ b \in Seq(T) /\ DOMAIN b = 1 .. Len(q) - n
             /\ \A i \in 1 .. Len(q) - n : b[i] = q[n + i]
<1> DEFINE a == SubSeq(q, 1, n)
           b == SubSeq(q, n + 1, Len(q))
<1>1. Len(q) \in Nat /\ DOMAIN q = 1 .. Len(q) /\ \A i \in 1 .. Len(q) : q[i] \in T
  BY LenProperties, ElementOfSeq
<1>2. a \in Seq(T) /\ Len(a) = n /\ \A i \in 1 .. n : a[i] = q[i]
  <2> DEFINE m == 1
  <2>1. m <= n /\ m \in Int /\ n \in Int /\ \A i \in m .. n : q[i] \in T
    BY <1>1
  <2>2. n - m + 1 = n /\ \A i \in 1 .. n : m + i - 1 = i
    BY <1>1
  <2> HIDE DEF m
  <2>3. /\ SubSeq(q, m, n) \in Seq(T)
        /\ Len(SubSeq(q, m, n)) = IF m <= n THEN n - m + 1 ELSE 0
        /\ \A i \in 1 .. n - m + 1 : SubSeq(q, m, n)[i] = q[m + i - 1]
    BY <2>1, SubSeqProperties
  <2>4. a = SubSeq(q, m, n)
    BY DEF m
  <2> HIDE DEF a
  <2>5. Len(a) = n
    BY <2>1, <2>2, <2>3, <2>4
  <2>6. ASSUME NEW i \in 1 .. n PROVE a[i] = q[i]
    <3>1. m + i - 1 = i /\ i \in 1 .. n - m + 1
      BY <2>2, <2>6
    <3>2. SubSeq(q, m, n)[i] = q[m + i - 1]
      BY <2>3, <3>1
    <3> QED
      BY <2>4, <3>1, <3>2
  <2> QED
    BY <2>3, <2>4, <2>5, <2>6
<1>3. b \in Seq(T) /\ Len(b) = Len(q) - n /\ \A i \in 1 .. Len(q) - n : b[i] = q[n + i]
  <2> DEFINE m == n + 1
             e == Len(q)
  <2>1. m \in Int /\ e \in Int /\ \A i \in m .. e : q[i] \in T
    BY <1>1
  <2>2. /\ e - m + 1 = Len(q) - n
        /\ m <= e <=> Len(q) - n # 0
        /\ \A i \in 1 .. Len(q) - n : m + i - 1 = n + i
    <3>1. Len(q) \in Nat /\ n \in Nat /\ n <= Len(q)
      BY <1>1
    <3> QED
      BY <3>1
  <2> HIDE DEF m, e
  <2>3. /\ SubSeq(q, m, e) \in Seq(T)
        /\ Len(SubSeq(q, m, e)) = IF m <= e THEN e - m + 1 ELSE 0
        /\ \A i \in 1 .. e - m + 1 : SubSeq(q, m, e)[i] = q[m + i - 1]
    BY <2>1, SubSeqProperties
  <2>4. b = SubSeq(q, m, e)
    BY DEF m, e
  <2> HIDE DEF b
  <2> QED
    BY <2>2, <2>3, <2>4
<1> HIDE DEF a, b
<1>4. DOMAIN a = 1 .. n /\ DOMAIN b = 1 .. Len(q) - n
  BY <1>2, <1>3, LenProperties
<1> QED
  BY <1>1, <1>2, <1>3, <1>4 DEF a, b

\* What a read leaves of a stream.
LEMMA Suffix ==
  ASSUME NEW q \in Seq(Pieces), NEW n \in 1 .. Len(q)
  PROVE  /\ SubSeq(q, n + 1, Len(q)) \in Seq(Pieces)
         /\ NoRole(q) => NoRole(SubSeq(q, n + 1, Len(q)))
         /\ NoZero(q) => NoZero(SubSeq(q, n + 1, Len(q)))
         /\ Clear(q) => Clear(SubSeq(q, n + 1, Len(q)))
<1> DEFINE b == SubSeq(q, n + 1, Len(q))
<1>1. /\ Len(q) \in Nat /\ DOMAIN q = 1 .. Len(q) /\ n \in 1 .. Len(q)
      /\ b \in Seq(Pieces)
      /\ DOMAIN b = 1 .. Len(q) - n /\ \A i \in 1 .. Len(q) - n : b[i] = q[n + i]
  BY Parts
<1> HIDE DEF b
<1>2. \A i \in 1 .. Len(q) - n : n + i \in DOMAIN q
  BY <1>1
<1>3. NoRole(q) => NoRole(b)
  BY <1>1, <1>2 DEF NoRole
<1>4. NoZero(q) => NoZero(b)
  BY <1>1, <1>2 DEF NoZero
<1>5. ASSUME Clear(q) PROVE Clear(b)
  <2> SUFFICES ASSUME NEW i \in DOMAIN b, b[i] = RoleText, NEW j \in 1 .. i - 1
               PROVE  b[j].part # "zero"
    BY DEF Clear
  <2>1. j \in 1 .. Len(q) - n /\ n + i \in DOMAIN q /\ n + j \in 1 .. (n + i) - 1
    BY <1>1
  <2>2. q[n + i] = RoleText /\ b[j] = q[n + j]
    BY <1>1, <2>1
  <2> QED
    BY <1>5, <2>1, <2>2 DEF Clear
<1> QED
  BY <1>1, <1>3, <1>4, <1>5 DEF b

(***************************************************************************)
(* What is sent later leaves a role where it is; a role stays clear when   *)
(* what goes before it carries no zero.                                    *)
(***************************************************************************)
LEMMA Appended ==
  ASSUME NEW q \in Seq(Pieces), NEW r \in Seq(Pieces)
  PROVE  /\ q \o r \in Seq(Pieces)
         /\ Len(q \o r) \in Nat /\ Len(q) \in Nat /\ Len(q) <= Len(q \o r)
         /\ \A i \in 1 .. Len(q) : (q \o r)[i] = q[i]
         /\ NoRole(q) /\ NoRole(r) => NoRole(q \o r)
         /\ NoZero(q) /\ NoZero(r) => NoZero(q \o r)
         /\ NoZero(q) /\ Clear(r) => Clear(q \o r)
         /\ Clear(q) /\ NoRole(r) => Clear(q \o r)
<1> DEFINE s == q \o r
<1>1. /\ Len(q) \in Nat /\ DOMAIN q = 1 .. Len(q) /\ Len(r) \in Nat /\ DOMAIN r = 1 .. Len(r)
      /\ s \in Seq(Pieces) /\ DOMAIN s = 1 .. Len(q) + Len(r) /\ Len(s) = Len(q) + Len(r)
      /\ \A i \in 1 .. Len(q) + Len(r) : s[i] = IF i <= Len(q) THEN q[i] ELSE r[i - Len(q)]
  BY LenProperties, ConcatProperties
<1> HIDE DEF s
<1>2. \A i \in 1 .. Len(q) : i \in DOMAIN s /\ s[i] = q[i]
  <2>1. \A i \in 1 .. Len(q) : i \in 1 .. Len(q) + Len(r) /\ i <= Len(q)
    BY <1>1
  <2> QED
    BY <1>1, <2>1
<1>3. ASSUME NEW i \in DOMAIN s
      PROVE  \/ i \in DOMAIN q /\ s[i] = q[i]
             \/ i > Len(q) /\ i - Len(q) \in DOMAIN r /\ s[i] = r[i - Len(q)]
  BY <1>1, <1>3
<1>4. NoRole(q) /\ NoRole(r) => NoRole(s)
  BY <1>3 DEF NoRole
<1>5. NoZero(q) /\ NoZero(r) => NoZero(s)
  BY <1>3 DEF NoZero
<1>6. ASSUME NoZero(q), Clear(r) PROVE Clear(s)
  <2> SUFFICES ASSUME NEW i \in DOMAIN s, s[i] = RoleText, NEW j \in 1 .. i - 1
               PROVE  s[j].part # "zero"
    BY DEF Clear
  <2>1. CASE j <= Len(q)
    <3>1. j \in DOMAIN q /\ s[j] = q[j]
      BY <1>1, <1>2, <2>1
    <3> QED
      BY <1>6, <3>1 DEF NoZero
  <2>2. CASE ~(j <= Len(q))
    <3>1. /\ j \in DOMAIN s /\ i > Len(q)
          /\ j - Len(q) \in 1 .. (i - Len(q)) - 1
      BY <1>1, <2>2
    <3>2. i - Len(q) \in DOMAIN r /\ r[i - Len(q)] = RoleText /\ s[j] = r[j - Len(q)]
      BY <1>1, <2>2, <3>1
    <3> QED
      BY <1>6, <3>1, <3>2 DEF Clear
  <2> QED
    BY <2>1, <2>2
<1>7. ASSUME Clear(q), NoRole(r) PROVE Clear(s)
  <2> SUFFICES ASSUME NEW i \in DOMAIN s, s[i] = RoleText, NEW j \in 1 .. i - 1
               PROVE  s[j].part # "zero"
    BY DEF Clear
  <2>1. i \in DOMAIN q /\ q[i] = RoleText
    BY <1>3, <1>7 DEF NoRole
  <2>2. j \in 1 .. Len(q)
    BY <1>1, <2>1
  <2> QED
    BY <1>2, <1>7, <2>1, <2>2 DEF Clear
<1> QED
  BY <1>1, <1>2, <1>4, <1>5, <1>6, <1>7 DEF s

(***************************************************************************)
(* printf prints a role that no zero precedes, unless the buffer was too   *)
(* full to be coloured whole.                                              *)
(***************************************************************************)
LEMMA RolePrinted ==
  ASSUME NEW q \in Seq(Pieces), Clear(q), NEW n \in 1 .. Len(q), n <= ReadMax - Colour,
         NEW i \in 1 .. n, q[i] = RoleText
  PROVE  "role" \in Kinds(SubSeq(q, 1, n), PrintedLength(SubSeq(q, 1, n)))
<1> DEFINE a == SubSeq(q, 1, n)
           Ends == {Len(a)} \union {z - 1 : z \in Zeros(a)}
           string == Min(Ends)
<1>1. /\ Len(q) \in Nat /\ DOMAIN q = 1 .. Len(q) /\ n \in Nat /\ i \in Nat /\ 1 <= i /\ i <= n
      /\ a \in Seq(Pieces) /\ DOMAIN a = 1 .. n /\ \A k \in 1 .. n : a[k] = q[k]
  BY Parts
<1>2. Len(a) = n
  BY <1>1, LenProperties
<1>3. ReadMax - Colour \in Nat
  BY MailAssumption
<1> HIDE DEF a
<1>4. \A z \in Zeros(a) : z \in 1 .. n /\ i <= z - 1
  <2> SUFFICES ASSUME NEW z \in Zeros(a) PROVE z \in 1 .. n /\ i <= z - 1
    OBVIOUS
  <2>1. z \in 1 .. n /\ q[z].part = "zero"
    BY <1>1 DEF Zeros
  <2>2. z # i
    BY <2>1 DEF RoleText
  <2>3. z \notin 1 .. i - 1
    BY <1>1, <2>1 DEF Clear
  <2> QED
    BY <1>1, <2>1, <2>2, <2>3
<1>5. Ends \subseteq Nat /\ Ends # {} /\ \A e \in Ends : i <= e /\ e <= n
  BY <1>1, <1>2, <1>4
<1> HIDE DEF Ends
<1>6. string \in Nat /\ i <= string /\ string <= n
  BY <1>5, MinIsLeast
<1>7. PrintedLength(a) = IF a[1].part = "tag" THEN Min({string, ReadMax - Colour}) ELSE string
  BY DEF PrintedLength, Ends
<1> HIDE DEF string
<1>8. Min({string, ReadMax - Colour}) \in {string, ReadMax - Colour}
  <2>1. {string, ReadMax - Colour} \subseteq Nat /\ {string, ReadMax - Colour} # {}
    BY <1>3, <1>6
  <2> QED
    BY <2>1, MinIsLeast
<1>9. PrintedLength(a) \in {string, ReadMax - Colour}
  BY <1>7, <1>8
<1>10. PrintedLength(a) \in Nat /\ i <= PrintedLength(a)
  BY <1>1, <1>3, <1>6, <1>9
<1>11. i \in 1 .. PrintedLength(a) /\ a[i] = RoleText
  BY <1>1, <1>10
<1>12. "role" \in Kinds(a, PrintedLength(a))
  BY <1>11 DEF Kinds, StartKinds, RoleText
<1> QED
  BY <1>12 DEF a

-----------------------------------------------------------------------------
(* What the server's steps put on the streams.                             *)

\* Messages that can travel.
Postable(T) == \A m \in T : m.what \in MessageKinds /\ TextLength(m) \in Nat

\* The text of what was typed is as long as its buffer, or cut.
LEMMA TextCut ==
  ASSUME NEW m, m.what \in {"whisper", "talk"} => Len(m.about) \in Nat
  PROVE  TextLength(m) \in Nat
<1>1. ReadMax - 1 \in Nat
  BY MailAssumption
<1>2. CASE m.what \in {"whisper", "talk"}
  <2> DEFINE S == {Len(m.about), ReadMax - 1}
  <2>1. S \subseteq Nat /\ S # {}
    BY <1>1, <1>2
  <2>2. TextLength(m) = Min(S)
    BY <1>2 DEF TextLength
  <2> HIDE DEF S
  <2> QED
    BY <2>1, <2>2, MinIsLeast
<1> QED
  BY <1>2 DEF TextLength

\* A message carries its zero after its text, if at all.
LEMMA WireEffect ==
  ASSUME NEW m, m.what \in MessageKinds, TextLength(m) \in Nat
  PROVE  /\ Wire(m) \in Seq(Pieces) /\ Clear(Wire(m))
         /\ m.what # "role" => NoRole(Wire(m))
         /\ ~Terminated(m) => NoZero(Wire(m))
<1> DEFINE tag == <<Piece(m, "tag")>>
           text == [i \in 1 .. TextLength(m) |-> Piece(m, "text")]
           zero == IF Terminated(m) THEN <<Piece(m, "zero")>> ELSE <<>>
           begun == tag \o text
<1>a. /\ \A p \in {"tag", "text", "zero"} : Piece(m, p) \in Pieces /\ Piece(m, p).part = p
      /\ Piece(m, "tag") # RoleText /\ Piece(m, "zero") # RoleText
      /\ m.what # "role" => Piece(m, "text") # RoleText
  BY DEF Piece, Pieces, RoleText
<1>1. /\ tag \in Seq(Pieces) /\ NoRole(tag) /\ NoZero(tag)
      /\ zero \in Seq(Pieces) /\ NoRole(zero) /\ (~Terminated(m) => NoZero(zero))
  <2>1. /\ \A x \in Pieces : <<x>> \in Seq(Pieces) /\ DOMAIN <<x>> = {1} /\ <<x>>[1] = x
        /\ <<>> \in Seq(Pieces) /\ DOMAIN <<>> = {}
    OBVIOUS
  <2>2. NoRole(tag) /\ NoZero(tag) /\ tag \in Seq(Pieces)
    BY <1>a, <2>1 DEF NoRole, NoZero
  <2>3. CASE Terminated(m)
    BY <1>a, <2>1, <2>2, <2>3 DEF NoRole
  <2>4. CASE ~Terminated(m)
    BY <2>1, <2>2, <2>4 DEF NoRole, NoZero
  <2> QED
    BY <2>3, <2>4
<1>2. /\ text \in Seq(Pieces) /\ NoZero(text)
      /\ m.what # "role" => NoRole(text)
  <2>1. text \in [1 .. TextLength(m) -> Pieces] /\ DOMAIN text = 1 .. TextLength(m)
    BY <1>a
  <2>2. text \in Seq(Pieces)
    BY <2>1
  <2> QED
    BY <1>a, <2>1, <2>2 DEF NoRole, NoZero
<1>3. Wire(m) = begun \o zero
  BY DEF Wire
<1> HIDE DEF tag, text, zero
<1>4. begun \in Seq(Pieces) /\ NoZero(begun) /\ (m.what # "role" => NoRole(begun))
  BY <1>1, <1>2, Appended
<1> HIDE DEF begun
<1>5. Clear(begun)
  <2>1. Len(begun) \in Nat /\ DOMAIN begun = 1 .. Len(begun)
    BY <1>4, LenProperties
  <2>2. \A i \in DOMAIN begun : \A j \in 1 .. i - 1 : j \in DOMAIN begun
    BY <2>1
  <2> QED
    BY <1>4, <2>2 DEF Clear, NoZero
<1> QED
  BY <1>1, <1>3, <1>4, <1>5, Appended

\* The role is the first of the messages, if it is one of them.
RoleFirst(q) == \A i \in DOMAIN q : q[i].what = "role" => i = 1

(***************************************************************************)
(* Messages posted one after the other: what holds of their wire forms     *)
(* holds of the whole.                                                     *)
(***************************************************************************)
LEMMA PostedEffect ==
  ASSUME NEW T, Postable(T), NEW q \in Seq(T)
  PROVE  /\ Posted(q) \in Seq(Pieces)
         /\ (\A m \in T : m.what # "role") => NoRole(Posted(q))
         /\ (\A m \in T : ~Terminated(m)) => NoZero(Posted(q))
         /\ RoleFirst(q) => Clear(Posted(q))
<1> DEFINE N == Len(q)
           wires == [i \in DOMAIN q |-> Wire(q[i])]
<1>1. N \in Nat /\ DOMAIN q = 1 .. N /\ \A i \in 1 .. N : q[i] \in T
  BY LenProperties, ElementOfSeq
<1>2. ASSUME NEW i \in 1 .. N
      PROVE  /\ q[i] \in T
             /\ wires[i] \in Seq(Pieces) /\ Clear(wires[i])
             /\ q[i].what # "role" => NoRole(wires[i])
             /\ ~Terminated(q[i]) => NoZero(wires[i])
  <2>1. wires[i] = Wire(q[i]) /\ q[i] \in T
    BY <1>1
  <2> QED
    BY <2>1, WireEffect DEF Postable
<1>3. wires \in [1 .. N -> Seq(Pieces)]
  BY <1>1, <1>2
<1>4. wires \in Seq(Seq(Pieces)) /\ Len(wires) = N
  BY <1>1, <1>3, LenProperties
<1>5. Posted(q) = FlattenSeq(wires)
  BY DEF Posted
<1> HIDE DEF wires
<1>6. PICK h : Flattening(h, wires, Pieces) /\ FlattenSeq(wires) = h[Len(wires)]
  BY <1>4, FlattenSteps
<1> HIDE DEF N
<1>7. /\ h[0] = <<>>
      /\ \A i \in 1 .. N : h[i - 1] \in Seq(Pieces) /\ h[i] = h[i - 1] \o wires[i]
  BY <1>4, <1>6 DEF Flattening
<1>8. /\ h[0] \in Seq(Pieces) /\ NoRole(h[0]) /\ NoZero(h[0]) /\ Clear(h[0])
  BY <1>7 DEF NoRole, NoZero, Clear
<1> DEFINE D == Seq(Pieces)
           B == {p \in Seq(Pieces) : NoRole(p)}
           Z == {p \in Seq(Pieces) : NoZero(p)}
           C == {p \in Seq(Pieces) : Clear(p)}
<1>9. h[N] \in D
  <2>1. \A i \in 1 .. N : h[i - 1] \in D => h[i] \in D
    BY <1>2, <1>7, Appended
  <2> HIDE DEF D
  <2>2. \A i \in 0 .. N : h[i] \in D
    BY <1>1, <1>8, <2>1, KeptByRecursion DEF D
  <2> QED
    BY <1>1, <2>2
<1>10. ASSUME \A m \in T : m.what # "role" PROVE h[N] \in B
  <2>1. \A i \in 1 .. N : h[i - 1] \in B => h[i] \in B
    BY <1>2, <1>7, <1>10, Appended
  <2>2. h[0] \in B
    BY <1>8
  <2> HIDE DEF B
  <2>3. \A i \in 0 .. N : h[i] \in B
    BY <1>1, <2>1, <2>2, KeptByRecursion
  <2> QED
    BY <1>1, <2>3
<1>11. ASSUME \A m \in T : ~Terminated(m) PROVE h[N] \in Z
  <2>1. \A i \in 1 .. N : h[i - 1] \in Z => h[i] \in Z
    BY <1>2, <1>7, <1>11, Appended
  <2>2. h[0] \in Z
    BY <1>8
  <2> HIDE DEF Z
  <2>3. \A i \in 0 .. N : h[i] \in Z
    BY <1>1, <2>1, <2>2, KeptByRecursion
  <2> QED
    BY <1>1, <2>3
<1>12. ASSUME RoleFirst(q) PROVE h[N] \in C
  <2>1. ASSUME NEW i \in 1 .. N, h[i - 1] \in C PROVE h[i] \in C
    <3>1. /\ h[i - 1] \in Seq(Pieces) /\ Clear(h[i - 1]) /\ wires[i] \in Seq(Pieces)
          /\ h[i] = h[i - 1] \o wires[i]
      BY <1>2, <1>7, <2>1
    <3>2. CASE i = 1
      <4>1. i - 1 = 0
        BY <3>2
      <4>2. NoZero(h[i - 1])
        BY <1>8, <4>1
      <4> QED
        BY <1>2, <3>1, <4>2, Appended
    <3>3. CASE i # 1
      <4>1. NoRole(wires[i])
        BY <1>1, <1>2, <1>12, <3>3 DEF RoleFirst
      <4> QED
        BY <3>1, <4>1, Appended
    <3> QED
      BY <3>2, <3>3
  <2>2. h[0] \in C
    BY <1>8
  <2> HIDE DEF C
  <2>3. \A i \in 0 .. N : h[i] \in C
    BY <1>1, <2>1, <2>2, KeptByRecursion
  <2> QED
    BY <1>1, <2>3
<1> QED
  BY <1>4, <1>5, <1>6, <1>9, <1>10, <1>11, <1>12

\* What is kept of messages for one descriptor is some of them.
LEMMA MailType ==
  ASSUME NEW T, NEW q \in Seq(T), NEW fd
  PROVE  Mail(q, fd) \in Seq(T)
<1>1. PICK kept : Keeping(kept, q, fd, T) /\ Mail(q, fd) = kept[Len(q)]
  BY MailSteps
<1>2. Len(q) \in 0 .. Len(q)
  BY LenProperties
<1> QED
  BY <1>1, <1>2 DEF Keeping

\* A message added at the end.
LEMMA FirstAppended ==
  ASSUME NEW T, NEW q \in Seq(T), NEW m \in T
  PROVE  /\ RoleFirst(Append(q, m)) => RoleFirst(q)
         /\ RoleFirst(Append(q, m)) /\ m.what = "role" => q = <<>>
         /\ RoleFirst(q) /\ (m.what = "role" => q = <<>>) => RoleFirst(Append(q, m))
         /\ Append(q, m) # <<>>
<1>1. /\ Len(q) \in Nat /\ DOMAIN q = 1 .. Len(q)
      /\ Append(q, m) \in Seq(T) /\ Len(Append(q, m)) = Len(q) + 1
      /\ \A i \in 1 .. Len(q) : Append(q, m)[i] = q[i]
      /\ Append(q, m)[Len(q) + 1] = m
  BY LenProperties, AppendProperties
<1>2. DOMAIN Append(q, m) = 1 .. Len(q) + 1
  BY <1>1, LenProperties
<1> DEFINE r == Append(q, m)
<1> HIDE DEF r
<1>3. RoleFirst(r) => RoleFirst(q)
  <2>1. \A i \in 1 .. Len(q) : i \in 1 .. Len(q) + 1
    BY <1>1
  <2> QED
    BY <1>1, <1>2, <2>1 DEF RoleFirst, r
<1>4. ASSUME RoleFirst(r), m.what = "role" PROVE q = <<>>
  <2>1. Len(q) + 1 \in DOMAIN r
    BY <1>1, <1>2 DEF r
  <2>2. Len(q) + 1 = 1
    BY <1>1, <1>4, <2>1 DEF RoleFirst, r
  <2>3. Len(q) = 0
    BY <1>1, <2>2
  <2> QED
    BY <2>3, EmptySeq
<1>5. ASSUME RoleFirst(q), m.what = "role" => q = <<>> PROVE RoleFirst(r)
  <2> SUFFICES ASSUME NEW i \in DOMAIN r, r[i].what = "role" PROVE i = 1
    BY DEF RoleFirst
  <2>1. CASE i = Len(q) + 1
    <3>1. q = <<>>
      BY <1>1, <1>5, <2>1 DEF r
    <3> QED
      BY <2>1, <3>1, EmptySeq
  <2>2. CASE i # Len(q) + 1
    <3>1. i \in 1 .. Len(q)
      BY <1>1, <1>2, <2>2 DEF r
    <3> QED
      BY <1>1, <1>5, <3>1 DEF RoleFirst, r
  <2> QED
    BY <2>1, <2>2
<1>6. r # <<>>
  <2>1. Len(r) # 0
    BY <1>1 DEF r
  <2> QED
    BY <2>1, Len(<<>>) = 0
<1> QED
  BY <1>3, <1>4, <1>5, <1>6 DEF r

(***************************************************************************)
(* Sends that fail take messages away but put none before the role.        *)
(***************************************************************************)
LEMMA FirstKept ==
  ASSUME NEW T, NEW k \in KernelType(T), NEW messages \in Seq(T),
         \A m \in T : m.to \in Fd, k.out = <<>>, NEW fd,
         RoleFirst(Mail(messages, fd))
  PROVE  RoleFirst(Mail(SendAll(k, messages).out, fd))
<1> DEFINE N == Len(messages)
<1>1. N \in Nat /\ \A i \in 1 .. N : messages[i] \in T
  BY LenProperties, ElementOfSeq
<1>2. PICK sent : Sending(sent, k, messages, T) /\ SendAll(k, messages) = sent[N]
  BY SendAllSteps
<1>3. PICK kept : Keeping(kept, messages, fd, T) /\ Mail(messages, fd) = kept[N]
  BY MailSteps
<1>4. /\ kept[0] = <<>> /\ sent[0] = k
      /\ \A i \in 0 .. N : kept[i] \in Seq(T) /\ sent[i] \in KernelType(T)
      /\ \A i \in 1 .. N :
           /\ sent[i] = SendTo(sent[i - 1], messages[i])
           /\ kept[i] = IF messages[i].to = fd THEN Append(kept[i - 1], messages[i])
                        ELSE kept[i - 1]
  BY <1>2, <1>3 DEF Sending, Keeping
<1> HIDE DEF N
<1>5. \A n \in 0 .. N : RoleFirst(kept[n])
  <2> DEFINE P == {n \in Nat : n <= N => RoleFirst(kept[N - n])}
  <2>1. 0 \in P
    BY <1>1, <1>3
  <2>2. ASSUME NEW n \in Nat, n \in P PROVE n + 1 \in P
    <3> SUFFICES ASSUME n + 1 <= N PROVE RoleFirst(kept[N - (n + 1)])
      OBVIOUS
    <3> DEFINE i == N - n
               j == N - (n + 1)
    <3>1. i \in 1 .. N /\ i - 1 = j /\ j \in 0 .. N /\ RoleFirst(kept[i])
      BY <1>1, <2>2
    <3> HIDE DEF i, j
    <3>2. kept[j] \in Seq(T) /\ messages[i] \in T
      BY <1>1, <1>4, <3>1
    <3>3. kept[i] = Append(kept[j], messages[i]) \/ kept[i] = kept[j]
      BY <1>4, <3>1
    <3>4. RoleFirst(kept[j])
      BY <3>1, <3>2, <3>3, FirstAppended
    <3> QED
      BY <3>4 DEF j
  <2> HIDE DEF P
  <2>3. Nat \subseteq P
    BY <2>1, <2>2, NatInduct
  <2>4. ASSUME NEW n \in 0 .. N PROVE RoleFirst(kept[n])
    <3>1. N - n \in P /\ N - n <= N /\ N - (N - n) = n
      BY <1>1, <2>3
    <3> QED
      BY <3>1 DEF P
  <2> QED
    BY <2>4
<1> DEFINE P == {n \in Nat : n <= N =>
                   /\ kept[n] = <<>> => Mail(sent[n].out, fd) = <<>>
                   /\ RoleFirst(Mail(sent[n].out, fd))}
<1>6. 0 \in P
  <2>1. Mail(sent[0].out, fd) = <<>>
    BY <1>4, NoMail
  <2> QED
    BY <2>1 DEF RoleFirst
<1>7. ASSUME NEW n \in Nat, n \in P PROVE n + 1 \in P
  <2> DEFINE i == n + 1
             m == messages[i]
             h == sent[n]
             x == Mail(h.out, fd)
             y == Mail(sent[i].out, fd)
  <2> SUFFICES ASSUME i <= N PROVE (kept[i] = <<>> => y = <<>>) /\ RoleFirst(y)
    OBVIOUS
  <2>1. i \in 1 .. N /\ i - 1 = n /\ n \in 0 .. N /\ i \in 0 .. N /\ n <= N
    BY <1>1
  <2>2. (kept[n] = <<>> => x = <<>>) /\ RoleFirst(x)
    BY <1>7, <2>1
  <2> HIDE DEF i
  <2>3. /\ sent[i] = SendTo(h, m) /\ h \in KernelType(T) /\ m \in T
        /\ kept[i] = IF m.to = fd THEN Append(kept[n], m) ELSE kept[n]
        /\ kept[n] \in Seq(T) /\ RoleFirst(kept[i])
    BY <1>1, <1>4, <1>5, <2>1
  <2> HIDE DEF m, h
  <2>4. h.out \in Seq(T)
    BY <2>3 DEF KernelType
  <2>5. sent[i].out = Append(h.out, m) \/ sent[i].out = h.out
    <3>1. h = [link |-> h.link, out |-> h.out, alive |-> h.alive]
      BY <2>3 DEF KernelType
    <3> QED
      BY <2>3, <3>1 DEF SendTo
  <2>6. x \in Seq(T) /\ (y = x \/ (m.to = fd /\ y = Append(x, m)))
    <3>1. /\ x \in Seq(T)
          /\ Mail(Append(h.out, m), fd) = IF m.to = fd THEN Append(x, m) ELSE x
      <4> DEFINE q == h.out
      <4>1. q \in Seq(T) /\ m \in T
        BY <2>3, <2>4
      <4> HIDE DEF q
      <4>2. /\ Mail(q, fd) \in Seq(T)
            /\ Mail(Append(q, m), fd) = IF m.to = fd THEN Append(Mail(q, fd), m) ELSE Mail(q, fd)
        BY <4>1, MailAppended
      <4> QED
        BY <4>2 DEF q
    <3>2. y = Mail(Append(h.out, m), fd) \/ y = x
      BY <2>5
    <3> HIDE DEF x, y
    <3> QED
      BY <3>1, <3>2
  <2> HIDE DEF x, y
  <2>7. kept[i] = <<>> => m.to # fd /\ kept[n] = <<>>
    BY <2>3, FirstAppended
  <2>8. m.to = fd /\ m.what = "role" => kept[n] = <<>>
    BY <2>3, FirstAppended
  <2> QED
    BY <2>2, <2>3, <2>6, <2>7, <2>8, FirstAppended
<1> HIDE DEF P
<1>8. N \in P
  BY <1>1, <1>6, <1>7, NatInduct
<1> QED
  BY <1>1, <1>2, <1>8 DEF P

\* A player's notices begin with its role and name it once.
LEMMA NoticesInOrder ==
  ASSUME NEW g, NEW fd
  PROVE  RoleFirst(NoticesTo(g, fd))
<1> DEFINE a == Message(fd, "ANNOUNCEMENT", "role", game_manager_get_player_role(g, fd))
           b == Message(fd, "ANNOUNCEMENT", "team", Pack(g) \ {fd})
           q == NoticesTo(g, fd)
<1>1. b.what # "role"
  BY DEF Message
<1>2. q = <<a>> \/ q = <<a>> \o <<b>>
  BY DEF NoticesTo
<1> HIDE DEF a, b, q
<1>3. <<a>> \in Seq({a, b}) /\ <<b>> \in Seq({a, b}) /\ DOMAIN <<a>> = {1}
      /\ <<>> \in Seq({a, b}) /\ RoleFirst(<<>>)
  BY DEF RoleFirst
<1>4. RoleFirst(<<a>>)
  BY <1>3 DEF RoleFirst
<1>5. <<a>> \o <<b>> = Append(<<a>>, b)
  BY <1>3, OneByOne
<1>6. RoleFirst(<<a>> \o <<b>>)
  BY <1>1, <1>3, <1>4, <1>5, FirstAppended
<1> QED
  BY <1>2, <1>4, <1>6 DEF q

\* At the start every connection gets the role before anything else.
LEMMA StartedFirst ==
  ASSUME IInv, AdmitLast, NEW fd \in ToSet(clients')
  PROVE  RoleFirst(Mail(out', fd)) /\ out' \in Seq(Notices(gm')) /\ IInv'
<1>1. IInv' /\ out' \in Seq(Notices(gm'))
  BY AdmitLastKeeps
<1>2. PICK l \in NewLinks : \E game, subs : Seat(NewFd, l, game, subs, StartNotices(game))
  BY DEF AdmitLast
<1>3. PICK game, subs : Seat(NewFd, l, game, subs, StartNotices(game))
  BY <1>2
<1> DEFINE messages == StartNotices(game)
           T == Notices(game)
           k == SendAll(Opened(l), messages)
<1>4. gm' = game /\ out' = k.out
  BY <1>3 DEF Seat, Return
<1>5. Proper(Fd, clients') /\ clients' = game_manager_get_players_sockets(game)
  <2>1. Registered'
    BY <1>1 DEF IInv
  <2>2. Proper(Fd, clients)'
    BY <2>1, ClientsCounted, PTL
  <2> QED
    BY <1>4, <2>1, <2>2 DEF Registered
<1>6. messages \in Seq(T)
  BY <1>5, NoticesSent DEF Proper
<1>7. \A m \in T : m.to \in Fd
  <2>1. ToSet(game_manager_get_players_sockets(game)) \subseteq Fd
    BY <1>5, ProperFacts
  <2> QED
    BY <2>1 DEF Notices, Message, Pack
<1>8. Opened(l) \in KernelType(T) /\ Opened(l).out = <<>>
  BY OpenedEffect DEF AdmitLast
<1>9. RoleFirst(Mail(messages, fd))
  <2>1. Mail(messages, fd) = NoticesTo(game, fd)
    BY <1>5, NoticesFor
  <2> QED
    BY <2>1, NoticesInOrder
<1> HIDE DEF T, messages
<1>10. RoleFirst(Mail(k.out, fd))
  BY <1>6, <1>7, <1>8, <1>9, FirstKept
<1> QED
  BY <1>1, <1>4, <1>10

(***************************************************************************)
(* Whatever a step sends can travel; before the start it carries no zero,  *)
(* and only the start sends roles.                                         *)
(***************************************************************************)
LEMMA PostedByStep ==
  ASSUME IInv, Next, NEW fd
  PROVE  LET r == Posted(Mail(out', fd)) IN
           /\ r \in Seq(Pieces)
           /\ ~AdmitLast => NoRole(r)
           /\ InLobby /\ ~AdmitLast => NoZero(r)
           /\ AdmitLast /\ fd \in ToSet(clients') => Clear(r)
<1> DEFINE r == Posted(Mail(out', fd))
<1>1. ASSUME NEW T, Postable(T), out' \in Seq(T)
      PROVE  /\ r \in Seq(Pieces)
             /\ (\A m \in T : m.what # "role") => NoRole(r)
             /\ (\A m \in T : ~Terminated(m)) => NoZero(r)
             /\ RoleFirst(Mail(out', fd)) => Clear(r)
  <2>1. Mail(out', fd) \in Seq(T)
    BY <1>1, MailType
  <2> QED
    BY <1>1, <2>1, PostedEffect
<1> HIDE DEF r
<1>2. CASE out' = <<>> /\ ~AdmitLast
  <2> DEFINE none == {}
  <2>1. out' \in Seq(none)
    BY <1>2
  <2>2. Postable(none) /\ \A m \in none : m.what # "role" /\ ~Terminated(m)
    BY DEF Postable
  <2> HIDE DEF none
  <2> QED
    BY <1>1, <1>2, <2>1, <2>2 DEF r
<1>3. CASE RefuseConnection /\ out' \in Seq({Message(NewFd, "ANNOUNCEMENT", "started", {})})
  <2> DEFINE m == Message(NewFd, "ANNOUNCEMENT", "started", {})
  <2>1. m.what = "started"
    BY DEF Message
  <2> HIDE DEF m
  <2>2. Postable({m})
    BY <2>1 DEF Postable, MessageKinds, TextLength
  <2>3. ~InLobby /\ ~AdmitLast
    BY <1>3 DEF RefuseConnection, AdmitLast
  <2> QED
    BY <1>1, <1>3, <2>1, <2>2, <2>3 DEF r, m
<1>4. CASE AdmitLast
  <2>1. out' \in Seq(Notices(gm'))
    BY <1>4, AdmitLastKeeps
  <2>2. \A m \in Notices(gm') : m.what \in {"role", "team"}
    BY DEF Notices, Message
  <2>3. Postable(Notices(gm'))
    BY <2>2 DEF Postable, MessageKinds, TextLength
  <2>4. fd \in ToSet(clients') => RoleFirst(Mail(out', fd))
    BY <1>4, StartedFirst
  <2> QED
    BY <1>1, <1>4, <2>1, <2>3, <2>4 DEF r
<1>5. CASE ClientData /\ out' \in Seq(Replies(Visited, rx[Visited]))
  <2> DEFINE T == Replies(Visited, rx[Visited])
  <2>1. \A m \in T : m.what \in MessageKinds /\ m.what # "role" /\ m.about = rx[Visited]
    BY DEF Replies, Message, MessageKinds
  <2>2. Len(rx[Visited]) \in Nat
    <3>1. Visited \in Fd
      BY <1>5, VisitEffect DEF ClientData, OpenFds
    <3> QED
      BY <3>1, QueueFacts DEF IInv, TypeOK
  <2>3. InLobby => \A m \in T : m.channel = "WHISPER"
    BY DEF Replies, Message, InLobby, InNight
  <2>4. ~AdmitLast
    BY <1>5 DEF ClientData, Visit, AdmitLast, Accept, Loop
  <2> HIDE DEF T
  <2>5. Postable(T)
    BY <2>1, <2>2, TextCut DEF Postable
  <2>6. InLobby => \A m \in T : ~Terminated(m)
    BY <2>3 DEF Terminated
  <2> QED
    BY <1>1, <1>5, <2>1, <2>4, <2>5, <2>6 DEF r, T
<1> QED
  BY <1>2, <1>3, <1>4, <1>5, OutByStep DEF r

-----------------------------------------------------------------------------
(* The steps.                                                              *)

(***************************************************************************)
(* Once left, the lobby is not entered again, and it is the last admission *)
(* that leaves it.                                                         *)
(***************************************************************************)
LEMMA LobbyBefore ==
  ASSUME IInv, Next, InLobby'
  PROVE  InLobby /\ ~AdmitLast
<1>1. ~AdmitLast
  BY AdmitLastKeeps
<1>2. ASSUME gm'.state = gm.state PROVE InLobby
  BY <1>2 DEF InLobby
<1>g. gm \in ManagerType(Fd)
  BY DEF IInv, TypeOK
<1>3. CASE gm' = gm
  BY <1>1, <1>2, <1>3
<1>4. CASE SetupDisconnected
  BY <1>g, <1>1, <1>2, <1>4, StateKept DEF SetupDisconnected
<1>5. CASE ClientGone
  BY <1>g, <1>1, <1>2, <1>5, StateKept DEF ClientGone
<1>6. CASE Admit
  BY <1>1, <1>6 DEF Admit
<1>7. gm' = gm \/ SetupDisconnected \/ ClientGone \/ Admit \/ AdmitLast
  <2>1. PeerStep => gm' = gm
    BY PeerEffect DEF gameVars
  <2> QED
    BY <2>1 DEF gameVars, Next, ServerStep, SetupRefused, SetupFails, SetupSucceeds,
           Start, SetupConnected, SetupDone, SelectFails, SelectReturns, NothingToAccept,
           ConnectionDropped, RefuseConnection, UseFreedNode, ClientData, WalkDone
<1> QED
  BY <1>1, <1>3, <1>4, <1>5, <1>6, <1>7

(***************************************************************************)
(* The invariant: in the lobby nothing on its way carries a zero or is a   *)
(* role; at any time no role on its way has a zero before it.              *)
(***************************************************************************)
SInv ==
  /\ IInv
  /\ stream \in [Fd -> Seq(Pieces)] /\ shown \in [Fd -> SUBSET StartKinds]
  /\ InLobby => \A fd \in Fd : NoRole(stream[fd]) /\ NoZero(stream[fd])
  /\ \A fd \in Fd : Clear(stream[fd])

\* The invariant holds before anything is sent.
LEMMA SInvInit == SessionInit => SInv
<1> SUFFICES ASSUME SessionInit PROVE SInv
  OBVIOUS
<1>1. IInv
  BY InitHolds DEF SessionInit
<1>2. stream = [fd \in Fd |-> <<>>] /\ shown = [fd \in Fd |-> {}]
  BY DEF SessionInit
<1>3. <<>> \in Seq(Pieces) /\ NoRole(<<>>) /\ NoZero(<<>>) /\ Clear(<<>>)
  BY DEF NoRole, NoZero, Clear
<1> QED
  BY <1>1, <1>2, <1>3 DEF SInv

\* What a step of the server has put on a stream.
LEMMA StreamGrows ==
  ASSUME SInv, ServerActs, NEW fd \in Fd
  PROVE  /\ stream'[fd] = IF link'[fd] = "none" THEN <<>>
                          ELSE stream[fd] \o Posted(Mail(out', fd))
         /\ stream[fd] \in Seq(Pieces) /\ Posted(Mail(out', fd)) \in Seq(Pieces)
         /\ stream'[fd] \in Seq(Pieces)
<1>1. stream'[fd] = IF link'[fd] = "none" THEN <<>> ELSE stream[fd] \o Posted(Mail(out', fd))
  BY DEF ServerActs
<1>2. stream[fd] \in Seq(Pieces) /\ Posted(Mail(out', fd)) \in Seq(Pieces)
  BY PostedByStep DEF SInv, ServerActs, Next
<1>3. stream[fd] \o Posted(Mail(out', fd)) \in Seq(Pieces)
  BY <1>2, Appended
<1> QED
  BY <1>1, <1>2, <1>3

(***************************************************************************)
(* A step of the server: before the start it sends nothing that carries a  *)
(* zero, the start sends every player its role first, and later steps send *)
(* no role.                                                                *)
(***************************************************************************)
LEMMA ServerActsKeeps ==
  ASSUME SInv, ServerActs
  PROVE  SInv'
<1>1. IInv /\ Next /\ IInv'
  BY NextKeeps DEF SInv, ServerActs, Next
<1>2. stream' \in [Fd -> Seq(Pieces)] /\ shown' \in [Fd -> SUBSET StartKinds]
  <2>1. stream' \in [Fd -> Seq(Pieces)]
    BY StreamGrows DEF ServerActs
  <2> QED
    BY <2>1 DEF ServerActs, SInv
<1>3. ASSUME NEW fd \in Fd
      PROVE  /\ InLobby' => NoRole(stream'[fd]) /\ NoZero(stream'[fd])
             /\ Clear(stream'[fd])
  <2> DEFINE q == stream[fd]
             r == Posted(Mail(out', fd))
  <2>1. /\ stream'[fd] = IF link'[fd] = "none" THEN <<>> ELSE q \o r
        /\ q \in Seq(Pieces) /\ r \in Seq(Pieces)
    BY StreamGrows
  <2>2. /\ ~AdmitLast => NoRole(r)
        /\ InLobby /\ ~AdmitLast => NoZero(r)
        /\ AdmitLast /\ fd \in ToSet(clients') => Clear(r)
    BY <1>1, PostedByStep
  <2>3. (InLobby => NoRole(q) /\ NoZero(q)) /\ Clear(q)
    BY DEF SInv
  <2> HIDE DEF q, r
  <2>4. CASE link'[fd] = "none"
    BY <2>1, <2>4 DEF NoRole, NoZero, Clear
  <2>5. CASE link'[fd] # "none"
    <3>1. stream'[fd] = q \o r
      BY <2>1, <2>5
    <3>2. InLobby' => InLobby /\ ~AdmitLast
      BY <1>1, LobbyBefore
    <3>3. InLobby' => NoRole(q \o r) /\ NoZero(q \o r)
      BY <2>1, <2>2, <2>3, <3>2, Appended
    <3>4. AdmitLast => InLobby /\ fd \in ToSet(clients')
      BY <1>1, <2>5 DEF AdmitLast, IInv, Registered, OpenFds
    <3>5. Clear(q \o r)
      <4>1. CASE AdmitLast
        BY <2>1, <2>2, <2>3, <3>4, <4>1, Appended
      <4>2. CASE ~AdmitLast
        BY <2>1, <2>2, <2>3, <4>2, Appended
      <4> QED
        BY <4>1, <4>2
    <3> QED
      BY <3>1, <3>3, <3>5
  <2> QED
    BY <2>4, <2>5
<1> QED
  BY <1>1, <1>2, <1>3 DEF SInv

\* A step of a peer leaves what is on its way.
LEMMA PeersActKeeps ==
  ASSUME SInv, PeersAct
  PROVE  SInv'
<1>1. IInv' /\ UNCHANGED <<gm, stream, shown>>
  BY NextKeeps, PeerEffect DEF SInv, PeersAct, Next, gameVars
<1>2. InLobby' <=> InLobby
  BY <1>1 DEF InLobby
<1> QED
  BY <1>1, <1>2 DEF SInv

(***************************************************************************)
(* A client's read: of a stream that is clear it leaves a clear one, and a *)
(* role that it takes it prints when the buffer has room for the colours.  *)
(***************************************************************************)
LEMMA ClientReadsKeeps ==
  ASSUME SInv, NEW t \in Fd, ClientReads(t)
  PROVE  /\ SInv'
         /\ \A fd \in Fd :
              "role" \in Coming(fd) /\ "role" \notin Coming(fd)' =>
                "role" \in shown'[fd] \/ TakenFrom(fd) > ReadMax - Colour
<1> DEFINE q == stream[t]
<1>1. PICK n \in 1 .. Min({ReadMax, Len(q)}) :
        /\ stream' = [stream EXCEPT ![t] = SubSeq(q, n + 1, Len(q))]
        /\ shown' = [shown EXCEPT ![t] =
                       @ \union Kinds(SubSeq(q, 1, n), PrintedLength(SubSeq(q, 1, n)))]
  BY DEF ClientReads
<1> DEFINE b == SubSeq(q, n + 1, Len(q))
           printed == Kinds(SubSeq(q, 1, n), PrintedLength(SubSeq(q, 1, n)))
<1>2. /\ stream \in [Fd -> Seq(Pieces)] /\ shown \in [Fd -> SUBSET StartKinds]
      /\ q \in Seq(Pieces) /\ Clear(q)
  BY DEF SInv
<1>3. Len(q) \in Nat /\ DOMAIN q = 1 .. Len(q) /\ n \in 1 .. Len(q)
  <2>1. Len(q) \in Nat /\ DOMAIN q = 1 .. Len(q) /\ ReadMax \in Nat
    BY <1>2, LenProperties, MailAssumption
  <2>2. Min({ReadMax, Len(q)}) \in Nat /\ Min({ReadMax, Len(q)}) <= Len(q)
    <3>1. {ReadMax, Len(q)} \subseteq Nat /\ {ReadMax, Len(q)} # {}
      BY <2>1
    <3> QED
      BY <3>1, MinIsLeast
  <2> QED
    BY <1>1, <2>1, <2>2
<1>4. /\ b \in Seq(Pieces) /\ DOMAIN b = 1 .. Len(q) - n
      /\ \A i \in 1 .. Len(q) - n : b[i] = q[n + i]
  BY <1>2, <1>3, Parts
<1>5. Len(b) = Len(q) - n
  BY <1>3, <1>4, LenProperties
<1>6. /\ NoRole(q) => NoRole(b)
      /\ NoZero(q) => NoZero(b)
      /\ Clear(b)
  BY <1>2, <1>3, Suffix
<1>7. IInv' /\ (InLobby' <=> InLobby)
  BY StillKeeps DEF SInv, ClientReads
<1>8. printed \subseteq StartKinds
  BY DEF Kinds
<1> HIDE DEF q, b, printed
<1>9. /\ stream' = [stream EXCEPT ![t] = b]
      /\ shown' = [shown EXCEPT ![t] = @ \union printed]
  BY <1>1 DEF b, printed
<1>10. SInv'
  <2>1. stream' \in [Fd -> Seq(Pieces)] /\ shown' \in [Fd -> SUBSET StartKinds]
    BY <1>2, <1>4, <1>8, <1>9
  <2>2. \A fd \in Fd : stream'[fd] = IF fd = t THEN b ELSE stream[fd]
    BY <1>2, <1>9
  <2>3. InLobby' => \A fd \in Fd : NoRole(stream'[fd]) /\ NoZero(stream'[fd])
    BY <1>6, <1>7, <2>2 DEF SInv, q
  <2>4. \A fd \in Fd : Clear(stream'[fd])
    BY <1>6, <2>2 DEF SInv
  <2> QED
    BY <1>7, <2>1, <2>3, <2>4 DEF SInv
<1>11. ASSUME NEW fd \in Fd, "role" \in Coming(fd), "role" \notin Coming(fd)',
              ~(TakenFrom(fd) > ReadMax - Colour)
       PROVE  "role" \in shown'[fd]
  <2>1. fd = t
    <3>1. fd # t => stream'[fd] = stream[fd]
      BY <1>2, <1>9
    <3> QED
      BY <1>11, <3>1 DEF Coming
  <2>2. stream[fd] = q /\ stream'[fd] = b /\ shown'[fd] = shown[fd] \union printed
    BY <1>2, <1>9, <2>1 DEF q
  <2>3. n <= ReadMax - Colour
    <3>1. TakenFrom(fd) = n
      <4>1. TakenFrom(fd) = Len(q) - Len(b)
        BY <2>2 DEF TakenFrom
      <4> QED
        BY <1>3, <1>5, <4>1
    <3> QED
      BY <1>3, <1>11, <3>1, MailAssumption
  <2>4. PICK i \in 1 .. Len(q) : q[i] = RoleText
    BY <1>11, <2>2 DEF Coming, Kinds, RoleText
  <2>5. i <= n
    <3> SUFFICES ASSUME ~(i <= n) PROVE FALSE
      OBVIOUS
    <3>1. i - n \in 1 .. Len(q) - n /\ n + (i - n) = i
      BY <1>3, <2>4
    <3>2. i - n \in 1 .. Len(b) /\ b[i - n] = RoleText
      BY <1>4, <1>5, <2>4, <3>1
    <3>3. "role" \in Kinds(b, Len(b))
      BY <3>2 DEF Kinds, StartKinds, RoleText
    <3> QED
      BY <1>11, <2>2, <3>3 DEF Coming
  <2>6. i \in 1 .. n
    BY <1>3, <2>4, <2>5
  <2>7. "role" \in printed
    BY <1>2, <1>3, <2>3, <2>4, <2>6, RolePrinted DEF printed
  <2> QED
    BY <2>2, <2>7
<1> QED
  BY <1>10, <1>11

(***************************************************************************)
(* A role leaves a client's connection only to be printed, or in a read so *)
(* full that its colours do not fit: however the reads cut the messages,   *)
(* whatever whispers went before, whichever descriptors were reused, and   *)
(* whichever sends of the start failed.                                    *)
(***************************************************************************)
THEOREM RoleNotLost == SessionSpec => RoleKept
<1>1. SessionInit => SInv
  BY SInvInit
<1>2. SInv /\ [SessionNext]_sessionVars => SInv'
  <2> SUFFICES ASSUME SInv, [SessionNext]_sessionVars PROVE SInv'
    OBVIOUS
  <2>1. CASE ServerActs
    BY <2>1, ServerActsKeeps
  <2>2. CASE PeersAct
    BY <2>2, PeersActKeeps
  <2>3. ASSUME NEW fd \in Fd, ClientReads(fd) PROVE SInv'
    BY <2>3, ClientReadsKeeps
  <2>4. CASE UNCHANGED sessionVars
    <3>1. IInv' /\ UNCHANGED <<gm, stream, shown>>
      BY <2>4, NextKeeps DEF SInv, sessionVars, vars, gameVars
    <3>2. InLobby' <=> InLobby
      BY <3>1 DEF InLobby
    <3> QED
      BY <3>1, <3>2 DEF SInv
  <2> QED
    BY <2>1, <2>2, <2>3, <2>4 DEF SessionNext
<1>3. SInv /\ [SessionNext]_sessionVars =>
        [\A fd \in Fd :
           link'[fd] = "up" /\ "role" \in Coming(fd) /\ "role" \notin Coming(fd)' =>
             "role" \in shown'[fd] \/ TakenFrom(fd) > ReadMax - Colour]_sessionVars
  <2> SUFFICES ASSUME SInv, SessionNext, NEW fd \in Fd, link'[fd] = "up",
                      "role" \in Coming(fd), "role" \notin Coming(fd)'
               PROVE  "role" \in shown'[fd] \/ TakenFrom(fd) > ReadMax - Colour
    OBVIOUS
  <2>1. CASE ServerActs
    <3> DEFINE q == stream[fd]
               s == q \o Posted(Mail(out', fd))
    <3>1. stream'[fd] = s /\ q \in Seq(Pieces) /\ Posted(Mail(out', fd)) \in Seq(Pieces)
      BY <2>1, StreamGrows
    <3>2. /\ Len(s) \in Nat /\ Len(q) \in Nat /\ Len(q) <= Len(s)
          /\ \A i \in 1 .. Len(q) : s[i] = q[i]
      BY <3>1, Appended
    <3> HIDE DEF s
    <3>3. PICK i \in 1 .. Len(q) : q[i] = RoleText
      BY DEF Coming, Kinds, RoleText
    <3>4. i \in 1 .. Len(s) /\ s[i] = RoleText
      BY <3>2, <3>3
    <3>5. "role" \in Kinds(s, Len(s))
      BY <3>4 DEF Kinds, StartKinds, RoleText
    <3> QED
      BY <3>1, <3>5 DEF Coming
  <2>2. CASE PeersAct
    BY <2>2 DEF PeersAct, Coming
  <2>3. ASSUME NEW t \in Fd, ClientReads(t)
        PROVE  "role" \in shown'[fd] \/ TakenFrom(fd) > ReadMax - Colour
    BY <2>3, ClientReadsKeeps
  <2> QED
    BY <2>1, <2>2, <2>3 DEF SessionNext
<1> QED
  BY <1>1, <1>2, <1>3, PTL DEF SessionSpec, RoleKept
=============================================================================
