------------------------- MODULE AsyncLoggingProofs -------------------------
(***************************************************************************)
(* Proofs about AsyncLogging for any number of lines, any buffer size,     *)
(* backlog and flush interval, and any failures of the file: the asserts   *)
(* of threadFunc hold, a buffer has one holder, every line is accounted    *)
(* for, and the logger implements the LogPipe.                             *)
(*                                                                         *)
(* The invariant says which buffers a place may hold and what is in them.  *)
(* Room is what makes new succeed in the model: the buffers in use are no  *)
(* more than the lines that filled them, so that one of Buffer is free.    *)
(*                                                                         *)
(* Order and loss are about the stream: the file, then the lines of the    *)
(* buffers in the order they will be written.  A step of the logger either *)
(* appends to the stream or cuts a part out of it, which is what Next of   *)
(* LogPipe allows.  The lines of a sequence of buffers are a fold, so the  *)
(* facts about it are proved by induction first.                           *)
(***************************************************************************)
EXTENDS AsyncLogging, FiniteSetTheorems, SequenceTheorems,
        WellFoundedInduction, TLAPS

\* A buffer has one holder, place by place.
Apart ==
  /\ \A p \in {currentBuffer, nextBuffer, newBuffer1, newBuffer2} :
       /\ ~InSeq(p, buffers)
       /\ ~InSeq(p, buffersToWrite)
  /\ currentBuffer \notin {nextBuffer, newBuffer1, newBuffer2}
  /\ nextBuffer # NoBuffer => nextBuffer \notin {newBuffer1, newBuffer2}
  /\ newBuffer1 # NoBuffer => newBuffer1 # newBuffer2
  /\ \A i, j \in 1..Len(buffers) : buffers[i] = buffers[j] => i = j
  /\ \A i, j \in 1..Len(buffersToWrite) : buffersToWrite[i] = buffersToWrite[j] => i = j
  /\ \A i \in 1..Len(buffers) : ~InSeq(buffers[i], buffersToWrite)

\* Whatever may become a spare or a current buffer is empty.
Empty ==
  /\ nextBuffer # NoBuffer => content[nextBuffer] = <<>>
  /\ newBuffer1 # NoBuffer => content[newBuffer1] = <<>>
  /\ newBuffer2 # NoBuffer => content[newBuffer2] = <<>>
  /\ \A b \in Buffer \ Held : content[b] = <<>>

\* What the logging thread has, by where it is in its round.
Spares ==
  /\ owner = "new" => pc = "unborn"
  /\ nextBuffer = NoBuffer => buffers # <<>>
  /\ pc \in {"unborn", "born"} => newBuffer1 = NoBuffer /\ newBuffer2 = NoBuffer
  /\ pc \in {"loop", "lock", "waiting"} => newBuffer1 # NoBuffer /\ newBuffer2 # NoBuffer
  /\ pc \notin {"collected", "write"} => buffersToWrite = <<>> /\ written = 0
  /\ pc = "collected" => written = 0
  /\ pc \in {"collected", "write"} =>
       /\ newBuffer1 = NoBuffer
       /\ Len(buffersToWrite) >= 1
       /\ newBuffer2 = NoBuffer => Len(buffersToWrite) >= 2

\* Every buffer in use was filled by lines, but for the last one collected.
Room ==
  /\ appended <= MaxLines
  /\ Len(buffers) + Len(buffersToWrite)
       <= appended + (IF pc \in {"collected", "write"} THEN 1 ELSE 0)

IInv == TypeOK /\ Apart /\ Empty /\ Spares /\ Room

-----------------------------------------------------------------------------
(* Sequences of sequences, one after the other.                            *)

\* A set of numbers with 0 and the successor of each of its members has them all.
LEMMA SetInduction ==
  ASSUME NEW S, 0 \in S, \A n \in Nat : n \in S => n + 1 \in S
  PROVE  Nat \subseteq S
<1> SUFFICES ASSUME NEW m \in Nat, m \notin S PROVE FALSE
  OBVIOUS
<1> DEFINE T == Nat \ S
<1>1. PICK k \in T : \A l \in T : ~(<<l, k>> \in OpToRel(<, Nat))
  <2>1. T \subseteq Nat /\ T # {}
    OBVIOUS
  <2> HIDE DEF T
  <2> QED
    BY <2>1, NatLessThanWellFounded, WFMin
<1>2. k - 1 \in Nat
  OBVIOUS
<1>3. <<k - 1, k>> \in OpToRel(<, Nat)
  BY <1>2 DEF OpToRel
<1>4. k - 1 \in S
  BY <1>1, <1>2, <1>3
<1> QED
  BY <1>2, <1>4

\* F is what FlattenSeq computes along q.
Flattens(F, q) ==
  F = [i \in 1..Len(q) |-> IF i = 1 THEN q[i] ELSE F[i - 1] \o q[i]]

\* The same up to place m, without saying where F ends.
FlattensTo(F, q, m) ==
  \A i \in 1..m : F[i] = IF i = 1 THEN q[i] ELSE F[i - 1] \o q[i]

\* Only one function is what FlattenSeq computes.
LEMMA FlattensUnique ==
  ASSUME NEW q, NEW F, NEW G, NEW n \in Nat, FlattensTo(F, q, n), FlattensTo(G, q, n)
  PROVE  \A i \in 1..n : F[i] = G[i]
<1> DEFINE T == {m \in Nat : m \in 1..n => F[m] = G[m]}
<1>1. 0 \in T
  OBVIOUS
<1>2. \A m \in Nat : m \in T => m + 1 \in T
  <2> SUFFICES ASSUME NEW m \in T, m + 1 \in 1..n PROVE F[m + 1] = G[m + 1]
    OBVIOUS
  <2>1. /\ F[m + 1] = IF m + 1 = 1 THEN q[m + 1] ELSE F[m + 1 - 1] \o q[m + 1]
        /\ G[m + 1] = IF m + 1 = 1 THEN q[m + 1] ELSE G[m + 1 - 1] \o q[m + 1]
    BY DEF FlattensTo
  <2>2. m + 1 - 1 = m /\ (m + 1 # 1 => m \in 1..n)
    OBVIOUS
  <2> QED
    BY <2>1, <2>2
<1> HIDE DEF T
<1>3. Nat \subseteq T
  BY <1>1, <1>2, SetInduction
<1> QED
  BY <1>3 DEF T

\* There is such a function for every sequence.
LEMMA FlattensExists ==
  ASSUME NEW S, NEW q \in Seq(Seq(S)), NEW n \in Nat, n <= Len(q)
  PROVE  \E F \in [1..n -> Seq(S)] : FlattensTo(F, q, n)
<1> DEFINE T == {m \in Nat : m <= Len(q) => \E F \in [1..m -> Seq(S)] : FlattensTo(F, q, m)}
<1>1. 0 \in T
  <2>1. [i \in 1..0 |-> <<>>] \in [1..0 -> Seq(S)]
    OBVIOUS
  <2>2. FlattensTo([i \in 1..0 |-> <<>>], q, 0)
    BY DEF FlattensTo
  <2> QED
    BY <2>1, <2>2
<1>2. ASSUME NEW m \in Nat, m \in T PROVE m + 1 \in T
  <2> SUFFICES ASSUME m + 1 <= Len(q)
               PROVE  \E F \in [1..(m + 1) -> Seq(S)] : FlattensTo(F, q, m + 1)
    OBVIOUS
  <2>1. PICK F \in [1..m -> Seq(S)] : FlattensTo(F, q, m)
    BY <1>2
  <2>2. q[m + 1] \in Seq(S)
    OBVIOUS
  <2> DEFINE last == IF m + 1 = 1 THEN q[m + 1] ELSE F[m] \o q[m + 1]
             G == [i \in 1..(m + 1) |-> IF i \in 1..m THEN F[i] ELSE last]
  <2>3. last \in Seq(S)
    BY <2>2
  <2> HIDE DEF last
  <2>4. G \in [1..(m + 1) -> Seq(S)]
    BY <2>3
  <2>5. ASSUME NEW i \in 1..(m + 1)
        PROVE  G[i] = IF i = 1 THEN q[i] ELSE G[i - 1] \o q[i]
    <3>1. CASE i = m + 1
      BY <3>1 DEF last
    <3>2. CASE i \in 1..m
      <4>1. F[i] = IF i = 1 THEN q[i] ELSE F[i - 1] \o q[i]
        BY <2>1, <3>2 DEF FlattensTo
      <4>2. i # 1 => G[i - 1] = F[i - 1]
        BY <3>2
      <4> QED
        BY <3>2, <4>1, <4>2
    <3> QED
      BY <3>1, <3>2
  <2>6. FlattensTo(G, q, m + 1)
    BY <2>5 DEF FlattensTo
  <2> QED
    BY <2>4, <2>6
<1> HIDE DEF T
<1>3. Nat \subseteq T
  BY <1>1, <1>2, SetInduction
<1> QED
  BY <1>3 DEF T

\* What FlattenSeq is, without recursion.
LEMMA FlattenIs ==
  ASSUME NEW S, NEW q \in Seq(Seq(S)), Len(q) # 0,
         NEW F, FlattensTo(F, q, Len(q))
  PROVE  SX!FlattenSeq(q) = F[Len(q)] /\ F[Len(q)] \in Seq(S)
<1> DEFINE n == Len(q)
<1>1. n \in Nat /\ n \in 1..n /\ n <= Len(q)
  OBVIOUS
<1>2. PICK G \in [1..n -> Seq(S)] : FlattensTo(G, q, n)
  BY <1>1, FlattensExists
<1>3. Flattens(G, q)
  BY <1>2 DEF Flattens, FlattensTo
<1> DEFINE C == CHOOSE f : f = [i \in 1..Len(q) |-> IF i = 1 THEN q[i] ELSE f[i - 1] \o q[i]]
<1>4. C = [i \in 1..Len(q) |-> IF i = 1 THEN q[i] ELSE C[i - 1] \o q[i]]
  BY <1>3 DEF Flattens
<1>5. SX!FlattenSeq(q) = C[n]
  BY DEF SX!FlattenSeq
<1> HIDE DEF C
<1>6. FlattensTo(C, q, n)
  <2> SUFFICES ASSUME NEW i \in 1..n
               PROVE  C[i] = IF i = 1 THEN q[i] ELSE C[i - 1] \o q[i]
    BY DEF FlattensTo
  <2> QED
    BY <1>4
<1> HIDE DEF n
<1>7. C[n] = F[n] /\ G[n] = F[n]
  BY <1>1, <1>2, <1>6, FlattensUnique DEF n
<1> QED
  BY <1>1, <1>2, <1>5, <1>7 DEF n

\* The sequences of a sequence, one after the other, are one sequence.
LEMMA FlattenType ==
  ASSUME NEW S, NEW q \in Seq(Seq(S))
  PROVE  SX!FlattenSeq(q) \in Seq(S)
<1>1. CASE Len(q) = 0
  <2>1. SX!FlattenSeq(q) = q /\ q = <<>>
    BY <1>1 DEF SX!FlattenSeq
  <2> QED
    BY <2>1
<1>2. CASE Len(q) # 0
  <2>1. PICK F \in [1..Len(q) -> Seq(S)] : FlattensTo(F, q, Len(q))
    BY FlattensExists
  <2> QED
    BY <1>2, <2>1, FlattenIs
<1> QED
  BY <1>1, <1>2

\* Of no sequences, the empty one.
LEMMA FlattenEmpty == SX!FlattenSeq(<<>>) = <<>>
BY DEF SX!FlattenSeq

\* One more sequence comes last.
LEMMA FlattenAppend ==
  ASSUME NEW S, NEW q \in Seq(Seq(S)), NEW s \in Seq(S)
  PROVE  SX!FlattenSeq(Append(q, s)) = SX!FlattenSeq(q) \o s
<1> DEFINE n == Len(q)
           r == Append(q, s)
<1>1. /\ r \in Seq(Seq(S)) /\ Len(r) = n + 1 /\ n \in Nat
      /\ n + 1 \in Nat /\ n + 1 <= Len(r)
      /\ \A i \in 1..n : r[i] = q[i]
      /\ r[n + 1] = s
  OBVIOUS
<1> HIDE DEF r
<1>2. PICK F \in [1..(n + 1) -> Seq(S)] : FlattensTo(F, r, n + 1)
  BY <1>1, FlattensExists
<1>3. SX!FlattenSeq(r) = F[n + 1]
  BY <1>1, <1>2, FlattenIs
<1>4. F[n + 1] = IF n + 1 = 1 THEN s ELSE F[n] \o s
  <2>1. PICK k : k = n + 1
    OBVIOUS
  <2>2. k \in 1..(n + 1) /\ k - 1 = n
    BY <1>1, <2>1
  <2>3. F[k] = IF k = 1 THEN r[k] ELSE F[k - 1] \o r[k]
    BY <1>2, <2>2 DEF FlattensTo
  <2> QED
    BY <1>1, <2>1, <2>2, <2>3
<1>5. CASE n = 0
  <2>1. q = <<>>
    BY <1>5
  <2> QED
    BY <1>3, <1>4, <1>5, <2>1, FlattenEmpty DEF r
<1>6. CASE n # 0
  <2>1. FlattensTo(F, q, n)
    <3> SUFFICES ASSUME NEW i \in 1..n
                 PROVE  F[i] = IF i = 1 THEN q[i] ELSE F[i - 1] \o q[i]
      BY DEF FlattensTo
    <3>1. i \in 1..(n + 1)
      BY <1>1
    <3>2. F[i] = IF i = 1 THEN r[i] ELSE F[i - 1] \o r[i]
      BY <1>2, <3>1 DEF FlattensTo
    <3> QED
      BY <1>1, <3>2
  <2>2. SX!FlattenSeq(q) = F[n]
    BY <1>6, <2>1, FlattenIs
  <2> QED
    BY <1>1, <1>3, <1>4, <1>6, <2>2 DEF r
<1> QED
  BY <1>5, <1>6

\* \o under a name of its own, for steps that only regroup.
Cat(s, t) == s \o t

\* How sequences are put together does not matter.
LEMMA Regroup ==
  ASSUME NEW S, NEW a \in Seq(S), NEW b \in Seq(S), NEW c \in Seq(S)
  PROVE  Cat(Cat(a, b), c) = Cat(a, Cat(b, c))
BY DEF Cat

\* What is appended to the second is at the end of both.
LEMMA AppendConcat ==
  ASSUME NEW S, NEW s \in Seq(S), NEW t \in Seq(S), NEW x \in S
  PROVE  s \o Append(t, x) = Append(s \o t, x)
OBVIOUS

\* The sequences of two sequences of them, one group after the other.
LEMMA FlattenConcat ==
  ASSUME NEW S, NEW U, U = Seq(S), NEW p \in Seq(U), NEW q \in Seq(U)
  PROVE  SX!FlattenSeq(p \o q) = SX!FlattenSeq(p) \o SX!FlattenSeq(q)
<1> DEFINE Flat(r) == SX!FlattenSeq(r)
           T == {n \in Nat : \A r \in Seq(U) : Len(r) = n => Flat(p \o r) = Flat(p) \o Flat(r)}
<1>1. 0 \in T
  <2> SUFFICES ASSUME NEW r \in Seq(U), Len(r) = 0
               PROVE  Flat(p \o r) = Flat(p) \o Flat(r)
    OBVIOUS
  <2>1. r = <<>> /\ p \o r = p
    OBVIOUS
  <2>2. Flat(p) \in Seq(S)
    BY FlattenType
  <2> QED
    BY <2>1, <2>2, FlattenEmpty
<1>2. ASSUME NEW n \in Nat, n \in T PROVE n + 1 \in T
  <2> SUFFICES ASSUME NEW r \in Seq(U), Len(r) = n + 1
               PROVE  Flat(p \o r) = Flat(p) \o Flat(r)
    OBVIOUS
  <2> DEFINE f == SubSeq(r, 1, n)
             s == r[n + 1]
  <2>1. f \in Seq(U) /\ Len(f) = n /\ s \in U
    OBVIOUS
  <2>2. r = Append(f, s)
    BY <2>1
  <2> HIDE DEF f, s
  <2>3. p \o r = Append(p \o f, s)
    BY <2>1, <2>2, AppendConcat
  <2>4. Flat(p \o f) = Flat(p) \o Flat(f)
    BY <1>2, <2>1
  <2>5. p \o f \in Seq(U)
    BY <2>1
  <2>6. /\ SX!FlattenSeq(Append(p \o f, s)) = SX!FlattenSeq(p \o f) \o s
        /\ SX!FlattenSeq(Append(f, s)) = SX!FlattenSeq(f) \o s
    BY <2>1, <2>5, FlattenAppend
  <2>7. Flat(p) \in Seq(S) /\ Flat(f) \in Seq(S)
    BY <2>1, FlattenType
  <2> HIDE DEF Flat, T
  <2>8. Flat(Append(p \o f, s)) = Flat(p) \o Flat(Append(f, s))
    <3>1. PICK P, Q, PQ, Qs, PQs :
            /\ P = Flat(p) /\ Q = Flat(f) /\ PQ = Flat(p \o f)
            /\ Qs = Flat(Append(f, s)) /\ PQs = Flat(Append(p \o f, s))
      OBVIOUS
    <3>2. P \in Seq(S) /\ Q \in Seq(S) /\ s \in Seq(S)
      BY <2>1, <2>7, <3>1
    <3>3. PQ = Cat(P, Q) /\ Qs = Cat(Q, s) /\ PQs = Cat(PQ, s)
      BY <2>4, <2>6, <3>1 DEF Flat, Cat
    <3>4. PQs = Cat(P, Qs)
      <4>1. Cat(Cat(P, Q), s) = Cat(P, Cat(Q, s))
        BY <3>2, Regroup
      <4> QED
        BY <3>3, <4>1
    <3> QED
      BY <3>1, <3>4 DEF Cat
  <2> QED
    BY <2>2, <2>3, <2>8
<1> HIDE DEF T
<1>3. Nat \subseteq T
  BY <1>1, <1>2, SetInduction
<1> QED
  BY <1>3 DEF T

\* The elements with one more.
LEMMA ElementsAppend ==
  ASSUME NEW S, NEW s \in Seq(S), NEW x
  PROVE  Elements(Append(s, x)) = Elements(s) \cup {x}
<1>1. Len(Append(s, x)) = Len(s) + 1 /\ Len(s) \in Nat
  OBVIOUS
<1>2. \A i \in 1..(Len(s) + 1) : Append(s, x)[i] = IF i <= Len(s) THEN s[i] ELSE x
  OBVIOUS
<1>3. \A i \in 1..(Len(s) + 1) : i \in 1..Len(s) \/ i = Len(s) + 1
  BY <1>1
<1>4. 1..Len(s) \subseteq 1..(Len(s) + 1) /\ Len(s) + 1 \in 1..(Len(s) + 1)
  BY <1>1
<1> QED
  BY <1>1, <1>2, <1>3, <1>4 DEF Elements

\* The elements of two sequences.
LEMMA ElementsConcat ==
  ASSUME NEW S, NEW s \in Seq(S), NEW t \in Seq(S)
  PROVE  Elements(s \o t) = Elements(s) \cup Elements(t)
<1> DEFINE r == s \o t
<1>1. /\ Len(r) = Len(s) + Len(t) /\ Len(s) \in Nat /\ Len(t) \in Nat
      /\ \A i \in 1..Len(s) : r[i] = s[i]
      /\ \A i \in 1..Len(t) : r[Len(s) + i] = t[i]
  OBVIOUS
<1> HIDE DEF r
<1>2. \A i \in 1..Len(r) : r[i] \in Elements(s) \cup Elements(t)
  <2> TAKE i \in 1..Len(r)
  <2>1. CASE i \in 1..Len(s)
    BY <1>1, <2>1 DEF Elements
  <2>2. CASE i > Len(s)
    <3>1. PICK k \in 1..Len(t) : i = Len(s) + k
      <4>1. i - Len(s) \in 1..Len(t) /\ i = Len(s) + (i - Len(s))
        BY <1>1, <2>2
      <4> QED
        BY <4>1
    <3> QED
      BY <1>1, <3>1 DEF Elements
  <2> QED
    BY <1>1, <2>1, <2>2
<1>3. \A i \in 1..Len(s) : s[i] \in Elements(r)
  BY <1>1 DEF Elements
<1>4. \A i \in 1..Len(t) : t[i] \in Elements(r)
  <2> TAKE i \in 1..Len(t)
  <2>1. Len(s) + i \in 1..Len(r)
    BY <1>1
  <2> QED
    BY <1>1, <2>1 DEF Elements
<1> QED
  BY <1>2, <1>3, <1>4 DEF Elements, r

\* The elements are those of every sequence.
LEMMA FlattenElements ==
  ASSUME NEW S, NEW q \in Seq(Seq(S))
  PROVE  Elements(SX!FlattenSeq(q)) = UNION {Elements(q[i]) : i \in 1..Len(q)}
<1> DEFINE Flat(r) == SX!FlattenSeq(r)
           All(r) == UNION {Elements(r[i]) : i \in 1..Len(r)}
           T == {n \in Nat : \A r \in Seq(Seq(S)) : Len(r) = n => Elements(Flat(r)) = All(r)}
<1>1. 0 \in T
  <2> SUFFICES ASSUME NEW r \in Seq(Seq(S)), Len(r) = 0
               PROVE  Elements(Flat(r)) = All(r)
    OBVIOUS
  <2>1. r = <<>> /\ Flat(r) = <<>>
    BY FlattenEmpty
  <2> QED
    BY <2>1 DEF Elements
<1>2. ASSUME NEW n \in Nat, n \in T PROVE n + 1 \in T
  <2> SUFFICES ASSUME NEW r \in Seq(Seq(S)), Len(r) = n + 1
               PROVE  Elements(Flat(r)) = All(r)
    OBVIOUS
  <2> DEFINE f == SubSeq(r, 1, n)
             s == r[n + 1]
  <2>1. /\ f \in Seq(Seq(S)) /\ Len(f) = n /\ s \in Seq(S)
        /\ \A i \in 1..n : f[i] = r[i]
    OBVIOUS
  <2>2. r = Append(f, s)
    BY <2>1
  <2> HIDE DEF f
  <2>3. Elements(Flat(f)) = All(f)
    BY <1>2, <2>1
  <2> HIDE DEF s, T
  <2>4. SX!FlattenSeq(Append(f, s)) = SX!FlattenSeq(f) \o s
    BY <2>1, FlattenAppend
  <2>5. Flat(f) \in Seq(S)
    BY <2>1, FlattenType
  <2>6. Elements(Flat(f) \o s) = Elements(Flat(f)) \cup Elements(s)
    <3> HIDE DEF Flat
    <3> QED
      BY <2>1, <2>5, ElementsConcat
  <2>7. All(r) = All(f) \cup Elements(s)
    <3>1. 1..Len(r) = 1..Len(f) \cup {n + 1}
      BY <2>1
    <3> QED
      BY <2>1, <3>1, ZenonT(40) DEF s
  <2> HIDE DEF All
  <2> QED
    BY <2>2, <2>3, <2>4, <2>6, <2>7
<1> HIDE DEF T
<1>3. Nat \subseteq T
  BY <1>1, <1>2, SetInduction
<1> QED
  BY <1>3 DEF T

\* Lines with content as a parameter.
LinesAt(c, bs) == SX!FlattenSeq([i \in 1..Len(bs) |-> c[bs[i]]])

\* What is in some buffers is a sequence of sequences of lines.
LEMMA ContentsOf ==
  ASSUME NEW B, NEW c \in [B -> Seq(Nat)], NEW bs \in Seq(B)
  PROVE  [i \in 1..Len(bs) |-> c[bs[i]]] \in Seq(Seq(Nat))
OBVIOUS

\* The lines of some buffers.
LEMMA LinesAtType ==
  ASSUME NEW B, NEW c \in [B -> Seq(Nat)], NEW bs \in Seq(B)
  PROVE  LinesAt(c, bs) \in Seq(Nat)
BY ContentsOf, FlattenType DEF LinesAt

\* They are the lines of each of them.
LEMMA LinesAtElements ==
  ASSUME NEW B, NEW c \in [B -> Seq(Nat)], NEW bs \in Seq(B)
  PROVE  Elements(LinesAt(c, bs)) = UNION {Elements(c[bs[i]]) : i \in 1..Len(bs)}
<1> DEFINE q == [i \in 1..Len(bs) |-> c[bs[i]]]
<1>1. q \in Seq(Seq(Nat)) /\ Len(q) = Len(bs)
  BY ContentsOf
<1>2. \A i \in 1..Len(bs) : q[i] = c[bs[i]]
  OBVIOUS
<1> HIDE DEF q
<1>3. Elements(SX!FlattenSeq(q)) = UNION {Elements(q[i]) : i \in 1..Len(q)}
  BY <1>1, FlattenElements
<1> QED
  BY <1>1, <1>2, <1>3 DEF LinesAt, q

\* They are the same when the contents are.
LEMMA LinesAtSame ==
  ASSUME NEW B, NEW c, NEW d, NEW bs \in Seq(B), \A i \in 1..Len(bs) : c[bs[i]] = d[bs[i]]
  PROVE  LinesAt(c, bs) = LinesAt(d, bs)
<1>1. [i \in 1..Len(bs) |-> c[bs[i]]] = [i \in 1..Len(bs) |-> d[bs[i]]]
  OBVIOUS
<1> QED
  BY <1>1 DEF LinesAt

\* Empty buffers have none.
LEMMA LinesAtEmpty ==
  ASSUME NEW c, NEW bs, bs = <<>>
  PROVE  LinesAt(c, bs) = <<>>
<1>1. [i \in 1..Len(<<>>) |-> c[<<>>[i]]] = <<>>
  OBVIOUS
<1> QED
  BY <1>1, FlattenEmpty DEF LinesAt

\* The lines of one more buffer come last.
LEMMA LinesAtAppend ==
  ASSUME NEW B, NEW c \in [B -> Seq(Nat)], NEW bs \in Seq(B), NEW b \in B
  PROVE  LinesAt(c, Append(bs, b)) = LinesAt(c, bs) \o c[b]
<1> DEFINE q == [i \in 1..Len(bs) |-> c[bs[i]]]
           r == [i \in 1..Len(Append(bs, b)) |-> c[Append(bs, b)[i]]]
<1>1. q \in Seq(Seq(Nat)) /\ Len(q) = Len(bs) /\ c[b] \in Seq(Nat)
  BY ContentsOf
<1>2. r = Append(q, c[b])
  OBVIOUS
<1> HIDE DEF q, r
<1>3. SX!FlattenSeq(Append(q, c[b])) = SX!FlattenSeq(q) \o c[b]
  BY <1>1, FlattenAppend
<1> QED
  BY <1>2, <1>3 DEF LinesAt, q, r

\* The lines of some buffers and of more.
LEMMA LinesAtConcat ==
  ASSUME NEW B, NEW c \in [B -> Seq(Nat)], NEW p \in Seq(B), NEW q \in Seq(B)
  PROVE  LinesAt(c, p \o q) = LinesAt(c, p) \o LinesAt(c, q)
<1> DEFINE a == [i \in 1..Len(p) |-> c[p[i]]]
           b == [i \in 1..Len(q) |-> c[q[i]]]
           r == [i \in 1..Len(p \o q) |-> c[(p \o q)[i]]]
<1>1. a \in Seq(Seq(Nat)) /\ b \in Seq(Seq(Nat))
  BY ContentsOf
<1>2. r = a \o b
  OBVIOUS
<1> HIDE DEF a, b, r
<1>3. SX!FlattenSeq(a \o b) = SX!FlattenSeq(a) \o SX!FlattenSeq(b)
  BY <1>1, FlattenConcat
<1> QED
  BY <1>2, <1>3 DEF LinesAt, a, b, r

\* The lines of one buffer.
LEMMA LinesAtSingle ==
  ASSUME NEW B, NEW c \in [B -> Seq(Nat)], NEW b \in B
  PROVE  LinesAt(c, <<b>>) = c[b]
<1>1. <<>> \in Seq(B) /\ Append(<<>>, b) = <<b>>
  OBVIOUS
<1>2. LinesAt(c, <<b>>) = LinesAt(c, <<>>) \o c[b]
  BY <1>1, LinesAtAppend
<1>3. LinesAt(c, <<>>) = <<>>
  BY LinesAtEmpty
<1>4. PICK s \in Seq(Nat) : s = c[b]
  OBVIOUS
<1>5. <<>> \o s = s
  OBVIOUS
<1> QED
  BY <1>2, <1>3, <1>4, <1>5

-----------------------------------------------------------------------------
(* Memory never runs out.                                                  *)

\* A sequence has no more elements than places.
LEMMA FewElements ==
  ASSUME NEW S, NEW s \in Seq(S)
  PROVE  IsFiniteSet(Elements(s)) /\ Cardinality(Elements(s)) <= Len(s)
         /\ Cardinality(Elements(s)) \in Nat
<1>1. Len(s) \in Nat /\ IsFiniteSet(1..Len(s)) /\ Cardinality(1..Len(s)) = Len(s)
  <2>1. Len(s) \in Nat /\ Len(s) \in Int /\ 1 \in Int
    OBVIOUS
  <2>2. /\ IsFiniteSet(1..Len(s))
        /\ Cardinality(1..Len(s)) = IF 1 > Len(s) THEN 0 ELSE Len(s) - 1 + 1
    BY <2>1, FS_Interval
  <2> QED
    BY <2>1, <2>2
<1>2. s \in Surjection(1..Len(s), Elements(s))
  BY DEF Elements, Surjection
<1>3. IsFiniteSet(Elements(s)) /\ Cardinality(Elements(s)) <= Cardinality(1..Len(s))
  BY <1>1, <1>2, FS_Surjection
<1> QED
  BY <1>1, <1>3, FS_CardinalityType

\* A finite set with one more element has at most one more.
LEMMA OneMore ==
  ASSUME NEW S, IsFiniteSet(S), NEW n \in Nat, Cardinality(S) \in Nat,
         Cardinality(S) <= n, NEW x, NEW T, T = S \cup {x}
  PROVE  IsFiniteSet(T) /\ Cardinality(T) \in Nat /\ Cardinality(T) <= n + 1
<1>1. /\ IsFiniteSet(S \cup {x})
      /\ Cardinality(S \cup {x}) = IF x \in S THEN Cardinality(S) ELSE Cardinality(S) + 1
  BY FS_AddElement
<1> QED
  BY <1>1

\* Beyond some pointers and two sequences there is a buffer, if there are enough.
LEMMA BufferLeft ==
  ASSUME NEW a, NEW b, NEW c, NEW s \in Seq(Buffer), NEW t \in Seq(Buffer),
         Len(s) + Len(t) + 3 < MaxLines + 5,
         NEW H, H \subseteq {a, b, c} \cup Elements(s) \cup Elements(t)
  PROVE  \E x \in Buffer : x \notin H
<1> DEFINE P == {a, b, c}
           E == Elements(s) \cup Elements(t)
<1>1. IsFiniteSet(P) /\ Cardinality(P) \in Nat /\ Cardinality(P) <= 3
  <2>1. PICK A : A = {a}
    OBVIOUS
  <2>2. PICK B : B = A \cup {b}
    OBVIOUS
  <2>3. IsFiniteSet(A) /\ Cardinality(A) \in Nat /\ Cardinality(A) <= 1
    <3>1. IsFiniteSet({a}) /\ Cardinality({a}) = 1
      BY FS_Singleton, Zenon
    <3> QED
      BY <2>1, <3>1
  <2>4. IsFiniteSet(B) /\ Cardinality(B) \in Nat /\ Cardinality(B) <= 1 + 1
    BY <2>2, <2>3, OneMore
  <2>5. P = B \cup {c}
    BY <2>1, <2>2
  <2>6. Cardinality(B) <= 2 /\ 2 \in Nat
    BY <2>4
  <2>7. IsFiniteSet(P) /\ Cardinality(P) \in Nat /\ Cardinality(P) <= 2 + 1
    BY <2>4, <2>5, <2>6, OneMore
  <2> HIDE DEF P
  <2> QED
    BY <2>7
<1>2. /\ IsFiniteSet(E) /\ Cardinality(E) \in Nat
      /\ Cardinality(E) <= Len(s) + Len(t)
  <2>1. /\ IsFiniteSet(Elements(s)) /\ Cardinality(Elements(s)) <= Len(s)
        /\ Cardinality(Elements(s)) \in Nat
    BY FewElements
  <2>2. /\ IsFiniteSet(Elements(t)) /\ Cardinality(Elements(t)) <= Len(t)
        /\ Cardinality(Elements(t)) \in Nat
    BY FewElements
  <2>3. /\ IsFiniteSet(E)
        /\ Cardinality(E) = Cardinality(Elements(s)) + Cardinality(Elements(t))
                              - Cardinality(Elements(s) \cap Elements(t))
    BY <2>1, <2>2, FS_Union
  <2>4. Cardinality(Elements(s) \cap Elements(t)) \in Nat
    BY <2>1, FS_Subset, FS_CardinalityType
  <2>5. Cardinality(E) \in Nat
    BY <2>3, FS_CardinalityType
  <2> QED
    BY <2>1, <2>2, <2>3, <2>4, <2>5
<1>3. /\ IsFiniteSet(P \cup E) /\ Cardinality(P \cup E) \in Nat
      /\ Cardinality(P \cup E) <= 3 + Len(s) + Len(t)
  <2>1. /\ IsFiniteSet(P \cup E)
        /\ Cardinality(P \cup E) = Cardinality(P) + Cardinality(E) - Cardinality(P \cap E)
    BY <1>1, <1>2, FS_Union
  <2>2. Cardinality(P \cap E) \in Nat
    BY <1>1, FS_Subset, FS_CardinalityType
  <2>3. Cardinality(P \cup E) \in Nat
    BY <2>1, FS_CardinalityType
  <2> QED
    BY <1>1, <1>2, <2>1, <2>2, <2>3
<1>4. SUFFICES ASSUME Buffer \subseteq P \cup E PROVE FALSE
  OBVIOUS
<1>5. Cardinality(Buffer) <= Cardinality(P \cup E) /\ Cardinality(Buffer) \in Nat
  BY <1>3, <1>4, FS_Subset, FS_CardinalityType
<1> QED
  BY <1>3, <1>5, AsyncLoggingAssumption

\* new gives a buffer that nobody has, when there is one.
LEMMA NewIsFree ==
  ASSUME NEW H, \E x \in Buffer : x \notin H
  PROVE  New(H) \in Buffer /\ New(H) \notin H
BY DEF New

\* The constructor establishes the invariant.
LEMMA InitInv == Init => IInv
<1> SUFFICES ASSUME Init PROVE IInv
  OBVIOUS
<1> USE AsyncLoggingAssumption
<1>0. ASSUME NEW H, H \subseteq {currentBuffer} PROVE \E x \in Buffer : x \notin H
  <2>1. <<>> \in Seq(Buffer) /\ Len(<<>>) + Len(<<>>) + 3 < MaxLines + 5
    OBVIOUS
  <2>2. H \subseteq {currentBuffer, currentBuffer, currentBuffer}
                     \cup Elements(<<>>) \cup Elements(<<>>)
    BY <1>0
  <2> QED
    BY <2>1, <2>2, BufferLeft
<1>1. currentBuffer \in Buffer
  <2>1. \E x \in Buffer : x \notin {}
    BY <1>0
  <2> QED
    BY <2>1, NewIsFree DEF Init
<1>2. nextBuffer \in Buffer /\ nextBuffer # currentBuffer
  <2>1. \E x \in Buffer : x \notin {currentBuffer}
    BY <1>0
  <2> QED
    BY <2>1, NewIsFree DEF Init
<1>3. TypeOK
  <2>1. /\ content \in [Buffer -> Seq(Nat)] /\ file \in Seq(Nat) /\ onDisk \in 0..Len(file)
        /\ count \in 0..(FlushEveryN - 1) /\ failures \in 0..MaxFailures
    BY DEF Init
  <2>2. /\ buffers \in Seq(Buffer) /\ buffersToWrite \in Seq(Buffer)
        /\ written \in 0..Len(buffersToWrite)
    BY DEF Init
  <2> QED
    BY <1>1, <1>2, <2>1, <2>2 DEF Init, TypeOK, Pointer
<1>4. Apart
  BY <1>1, <1>2 DEF Init, Apart, InSeq
<1>5. Empty
  BY <1>1, <1>2 DEF Init, Empty
<1>6. Spares /\ Room
  BY <1>1, <1>2 DEF Init, Spares, Room
<1> QED
  BY <1>3, <1>4, <1>5, <1>6 DEF IInv

-----------------------------------------------------------------------------
(* The file.                                                               *)

\* The elements are of the type of the sequence.
LEMMA ElementsOf ==
  ASSUME NEW S, NEW s \in Seq(S)
  PROVE  Elements(s) \subseteq S
BY DEF Elements

\* What fflush leaves of a file.
LEMMA FlushTypes ==
  ASSUME TypeOK, NEW f \in Seq(Nat), Len(f) >= Len(file), NEW cut \in SUBSET Nat,
         Flush(f, cut)
  PROVE  /\ file' \in Seq(Nat) /\ onDisk' \in 0..Len(file')
         /\ dropped' \subseteq Nat /\ failures' \in 0..MaxFailures
<1>1. PICK d \in onDisk..Len(f), kept \in BOOLEAN :
        /\ onDisk' = d
        /\ file' = IF kept THEN f ELSE SubSeq(f, 1, d)
        /\ Failed((IF cut = {} THEN 0 ELSE 1) + (IF d = Len(f) THEN 0 ELSE 1))
        /\ dropped' = dropped \cup cut \cup (Elements(f) \ Elements(file'))
  BY DEF Flush
<1>2. d \in Nat /\ d <= Len(f)
  BY DEF TypeOK
<1>3. SubSeq(f, 1, d) \in Seq(Nat) /\ Len(SubSeq(f, 1, d)) = d
  BY <1>2
<1>4. file' \in Seq(Nat) /\ onDisk' \in 0..Len(file')
  BY <1>1, <1>2, <1>3
<1>5. dropped' \subseteq Nat
  BY <1>1, ElementsOf DEF TypeOK
<1>6. failures' \in 0..MaxFailures
  <2>0. PICK p \in {0, 1} : p = IF cut = {} THEN 0 ELSE 1
    OBVIOUS
  <2>1. PICK q \in {0, 1} : q = IF d = Len(f) THEN 0 ELSE 1
    OBVIOUS
  <2>2. failures + (p + q) <= MaxFailures /\ failures' = failures + (p + q)
    BY <1>1, <2>0, <2>1 DEF Failed
  <2> QED
    BY <2>2, AsyncLoggingAssumption DEF TypeOK
<1> QED
  BY <1>4, <1>5, <1>6

\* What AppendFile::append leaves of a file.
LEMMA AppendBlockTypes ==
  ASSUME TypeOK, NEW block \in Seq(Nat), AppendBlock(block)
  PROVE  /\ file' \in Seq(Nat) /\ onDisk' \in 0..Len(file')
         /\ dropped' \subseteq Nat /\ failures' \in 0..MaxFailures
         /\ count' \in 0..(FlushEveryN - 1)
<1>1. PICK k \in Written(block) :
        LET f == file \o SubSeq(block, 1, k)
            cut == Elements(SubSeq(block, k + 1, Len(block)))
        IN IF count + 1 >= FlushEveryN
           THEN count' = 0 /\ Flush(f, cut)
           ELSE /\ count' = count + 1
                /\ file' = f
                /\ Failed(IF cut = {} THEN 0 ELSE 1)
                /\ dropped' = dropped \cup cut
                /\ UNCHANGED onDisk
  BY DEF AppendBlock
<1> DEFINE g == SubSeq(block, 1, k)
           f == file \o g
           cut == Elements(SubSeq(block, k + 1, Len(block)))
<1>2. k \in 0..Len(block) /\ Len(block) \in Nat
  BY DEF Written
<1>3. g \in Seq(Nat) /\ SubSeq(block, k + 1, Len(block)) \in Seq(Nat)
  BY <1>2
<1>4. f \in Seq(Nat) /\ Len(f) >= Len(file)
  BY <1>3, SMTT(40) DEF TypeOK
<1>5. cut \subseteq Nat
  BY <1>3, ElementsOf
<1>6. CASE count + 1 >= FlushEveryN
  <2>1. count' = 0 /\ Flush(f, cut)
    BY <1>1, <1>6
  <2> HIDE DEF f, cut
  <2>2. count' \in 0..(FlushEveryN - 1)
    BY <2>1, AsyncLoggingAssumption
  <2> QED
    BY <1>4, <1>5, <2>1, <2>2, FlushTypes
<1>7. CASE ~(count + 1 >= FlushEveryN)
  <2>1. /\ count' = count + 1
        /\ file' = f
        /\ Failed(IF cut = {} THEN 0 ELSE 1)
        /\ dropped' = dropped \cup cut
        /\ UNCHANGED onDisk
    BY <1>1, <1>7
  <2> HIDE DEF f, cut
  <2>2. count' \in 0..(FlushEveryN - 1)
    BY <1>7, <2>1, AsyncLoggingAssumption DEF TypeOK
  <2>3. failures' \in 0..MaxFailures
    <3>1. PICK n \in {0, 1} : failures + n <= MaxFailures /\ failures' = failures + n
      BY <2>1 DEF Failed
    <3> QED
      BY <3>1, AsyncLoggingAssumption DEF TypeOK
  <2> QED
    BY <1>4, <1>5, <2>1, <2>2, <2>3 DEF TypeOK
<1> QED
  BY <1>6, <1>7

-----------------------------------------------------------------------------
(* Every step keeps the invariant.                                         *)

\* Steps that leave all buffers where they are.
LEMMA QuietInv ==
  ASSUME IInv, TypeOK', Spares', UNCHANGED <<frontVars, backVars, content, appended>>,
         pc \in {"collected", "write"} <=> pc' \in {"collected", "write"}
  PROVE  IInv'
<1> USE DEF IInv, frontVars, backVars
<1>1. Apart'
  BY DEF Apart, InSeq
<1>2. Empty'
  BY DEF Empty, Held, InSeq
<1>3. Room'
  BY DEF Room
<1> QED
  BY <1>1, <1>2, <1>3

\* start, stop, the wait and the test of running_ keep it.
LEMMA OwnerInv ==
  ASSUME IInv, Owner \/ Wait \/ CheckRunning
  PROVE  IInv'
<1> USE DEF IInv, frontVars, backVars, fileVars, historyVars
<1>1. CASE Start
  <2>1. TypeOK'
    BY <1>1 DEF Start, TypeOK
  <2>2. Spares'
    BY <1>1 DEF Start, Spares
  <2>3. pc = "unborn" /\ pc' = "born"
    BY <1>1 DEF Start, Spares
  <2> QED
    BY <1>1, <2>1, <2>2, <2>3, QuietInv DEF Start
<1>2. CASE StartReturns \/ Stop \/ StopNotifies \/ Joined
  <2>1. TypeOK'
    BY <1>2 DEF StartReturns, Stop, StopNotifies, Joined, Notify, TypeOK
  <2>2. Spares'
    BY <1>2 DEF StartReturns, Stop, StopNotifies, Joined, Spares
  <2> QED
    BY <1>2, <2>1, <2>2, QuietInv DEF StartReturns, Stop, StopNotifies, Joined
<1>3. CASE Wait
  <2>1. TypeOK' /\ Spares'
    BY <1>3 DEF Wait, TypeOK, Spares
  <2> QED
    BY <1>3, <2>1, QuietInv DEF Wait
<1>4. CASE CheckRunning
  <2>1. Spares'
    BY <1>4 DEF CheckRunning, Spares
  <2>2. CASE running
    <3>1. TypeOK'
      BY <1>4, <2>2 DEF CheckRunning, TypeOK
    <3> QED
      BY <1>4, <2>1, <3>1, QuietInv DEF CheckRunning
  <2>3. CASE ~running
    <3>1. Flush(file, {}) /\ file \in Seq(Nat)
      BY <1>4, <2>3 DEF CheckRunning, TypeOK
    <3>2. /\ file' \in Seq(Nat) /\ onDisk' \in 0..Len(file')
          /\ dropped' \subseteq Nat /\ failures' \in 0..MaxFailures
      BY <3>1, FlushTypes
    <3>3. TypeOK'
      BY <1>4, <3>2 DEF CheckRunning, TypeOK
    <3> QED
      BY <1>4, <2>1, <3>3, QuietInv DEF CheckRunning
  <2> QED
    BY <2>2, <2>3
<1> QED
  BY <1>1, <1>2, <1>3, <1>4 DEF Owner

\* A line gets into the current buffer.
LEMMA AppendToCurrentInv ==
  ASSUME IInv, AppendToCurrent
  PROVE  IInv'
<1> USE DEF IInv, frontVars, backVars, fileVars
<1>1. /\ appended' = appended + 1
      /\ content' = [content EXCEPT ![currentBuffer] = Append(@, Line)]
      /\ UNCHANGED <<frontVars, signal, owner, running, latch, pc, backVars, fileVars,
                     dropped, failures>>
  BY DEF AppendToCurrent, CanAppend
<1>2. TypeOK'
  <2>1. content' \in [Buffer -> Seq(Nat)]
    BY <1>1 DEF TypeOK, Line
  <2> QED
    BY <1>1, <2>1 DEF TypeOK
<1>3. Apart'
  BY <1>1 DEF Apart, InSeq
<1>4. Empty'
  <2>1. Held' = Held
    BY <1>1 DEF Held, InSeq
  <2>2. currentBuffer \in Held /\ currentBuffer \notin {nextBuffer, newBuffer1, newBuffer2}
    BY DEF Held, Apart, TypeOK
  <2>3. \A b \in Buffer \ {currentBuffer} : content'[b] = content[b]
    BY <1>1 DEF TypeOK
  <2>4. /\ nextBuffer \in Buffer \cup {NoBuffer} /\ newBuffer1 \in Buffer \cup {NoBuffer}
        /\ newBuffer2 \in Buffer \cup {NoBuffer}
    BY DEF TypeOK, Pointer
  <2> QED
    BY <1>1, <2>1, <2>2, <2>3, <2>4 DEF Empty
<1>5. Spares' /\ Room'
  BY <1>1, AsyncLoggingAssumption DEF Spares, Room, TypeOK, AppendToCurrent, CanAppend
<1> QED
  BY <1>2, <1>3, <1>4, <1>5

\* The buffer that replaces a full one.
LEMMA FreshBuffer ==
  ASSUME IInv, AppendToFresh
  PROVE  /\ currentBuffer' \in Buffer
         /\ nextBuffer # NoBuffer => currentBuffer' = nextBuffer
         /\ nextBuffer = NoBuffer => currentBuffer' \notin Held
         /\ content[currentBuffer'] = <<>>
<1> USE DEF IInv
<1>1. CASE nextBuffer # NoBuffer
  BY <1>1 DEF AppendToFresh, TypeOK, Pointer, Empty
<1>2. CASE nextBuffer = NoBuffer
  <2>1. currentBuffer' = New(Held)
    BY <1>2 DEF AppendToFresh
  <2>2. /\ buffers \in Seq(Buffer) /\ buffersToWrite \in Seq(Buffer)
        /\ appended \in Nat /\ appended < MaxLines
    BY DEF AppendToFresh, CanAppend, TypeOK
  <2>3. Len(buffers) + Len(buffersToWrite) + 3 < MaxLines + 5
    BY <2>2, AsyncLoggingAssumption DEF Room
  <2>4. Held \subseteq {currentBuffer, newBuffer1, newBuffer2}
                         \cup Elements(buffers) \cup Elements(buffersToWrite)
    BY <1>2, AsyncLoggingAssumption DEF Held, InSeq, Elements
  <2>5. \E x \in Buffer : x \notin Held
    BY <2>2, <2>3, <2>4, BufferLeft
  <2>6. New(Held) \in Buffer /\ New(Held) \notin Held
    BY <2>5, NewIsFree
  <2> QED
    BY <1>2, <2>1, <2>6 DEF Empty
<1> QED
  BY <1>1, <1>2

\* append() to a fresh buffer keeps it.
LEMMA AppendToFreshInv ==
  ASSUME IInv, AppendToFresh
  PROVE  IInv'
<1> USE DEF IInv, frontVars, backVars, fileVars
<1> DEFINE new == currentBuffer'
<1>1. /\ appended' = appended + 1
      /\ buffers' = Append(buffers, currentBuffer)
      /\ nextBuffer' = NoBuffer
      /\ content' = [content EXCEPT ![new] = Append(@, Line)]
      /\ UNCHANGED <<owner, running, latch, pc, backVars, fileVars,
                     dropped, failures>>
      /\ signal' \in BOOLEAN
  BY DEF AppendToFresh, CanAppend, Notify, TypeOK
<1>2. /\ new \in Buffer
      /\ nextBuffer # NoBuffer => new = nextBuffer
      /\ nextBuffer = NoBuffer => new \notin Held
      /\ content[new] = <<>>
  BY FreshBuffer
<1>3. /\ new \notin {currentBuffer, newBuffer1, newBuffer2}
      /\ ~InSeq(new, buffers) /\ ~InSeq(new, buffersToWrite)
  BY <1>2 DEF Apart, Held
<1>4. /\ buffers' \in Seq(Buffer) /\ Len(buffers') = Len(buffers) + 1
      /\ \A i \in 1..Len(buffers) : buffers'[i] = buffers[i]
      /\ buffers'[Len(buffers')] = currentBuffer
      /\ Len(buffers) \in Nat
  BY <1>1 DEF TypeOK
<1> HIDE DEF new
<1>5. TypeOK'
  <2>1. content' \in [Buffer -> Seq(Nat)]
    BY <1>1, <1>2 DEF TypeOK, Line
  <2> QED
    BY <1>1, <1>2, <1>4, <2>1 DEF TypeOK, Pointer, new
<1>6. \A b : InSeq(b, buffers)' <=> InSeq(b, buffers) \/ b = currentBuffer
  <2> TAKE b
  <2>1. ASSUME NEW i \in 1..Len(buffers'), buffers'[i] = b
        PROVE  InSeq(b, buffers) \/ b = currentBuffer
    <3>1. i \in 1..Len(buffers) \/ i = Len(buffers')
      BY <1>4
    <3> QED
      BY <1>4, <2>1, <3>1 DEF InSeq
  <2>2. ASSUME NEW i \in 1..Len(buffers), buffers[i] = b
        PROVE  i \in 1..Len(buffers') /\ buffers'[i] = b
    BY <1>4, <2>2
  <2>3. Len(buffers') \in 1..Len(buffers')
    BY <1>4
  <2> QED
    BY <1>4, <2>1, <2>2, <2>3 DEF InSeq
<1>7. \A b : InSeq(b, buffersToWrite)' <=> InSeq(b, buffersToWrite)
  BY <1>1 DEF InSeq
<1>8. Apart'
  <2>1. \A p \in {new, nextBuffer', newBuffer1, newBuffer2} :
          ~InSeq(p, buffers)' /\ ~InSeq(p, buffersToWrite)'
    <3>1. \A p \in {newBuffer1, newBuffer2} :
            ~InSeq(p, buffers) /\ ~InSeq(p, buffersToWrite) /\ p # currentBuffer
      BY DEF Apart
    <3>2. ~InSeq(NoBuffer, buffers) /\ ~InSeq(NoBuffer, buffersToWrite)
            /\ NoBuffer # currentBuffer
      BY AsyncLoggingAssumption DEF InSeq, TypeOK
    <3> QED
      BY <1>1, <1>3, <1>6, <1>7, <3>1, <3>2
  <2>2. new \notin {nextBuffer', newBuffer1, newBuffer2}
    BY <1>1, <1>2, <1>3, AsyncLoggingAssumption
  <2>3. newBuffer1 # NoBuffer => newBuffer1 # newBuffer2
    BY DEF Apart
  <2>4. ASSUME NEW i \in 1..Len(buffers'), NEW j \in 1..Len(buffers'),
               buffers'[i] = buffers'[j]
        PROVE  i = j
    <3>1. \A k \in 1..Len(buffers) : buffers[k] # currentBuffer
      BY DEF Apart, InSeq
    <3>2. \A k \in 1..Len(buffers') : k \in 1..Len(buffers) \/ k = Len(buffers')
      BY <1>4
    <3> QED
      BY <1>4, <2>4, <3>1, <3>2 DEF Apart
  <2>5. ASSUME NEW i \in 1..Len(buffers')
        PROVE  ~InSeq(buffers'[i], buffersToWrite)
    <3>1. i \in 1..Len(buffers) \/ i = Len(buffers')
      BY <1>4
    <3> QED
      BY <1>4, <3>1 DEF Apart
  <2>6. \A i, j \in 1..Len(buffersToWrite) : buffersToWrite[i] = buffersToWrite[j] => i = j
    BY DEF Apart
  <2> QED
    BY <1>1, <1>7, <2>1, <2>2, <2>3, <2>4, <2>5, <2>6 DEF Apart, new
<1>9. Empty'
  <2>1. \A b \in Buffer \ {new} : content'[b] = content[b]
    BY <1>1 DEF TypeOK
  <2>2. \A b \in Buffer : b \in Held' <=> b \in Held \/ b = new
    <3> TAKE b \in Buffer
    <3>1. b # NoBuffer
      BY AsyncLoggingAssumption
    <3>2. b = nextBuffer => b = new
      BY <1>2, <3>1
    <3>3. b \in Held' <=> \/ b \in {new, newBuffer1, newBuffer2}
                          \/ InSeq(b, buffers) \/ b = currentBuffer
                          \/ InSeq(b, buffersToWrite)
      BY <1>1, <1>6, <1>7, <3>1 DEF Held, new
    <3>4. b \in Held <=> \/ b \in {currentBuffer, nextBuffer, newBuffer1, newBuffer2}
                         \/ InSeq(b, buffers)
                         \/ InSeq(b, buffersToWrite)
      BY DEF Held
    <3>5. b = new /\ nextBuffer # NoBuffer => b = nextBuffer
      BY <1>2
    <3> QED
      BY <3>2, <3>3, <3>4
  <2>3. newBuffer1 \in Buffer \cup {NoBuffer} /\ newBuffer2 \in Buffer \cup {NoBuffer}
    BY DEF TypeOK, Pointer
  <2> QED
    BY <1>1, <1>3, <2>1, <2>2, <2>3 DEF Empty
<1>10. Spares'
  <2>1. buffers' # <<>>
    BY <1>4
  <2> QED
    BY <1>1, <2>1 DEF Spares
<1>11. Room'
  BY <1>1, <1>4, AsyncLoggingAssumption, SMTT(40) DEF Room, TypeOK, AppendToFresh, CanAppend
<1> QED
  BY <1>5, <1>8, <1>9, <1>10, <1>11

\* The first buffers of threadFunc keep it.
LEMMA BeginInv ==
  ASSUME IInv, Begin
  PROVE  IInv'
<1> USE DEF IInv, frontVars, fileVars, historyVars
<1>1. /\ pc = "born" /\ pc' = "loop" /\ latch' = 0
      /\ newBuffer1' = New(Held) /\ newBuffer2' = New(Held \cup {newBuffer1'})
      /\ UNCHANGED <<owner, running, frontVars, signal, buffersToWrite, written,
                     content, fileVars, historyVars>>
  BY DEF Begin
<1>2. /\ newBuffer1 = NoBuffer /\ newBuffer2 = NoBuffer
      /\ buffersToWrite = <<>> /\ written = 0
  BY <1>1 DEF Spares
<1>3. /\ buffers \in Seq(Buffer) /\ buffersToWrite \in Seq(Buffer)
      /\ Len(buffers) + Len(buffersToWrite) + 3 < MaxLines + 5
  BY <1>1, <1>2, AsyncLoggingAssumption DEF TypeOK, Room
<1>4. \A b \in Buffer : b \in Held <=> b \in {currentBuffer, nextBuffer} \/ InSeq(b, buffers)
  BY <1>2, AsyncLoggingAssumption DEF Held, InSeq
<1>5. ASSUME NEW x
      PROVE  \E b \in Buffer : b \notin Held \cup {x}
  <2>1. Held \cup {x} \subseteq {currentBuffer, nextBuffer, x}
                                  \cup Elements(buffers) \cup Elements(buffersToWrite)
    <3>1. Held \subseteq Buffer
      BY DEF Held
    <3>2. \A b \in Buffer : InSeq(b, buffers) => b \in Elements(buffers)
      BY DEF InSeq, Elements
    <3> QED
      BY <1>4, <3>1, <3>2
  <2>2. PICK H : H = Held \cup {x}
    OBVIOUS
  <2>3. H \subseteq {currentBuffer, nextBuffer, x}
                     \cup Elements(buffers) \cup Elements(buffersToWrite)
    BY <2>1, <2>2
  <2>4. \E b \in Buffer : b \notin H
    <3> HIDE <2>2
    <3> QED
      BY <1>3, <2>3, BufferLeft, Zenon
  <2> QED
    BY <2>2, <2>4
<1>6. newBuffer1' \in Buffer /\ newBuffer1' \notin Held
  <2>1. \E b \in Buffer : b \notin Held
    BY <1>5
  <2> QED
    BY <1>1, <2>1, NewIsFree
<1>7. newBuffer2' \in Buffer /\ newBuffer2' \notin Held /\ newBuffer2' # newBuffer1'
  <2>1. \E b \in Buffer : b \notin Held \cup {newBuffer1'}
    BY <1>5
  <2>2. New(Held \cup {newBuffer1'}) \notin Held \cup {newBuffer1'}
    BY <2>1, NewIsFree
  <2>3. New(Held \cup {newBuffer1'}) \in Buffer
    BY <2>1, NewIsFree
  <2> QED
    BY <1>1, <2>2, <2>3
<1>8. TypeOK'
  BY <1>1, <1>6, <1>7 DEF TypeOK, Pointer
<1>9. \A b : (InSeq(b, buffers)' <=> InSeq(b, buffers))
               /\ ~InSeq(b, buffersToWrite) /\ ~InSeq(b, buffersToWrite)'
  BY <1>1, <1>2 DEF InSeq
<1>10. Apart'
  <2>1. /\ newBuffer1' \notin {currentBuffer, nextBuffer} /\ ~InSeq(newBuffer1', buffers)
        /\ newBuffer2' \notin {currentBuffer, nextBuffer} /\ ~InSeq(newBuffer2', buffers)
    BY <1>4, <1>6, <1>7
  <2>2. /\ ~InSeq(currentBuffer, buffers) /\ ~InSeq(nextBuffer, buffers)
        /\ currentBuffer # nextBuffer
        /\ \A i, j \in 1..Len(buffers) : buffers[i] = buffers[j] => i = j
    BY DEF Apart
  <2>3. Len(buffersToWrite') = 0
    BY <1>1, <1>2
  <2> QED
    BY <1>1, <1>7, <1>9, <2>1, <2>2, <2>3 DEF Apart
<1>11. Empty'
  <2>1. \A b \in Buffer : b \in Held => b \in Held'
    BY <1>1, <1>4, <1>9 DEF Held
  <2> QED
    BY <1>1, <1>6, <1>7, <2>1 DEF Empty
<1>12. Spares' /\ Room'
  BY <1>1, <1>2, <1>6, <1>7, AsyncLoggingAssumption DEF Spares, Room, TypeOK
<1> QED
  BY <1>8, <1>10, <1>11, <1>12

\* The swap under the lock keeps it.
LEMMA CollectInv ==
  ASSUME IInv, Collect
  PROVE  IInv'
<1> USE DEF IInv, fileVars, historyVars
<1>1. /\ pc \in {"lock", "waiting"} /\ pc' = "collected" /\ signal' = FALSE
      /\ buffersToWrite' = Append(buffers, currentBuffer)
      /\ buffers' = <<>>
      /\ currentBuffer' = newBuffer1 /\ newBuffer1' = NoBuffer
      /\ nextBuffer' = IF nextBuffer = NoBuffer THEN newBuffer2 ELSE nextBuffer
      /\ newBuffer2' = IF nextBuffer = NoBuffer THEN NoBuffer ELSE newBuffer2
      /\ UNCHANGED <<owner, running, latch, written, content, fileVars, historyVars>>
  BY DEF Collect, WaitOver, Collected
<1>2. /\ newBuffer1 \in Buffer /\ newBuffer2 \in Buffer
      /\ buffersToWrite = <<>> /\ written = 0
  BY <1>1 DEF Spares, TypeOK, Pointer
<1>3. /\ buffersToWrite' \in Seq(Buffer) /\ Len(buffersToWrite') = Len(buffers) + 1
      /\ \A i \in 1..Len(buffers) : buffersToWrite'[i] = buffers[i]
      /\ buffersToWrite'[Len(buffers) + 1] = currentBuffer
      /\ Len(buffers) \in Nat
  BY <1>1 DEF TypeOK
<1>4. TypeOK'
  <2>1. nextBuffer \in Pointer /\ written \in 0..Len(buffersToWrite) /\ buffers' \in Seq(Buffer)
    BY <1>1 DEF TypeOK
  <2>2. /\ currentBuffer' \in Buffer /\ nextBuffer' \in Pointer
        /\ newBuffer1' \in Pointer /\ newBuffer2' \in Pointer
    BY <1>1, <1>2, <2>1 DEF Pointer
  <2>3. written' \in 0..Len(buffersToWrite')
    BY <1>1, <1>2, <1>3
  <2> QED
    BY <1>1, <1>3, <2>1, <2>2, <2>3 DEF TypeOK
<1>5. \A b : /\ ~InSeq(b, buffers)' /\ ~InSeq(b, buffersToWrite)
             /\ InSeq(b, buffersToWrite)' <=> InSeq(b, buffers) \/ b = currentBuffer
  <2> TAKE b
  <2>1. ~InSeq(b, buffers)' /\ ~InSeq(b, buffersToWrite)
    BY <1>1, <1>2 DEF InSeq
  <2>2. ASSUME NEW i \in 1..Len(buffersToWrite'), buffersToWrite'[i] = b
        PROVE  InSeq(b, buffers) \/ b = currentBuffer
    <3>1. i \in 1..Len(buffers) \/ i = Len(buffers) + 1
      BY <1>3
    <3> QED
      BY <1>3, <2>2, <3>1 DEF InSeq
  <2>3. ASSUME NEW i \in 1..Len(buffers), buffers[i] = b
        PROVE  i \in 1..Len(buffersToWrite') /\ buffersToWrite'[i] = b
    BY <1>3, <2>3
  <2>4. Len(buffers) + 1 \in 1..Len(buffersToWrite')
    BY <1>3
  <2> QED
    BY <1>3, <2>1, <2>2, <2>3, <2>4 DEF InSeq
<1>6. /\ ~InSeq(NoBuffer, buffers) /\ NoBuffer # currentBuffer
      /\ NoBuffer \notin {newBuffer1, newBuffer2}
  BY <1>2, AsyncLoggingAssumption DEF InSeq, TypeOK
<1>7. Apart'
  <2>1. \A p \in {newBuffer1, newBuffer2, nextBuffer} : ~InSeq(p, buffers) /\ p # currentBuffer
    BY DEF Apart
  <2>2. \A p \in {currentBuffer', nextBuffer', newBuffer1', newBuffer2'} :
          /\ ~InSeq(p, buffers)'
          /\ ~InSeq(p, buffersToWrite)'
    BY <1>1, <1>5, <1>6, <2>1
  <2>3. /\ currentBuffer' \notin {nextBuffer', newBuffer1', newBuffer2'}
        /\ nextBuffer' # NoBuffer => nextBuffer' \notin {newBuffer1', newBuffer2'}
        /\ newBuffer1' # NoBuffer => newBuffer1' # newBuffer2'
    BY <1>1, <1>2, <1>6 DEF Apart
  <2>4. ASSUME NEW i \in 1..Len(buffersToWrite'), NEW j \in 1..Len(buffersToWrite'),
               buffersToWrite'[i] = buffersToWrite'[j]
        PROVE  i = j
    <3>1. \A k \in 1..Len(buffers) : buffers[k] # currentBuffer
      BY DEF Apart, InSeq
    <3>2. \A k \in 1..Len(buffersToWrite') : k \in 1..Len(buffers) \/ k = Len(buffers) + 1
      BY <1>3
    <3> QED
      BY <1>3, <2>4, <3>1, <3>2 DEF Apart
  <2>5. Len(buffers') = 0
    BY <1>1
  <2> QED
    BY <2>2, <2>3, <2>4, <2>5 DEF Apart
<1>8. Empty'
  <2>1. \A b \in Buffer : b \in Held => b \in Held'
    BY <1>1, <1>5 DEF Held
  <2> QED
    BY <1>1, <1>2, <2>1 DEF Empty
<1>9. Spares'
  <2>1. nextBuffer' # NoBuffer
    BY <1>1, <1>6
  <2>2. nextBuffer = NoBuffer => Len(buffers) >= 1
    BY <1>3 DEF Spares, TypeOK
  <2>3. newBuffer2' = NoBuffer => nextBuffer = NoBuffer
    BY <1>1, <1>6
  <2> QED
    BY <1>1, <1>2, <1>3, <2>1, <2>2, <2>3 DEF Spares
<1>10. Room'
  <2>1. Len(buffersToWrite) = 0 /\ Len(buffers') = 0
    BY <1>1, <1>2
  <2> QED
    BY <1>1, <1>3, <2>1, AsyncLoggingAssumption DEF Room, TypeOK
<1> QED
  BY <1>4, <1>7, <1>8, <1>9, <1>10

\* What resize leaves and what it takes.
LEMMA ExcessFacts ==
  ASSUME IInv, DropExcess
  PROVE  /\ pc = "collected" /\ pc' = "write" /\ written = 0
         /\ Kept \in 1..Len(buffersToWrite)
         /\ Len(buffersToWrite) >= 2 => Kept >= 2
         /\ buffersToWrite' = SubSeq(buffersToWrite, 1, Kept)
         /\ buffersToWrite' \in Seq(Buffer) /\ Len(buffersToWrite') = Kept
         /\ \A i \in 1..Kept : buffersToWrite'[i] = buffersToWrite[i]
         /\ LET excess == SubSeq(buffersToWrite, Kept + 1, Len(buffersToWrite))
            IN /\ excess \in Seq(Buffer)
               /\ Len(excess) = Len(buffersToWrite) - Kept
               /\ \A i \in 1..Len(excess) : excess[i] = buffersToWrite[Kept + i]
<1>1. pc = "collected" /\ pc' = "write" /\ buffersToWrite' = SubSeq(buffersToWrite, 1, Kept)
  BY DEF DropExcess
<1>2. buffersToWrite \in Seq(Buffer) /\ Len(buffersToWrite) \in Nat
      /\ Len(buffersToWrite) >= 1 /\ written = 0
  BY <1>1 DEF IInv, TypeOK, Spares
<1>3. Kept \in 1..Len(buffersToWrite) /\ (Len(buffersToWrite) >= 2 => Kept >= 2)
  BY <1>2, AsyncLoggingAssumption DEF Kept
<1> HIDE DEF Kept
<1> QED
  BY <1>1, <1>2, <1>3

\* Giving up a backlog keeps it.
LEMMA DropExcessInv ==
  ASSUME IInv, DropExcess
  PROVE  IInv'
<1> USE DEF IInv, frontVars, fileVars
<1> DEFINE excess == SubSeq(buffersToWrite, Kept + 1, Len(buffersToWrite))
<1>1. /\ dropped' = dropped \cup LinesOf(excess)
      /\ content' = Emptied(excess)
      /\ UNCHANGED <<owner, running, latch, frontVars, signal, newBuffer1, newBuffer2,
                     written, fileVars, appended, failures>>
  BY DEF DropExcess
<1>2. /\ pc = "collected" /\ pc' = "write" /\ written = 0
      /\ Kept \in 1..Len(buffersToWrite)
      /\ Len(buffersToWrite) >= 2 => Kept >= 2
      /\ buffersToWrite' \in Seq(Buffer) /\ Len(buffersToWrite') = Kept
      /\ \A i \in 1..Kept : buffersToWrite'[i] = buffersToWrite[i]
      /\ excess \in Seq(Buffer)
      /\ Len(excess) = Len(buffersToWrite) - Kept
      /\ \A i \in 1..Len(excess) : excess[i] = buffersToWrite[Kept + i]
  BY ExcessFacts
<1> HIDE DEF excess
<1>0. buffersToWrite \in Seq(Buffer) /\ Len(buffersToWrite) \in Nat /\ Len(excess) \in Nat
        /\ Kept \in Nat
  BY <1>2 DEF TypeOK
<1>3. TypeOK'
  <2>1. content' \in [Buffer -> Seq(Nat)]
    BY <1>1 DEF Emptied, TypeOK
  <2>2. LinesOf(excess) \subseteq Nat
    <3>1. \A i \in 1..Len(excess) : content[excess[i]] \in Seq(Nat)
      <4>1. \A i \in 1..Len(excess) : excess[i] \in Buffer
        BY <1>0, <1>2
      <4> QED
        BY <4>1 DEF TypeOK
    <3> QED
      BY <3>1, ElementsOf DEF LinesOf
  <2>3. written' \in 0..Len(buffersToWrite')
    BY <1>0, <1>1, <1>2
  <2> QED
    BY <1>1, <1>2, <2>1, <2>2, <2>3 DEF TypeOK
<1>4. \A b : /\ InSeq(b, buffers)' <=> InSeq(b, buffers)
             /\ InSeq(b, buffersToWrite)' => InSeq(b, buffersToWrite)
             /\ InSeq(b, buffersToWrite) => InSeq(b, buffersToWrite)' \/ InSeq(b, excess)
             /\ InSeq(b, excess) => InSeq(b, buffersToWrite)
  <2> TAKE b
  <2>1. InSeq(b, buffers)' <=> InSeq(b, buffers)
    BY <1>1 DEF InSeq
  <2>2. ASSUME NEW i \in 1..Kept, buffersToWrite'[i] = b PROVE InSeq(b, buffersToWrite)
    <3>1. i \in 1..Len(buffersToWrite) /\ buffersToWrite[i] = b
      BY <1>0, <1>2, <2>2
    <3> QED
      BY <3>1 DEF InSeq
  <2>3. ASSUME NEW i \in 1..Len(excess), excess[i] = b PROVE InSeq(b, buffersToWrite)
    <3>1. Kept + i \in 1..Len(buffersToWrite) /\ buffersToWrite[Kept + i] = b
      BY <1>2, <2>3
    <3> QED
      BY <3>1 DEF InSeq
  <2>4. ASSUME NEW i \in 1..Len(buffersToWrite), buffersToWrite[i] = b
        PROVE  InSeq(b, buffersToWrite)' \/ InSeq(b, excess)
    <3>1. CASE i \in 1..Kept
      BY <1>2, <2>4, <3>1 DEF InSeq
    <3>2. CASE i > Kept
      <4>1. i - Kept \in 1..Len(excess) /\ excess[i - Kept] = b
        <5>1. i - Kept \in 1..Len(excess) /\ Kept + (i - Kept) = i
          BY <1>2, <3>2
        <5> QED
          BY <1>2, <2>4, <5>1
      <4> QED
        BY <4>1 DEF InSeq
    <3> QED
      BY <1>2, <3>1, <3>2
  <2> QED
    BY <1>2, <2>1, <2>2, <2>3, <2>4 DEF InSeq
<1>5. Apart'
  <2>1. ASSUME NEW i \in 1..Len(buffersToWrite'), NEW j \in 1..Len(buffersToWrite'),
               buffersToWrite'[i] = buffersToWrite'[j]
        PROVE  i = j
    <3>1. i \in 1..Len(buffersToWrite) /\ j \in 1..Len(buffersToWrite)
      BY <1>2
    <3> QED
      BY <1>2, <2>1, <3>1 DEF Apart
  <2> QED
    BY <1>1, <1>4, <2>1 DEF Apart
<1>6. \A b \in Buffer : content'[b] = IF InSeq(b, excess) THEN <<>> ELSE content[b]
  BY <1>1 DEF Emptied
<1>7. Empty'
  <2>1. \A b \in Buffer : b \notin Held' => b \notin Held \/ InSeq(b, excess)
    BY <1>1, <1>4 DEF Held
  <2>2. \A b \in Buffer : content[b] = <<>> => content'[b] = <<>>
    BY <1>6
  <2>3. \A p \in {nextBuffer, newBuffer1, newBuffer2} : p # NoBuffer => p \in Buffer
    BY DEF TypeOK, Pointer
  <2>4. \A b \in Buffer \ Held' : content'[b] = <<>>
    BY <1>6, <2>1, <2>2 DEF Empty
  <2> QED
    BY <1>1, <2>2, <2>3, <2>4 DEF Empty
<1>8. Spares'
  BY <1>1, <1>2 DEF Spares
<1>9. Room'
  BY <1>1, <1>2, AsyncLoggingAssumption DEF Room, TypeOK
<1> QED
  BY <1>3, <1>5, <1>7, <1>8, <1>9

\* Writing a buffer keeps it.
LEMMA WriteBufferInv ==
  ASSUME IInv, WriteBuffer
  PROVE  IInv'
<1> USE DEF IInv, frontVars
<1>1. /\ pc = "write" /\ written < Len(buffersToWrite) /\ written' = written + 1
      /\ AppendBlock(content[buffersToWrite[written + 1]])
      /\ UNCHANGED <<owner, running, latch, frontVars, pc, signal, newBuffer1,
                     newBuffer2, buffersToWrite, content, appended>>
  BY DEF WriteBuffer
<1>2. written + 1 \in 1..Len(buffersToWrite)
  BY <1>1 DEF TypeOK
<1>3. content[buffersToWrite[written + 1]] \in Seq(Nat)
  BY <1>2 DEF TypeOK
<1>4. TypeOK'
  BY <1>1, <1>2, <1>3, AppendBlockTypes DEF TypeOK
<1>5. Apart' /\ Empty'
  BY <1>1 DEF Apart, Empty, Held, InSeq
<1>6. Spares' /\ Room'
  BY <1>1 DEF Spares, Room
<1> QED
  BY <1>4, <1>5, <1>6

\* Taking spares back from what was written keeps it.
LEMMA RecycleInv ==
  ASSUME IInv, Recycle
  PROVE  IInv'
<1> USE DEF IInv, frontVars
<1> DEFINE n == Len(buffersToWrite)
           one == buffersToWrite[AfterResize]
           two == IF newBuffer2 = NoBuffer THEN buffersToWrite[AfterFirst] ELSE newBuffer2
<1>1. /\ pc = "write" /\ pc' = "loop" /\ newBuffer1 = NoBuffer
      /\ newBuffer1' = one /\ newBuffer2' = two
      /\ content' = Emptied(buffersToWrite)
      /\ buffersToWrite' = <<>> /\ written' = 0
      /\ Flush(file, {})
      /\ UNCHANGED <<owner, running, latch, frontVars, signal, count, appended>>
  BY DEF Recycle, TakeSpares, Spares
<1>2. /\ n \in Nat /\ n >= 1 /\ (newBuffer2 = NoBuffer => n >= 2)
      /\ buffersToWrite \in Seq(Buffer)
  BY <1>1 DEF Spares, TypeOK
<1>3. /\ AfterResize \in 1..n
      /\ newBuffer2 = NoBuffer => AfterFirst \in 1..n /\ AfterFirst # AfterResize
  BY <1>1, <1>2 DEF AfterResize, AfterFirst
<1>4. one \in Buffer /\ InSeq(one, buffersToWrite)
  BY <1>2, <1>3 DEF InSeq
<1>5. /\ two \in Buffer
      /\ two = newBuffer2 \/ InSeq(two, buffersToWrite)
  BY <1>2, <1>3, SMTT(40) DEF InSeq, TypeOK, Pointer
<1>6. one # two
  <2>1. CASE newBuffer2 = NoBuffer
    BY <1>3, <2>1 DEF Apart
  <2>2. CASE newBuffer2 # NoBuffer
    BY <1>4, <2>2 DEF Apart
  <2> QED
    BY <2>1, <2>2
<1> HIDE DEF one, two, n
<1>7. TypeOK'
  <2>1. content' \in [Buffer -> Seq(Nat)]
    BY <1>1 DEF Emptied, TypeOK
  <2>2. /\ file' \in Seq(Nat) /\ onDisk' \in 0..Len(file')
        /\ dropped' \subseteq Nat /\ failures' \in 0..MaxFailures
    <3>1. file \in Seq(Nat) /\ Len(file) >= Len(file)
      BY DEF TypeOK
    <3> QED
      BY <1>1, <3>1, FlushTypes
  <2>3. buffersToWrite' \in Seq(Buffer) /\ written' \in 0..Len(buffersToWrite')
    BY <1>1
  <2> QED
    BY <1>1, <1>4, <1>5, <2>1, <2>2, <2>3 DEF TypeOK, Pointer
<1>8. \A b : ~InSeq(b, buffersToWrite)' /\ (InSeq(b, buffers)' <=> InSeq(b, buffers))
  BY <1>1 DEF InSeq
<1>9. \A b \in {one, two} : /\ b \notin {currentBuffer, nextBuffer}
                            /\ ~InSeq(b, buffers)
  <2>1. \A b : InSeq(b, buffersToWrite) => ~InSeq(b, buffers)
    BY DEF Apart, InSeq
  <2>2. newBuffer2 # NoBuffer => newBuffer2 \notin {currentBuffer, nextBuffer}
                                   /\ ~InSeq(newBuffer2, buffers)
    BY DEF Apart
  <2>3. ~InSeq(currentBuffer, buffersToWrite) /\ ~InSeq(nextBuffer, buffersToWrite)
    BY DEF Apart
  <2>4. two # NoBuffer
    BY <1>5, AsyncLoggingAssumption
  <2> QED
    BY <1>4, <1>5, <2>1, <2>2, <2>3, <2>4
<1>10. Apart'
  <2>1. /\ ~InSeq(currentBuffer, buffers) /\ ~InSeq(nextBuffer, buffers)
        /\ currentBuffer # nextBuffer
        /\ \A i, j \in 1..Len(buffers) : buffers[i] = buffers[j] => i = j
    BY DEF Apart
  <2>2. Len(buffersToWrite') = 0
    BY <1>1
  <2> QED
    BY <1>1, <1>6, <1>8, <1>9, <2>1, <2>2 DEF Apart
<1>11. Empty'
  <2>1. \A b \in Buffer : content'[b] = IF InSeq(b, buffersToWrite) THEN <<>> ELSE content[b]
    BY <1>1 DEF Emptied
  <2>2. \A b \in Buffer : content[b] = <<>> => content'[b] = <<>>
    BY <2>1
  <2>3. \A b \in Buffer \ Held' : content'[b] = <<>>
    <3> TAKE b \in Buffer \ Held'
    <3>1. b # NoBuffer
      BY AsyncLoggingAssumption
    <3>2. b \notin {currentBuffer, nextBuffer, one, two} /\ ~InSeq(b, buffers)
      BY <1>1, <1>8 DEF Held
    <3>3. b # newBuffer2
      BY <3>1, <3>2 DEF two
    <3>4. b \in Held => InSeq(b, buffersToWrite)
      BY <1>1, <3>1, <3>2, <3>3 DEF Held
    <3> QED
      BY <2>1, <2>2, <3>4 DEF Empty
  <2>4. nextBuffer # NoBuffer => nextBuffer \in Buffer
    BY DEF TypeOK, Pointer
  <2>5. content'[one] = <<>>
    BY <1>4, <2>1
  <2>6. content'[two] = <<>>
    <3>1. two # NoBuffer
      BY <1>5, AsyncLoggingAssumption
    <3> QED
      BY <1>5, <2>1, <2>2, <3>1 DEF Empty
  <2>7. nextBuffer # NoBuffer => content'[nextBuffer] = <<>>
    BY <2>2, <2>4 DEF Empty
  <2> QED
    BY <1>1, <2>3, <2>5, <2>6, <2>7 DEF Empty
<1>12. Spares'
  BY <1>1, <1>4, <1>5, AsyncLoggingAssumption DEF Spares
<1>13. Room'
  <2>1. Len(buffersToWrite') = 0 /\ Len(buffers) \in Nat /\ n = Len(buffersToWrite)
    BY <1>1 DEF TypeOK, n
  <2> QED
    BY <1>1, <1>2, <2>1, AsyncLoggingAssumption DEF Room, TypeOK
<1> QED
  BY <1>7, <1>10, <1>11, <1>12, <1>13

\* Every step keeps it.
LEMMA NextInv == IInv /\ [Next]_vars => IInv'
<1> SUFFICES ASSUME IInv, [Next]_vars PROVE IInv'
  OBVIOUS
<1>1. CASE UNCHANGED vars
  <2> USE <1>1 DEF vars, frontVars, backVars, fileVars, historyVars
  <2>1. TypeOK' /\ Spares'
    BY DEF IInv, TypeOK, Spares
  <2> QED
    BY <2>1, QuietInv
<1> QED
  BY <1>1, OwnerInv, AppendToCurrentInv, AppendToFreshInv, BeginInv, CollectInv,
     DropExcessInv, WriteBufferInv, RecycleInv DEF Next, Backend

\* Every state has the invariant, whatever the lines, the backlog and the failures.
THEOREM Invariant == SafeSpec => []IInv
<1>1. IInv /\ [Next]_vars => IInv'
  BY NextInv
<1> QED
  BY InitInv, <1>1, PTL DEF SafeSpec

\* The state always has its shape.
THEOREM TypeCorrect == SafeSpec => []TypeOK
<1>1. IInv => TypeOK
  BY DEF IInv
<1> QED
  BY Invariant, <1>1, PTL

\* The asserts of threadFunc hold.
THEOREM AssertsHold == SafeSpec => []BackendAsserts
<1>1. IInv => BackendAsserts
  <2> SUFFICES ASSUME IInv PROVE BackendAsserts
    OBVIOUS
  <2> USE DEF IInv
  <2>1. pc = "loop" => /\ newBuffer1 # NoBuffer /\ content[newBuffer1] = <<>>
                       /\ newBuffer2 # NoBuffer /\ content[newBuffer2] = <<>>
                       /\ buffersToWrite = <<>>
    BY DEF Spares, Empty
  <2>2. pc = "collected" => buffersToWrite # <<>>
    BY DEF Spares
  <2>3. pc = "write" => /\ newBuffer1 = NoBuffer => AfterResize >= 1
                        /\ newBuffer2 = NoBuffer => AfterFirst >= 1
    BY DEF Spares, TypeOK, AfterResize, AfterFirst
  <2> QED
    BY <2>1, <2>2, <2>3 DEF BackendAsserts
<1> QED
  BY Invariant, <1>1, PTL

\* No buffer has two holders.
THEOREM OneHolder == SafeSpec => []NoSharing
<1>1. IInv => NoSharing
  <2> SUFFICES ASSUME IInv PROVE NoSharing
    OBVIOUS
  <2> USE DEF IInv
  <2> DEFINE four == <<currentBuffer, nextBuffer, newBuffer1, newBuffer2>>
             m == Len(buffers)
             n == Len(buffersToWrite)
  <2>1. /\ four \in Seq(Pointer) /\ Len(four) = 4
        /\ four[1] = currentBuffer /\ four[2] = nextBuffer
        /\ four[3] = newBuffer1 /\ four[4] = newBuffer2
    BY DEF TypeOK, Pointer
  <2>2. /\ buffers \in Seq(Pointer) /\ buffersToWrite \in Seq(Pointer)
        /\ m \in Nat /\ n \in Nat
    BY DEF TypeOK, Pointer
  <2> HIDE DEF four
  <2>3. /\ Pointers = (four \o buffers) \o buffersToWrite
        /\ Len(Pointers) = 4 + m + n
    BY <2>1, <2>2 DEF Pointers, four
  <2>4. \A i \in 1..Len(Pointers) :
          Pointers[i] = IF i <= 4 THEN four[i]
                        ELSE IF i <= 4 + m THEN buffers[i - 4]
                        ELSE buffersToWrite[i - 4 - m]
    BY <2>1, <2>2, <2>3
  <2> HIDE DEF m, n
  <2>5. \A i \in 1..4, j \in 1..4 : i # j /\ four[i] = four[j] => four[i] = NoBuffer
    <3>1. \A i \in 1..4 : i = 1 \/ i = 2 \/ i = 3 \/ i = 4
      OBVIOUS
    <3>2. /\ currentBuffer # nextBuffer /\ currentBuffer # newBuffer1
          /\ currentBuffer # newBuffer2
          /\ nextBuffer = newBuffer1 => nextBuffer = NoBuffer
          /\ nextBuffer = newBuffer2 => nextBuffer = NoBuffer
          /\ newBuffer1 = newBuffer2 => newBuffer1 = NoBuffer
      BY DEF Apart
    <3> QED
      BY <2>1, <3>1, <3>2
  <2>6. \A i \in 1..4 : ~InSeq(four[i], buffers) /\ ~InSeq(four[i], buffersToWrite)
    <3>1. \A i \in 1..4 : four[i] \in {currentBuffer, nextBuffer, newBuffer1, newBuffer2}
      BY <2>1
    <3> QED
      BY <3>1 DEF Apart
  <2> SUFFICES ASSUME NEW i \in 1..Len(Pointers), NEW j \in 1..Len(Pointers),
                      i # j, Pointers[i] = Pointers[j]
               PROVE  Pointers[i] = NoBuffer
    BY DEF NoSharing
  <2>7. \A k \in 1..Len(Pointers) :
          \/ k \in 1..4 /\ Pointers[k] = four[k]
          \/ k - 4 \in 1..m /\ Pointers[k] = buffers[k - 4]
          \/ k - 4 - m \in 1..n /\ Pointers[k] = buffersToWrite[k - 4 - m]
    BY <2>2, <2>3, <2>4, SMTT(40)
  <2>8. \A k \in 1..m, l \in 1..n : buffers[k] # buffersToWrite[l]
    BY DEF Apart, InSeq, m, n
  <2>9. /\ \A k \in 1..4, l \in 1..m : four[k] # buffers[l]
        /\ \A k \in 1..4, l \in 1..n : four[k] # buffersToWrite[l]
    BY <2>6 DEF InSeq, m, n
  <2>10. /\ \A k, l \in 1..m : buffers[k] = buffers[l] => k = l
         /\ \A k, l \in 1..n : buffersToWrite[k] = buffersToWrite[l] => k = l
    BY DEF Apart, m, n
  <2>11. CASE i \in 1..4 /\ Pointers[i] = four[i]
    BY <2>5, <2>7, <2>9, <2>11
  <2>12. CASE i - 4 \in 1..m /\ Pointers[i] = buffers[i - 4]
    <3>1. ~(j \in 1..4 /\ Pointers[j] = four[j])
      BY <2>9, <2>12
    <3>2. ~(j - 4 - m \in 1..n /\ Pointers[j] = buffersToWrite[j - 4 - m])
      BY <2>8, <2>12
    <3>3. j - 4 \in 1..m /\ buffers[i - 4] = buffers[j - 4]
      BY <2>7, <2>12, <3>1, <3>2
    <3>4. i - 4 = j - 4
      BY <2>10, <2>12, <3>3
    <3> QED
      BY <2>3, <2>2, <3>4
  <2>13. CASE i - 4 - m \in 1..n /\ Pointers[i] = buffersToWrite[i - 4 - m]
    <3>1. ~(j \in 1..4 /\ Pointers[j] = four[j])
      BY <2>9, <2>13
    <3>2. ~(j - 4 \in 1..m /\ Pointers[j] = buffers[j - 4])
      BY <2>8, <2>13
    <3>3. j - 4 - m \in 1..n /\ buffersToWrite[i - 4 - m] = buffersToWrite[j - 4 - m]
      BY <2>7, <2>13, <3>1, <3>2
    <3>4. i - 4 - m = j - 4 - m
      BY <2>10, <2>13, <3>3
    <3> QED
      BY <2>3, <2>2, <3>4
  <2> QED
    BY <2>7, <2>11, <2>12, <2>13
<1> QED
  BY Invariant, <1>1, PTL

-----------------------------------------------------------------------------
(* The stream of the lines.                                                *)

\* The lines are numbered in the order of append().
Increasing(s) == \A i, j \in 1..Len(s) : i < j => s[i] < s[j]

\* A sequence is what comes before a place and what comes after.
LEMMA SplitAt ==
  ASSUME NEW S, NEW s \in Seq(S), NEW d \in 0..Len(s)
  PROVE  /\ SubSeq(s, 1, d) \in Seq(S) /\ Len(SubSeq(s, 1, d)) = d
         /\ SubSeq(s, d + 1, Len(s)) \in Seq(S)
         /\ s = SubSeq(s, 1, d) \o SubSeq(s, d + 1, Len(s))
<1> DEFINE a == SubSeq(s, 1, d)
           b == SubSeq(s, d + 1, Len(s))
<1>1. /\ a \in Seq(S) /\ Len(a) = d /\ b \in Seq(S) /\ Len(b) = Len(s) - d
      /\ \A i \in 1..d : a[i] = s[i]
      /\ \A i \in 1..Len(b) : b[i] = s[d + i]
      /\ Len(s) \in Nat /\ d \in Nat
  OBVIOUS
<1> HIDE DEF a, b
<1>2. a \o b \in Seq(S) /\ Len(a \o b) = Len(s)
  BY <1>1
<1>3. \A i \in 1..Len(s) : (a \o b)[i] = s[i]
  <2> TAKE i \in 1..Len(s)
  <2>1. CASE i <= d
    BY <1>1, <2>1
  <2>2. CASE i > d
    <3>1. i - d \in 1..Len(b) /\ d + (i - d) = i
      BY <1>1, <2>2
    <3>2. (a \o b)[i] = b[i - d]
      BY <1>1, <2>2
    <3> QED
      BY <1>1, <3>1, <3>2
  <2> QED
    BY <1>1, <2>1, <2>2
<1>4. a \o b = s
  BY <1>2, <1>3, SeqEqual
<1> QED
  BY <1>1, <1>4 DEF a, b

\* A later line at the end keeps the order.
LEMMA IncreasingAppend ==
  ASSUME NEW s \in Seq(Nat), Increasing(s), NEW x \in Nat, \A y \in Elements(s) : y < x
  PROVE  Increasing(Append(s, x))
<1> DEFINE r == Append(s, x)
<1>1. /\ Len(r) = Len(s) + 1 /\ Len(s) \in Nat
      /\ \A i \in 1..Len(s) : r[i] = s[i]
      /\ r[Len(s) + 1] = x
  OBVIOUS
<1> HIDE DEF r
<1>2. \A i \in 1..Len(r) : i \in 1..Len(s) \/ i = Len(s) + 1
  BY <1>1
<1>3. \A i \in 1..Len(s) : s[i] < x
  BY DEF Elements
<1>4. \A i, j \in 1..Len(r) : i < j => r[i] < r[j]
  BY <1>1, <1>2, <1>3 DEF Increasing
<1> QED
  BY <1>4 DEF Increasing, r

\* Without a middle part, an increasing sequence is increasing still, and what
\* was taken out does not come again.
LEMMA IncreasingParts ==
  ASSUME NEW a \in Seq(Nat), NEW b \in Seq(Nat), NEW c \in Seq(Nat),
         NEW r, r = a \o (b \o c), Increasing(r)
  PROVE  Increasing(a \o c) /\ Elements(b) \cap Elements(a \o c) = {}
<1> DEFINE s == a \o c
           l == Len(a)
           m == Len(b)
           n == Len(c)
<1>1. /\ l \in Nat /\ m \in Nat /\ n \in Nat /\ r \in Seq(Nat)
      /\ Len(r) = l + m + n /\ Len(s) = l + n
  OBVIOUS
<1>2. /\ \A i \in 1..l : r[i] = a[i] /\ s[i] = a[i]
      /\ \A i \in 1..m : r[l + i] = b[i]
      /\ \A i \in 1..n : r[l + m + i] = c[i] /\ s[l + i] = c[i]
  OBVIOUS
<1> HIDE DEF s, l, m, n
<1>3. \A i \in 1..Len(s) : \E k \in 1..Len(r) :
        /\ s[i] = r[k]
        /\ i <= l => k = i
        /\ i > l => k = i + m
  <2> TAKE i \in 1..Len(s)
  <2>1. CASE i <= l
    BY <1>1, <1>2, <2>1
  <2>2. CASE i > l
    <3>1. i - l \in 1..n /\ l + (i - l) = i /\ l + m + (i - l) = i + m
      BY <1>1, <2>2
    <3>2. s[l + (i - l)] = c[i - l] /\ r[l + m + (i - l)] = c[i - l]
      BY <1>2, <3>1
    <3>3. PICK k \in 1..Len(r) : k = i + m
      BY <1>1, <2>2
    <3>4. s[i] = r[k]
      BY <3>1, <3>2, <3>3
    <3>5. ~(i <= l)
      BY <1>1, <2>2
    <3> QED
      BY <3>3, <3>4, <3>5
  <2>3. i <= l \/ i > l
    BY <1>1
  <2> QED
    BY <2>1, <2>2, <2>3
<1>4. ASSUME NEW i \in 1..Len(s), NEW j \in 1..Len(s), i < j
      PROVE  s[i] < s[j]
  <2>1. PICK k \in 1..Len(r) : s[i] = r[k] /\ (i <= l => k = i) /\ (i > l => k = i + m)
    BY <1>3
  <2>2. PICK h \in 1..Len(r) : s[j] = r[h] /\ (j <= l => h = j) /\ (j > l => h = j + m)
    BY <1>3
  <2>3. k < h
    BY <1>1, <1>4, <2>1, <2>2
  <2> QED
    BY <2>1, <2>2, <2>3 DEF Increasing
<1>5. ASSUME NEW i \in 1..m, NEW j \in 1..Len(s) PROVE b[i] # s[j]
  <2>1. PICK k \in 1..Len(r) : s[j] = r[k] /\ (j <= l => k = j) /\ (j > l => k = j + m)
    BY <1>3
  <2>2. PICK h \in 1..Len(r) : h = l + i
    BY <1>1
  <2>3. r[h] = b[i]
    BY <1>2, <2>2
  <2>4. h < k \/ k < h
    <3>1. j <= l => h > k
      BY <1>1, <2>1, <2>2
    <3>2. j > l => h < k
      BY <1>1, <2>1, <2>2
    <3>3. j <= l \/ j > l
      BY <1>1
    <3> QED
      BY <3>1, <3>2, <3>3
  <2>5. r[h] < r[k] \/ r[k] < r[h]
    BY <2>4 DEF Increasing
  <2>6. r[h] \in Nat /\ r[k] \in Nat
    <3>1. r \in Seq(Nat)
      BY <1>1
    <3> QED
      BY <3>1, ElementOfSeq
  <2>7. ASSUME NEW x \in Nat, NEW y \in Nat, x < y \/ y < x PROVE x # y
    BY <2>7
  <2>8. r[h] # r[k]
    BY <2>5, <2>6, <2>7, Zenon
  <2> QED
    BY <2>1, <2>3, <2>8, Zenon
<1>6. Increasing(s)
  BY <1>4 DEF Increasing
<1>7. Elements(b) \cap Elements(s) = {}
  BY <1>5 DEF Elements, m
<1> QED
  BY <1>6, <1>7 DEF s

\* The buffers whose lines still have to be written, oldest first.
Queue ==
  SubSeq(buffersToWrite, written + 1, Len(buffersToWrite)) \o (buffers \o <<currentBuffer>>)

\* The lines in the file and those in the buffers behind it.
Stream == file \o LinesAt(content, Queue)

\* A step that brings lines nearer to the disk: the file is a, b is given up.
Moved ==
  \E a, b, c \in Seq(Nat) :
    /\ Stream = a \o (b \o c) /\ Stream' = a \o c
    /\ dropped' = dropped \cup Elements(b)
    /\ onDisk' \in onDisk..Len(a)
    /\ appended' = appended

\* The queue is a sequence of buffers.
LEMMA QueueType ==
  ASSUME TypeOK
  PROVE  /\ Queue \in Seq(Buffer)
         /\ SubSeq(buffersToWrite, written + 1, Len(buffersToWrite)) \in Seq(Buffer)
         /\ buffers \o <<currentBuffer>> \in Seq(Buffer)
<1>1. /\ buffersToWrite \in Seq(Buffer) /\ buffers \in Seq(Buffer)
      /\ currentBuffer \in Buffer /\ written \in 0..Len(buffersToWrite)
  BY DEF TypeOK
<1>2. SubSeq(buffersToWrite, written + 1, Len(buffersToWrite)) \in Seq(Buffer)
  BY <1>1
<1>3. buffers \o <<currentBuffer>> \in Seq(Buffer)
  BY <1>1
<1> QED
  BY <1>2, <1>3 DEF Queue

\* The stream is a sequence of lines, the file at its start.
LEMMA StreamType ==
  ASSUME TypeOK
  PROVE  /\ LinesAt(content, Queue) \in Seq(Nat) /\ Stream \in Seq(Nat)
         /\ onDisk \in 0..Len(file) /\ file \in Seq(Nat)
         /\ Len(file) \in Nat /\ Len(file) <= Len(Stream)
<1>1. content \in [Buffer -> Seq(Nat)] /\ file \in Seq(Nat) /\ onDisk \in 0..Len(file)
  BY DEF TypeOK
<1>2. LinesAt(content, Queue) \in Seq(Nat)
  BY <1>1, QueueType, LinesAtType
<1> QED
  BY <1>1, <1>2 DEF Stream

\* A buffer of the queue is the current one or in one of the two lists.
LEMMA QueueMembers ==
  ASSUME TypeOK, NEW i \in 1..Len(Queue)
  PROVE  \/ Queue[i] = currentBuffer
         \/ InSeq(Queue[i], buffers)
         \/ InSeq(Queue[i], buffersToWrite)
<1> DEFINE p == SubSeq(buffersToWrite, written + 1, Len(buffersToWrite))
           q == buffers \o <<currentBuffer>>
<1>1. /\ buffersToWrite \in Seq(Buffer) /\ buffers \in Seq(Buffer)
      /\ currentBuffer \in Buffer /\ written \in 0..Len(buffersToWrite)
  BY DEF TypeOK
<1>2. p \in Seq(Buffer) /\ q \in Seq(Buffer)
  BY QueueType
<1>3. \A j \in 1..Len(p) : InSeq(p[j], buffersToWrite)
  <2> TAKE j \in 1..Len(p)
  <2>1. p[j] = buffersToWrite[written + j] /\ written + j \in 1..Len(buffersToWrite)
    BY <1>1
  <2> QED
    BY <2>1 DEF InSeq
<1>4. \A j \in 1..Len(q) : q[j] = currentBuffer \/ InSeq(q[j], buffers)
  BY <1>1 DEF InSeq
<1> HIDE DEF p, q
<1>5. Elements(p \o q) = Elements(p) \cup Elements(q)
  BY <1>2, ElementsConcat
<1>6. Queue[i] \in Elements(p) \cup Elements(q)
  BY <1>5 DEF Queue, p, q, Elements
<1> QED
  BY <1>3, <1>4, <1>6 DEF Elements

\* The lines of the queue are the same when its buffers are not written to.
LEMMA SameLines ==
  ASSUME TypeOK, NEW d,
         \A b \in Buffer : \/ d[b] = content[b]
                           \/ /\ b # currentBuffer
                              /\ ~InSeq(b, buffers) /\ ~InSeq(b, buffersToWrite)
  PROVE  LinesAt(d, Queue) = LinesAt(content, Queue)
<1>1. Queue \in Seq(Buffer)
  BY QueueType
<1>2. \A i \in 1..Len(Queue) : content[Queue[i]] = d[Queue[i]]
  <2> TAKE i \in 1..Len(Queue)
  <2>1. Queue[i] \in Buffer
    BY <1>1, ElementOfSeq
  <2> QED
    BY <2>1, QueueMembers
<1> QED
  BY <1>1, <1>2, LinesAtSame

-----------------------------------------------------------------------------
(* The file and the stream.                                                *)

\* fflush keeps what it can, and what it gives up is the end.
LEMMA FlushMoves ==
  ASSUME NEW f \in Seq(Nat), Increasing(f), NEW g \in Seq(Nat),
         onDisk \in Nat, onDisk <= Len(f), Flush(f, Elements(g))
  PROVE  \E a, b \in Seq(Nat) :
           /\ f \o g = a \o b /\ file' = a
           /\ dropped' = dropped \cup Elements(b)
           /\ onDisk' \in onDisk..Len(a)
<1>1. PICK d \in onDisk..Len(f), kept \in BOOLEAN :
        /\ onDisk' = d
        /\ file' = IF kept THEN f ELSE SubSeq(f, 1, d)
        /\ dropped' = dropped \cup Elements(g) \cup (Elements(f) \ Elements(file'))
  BY DEF Flush
<1>2. CASE kept
  <2>1. file' = f /\ dropped' = dropped \cup Elements(g) /\ onDisk' \in onDisk..Len(f)
    BY <1>1, <1>2
  <2> QED
    BY <2>1
<1>3. CASE ~kept
  <2> DEFINE p == SubSeq(f, 1, d)
             q == SubSeq(f, d + 1, Len(f))
  <2>0. d \in 0..Len(f) /\ d <= Len(f)
    OBVIOUS
  <2>1. p \in Seq(Nat) /\ q \in Seq(Nat) /\ Len(p) = d /\ f = p \o q
    BY <2>0, SplitAt
  <2> HIDE DEF p, q
  <2>2. Elements(f) = Elements(p) \cup Elements(q)
    BY <2>1, ElementsConcat
  <2>3. Elements(q) \cap Elements(p) = {}
    <3>1. f = p \o (q \o <<>>) /\ p \o <<>> = p
      BY <2>1
    <3>2. <<>> \in Seq(Nat)
      OBVIOUS
    <3>3. Elements(q) \cap Elements(p \o <<>>) = {}
      BY <2>1, <3>1, <3>2, IncreasingParts
    <3> QED
      BY <3>1, <3>3
  <2>4. q \o g \in Seq(Nat) /\ f \o g = p \o (q \o g)
    BY <2>1, Regroup, SMTT(40) DEF Cat
  <2>5. Elements(q \o g) = Elements(q) \cup Elements(g)
    BY <2>1, ElementsConcat
  <2>6. file' = p /\ onDisk' = d
    BY <1>1, <1>3 DEF p
  <2>7. dropped' = dropped \cup Elements(q \o g)
    BY <1>1, <2>2, <2>3, <2>5, <2>6
  <2>8. onDisk' \in onDisk..Len(p)
    BY <1>1, <2>1, <2>6
  <2> QED
    BY <2>1, <2>4, <2>6, <2>7, <2>8
<1> QED
  BY <1>2, <1>3

\* A block goes to the end of the file, but for what is given up.
LEMMA AppendBlockMoves ==
  ASSUME TypeOK, NEW block \in Seq(Nat), Increasing(file \o block), AppendBlock(block)
  PROVE  \E a, b \in Seq(Nat) :
           /\ file \o block = a \o b /\ file' = a
           /\ dropped' = dropped \cup Elements(b)
           /\ onDisk' \in onDisk..Len(a)
<1>1. PICK k \in Written(block) :
        LET f == file \o SubSeq(block, 1, k)
            cut == Elements(SubSeq(block, k + 1, Len(block)))
        IN IF count + 1 >= FlushEveryN
           THEN count' = 0 /\ Flush(f, cut)
           ELSE /\ count' = count + 1
                /\ file' = f
                /\ Failed(IF cut = {} THEN 0 ELSE 1)
                /\ dropped' = dropped \cup cut
                /\ UNCHANGED onDisk
  BY DEF AppendBlock
<1> DEFINE p == SubSeq(block, 1, k)
           g == SubSeq(block, k + 1, Len(block))
           f == file \o p
<1>2. p \in Seq(Nat) /\ g \in Seq(Nat) /\ block = p \o g
  <2>1. k \in 0..Len(block)
    BY DEF Written
  <2> QED
    BY <2>1, SplitAt
<1>3. file \in Seq(Nat) /\ onDisk \in 0..Len(file)
  BY DEF TypeOK
<1>4. \/ Flush(f, Elements(g))
      \/ file' = f /\ dropped' = dropped \cup Elements(g) /\ onDisk' = onDisk
  BY <1>1
<1> HIDE DEF p, g
<1>5. /\ f \in Seq(Nat) /\ f \o g = file \o block
      /\ onDisk \in Nat /\ Len(f) \in Nat /\ onDisk <= Len(f)
  <2>1. f \in Seq(Nat) /\ onDisk \in Nat /\ Len(f) \in Nat /\ onDisk <= Len(f)
    BY <1>2, <1>3
  <2>2. f \o g = file \o (p \o g)
    <3>1. Cat(Cat(file, p), g) = Cat(file, Cat(p, g))
      BY <1>2, <1>3, Regroup
    <3> QED
      BY <3>1 DEF Cat
  <2> QED
    BY <1>2, <2>1, <2>2
<1>6. Increasing(f)
  <2> HIDE DEF f
  <2>1. <<>> \in Seq(Nat) /\ g \o <<>> = g /\ f \o <<>> = f
    BY <1>2, <1>5
  <2>2. Increasing(f \o <<>>)
    BY <1>2, <1>5, <2>1, IncreasingParts
  <2> QED
    BY <2>1, <2>2
<1> HIDE DEF f
<1>7. CASE Flush(f, Elements(g))
  <2>1. \E a, b \in Seq(Nat) : /\ f \o g = a \o b /\ file' = a
                                /\ dropped' = dropped \cup Elements(b)
                                /\ onDisk' \in onDisk..Len(a)
    BY <1>2, <1>5, <1>6, <1>7, FlushMoves
  <2> QED
    BY <1>5, <2>1
<1>8. CASE file' = f /\ dropped' = dropped \cup Elements(g) /\ onDisk' = onDisk
  <2>1. onDisk' \in onDisk..Len(f)
    BY <1>5, <1>8
  <2> QED
    BY <1>2, <1>5, <1>8, <2>1
<1> QED
  BY <1>4, <1>7, <1>8

-----------------------------------------------------------------------------
(* Every step adds a line to the stream or moves lines along it.           *)

\* A step that touches neither the stream nor the disk moves nothing.
LEMMA StillMoves ==
  ASSUME TypeOK, Stream' = Stream, UNCHANGED <<dropped, onDisk, appended>>
  PROVE  Moved
<1>1. PICK a, e : a = Stream /\ e = <<>>
  OBVIOUS
<1>2. a \in Seq(Nat) /\ e \in Seq(Nat) /\ onDisk \in Nat /\ onDisk <= Len(a)
  BY <1>1, StreamType
<1>3. Stream = a \o (e \o e) /\ Stream' = a \o e
  BY <1>1, <1>2
<1>4. Elements(e) = {}
  BY <1>1 DEF Elements
<1>5. onDisk' \in onDisk..Len(a) /\ dropped' = dropped \cup Elements(e) /\ appended' = appended
  BY <1>2, <1>4
<1> QED
  BY <1>2, <1>3, <1>5 DEF Moved

\* A step of the file moves the stream as far as the file goes.
LEMMA FileMoves ==
  ASSUME TypeOK, NEW block \in Seq(Nat), NEW W \in Seq(Nat),
         Stream = file \o (block \o W), Stream' = file' \o W, appended' = appended,
         \E a, b \in Seq(Nat) :
           /\ file \o block = a \o b /\ file' = a
           /\ dropped' = dropped \cup Elements(b)
           /\ onDisk' \in onDisk..Len(a)
  PROVE  Moved
<1>1. PICK a \in Seq(Nat), b \in Seq(Nat) :
        /\ file \o block = a \o b /\ file' = a
        /\ dropped' = dropped \cup Elements(b)
        /\ onDisk' \in onDisk..Len(a)
  OBVIOUS
<1>2. file \in Seq(Nat)
  BY DEF TypeOK
<1>3. /\ Cat(Cat(file, block), W) = Cat(file, Cat(block, W))
      /\ Cat(Cat(a, b), W) = Cat(a, Cat(b, W))
  BY <1>2, Regroup
<1>4. Stream = a \o (b \o W)
  BY <1>1, <1>3 DEF Cat
<1> QED
  BY <1>1, <1>4 DEF Moved

\* Steps that at most flush move it so.
LEMMA QuietMoves ==
  ASSUME TypeOK,
         UNCHANGED <<currentBuffer, buffers, buffersToWrite, written, content>>
  PROVE  /\ UNCHANGED <<file, onDisk, dropped, appended>> => Moved
         /\ Increasing(Stream) /\ Flush(file, {}) /\ appended' = appended => Moved
<1> DEFINE W == LinesAt(content, Queue)
<1>1. W' = W
  BY DEF Queue
<1>2. ASSUME UNCHANGED <<file, onDisk, dropped, appended>> PROVE Moved
  <2>1. Stream' = Stream
    BY <1>1, <1>2 DEF Stream
  <2> QED
    BY <1>2, <2>1, StillMoves
<1>3. ASSUME Increasing(Stream), Flush(file, {}), appended' = appended PROVE Moved
  <2>1. PICK e : e = <<>>
    OBVIOUS
  <2>2. file \in Seq(Nat) /\ e \in Seq(Nat) /\ onDisk \in Nat /\ onDisk <= Len(file)
    BY <2>1 DEF TypeOK
  <2>3. W \in Seq(Nat)
    BY StreamType
  <2>4. Stream = file \o W /\ Stream' = file' \o W
    BY <1>1 DEF Stream
  <2> HIDE DEF W
  <2>5. e \o W = W /\ file \o e = file /\ W \o e = W
    BY <2>1, <2>2, <2>3
  <2>6. Increasing(file)
    BY <1>3, <2>2, <2>3, <2>4, <2>5, IncreasingParts
  <2>7. Elements(e) = {}
    BY <2>1 DEF Elements
  <2>8. \E a, b \in Seq(Nat) :
          /\ file \o e = a \o b /\ file' = a
          /\ dropped' = dropped \cup Elements(b)
          /\ onDisk' \in onDisk..Len(a)
    <3>1. Flush(file, Elements(e))
      BY <1>3, <2>7 DEF Flush
    <3> QED
      BY <2>2, <2>6, <3>1, FlushMoves
  <2> QED
    BY <1>3, <2>2, <2>3, <2>4, <2>5, <2>8, FileMoves
<1> QED
  BY <1>2, <1>3

\* append() to the current buffer puts the line at the end.
LEMMA AppendToCurrentStream ==
  ASSUME IInv, AppendToCurrent
  PROVE  Stream' = Append(Stream, Line)
<1>1. /\ content' = [content EXCEPT ![currentBuffer] = Append(@, Line)]
      /\ UNCHANGED <<file, currentBuffer, buffers, buffersToWrite, written>>
  BY DEF AppendToCurrent, CanAppend, frontVars, backVars, fileVars
<1>2. /\ buffersToWrite \in Seq(Buffer) /\ buffers \in Seq(Buffer)
      /\ currentBuffer \in Buffer /\ written \in 0..Len(buffersToWrite)
      /\ content \in [Buffer -> Seq(Nat)] /\ file \in Seq(Nat) /\ Line \in Nat
  BY DEF IInv, TypeOK, Line
<1>3. PICK p : p = SubSeq(buffersToWrite, written + 1, Len(buffersToWrite))
  OBVIOUS
<1>4. /\ p \in Seq(Buffer)
      /\ \A j \in 1..Len(p) : InSeq(p[j], buffersToWrite)
  <2>1. p \in Seq(Buffer)
    BY <1>2, <1>3
  <2>2. ASSUME NEW j \in 1..Len(p) PROVE InSeq(p[j], buffersToWrite)
    <3>1. p[j] = buffersToWrite[written + j] /\ written + j \in 1..Len(buffersToWrite)
      BY <1>2, <1>3
    <3> QED
      BY <3>1 DEF InSeq
  <2> QED
    BY <2>1, <2>2
<1>5. PICK r : r = p \o buffers
  OBVIOUS
<1>6. r \in Seq(Buffer) /\ Queue = Append(r, currentBuffer)
  <2>1. r \in Seq(Buffer)
    BY <1>2, <1>4, <1>5
  <2>2. Queue = p \o Append(buffers, currentBuffer)
    <3>1. Append(buffers, currentBuffer) = buffers \o <<currentBuffer>>
      BY <1>2
    <3> QED
      BY <1>3, <3>1 DEF Queue
  <2> QED
    BY <1>2, <1>4, <1>5, <2>1, <2>2, AppendConcat, SMTT(40)
<1>7. Queue' = Queue
  BY <1>1 DEF Queue
<1>8. \A i \in 1..Len(r) : r[i] # currentBuffer /\ r[i] \in Buffer
  <2> TAKE i \in 1..Len(r)
  <2>1. Elements(r) = Elements(p) \cup Elements(buffers)
    BY <1>2, <1>4, <1>5, ElementsConcat
  <2>2. r[i] \in Elements(r) /\ r[i] \in Buffer
    BY <1>6 DEF Elements
  <2>3. InSeq(r[i], buffers) \/ InSeq(r[i], buffersToWrite)
    <3>1. CASE r[i] \in Elements(p)
      BY <1>4, <3>1 DEF Elements
    <3>2. CASE r[i] \in Elements(buffers)
      BY <3>2 DEF Elements, InSeq
    <3> QED
      BY <2>1, <2>2, <3>1, <3>2
  <2>4. ~InSeq(currentBuffer, buffers) /\ ~InSeq(currentBuffer, buffersToWrite)
    BY DEF IInv, Apart
  <2> QED
    BY <2>2, <2>3, <2>4
<1>9. PICK d, x, y :
        d = content' /\ x = content[currentBuffer] /\ y = Append(x, Line)
  OBVIOUS
<1>10. /\ d \in [Buffer -> Seq(Nat)] /\ x \in Seq(Nat)
       /\ d[currentBuffer] = y /\ content[currentBuffer] = x
       /\ \A b \in Buffer : b # currentBuffer => d[b] = content[b]
  BY <1>1, <1>2, <1>9
<1>11. LinesAt(d, r) = LinesAt(content, r)
  <2>1. \A i \in 1..Len(r) : d[r[i]] = content[r[i]]
    BY <1>8, <1>10
  <2> QED
    BY <1>6, <2>1, LinesAtSame
<1>12. LinesAt(content, Queue) = LinesAt(content, r) \o x
  BY <1>2, <1>6, <1>10, LinesAtAppend
<1>13. LinesAt(d, Queue) = LinesAt(content, r) \o y
  BY <1>2, <1>6, <1>10, <1>11, LinesAtAppend
<1>14. LinesAt(content, r) \in Seq(Nat) /\ LinesAt(content, Queue) \in Seq(Nat)
  BY <1>2, <1>6, LinesAtType, StreamType DEF IInv
<1>15. LinesAt(d, Queue) = Append(LinesAt(content, Queue), Line)
  <2>1. PICK L : L = LinesAt(content, r)
    OBVIOUS
  <2>2. L \in Seq(Nat) /\ x \in Seq(Nat) /\ Line \in Nat
    BY <1>2, <1>10, <1>14, <2>1
  <2>3. L \o Append(x, Line) = Append(L \o x, Line)
    BY <2>2, AppendConcat
  <2> QED
    BY <1>9, <1>12, <1>13, <2>1, <2>3
<1>16. Stream' = file \o LinesAt(d, Queue) /\ Stream = file \o LinesAt(content, Queue)
  BY <1>1, <1>7, <1>9 DEF Stream
<1>17. PICK W : W = LinesAt(content, Queue)
  OBVIOUS
<1>18. W \in Seq(Nat) /\ file \in Seq(Nat) /\ Line \in Nat
  BY <1>2, <1>14, <1>17
<1>19. file \o Append(W, Line) = Append(file \o W, Line)
  BY <1>18, AppendConcat
<1> QED
  BY <1>15, <1>16, <1>17, <1>19

\* append() to a fresh buffer puts the line at the end.
LEMMA AppendToFreshStream ==
  ASSUME IInv, AppendToFresh
  PROVE  Stream' = Append(Stream, Line)
<1>1. /\ content' = [content EXCEPT ![currentBuffer'] = Append(@, Line)]
      /\ buffers' = Append(buffers, currentBuffer)
      /\ UNCHANGED <<file, buffersToWrite, written>>
  BY DEF AppendToFresh, CanAppend, backVars, fileVars
<1>2. /\ buffersToWrite \in Seq(Buffer) /\ buffers \in Seq(Buffer)
      /\ currentBuffer \in Buffer /\ written \in 0..Len(buffersToWrite)
      /\ content \in [Buffer -> Seq(Nat)] /\ file \in Seq(Nat) /\ Line \in Nat
  BY DEF IInv, TypeOK, Line
<1>3. currentBuffer' \in Buffer /\ content[currentBuffer'] = <<>>
  BY FreshBuffer
<1>4. PICK new \in Buffer : new = currentBuffer'
  BY <1>3
<1>5. Queue' = Append(Queue, new)
  <2>1. PICK p : p = SubSeq(buffersToWrite, written + 1, Len(buffersToWrite))
    OBVIOUS
  <2>2. p \in Seq(Buffer)
    BY <1>2, <2>1
  <2>3. Queue = p \o (buffers \o <<currentBuffer>>)
    BY <2>1 DEF Queue
  <2>4. Queue' = p \o (Append(buffers, currentBuffer) \o <<new>>)
    BY <1>1, <1>4, <2>1 DEF Queue
  <2>5. /\ Append(buffers, currentBuffer) \o <<new>> = Append(buffers \o <<currentBuffer>>, new)
        /\ buffers \o <<currentBuffer>> \in Seq(Buffer)
    BY <1>2
  <2> QED
    BY <2>2, <2>3, <2>4, <2>5, AppendConcat
<1>6. /\ content' \in [Buffer -> Seq(Nat)] /\ content'[new] = <<Line>>
      /\ \A b \in Buffer : b # new => content'[b] = content[b]
  BY <1>1, <1>2, <1>3, <1>4
<1>7. new # currentBuffer /\ ~InSeq(new, buffers) /\ ~InSeq(new, buffersToWrite)
  <2>1. /\ nextBuffer # NoBuffer => new = nextBuffer
        /\ nextBuffer = NoBuffer => new \notin Held
    BY <1>4, FreshBuffer
  <2> QED
    BY <2>1 DEF IInv, Apart, Held
<1>8. Queue \in Seq(Buffer) /\ LinesAt(content, Queue) \in Seq(Nat)
  BY QueueType, StreamType DEF IInv
<1>9. LinesAt(content', Queue) = LinesAt(content, Queue)
  BY <1>6, <1>7, SameLines DEF IInv
<1>10. LinesAt(content', Append(Queue, new)) = LinesAt(content', Queue) \o content'[new]
  BY <1>6, <1>8, LinesAtAppend
<1>11. LinesAt(content', Queue') = Append(LinesAt(content, Queue), Line)
  BY <1>2, <1>5, <1>6, <1>8, <1>9, <1>10
<1>12. /\ Stream' = file \o Append(LinesAt(content, Queue), Line)
       /\ Stream = file \o LinesAt(content, Queue)
  BY <1>1, <1>11 DEF Stream
<1> QED
  BY <1>2, <1>8, <1>12, AppendConcat, SMTT(40)

\* The swap leaves the stream.
LEMMA CollectMoves ==
  ASSUME IInv, Collect
  PROVE  Moved
<1>1. /\ pc \in {"lock", "waiting"}
      /\ buffersToWrite' = Append(buffers, currentBuffer)
      /\ buffers' = <<>> /\ currentBuffer' = newBuffer1
      /\ UNCHANGED <<written, content, file, onDisk, appended, dropped>>
  BY DEF Collect, WaitOver, Collected, fileVars, historyVars
<1>2. /\ newBuffer1 \in Buffer /\ content[newBuffer1] = <<>>
      /\ buffersToWrite = <<>> /\ written = 0
  BY <1>1, AsyncLoggingAssumption DEF IInv, Spares, Empty, TypeOK, Pointer
<1>3. buffers \in Seq(Buffer) /\ currentBuffer \in Buffer /\ content \in [Buffer -> Seq(Nat)]
  BY DEF IInv, TypeOK
<1>4. PICK q : q = Append(buffers, currentBuffer)
  OBVIOUS
<1>5. q \in Seq(Buffer) /\ buffers \o <<currentBuffer>> = q
  BY <1>3, <1>4
<1>6. Queue = q
  <2>1. SubSeq(buffersToWrite, written + 1, Len(buffersToWrite)) = <<>>
    BY <1>2
  <2>2. <<>> \o q = q
    BY <1>5
  <2> QED
    BY <1>5, <2>1, <2>2 DEF Queue
<1>7. Queue' = Append(q, newBuffer1)
  <2>1. SubSeq(q, 1, Len(q)) = q
    BY <1>5, SubSeqFull
  <2>2. Queue' = SubSeq(q, 0 + 1, Len(q)) \o (<<>> \o <<newBuffer1>>)
    BY <1>1, <1>2, <1>4 DEF Queue
  <2>3. Queue' = q \o <<newBuffer1>>
    <3>1. 0 + 1 = 1 /\ <<>> \o <<newBuffer1>> = <<newBuffer1>>
      BY <1>2
    <3> QED
      BY <2>1, <2>2, <3>1
  <2> QED
    BY <1>2, <1>5, <2>3
<1>8. PICK W : W = LinesAt(content, q)
  OBVIOUS
<1>9. W \in Seq(Nat) /\ W \o <<>> = W
  <2>1. W \in Seq(Nat)
    BY <1>3, <1>5, <1>8, LinesAtType
  <2> QED
    BY <2>1
<1>10. LinesAt(content, Append(q, newBuffer1)) = W
  <2>1. LinesAt(content, Append(q, newBuffer1)) = LinesAt(content, q) \o content[newBuffer1]
    BY <1>2, <1>3, <1>5, LinesAtAppend
  <2> QED
    BY <1>2, <1>8, <1>9, <2>1
<1>11. Stream' = Stream
  BY <1>1, <1>6, <1>7, <1>8, <1>10 DEF Stream
<1> QED
  BY <1>1, <1>11, StillMoves DEF IInv

\* A backlog that is given up is a part of the stream.
LEMMA DropExcessMoves ==
  ASSUME IInv, DropExcess
  PROVE  Moved
<1>1. PICK e, k :
        /\ e = SubSeq(buffersToWrite, Kept + 1, Len(buffersToWrite))
        /\ k = SubSeq(buffersToWrite, 1, Kept)
  OBVIOUS
<1>2. /\ dropped' = dropped \cup LinesOf(e) /\ content' = Emptied(e)
      /\ buffersToWrite' = k
      /\ UNCHANGED <<currentBuffer, buffers, written, file, onDisk, appended>>
  BY <1>1 DEF DropExcess, frontVars, fileVars
<1>3. written = 0 /\ Kept \in 1..Len(buffersToWrite)
  BY ExcessFacts
<1>4. /\ buffersToWrite \in Seq(Buffer) /\ content \in [Buffer -> Seq(Nat)]
      /\ file \in Seq(Nat) /\ onDisk \in 0..Len(file)
  BY DEF IInv, TypeOK
<1>5. k \in Seq(Buffer) /\ e \in Seq(Buffer) /\ buffersToWrite = k \o e
  <2>1. Kept \in 0..Len(buffersToWrite)
    BY <1>3, <1>4
  <2> QED
    BY <1>1, <1>4, <2>1, SplitAt
<1>6. PICK r : r = buffers \o <<currentBuffer>>
  OBVIOUS
<1>7. r \in Seq(Buffer)
  BY <1>6, QueueType DEF IInv
<1>8. Queue = (k \o e) \o r
  <2>1. SubSeq(buffersToWrite, 1, Len(buffersToWrite)) = buffersToWrite
    BY <1>4, SubSeqFull
  <2>2. 0 + 1 = 1
    OBVIOUS
  <2> QED
    BY <1>3, <1>5, <1>6, <2>1, <2>2 DEF Queue
<1>9. Queue' = k \o r
  <2>1. SubSeq(k, 1, Len(k)) = k
    BY <1>5, SubSeqFull
  <2>2. 0 + 1 = 1
    OBVIOUS
  <2> QED
    BY <1>2, <1>3, <1>6, <2>1, <2>2 DEF Queue
<1>10. PICK d, K, E, R, Kr :
         /\ d = content' /\ Kr = k \o r
         /\ K = LinesAt(content, k) /\ E = LinesAt(content, e) /\ R = LinesAt(content, r)
  OBVIOUS
<1>11. K \in Seq(Nat) /\ E \in Seq(Nat) /\ R \in Seq(Nat)
  BY <1>4, <1>5, <1>7, <1>10, LinesAtType
<1>12. LinesAt(content, Queue) = (K \o E) \o R
  <2>1. k \o e \in Seq(Buffer)
    BY <1>5
  <2>2. LinesAt(content, (k \o e) \o r) = LinesAt(content, k \o e) \o R
    BY <1>4, <1>7, <1>10, <2>1, LinesAtConcat
  <2>3. LinesAt(content, k \o e) = K \o E
    BY <1>4, <1>5, <1>10, LinesAtConcat
  <2> QED
    BY <1>8, <2>2, <2>3
<1>13. Kr \in Seq(Buffer) /\ LinesAt(content, Kr) = K \o R
  <2>1. LinesAt(content, k \o r) = LinesAt(content, k) \o LinesAt(content, r)
    BY <1>4, <1>5, <1>7, LinesAtConcat, ZenonT(40)
  <2>2. k \o r \in Seq(Buffer)
    BY <1>5, <1>7
  <2> QED
    BY <1>10, <2>1, <2>2
<1>14. \A i \in 1..Len(Kr) : content[Kr[i]] = d[Kr[i]]
  <2> TAKE i \in 1..Len(Kr)
  <2>1. Elements(Kr) = Elements(k) \cup Elements(r)
    BY <1>5, <1>7, <1>10, ElementsConcat
  <2>2. Kr[i] \in Elements(k) \cup Elements(r) /\ Kr[i] \in Buffer
    <3>1. Kr[i] \in Elements(Kr)
      BY DEF Elements
    <3> QED
      BY <1>13, <2>1, <3>1, ElementOfSeq
  <2>3. ASSUME InSeq(Kr[i], e) PROVE FALSE
    <3>1. PICK j \in 1..Len(e) : e[j] = Kr[i]
      BY <2>3 DEF InSeq
    <3>2. PICK h \in 1..Len(buffersToWrite) :
            h > Kept /\ buffersToWrite[h] = Kr[i]
      <4>1. /\ Len(e) = Len(buffersToWrite) - Kept
            /\ \A m \in 1..Len(e) : e[m] = buffersToWrite[Kept + m]
        BY <1>1, ExcessFacts
      <4>2. Kept + j \in 1..Len(buffersToWrite) /\ Kept + j > Kept
        BY <1>3, <1>4, <4>1
      <4> QED
        BY <3>1, <4>1, <4>2
    <3>3. CASE Kr[i] \in Elements(k)
      <4>1. PICK l \in 1..Len(k) : k[l] = Kr[i]
        BY <3>3 DEF Elements
      <4>2. Len(k) = Kept /\ k[l] = buffersToWrite[l] /\ l \in 1..Len(buffersToWrite) /\ l <= Kept
        BY <1>1, <1>3, <1>4, <4>1
      <4>3. l = h
        BY <3>2, <4>1, <4>2 DEF IInv, Apart
      <4> QED
        BY <1>3, <3>2, <4>2, <4>3
    <3>4. CASE Kr[i] \in Elements(r)
      <4>1. InSeq(Kr[i], buffersToWrite)
        BY <3>2 DEF InSeq
      <4>2. ~InSeq(currentBuffer, buffersToWrite)
        BY DEF IInv, Apart
      <4>3. Elements(r) = Elements(buffers) \cup {currentBuffer}
        <5>1. r = Append(buffers, currentBuffer) /\ buffers \in Seq(Buffer)
          BY <1>6 DEF IInv, TypeOK
        <5> QED
          BY <5>1, ElementsAppend
      <4>4. \A b \in Elements(buffers) : ~InSeq(b, buffersToWrite)
        BY DEF IInv, Apart, Elements
      <4> QED
        BY <3>4, <4>1, <4>2, <4>3, <4>4
    <3> QED
      BY <2>2, <3>3, <3>4
  <2> QED
    BY <1>2, <1>10, <2>2, <2>3 DEF Emptied
<1>15. LinesAt(d, Kr) = K \o R
  BY <1>13, <1>14, LinesAtSame, SMTT(40)
<1>16. LinesOf(e) = Elements(E)
  BY <1>4, <1>5, <1>10, LinesAtElements, ZenonT(40) DEF LinesOf
<1>17. PICK a : a = file \o K
  OBVIOUS
<1>18. /\ a \in Seq(Nat) /\ onDisk \in 0..Len(a)
  <2>1. a \in Seq(Nat) /\ Len(a) = Len(file) + Len(K) /\ Len(K) \in Nat /\ Len(file) \in Nat
    BY <1>4, <1>11, <1>17
  <2> QED
    BY <1>4, <2>1
<1>19. Stream = a \o (E \o R)
  <2>1. /\ Cat(Cat(K, E), R) = Cat(K, Cat(E, R))
        /\ E \o R \in Seq(Nat)
    BY <1>11, Regroup
  <2>2. Cat(Cat(file, K), Cat(E, R)) = Cat(file, Cat(K, Cat(E, R)))
    <3>1. PICK ER : ER = Cat(E, R)
      OBVIOUS
    <3>2. ER \in Seq(Nat)
      BY <2>1, <3>1 DEF Cat
    <3>3. Cat(Cat(file, K), ER) = Cat(file, Cat(K, ER))
      BY <1>4, <1>11, <3>2, Regroup
    <3> QED
      BY <3>1, <3>3
  <2>3. Stream = Cat(file, Cat(Cat(K, E), R))
    BY <1>12 DEF Stream, Cat
  <2> QED
    BY <1>17, <2>1, <2>2, <2>3 DEF Cat
<1>20. Stream' = a \o R
  <2>1. Cat(Cat(file, K), R) = Cat(file, Cat(K, R))
    BY <1>4, <1>11, Regroup
  <2>2. Stream' = Cat(file, Cat(K, R))
    BY <1>2, <1>9, <1>10, <1>15 DEF Stream, Cat
  <2> QED
    BY <1>17, <2>1, <2>2 DEF Cat
<1>21. onDisk' \in onDisk..Len(a)
  BY <1>2, <1>18
<1>22. dropped' = dropped \cup Elements(E) /\ appended' = appended
  BY <1>2, <1>16
<1> QED
  BY <1>11, <1>18, <1>19, <1>20, <1>21, <1>22 DEF Moved

\* A buffer that is written moves from the queue to the file.
LEMMA WriteBufferMoves ==
  ASSUME IInv, Increasing(Stream), WriteBuffer
  PROVE  Moved
<1>1. /\ written < Len(buffersToWrite) /\ written' = written + 1
      /\ AppendBlock(content[buffersToWrite[written + 1]])
      /\ UNCHANGED <<currentBuffer, buffers, buffersToWrite, content, appended>>
  BY DEF WriteBuffer, frontVars
<1>2. /\ buffersToWrite \in Seq(Buffer) /\ content \in [Buffer -> Seq(Nat)]
      /\ written + 1 \in 1..Len(buffersToWrite) /\ file \in Seq(Nat)
      /\ written + 1 + 1 \in 1..(Len(buffersToWrite) + 1)
  BY <1>1 DEF IInv, TypeOK
<1>3. PICK b \in Buffer : b = buffersToWrite[written + 1]
  BY <1>2
<1>4. PICK p, t, r :
        /\ p = SubSeq(buffersToWrite, written + 1, Len(buffersToWrite))
        /\ t = SubSeq(buffersToWrite, written + 1 + 1, Len(buffersToWrite))
        /\ r = buffers \o <<currentBuffer>>
  OBVIOUS
<1>5. r \in Seq(Buffer) /\ t \in Seq(Buffer) /\ <<b>> \in Seq(Buffer)
  <2>1. r \in Seq(Buffer)
    BY <1>4, QueueType DEF IInv
  <2>2. t \in Seq(Buffer)
    BY <1>2, <1>4
  <2> QED
    BY <2>1, <2>2
<1>6. p = <<b>> \o t
  <2>1. PICK m, n : /\ m = written + 1 /\ n = Len(buffersToWrite)
                    /\ m \in 1..Len(buffersToWrite) /\ n \in m..Len(buffersToWrite)
    <3>1. Len(buffersToWrite) \in (written + 1)..Len(buffersToWrite)
      BY <1>2
    <3> QED
      BY <1>2, <3>1
  <2>2. SubSeq(buffersToWrite, m, n) = <<buffersToWrite[m]>> \o SubSeq(buffersToWrite, m + 1, n)
    BY <1>2, <2>1, SubSeqRecursiveFirst
  <2> QED
    BY <1>3, <1>4, <2>1, <2>2
<1>7. Queue = <<b>> \o (t \o r) /\ Queue' = t \o r
  <2>1. Queue = p \o r /\ Queue' = t \o r
    BY <1>1, <1>4 DEF Queue
  <2>2. Cat(Cat(<<b>>, t), r) = Cat(<<b>>, Cat(t, r))
    <3>1. PICK u : u = <<b>>
      OBVIOUS
    <3>2. u \in Seq(Buffer) /\ t \in Seq(Buffer) /\ r \in Seq(Buffer)
      BY <1>5, <3>1
    <3>3. Cat(Cat(u, t), r) = Cat(u, Cat(t, r))
      BY <3>2, Regroup
    <3> QED
      BY <3>1, <3>3
  <2> QED
    BY <1>6, <2>1, <2>2 DEF Cat
<1>8. PICK q, block, W : q = t \o r /\ block = content[b] /\ W = LinesAt(content, q)
  OBVIOUS
<1>9. q \in Seq(Buffer) /\ block \in Seq(Nat) /\ W \in Seq(Nat)
  <2>1. q \in Seq(Buffer) /\ block \in Seq(Nat)
    BY <1>2, <1>5, <1>8
  <2> QED
    BY <1>2, <1>8, <2>1, LinesAtType
<1>10. LinesAt(content, Queue) = block \o W
  <2>1. LinesAt(content, <<b>> \o q) = LinesAt(content, <<b>>) \o W
    BY <1>2, <1>5, <1>8, <1>9, LinesAtConcat, ZenonT(40)
  <2>2. LinesAt(content, <<b>>) = block
    BY <1>2, <1>8, LinesAtSingle
  <2> QED
    BY <1>7, <1>8, <2>1, <2>2
<1>11. Stream = file \o (block \o W) /\ Stream' = file' \o W
  BY <1>1, <1>7, <1>8, <1>10 DEF Stream
<1>12. Increasing(file \o block)
  <2>1. PICK e : e = <<>>
    OBVIOUS
  <2>2. PICK f : f = file \o block
    OBVIOUS
  <2>3. f \in Seq(Nat) /\ e \in Seq(Nat) /\ W \o e = W /\ f \o e = f
    BY <1>2, <1>9, <2>1, <2>2
  <2>4. Cat(Cat(file, block), W) = Cat(file, Cat(block, W))
    BY <1>2, <1>9, Regroup
  <2>5. Stream = f \o (W \o e)
    BY <1>11, <2>2, <2>3, <2>4 DEF Cat
  <2>6. Increasing(f \o e)
    BY <1>9, <2>3, <2>5, IncreasingParts
  <2> QED
    BY <2>2, <2>3, <2>6
<1>13. AppendBlock(block)
  BY <1>1, <1>3, <1>8
<1>14. \E x, y \in Seq(Nat) :
         /\ file \o block = x \o y /\ file' = x
         /\ dropped' = dropped \cup Elements(y)
         /\ onDisk' \in onDisk..Len(x)
  BY <1>9, <1>12, <1>13, AppendBlockMoves DEF IInv
<1> QED
  BY <1>1, <1>9, <1>11, <1>14, FileMoves DEF IInv

\* Taking spares back leaves the stream, and fflush follows.
LEMMA RecycleMoves ==
  ASSUME IInv, Increasing(Stream), Recycle
  PROVE  Moved
<1>1. /\ written = Len(buffersToWrite) /\ written' = 0 /\ buffersToWrite' = <<>>
      /\ content' = Emptied(buffersToWrite)
      /\ Flush(file, {})
      /\ UNCHANGED <<currentBuffer, buffers, appended>>
  BY DEF Recycle, frontVars
<1>2. /\ buffersToWrite \in Seq(Buffer) /\ content \in [Buffer -> Seq(Nat)]
      /\ file \in Seq(Nat) /\ onDisk \in Nat /\ onDisk <= Len(file)
  BY DEF IInv, TypeOK
<1>3. PICK r, d, e, W :
        /\ r = buffers \o <<currentBuffer>> /\ d = content' /\ e = <<>>
        /\ W = LinesAt(content, r)
  OBVIOUS
<1>4. r \in Seq(Buffer) /\ Queue = r /\ Queue' = r
  <2>1. r \in Seq(Buffer) /\ <<>> \o r = r
    <3>1. r \in Seq(Buffer)
      BY <1>3, QueueType DEF IInv
    <3> QED
      BY <3>1
  <2>2. SubSeq(buffersToWrite, written + 1, Len(buffersToWrite)) = <<>>
    BY <1>1, <1>2
  <2>3. SubSeq(<<>>, 0 + 1, Len(<<>>)) = <<>>
    OBVIOUS
  <2>4. Queue = <<>> \o r
    BY <1>3, <2>2 DEF Queue
  <2>5. Queue' = <<>> \o r
    BY <1>1, <1>3, <2>3 DEF Queue
  <2> QED
    BY <2>1, <2>4, <2>5
<1>5. LinesAt(d, r) = W
  <2>1. \A i \in 1..Len(r) : content[r[i]] = d[r[i]]
    <3> TAKE i \in 1..Len(r)
    <3>1. Elements(r) = Elements(buffers) \cup {currentBuffer}
      <4>1. r = Append(buffers, currentBuffer) /\ buffers \in Seq(Buffer)
        BY <1>3 DEF IInv, TypeOK
      <4> QED
        BY <4>1, ElementsAppend
    <3>2. r[i] \in Elements(r) /\ r[i] \in Buffer
      BY <1>4 DEF Elements
    <3>3. \A b \in Elements(buffers) : ~InSeq(b, buffersToWrite)
      BY DEF IInv, Apart, Elements
    <3>4. ~InSeq(currentBuffer, buffersToWrite)
      BY DEF IInv, Apart
    <3> QED
      BY <1>1, <1>3, <3>1, <3>2, <3>3, <3>4 DEF Emptied
  <2> QED
    BY <1>3, <1>4, <2>1, LinesAtSame, ZenonT(40)
<1>6. W \in Seq(Nat)
  BY <1>2, <1>3, <1>4, LinesAtType
<1>7. Stream = file \o W /\ Stream' = file' \o W
  BY <1>3, <1>4, <1>5 DEF Stream
<1>8. e \in Seq(Nat) /\ e \o W = W /\ file \o e = file /\ W \o e = W
  BY <1>2, <1>3, <1>6
<1>9. Increasing(file)
  BY <1>2, <1>6, <1>7, <1>8, IncreasingParts
<1>10. Flush(file, Elements(e))
  <2>1. Elements(e) = {}
    BY <1>3 DEF Elements
  <2> QED
    BY <1>1, <2>1 DEF Flush
<1>11. \E a, b \in Seq(Nat) :
         /\ file \o e = a \o b /\ file' = a
         /\ dropped' = dropped \cup Elements(b)
         /\ onDisk' \in onDisk..Len(a)
  BY <1>2, <1>8, <1>9, <1>10, FlushMoves
<1> QED
  BY <1>1, <1>6, <1>7, <1>8, <1>11, FileMoves DEF IInv

\* What a step does to the stream: a new line at its end, or lines moved along.
LEMMA StreamStep ==
  ASSUME IInv, Increasing(Stream), [Next]_vars
  PROVE  \/ /\ Stream' = Append(Stream, Line) /\ appended' = appended + 1
            /\ UNCHANGED <<dropped, onDisk, owner>>
         \/ Moved
<1> USE DEF frontVars, backVars, fileVars, historyVars
<1>1. CASE AppendToCurrent
  <2>1. appended' = appended + 1 /\ UNCHANGED <<dropped, onDisk, owner>>
    BY <1>1 DEF AppendToCurrent, CanAppend
  <2> QED
    BY <1>1, <2>1, AppendToCurrentStream
<1>2. CASE AppendToFresh
  <2>1. appended' = appended + 1 /\ UNCHANGED <<dropped, onDisk, owner>>
    BY <1>2 DEF AppendToFresh, CanAppend
  <2> QED
    BY <1>2, <2>1, AppendToFreshStream
<1>3. CASE Owner \/ Wait \/ Begin \/ UNCHANGED vars
  <2>1. /\ UNCHANGED <<currentBuffer, buffers, buffersToWrite, written, content>>
        /\ UNCHANGED <<file, onDisk, dropped, appended>>
    BY <1>3 DEF Owner, Start, StartReturns, Stop, StopNotifies, Joined, Wait, Begin, vars
  <2> QED
    BY <2>1, QuietMoves DEF IInv
<1>4. CASE CheckRunning
  <2>1. /\ UNCHANGED <<currentBuffer, buffers, buffersToWrite, written, content>>
        /\ appended' = appended
        /\ \/ UNCHANGED <<file, onDisk, dropped, appended>>
           \/ Flush(file, {})
    BY <1>4 DEF CheckRunning
  <2> QED
    BY <2>1, QuietMoves DEF IInv
<1> QED
  BY <1>1, <1>2, <1>3, <1>4, CollectMoves, DropExcessMoves, WriteBufferMoves,
     RecycleMoves DEF Next, Backend

-----------------------------------------------------------------------------
(* Order and account.                                                      *)

\* The lines are in the order of append(), each once; a line that was appended
\* is in the stream or was given up, not both.
Accounted ==
  /\ Increasing(Stream)
  /\ 1..appended = Elements(Stream) \cup dropped
  /\ Elements(Stream) \cap dropped = {}

\* Nothing was appended at first.
LEMMA AccountedInit == Init => Accounted
<1> SUFFICES ASSUME Init PROVE Accounted
  OBVIOUS
<1>1. IInv
  BY InitInv
<1>2. /\ file = <<>> /\ dropped = {} /\ appended = 0
      /\ buffers = <<>> /\ buffersToWrite = <<>> /\ written = 0
      /\ content = [b \in Buffer |-> <<>>]
  BY DEF Init
<1>3. Queue = <<currentBuffer>> /\ currentBuffer \in Buffer
  <2>1. currentBuffer \in Buffer
    BY <1>1 DEF IInv, TypeOK
  <2>2. SubSeq(<<>>, 0 + 1, Len(<<>>)) = <<>> /\ <<>> \o <<currentBuffer>> = <<currentBuffer>>
    OBVIOUS
  <2> QED
    BY <1>2, <2>1, <2>2 DEF Queue
<1>4. LinesAt(content, <<currentBuffer>>) = <<>>
  <2>1. content \in [Buffer -> Seq(Nat)] /\ content[currentBuffer] = <<>>
    BY <1>1, <1>2, <1>3 DEF IInv, TypeOK
  <2> QED
    BY <1>3, <2>1, LinesAtSingle
<1>5. Stream = <<>>
  BY <1>2, <1>3, <1>4 DEF Stream
<1> QED
  BY <1>2, <1>5 DEF Accounted, Increasing, Elements

\* Every step keeps the account.
LEMMA AccountedStep ==
  ASSUME IInv, Accounted, [Next]_vars
  PROVE  Accounted'
<1>1. Stream \in Seq(Nat) /\ appended \in Nat
  BY StreamType DEF IInv, TypeOK
<1>2. PICK s, t : s = Stream /\ t = Stream'
  OBVIOUS
<1>3. CASE /\ Stream' = Append(Stream, Line) /\ appended' = appended + 1
           /\ UNCHANGED <<dropped, onDisk, owner>>
  <2>1. PICK x : x = appended + 1
    OBVIOUS
  <2>2. t = Append(s, x) /\ s \in Seq(Nat) /\ x \in Nat
    BY <1>1, <1>2, <1>3, <2>1 DEF Line
  <2>3. Elements(t) = Elements(s) \cup {x}
    BY <2>2, ElementsAppend
  <2>4. \A y \in Elements(s) : y < x
    BY <1>1, <1>2, <2>1 DEF Accounted
  <2>5. Increasing(t)
    BY <1>2, <2>2, <2>4, IncreasingAppend DEF Accounted
  <2>6. 1..x = 1..appended \cup {x} /\ x \notin 1..appended
    BY <1>1, <2>1
  <2>7. /\ 1..x = Elements(t) \cup dropped
        /\ Elements(t) \cap dropped = {}
    BY <1>2, <2>3, <2>6 DEF Accounted
  <2> QED
    BY <1>2, <1>3, <2>1, <2>5, <2>7 DEF Accounted
<1>4. CASE Moved
  <2>1. PICK a \in Seq(Nat), b \in Seq(Nat), c \in Seq(Nat) :
          /\ s = a \o (b \o c) /\ t = a \o c
          /\ dropped' = dropped \cup Elements(b)
          /\ appended' = appended
    BY <1>2, <1>4 DEF Moved
  <2>2. Increasing(s)
    BY <1>2 DEF Accounted
  <2>3. Increasing(t) /\ Elements(b) \cap Elements(t) = {}
    BY <2>1, <2>2, IncreasingParts
  <2>4. /\ Elements(s) = Elements(a) \cup Elements(b) \cup Elements(c)
        /\ Elements(t) = Elements(a) \cup Elements(c)
    <3>1. PICK bc : bc = b \o c
      OBVIOUS
    <3>2. bc \in Seq(Nat) /\ Elements(bc) = Elements(b) \cup Elements(c)
      BY <3>1, ElementsConcat
    <3>3. Elements(a \o bc) = Elements(a) \cup Elements(bc)
      BY <3>2, ElementsConcat
    <3>4. Elements(a \o c) = Elements(a) \cup Elements(c)
      BY ElementsConcat
    <3> QED
      BY <2>1, <3>1, <3>2, <3>3, <3>4
  <2>5. /\ 1..appended = Elements(t) \cup dropped'
        /\ Elements(t) \cap dropped' = {}
    BY <1>2, <2>1, <2>3, <2>4 DEF Accounted
  <2> QED
    BY <1>2, <2>1, <2>3, <2>5 DEF Accounted
<1> QED
  BY <1>3, <1>4, StreamStep DEF Accounted

\* Across the swaps, the drops and the failures of the file, no line is lost
\* without being given up, none comes twice and none overtakes another.
THEOREM LinesAccounted == SafeSpec => []Accounted
<1>1. IInv /\ Accounted /\ [Next]_vars => Accounted'
  BY AccountedStep
<1> QED
  BY Invariant, AccountedInit, <1>1, PTL DEF SafeSpec

-----------------------------------------------------------------------------
(* The logger implements the pipe, step by step.                           *)

\* The two parts of a sequence are where they were put.
LEMMA PartsOf ==
  ASSUME NEW S, NEW p \in Seq(S), NEW q \in Seq(S), NEW s, s = p \o q
  PROVE  /\ s \in Seq(S) /\ Len(s) = Len(p) + Len(q) /\ Len(p) \in Nat /\ Len(q) \in Nat
         /\ SubSeq(s, 1, Len(p)) = p
         /\ SubSeq(s, Len(p) + 1, Len(s)) = q
<1>1. /\ s \in Seq(S) /\ Len(s) = Len(p) + Len(q) /\ Len(p) \in Nat /\ Len(q) \in Nat
      /\ \A i \in 1..Len(p) : s[i] = p[i]
      /\ \A i \in 1..Len(q) : s[Len(p) + i] = q[i]
  OBVIOUS
<1>2. SubSeq(s, 1, Len(p)) = p
  <2>1. PICK r : r = SubSeq(s, 1, Len(p))
    OBVIOUS
  <2>2. r \in Seq(S) /\ Len(r) = Len(p) /\ \A i \in 1..Len(p) : r[i] = s[i]
    BY <1>1, <2>1
  <2>3. r = p
    BY <1>1, <2>2, SeqEqual
  <2> QED
    BY <2>1, <2>3
<1>3. SubSeq(s, Len(p) + 1, Len(s)) = q
  <2>1. PICK r : r = SubSeq(s, Len(p) + 1, Len(s))
    OBVIOUS
  <2>2. r \in Seq(S) /\ Len(r) = Len(q) /\ \A i \in 1..Len(q) : r[i] = s[Len(p) + i]
    BY <1>1, <2>1
  <2>3. r = q
    BY <1>1, <2>2, SeqEqual
  <2> QED
    BY <2>1, <2>3
<1> QED
  BY <1>1, <1>2, <1>3

\* The same of Cat, which the provers do not take apart.
LEMMA PartsOfCat ==
  ASSUME NEW S, NEW p \in Seq(S), NEW q \in Seq(S)
  PROVE  /\ Cat(p, q) \in Seq(S)
         /\ Len(Cat(p, q)) = Len(p) + Len(q)
         /\ SubSeq(Cat(p, q), 1, Len(p)) = p
<1>1. PICK s : s = p \o q
  OBVIOUS
<1>2. s \in Seq(S) /\ Len(s) = Len(p) + Len(q)
  BY <1>1, PartsOf
<1>3. SubSeq(s, 1, Len(p)) = p
  BY <1>1, PartsOf
<1> QED
  BY <1>1, <1>2, <1>3 DEF Cat

\* The parts of a sequence are known by the length of the first.
LEMMA CancelPrefix ==
  ASSUME NEW S, NEW p \in Seq(S), NEW q \in Seq(S), NEW u \in Seq(S), NEW v \in Seq(S),
         p \o q = u \o v, Len(p) = Len(u)
  PROVE  p = u /\ q = v
<1>1. PICK s : s = p \o q
  OBVIOUS
<1>2. SubSeq(s, 1, Len(p)) = p /\ SubSeq(s, Len(p) + 1, Len(s)) = q
  BY <1>1, PartsOf
<1>3. s = u \o v
  BY <1>1
<1>4. SubSeq(s, 1, Len(u)) = u /\ SubSeq(s, Len(u) + 1, Len(s)) = v
  BY <1>3, PartsOf
<1> QED
  BY <1>2, <1>4

\* SubSeq and the elements in it, by names the provers leave alone.
Part(s, i, j) == SubSeq(s, i, j)
Between(s, i, j) == {s[n] : n \in i..j}

\* The three parts of a sequence are where they were put.
LEMMA MiddleOf ==
  ASSUME NEW S, NEW p \in Seq(S), NEW q \in Seq(S), NEW r \in Seq(S),
         NEW s, s = Cat(p, Cat(q, r))
  PROVE  /\ Len(s) = Len(p) + Len(q) + Len(r)
         /\ Part(s, 1, Len(p)) = p
         /\ Part(s, Len(p) + 1, Len(p) + Len(q)) = q
         /\ Part(s, Len(p) + Len(q) + 1, Len(s)) = r
         /\ Between(s, Len(p) + 1, Len(p) + Len(q)) = Elements(q)
<1>1. PICK t : t = q \o r
  OBVIOUS
<1>2. /\ t \in Seq(S) /\ Len(t) = Len(q) + Len(r)
      /\ Len(p) \in Nat /\ Len(q) \in Nat /\ Len(r) \in Nat
      /\ \A i \in 1..Len(q) : t[i] = q[i]
      /\ \A i \in 1..Len(r) : t[Len(q) + i] = r[i]
  BY <1>1
<1>3. /\ s = p \o t /\ s \in Seq(S) /\ Len(s) = Len(p) + Len(t)
      /\ SubSeq(s, 1, Len(p)) = p
  <2>1. s = Cat(p, t)
    BY <1>1 DEF Cat
  <2>2. t \in Seq(S)
    BY <1>2
  <2>3. /\ Cat(p, t) \in Seq(S)
        /\ Len(Cat(p, t)) = Len(p) + Len(t)
        /\ SubSeq(Cat(p, t), 1, Len(p)) = p
    BY <2>2, PartsOfCat
  <2>4. s \in Seq(S) /\ Len(s) = Len(p) + Len(t) /\ SubSeq(s, 1, Len(p)) = p
    BY <2>1, <2>3
  <2> QED
    BY <2>1, <2>4 DEF Cat
<1>4. \A i \in 1..Len(t) : s[Len(p) + i] = t[i]
  BY <1>2, <1>3
<1>5. \A i \in 1..Len(q) : s[Len(p) + i] = q[i]
  <2> TAKE i \in 1..Len(q)
  <2>1. i \in 1..Len(t)
    BY <1>2
  <2> QED
    BY <1>2, <1>4, <2>1
<1>6. SubSeq(s, Len(p) + 1, Len(p) + Len(q)) = q
  <2>1. PICK x : x = SubSeq(s, Len(p) + 1, Len(p) + Len(q))
    OBVIOUS
  <2>2. PICK l, m, n : l = Len(p) /\ m = Len(q) /\ n = Len(s)
    OBVIOUS
  <2>3. l \in Nat /\ m \in Nat /\ n \in Nat /\ l + m <= n /\ s \in Seq(S)
    BY <1>2, <1>3, <2>2
  <2>4. x = SubSeq(s, l + 1, l + m)
    BY <2>1, <2>2
  <2>5. x \in Seq(S) /\ Len(x) = m
    BY <2>2, <2>3, <2>4
  <2>6. \A i \in 1..m : x[i] = s[l + i]
    BY <2>2, <2>3, <2>4
  <2>7. x = q
    BY <1>5, <2>2, <2>5, <2>6, SeqEqual
  <2> QED
    BY <2>1, <2>7
<1>7. SubSeq(s, Len(p) + Len(q) + 1, Len(s)) = r
  <2>1. PICK u : u = p \o q
    OBVIOUS
  <2>2. u \in Seq(S) /\ Len(u) = Len(p) + Len(q)
    BY <2>1
  <2>3. Cat(Cat(p, q), r) = Cat(p, Cat(q, r))
    BY Regroup
  <2>4. s = u \o r
    <3>1. s = Cat(Cat(p, q), r)
      BY <2>3
    <3> QED
      BY <2>1, <3>1 DEF Cat
  <2>5. SubSeq(s, Len(u) + 1, Len(s)) = r
    BY <2>2, <2>4, PartsOf
  <2> QED
    BY <2>2, <2>5
<1>8. Between(s, Len(p) + 1, Len(p) + Len(q)) = Elements(q)
  <2>1. ASSUME NEW n \in (Len(p) + 1)..(Len(p) + Len(q)) PROVE s[n] \in Elements(q)
    <3>1. PICK i \in 1..Len(q) : n = Len(p) + i
      <4>1. n - Len(p) \in 1..Len(q) /\ n = Len(p) + (n - Len(p))
        BY <1>2
      <4> QED
        BY <4>1
    <3> QED
      BY <1>5, <3>1 DEF Elements
  <2>2. ASSUME NEW i \in 1..Len(q)
        PROVE  \E n \in (Len(p) + 1)..(Len(p) + Len(q)) : q[i] = s[n]
    <3>1. Len(p) + i \in (Len(p) + 1)..(Len(p) + Len(q))
      BY <1>2
    <3> QED
      BY <1>5, <3>1
  <2> QED
    BY <2>1, <2>2 DEF Elements, Between
<1>9. Len(s) = Len(p) + Len(q) + Len(r)
  BY <1>2, <1>3
<1> QED
  BY <1>3, <1>6, <1>7, <1>8, <1>9 DEF Part

Splits(w, x, y, b, c) ==
  \E k \in 0..Len(w) : \E i \in (k + 1)..(Len(w) + 1) : \E j \in (i - 1)..Len(w) :
    /\ Part(w, 1, k) = x
    /\ Part(w, k + 1, i - 1) = y
    /\ Part(w, j + 1, Len(w)) = c
    /\ Between(w, i, j) = Elements(b)

\* Where the parts of a sequence are that Advance writes, keeps and gives up.
LEMMA Window ==
  ASSUME NEW S, NEW x \in Seq(S), NEW y \in Seq(S), NEW b \in Seq(S), NEW c \in Seq(S),
         NEW w, w = Cat(x, Cat(y, Cat(b, c)))
  PROVE  Splits(w, x, y, b, c)
<1>1. PICK bc, p : bc = Cat(b, c) /\ p = Cat(x, y)
  OBVIOUS
<1>2. /\ bc \in Seq(S) /\ p \in Seq(S)
      /\ Len(bc) = Len(b) + Len(c) /\ Len(p) = Len(x) + Len(y)
      /\ Len(x) \in Nat /\ Len(y) \in Nat /\ Len(b) \in Nat /\ Len(c) \in Nat
  BY <1>1 DEF Cat
<1>3. w = Cat(x, Cat(y, bc))
  BY <1>1
<1>4. /\ Len(w) = Len(x) + Len(y) + Len(bc)
      /\ Part(w, 1, Len(x)) = x
      /\ Part(w, Len(x) + 1, Len(x) + Len(y)) = y
  <2>1. bc \in Seq(S)
    BY <1>2
  <2> QED
    BY <1>3, <2>1, MiddleOf, SMTT(40)
<1>5. w = Cat(p, Cat(b, c))
  <2>1. Cat(Cat(x, y), bc) = Cat(x, Cat(y, bc))
    BY <1>2, Regroup
  <2> QED
    BY <1>1, <1>3, <2>1
<1>6. /\ Part(w, Len(p) + Len(b) + 1, Len(w)) = c
      /\ Between(w, Len(p) + 1, Len(p) + Len(b)) = Elements(b)
  <2>1. p \in Seq(S)
    BY <1>2
  <2> QED
    BY <1>5, <2>1, MiddleOf, SMTT(40)
<1>7. PICK k, i, j : k = Len(x) /\ i = Len(p) + 1 /\ j = Len(p) + Len(b)
  OBVIOUS
<1>8. /\ k \in 0..Len(w) /\ i \in (k + 1)..(Len(w) + 1) /\ j \in (i - 1)..Len(w)
      /\ i - 1 = Len(x) + Len(y)
  BY <1>2, <1>4, <1>7, SMTT(40)
<1>9. /\ Part(w, 1, k) = x
      /\ Part(w, k + 1, i - 1) = y
      /\ Part(w, j + 1, Len(w)) = c
      /\ Between(w, i, j) = Elements(b)
  BY <1>4, <1>6, <1>7, <1>8
<1> QED
  BY <1>8, <1>9 DEF Splits

\* The stream is what is on disk and what waits.
LEMMA WaitingIs ==
  ASSUME TypeOK
  PROVE  /\ Stream = Disk \o Waiting
         /\ Disk \in Seq(Nat) /\ Waiting \in Seq(Nat) /\ Len(Disk) = onDisk
<1>1. PICK p, r, l, m, n, k :
        /\ p = SubSeq(buffersToWrite, written + 1, Len(buffersToWrite))
        /\ r = SubSeq(file, onDisk + 1, Len(file))
        /\ l = Lines(p) /\ m = Lines(buffers) /\ n = content[currentBuffer]
        /\ k = buffers \o <<currentBuffer>>
  OBVIOUS
<1>2. /\ buffers \in Seq(Buffer) /\ currentBuffer \in Buffer /\ <<currentBuffer>> \in Seq(Buffer)
      /\ content \in [Buffer -> Seq(Nat)] /\ file \in Seq(Nat) /\ onDisk \in 0..Len(file)
  BY DEF TypeOK
<1>3. p \in Seq(Buffer) /\ k \in Seq(Buffer)
  BY <1>1, QueueType
<1>4. /\ Disk \in Seq(Nat) /\ Len(Disk) = onDisk /\ r \in Seq(Nat) /\ file = Disk \o r
  BY <1>1, <1>2, SplitAt DEF Disk
<1>5. /\ l = LinesAt(content, p) /\ m = LinesAt(content, buffers)
      /\ l \in Seq(Nat) /\ m \in Seq(Nat) /\ n \in Seq(Nat)
  <2>1. l = LinesAt(content, p) /\ m = LinesAt(content, buffers)
    BY <1>1 DEF Lines, LinesAt
  <2>2. n \in Seq(Nat)
    BY <1>1, <1>2
  <2>3. LinesAt(content, p) \in Seq(Nat) /\ LinesAt(content, buffers) \in Seq(Nat)
    BY <1>2, <1>3, LinesAtType
  <2> QED
    BY <2>1, <2>2, <2>3
<1>6. LinesAt(content, Queue) = Cat(l, Cat(m, n))
  <2>1. LinesAt(content, p \o k) = LinesAt(content, p) \o LinesAt(content, k)
    BY <1>2, <1>3, LinesAtConcat, ZenonT(40)
  <2>2. LinesAt(content, buffers \o <<currentBuffer>>)
          = LinesAt(content, buffers) \o LinesAt(content, <<currentBuffer>>)
    BY <1>2, LinesAtConcat
  <2>3. LinesAt(content, <<currentBuffer>>) = n
    BY <1>1, <1>2, LinesAtSingle
  <2>4. Queue = p \o k
    BY <1>1 DEF Queue
  <2> QED
    BY <1>1, <1>5, <2>1, <2>2, <2>3, <2>4 DEF Cat
<1>7. Waiting = Cat(Cat(Cat(r, l), m), n)
  BY <1>1 DEF Waiting, Cat
<1>8. Waiting = Cat(r, Cat(l, Cat(m, n))) /\ Cat(l, Cat(m, n)) \in Seq(Nat)
  <2>1. PICK rl, mn : rl = Cat(r, l) /\ mn = Cat(m, n)
    OBVIOUS
  <2>2. rl \in Seq(Nat) /\ mn \in Seq(Nat)
    BY <1>4, <1>5, <2>1 DEF Cat
  <2>3. Cat(Cat(rl, m), n) = Cat(rl, mn)
    BY <1>5, <2>1, <2>2, Regroup
  <2>4. Cat(Cat(r, l), mn) = Cat(r, Cat(l, mn))
    BY <1>4, <1>5, <2>2, Regroup
  <2>5. Cat(l, mn) \in Seq(Nat)
    BY <1>5, <2>2 DEF Cat
  <2> QED
    BY <1>7, <2>1, <2>3, <2>4, <2>5
<1>9. PICK t : t = Cat(l, Cat(m, n))
  OBVIOUS
<1>10. t \in Seq(Nat) /\ Waiting = Cat(r, t)
  BY <1>8, <1>9
<1>11. Cat(Cat(Disk, r), t) = Cat(Disk, Cat(r, t))
  BY <1>4, <1>10, Regroup
<1>12. Stream = Cat(Cat(Disk, r), t)
  BY <1>4, <1>6, <1>9 DEF Stream, Cat
<1>13. Stream = Disk \o Waiting
  BY <1>10, <1>11, <1>12 DEF Cat
<1>14. Waiting \in Seq(Nat)
  BY <1>4, <1>10 DEF Cat
<1> QED
  BY <1>4, <1>13, <1>14

\* The same, in the form that can be primed.
LEMMA WaitingIsAlways ==
  TypeOK => /\ Stream = Disk \o Waiting
            /\ Disk \in Seq(Nat) /\ Waiting \in Seq(Nat) /\ Len(Disk) = onDisk
BY WaitingIs

\* Lines moved along are an Advance of the pipe, or nothing it sees.
LEMMA MovedIsAdvance ==
  ASSUME TypeOK, TypeOK', Moved, Open' = Open
  PROVE  [Pipe!Next]_(Pipe!vars)
<1>1. PICK D, W, E, V : D = Disk /\ W = Waiting /\ E = Disk' /\ V = Waiting'
  OBVIOUS
<1>2. /\ Stream = D \o W /\ D \in Seq(Nat) /\ W \in Seq(Nat) /\ Len(D) = onDisk
  BY <1>1, WaitingIs
<1>3. /\ Stream' = E \o V /\ E \in Seq(Nat) /\ V \in Seq(Nat) /\ Len(E) = onDisk'
  <2>1. (/\ Stream = Disk \o Waiting
         /\ Disk \in Seq(Nat) /\ Waiting \in Seq(Nat) /\ Len(Disk) = onDisk)'
    BY WaitingIsAlways, PTL
  <2> QED
    BY <1>1, <2>1
<1>4. PICK a \in Seq(Nat), b \in Seq(Nat), c \in Seq(Nat) :
        /\ Stream = a \o (b \o c) /\ Stream' = a \o c
        /\ dropped' = dropped \cup Elements(b)
        /\ onDisk' \in onDisk..Len(a)
  BY DEF Moved
<1>5. PICK o, e : o = onDisk /\ e = onDisk'
  OBVIOUS
<1>6. o \in Nat /\ e \in Nat /\ o <= e /\ e <= Len(a) /\ Len(a) \in Nat
  BY <1>2, <1>3, <1>4, <1>5
\* a is what was on disk, what gets there, and the rest of the file.
<1>7. PICK f, y : f = SubSeq(a, 1, e) /\ y = SubSeq(a, e + 1, Len(a))
  OBVIOUS
<1>8. f \in Seq(Nat) /\ Len(f) = e /\ y \in Seq(Nat) /\ a = f \o y
  <2>1. e \in 0..Len(a)
    BY <1>6
  <2> QED
    BY <1>7, <2>1, SplitAt
<1>9. PICK d, x : d = SubSeq(f, 1, o) /\ x = SubSeq(f, o + 1, Len(f))
  OBVIOUS
<1>10. d \in Seq(Nat) /\ Len(d) = o /\ x \in Seq(Nat) /\ f = d \o x
  <2>1. o \in 0..Len(f)
    BY <1>6, <1>8
  <2> QED
    BY <1>8, <1>9, <2>1, SplitAt
<1>11. PICK bc, ybc, w : bc = b \o c /\ ybc = y \o bc /\ w = x \o ybc
  OBVIOUS
<1>12. bc \in Seq(Nat) /\ ybc \in Seq(Nat) /\ w \in Seq(Nat)
  BY <1>8, <1>10, <1>11
<1>13. Stream = d \o w
  <2>1. Cat(Cat(f, y), bc) = Cat(f, ybc)
    <3>1. Cat(Cat(f, y), bc) = Cat(f, Cat(y, bc))
      BY <1>8, <1>12, Regroup
    <3> QED
      BY <1>11, <3>1 DEF Cat
  <2>2. Cat(Cat(d, x), ybc) = Cat(d, Cat(x, ybc))
    BY <1>10, <1>12, Regroup
  <2>3. Stream = Cat(Cat(f, y), bc)
    BY <1>4, <1>8, <1>11 DEF Cat
  <2> QED
    BY <1>10, <1>11, <2>1, <2>2, <2>3 DEF Cat
<1>14. D = d /\ W = w
  BY <1>2, <1>5, <1>10, <1>12, <1>13, CancelPrefix
<1>15. E = f /\ V = y \o c
  <2>1. PICK v : v = y \o c
    OBVIOUS
  <2>2. v \in Seq(Nat)
    BY <1>8, <2>1
  <2>3. Cat(Cat(f, y), c) = Cat(f, Cat(y, c))
    BY <1>8, Regroup
  <2>4. Stream' = f \o v
    BY <1>4, <1>8, <2>1, <2>3 DEF Cat
  <2> QED
    BY <1>3, <1>5, <1>8, <2>1, <2>2, <2>4, CancelPrefix
<1>16. w = Cat(x, Cat(y, Cat(b, c)))
  BY <1>11 DEF Cat
<1>17. PICK k \in 0..Len(w) : \E i \in (k + 1)..(Len(w) + 1) : \E j \in (i - 1)..Len(w) :
         /\ Part(w, 1, k) = x
         /\ Part(w, k + 1, i - 1) = y
         /\ Part(w, j + 1, Len(w)) = c
         /\ Between(w, i, j) = Elements(b)
  <2>1. x \in Seq(Nat) /\ y \in Seq(Nat) /\ b \in Seq(Nat) /\ c \in Seq(Nat)
    BY <1>4, <1>8, <1>10
  <2>2. Splits(w, x, y, b, c)
    BY <1>16, <2>1, Window
  <2> QED
    BY <2>2 DEF Splits
<1>18. \E i \in (k + 1)..(Len(Waiting) + 1) : \E j \in (i - 1)..Len(Waiting) :
         /\ Disk' = Disk \o SubSeq(Waiting, 1, k)
         /\ Waiting' = SubSeq(Waiting, k + 1, i - 1) \o SubSeq(Waiting, j + 1, Len(Waiting))
         /\ dropped' = dropped \cup {Waiting[n] : n \in i..j}
  <2>1. PICK i \in (k + 1)..(Len(w) + 1) : \E j \in (i - 1)..Len(w) :
          /\ Part(w, 1, k) = x
          /\ Part(w, k + 1, i - 1) = y
          /\ Part(w, j + 1, Len(w)) = c
          /\ Between(w, i, j) = Elements(b)
    BY <1>17
  <2>2. PICK j \in (i - 1)..Len(w) :
          /\ Part(w, 1, k) = x
          /\ Part(w, k + 1, i - 1) = y
          /\ Part(w, j + 1, Len(w)) = c
          /\ Between(w, i, j) = Elements(b)
    BY <2>1
  <2>3. w = Waiting /\ d = Disk
    BY <1>1, <1>14
  <2>4. Disk' = Disk \o SubSeq(Waiting, 1, k)
    BY <1>1, <1>10, <1>15, <2>2, <2>3 DEF Part
  <2>5. Waiting' = SubSeq(Waiting, k + 1, i - 1) \o SubSeq(Waiting, j + 1, Len(Waiting))
    BY <1>1, <1>15, <2>2, <2>3 DEF Part
  <2>6. dropped' = dropped \cup {Waiting[n] : n \in i..j}
    BY <1>4, <2>2, <2>3 DEF Between
  <2>7. i \in (k + 1)..(Len(Waiting) + 1) /\ j \in (i - 1)..Len(Waiting)
    BY <2>3
  <2> QED
    BY <2>4, <2>5, <2>6, <2>7
<1>19. CASE Waiting' # Waiting
  <2>1. k \in 0..Len(Waiting)
    BY <1>1, <1>14
  <2> QED
    BY <1>18, <1>19, <2>1 DEF Pipe!Next, Pipe!Advance
<1>20. CASE Waiting' = Waiting
  <2>1. /\ Len(w) = Len(x) + Len(ybc) /\ Len(ybc) = Len(y) + Len(bc) /\ Len(bc) = Len(b) + Len(c)
        /\ Len(x) \in Nat /\ Len(y) \in Nat /\ Len(b) \in Nat /\ Len(c) \in Nat
    BY <1>8, <1>10, <1>11, <1>12, PartsOf
  <2>2. Len(w) = Len(y) + Len(c)
    <3>1. Len(V) = Len(y) + Len(c)
      BY <1>8, <1>15, PartsOf
    <3> QED
      BY <1>1, <1>14, <1>20, <3>1
  <2>3. Len(x) = 0 /\ Len(b) = 0
    BY <2>1, <2>2
  <2>4. x = <<>> /\ b = <<>>
    BY <1>10, <2>3
  <2>5. E = D /\ Elements(b) = {}
    BY <1>10, <1>14, <1>15, <2>4 DEF Elements
  <2> QED
    BY <1>1, <1>4, <1>20, <2>5 DEF Pipe!vars
<1> QED
  BY <1>19, <1>20

\* A line at the end of the stream is an AppendLine of the pipe.
LEMMA AppendIsAppendLine ==
  ASSUME TypeOK, TypeOK', Stream' = Append(Stream, Line), Line \in 1..MaxLines,
         UNCHANGED <<dropped, onDisk, owner>>
  PROVE  Pipe!AppendLine
<1>1. PICK D, W, E, V : D = Disk /\ W = Waiting /\ E = Disk' /\ V = Waiting'
  OBVIOUS
<1>2. /\ Stream = D \o W /\ D \in Seq(Nat) /\ W \in Seq(Nat) /\ Len(D) = onDisk
  BY <1>1, WaitingIs
<1>3. /\ Stream' = E \o V /\ E \in Seq(Nat) /\ V \in Seq(Nat) /\ Len(E) = onDisk'
  <2>1. (/\ Stream = Disk \o Waiting
         /\ Disk \in Seq(Nat) /\ Waiting \in Seq(Nat) /\ Len(Disk) = onDisk)'
    BY WaitingIsAlways, PTL
  <2> QED
    BY <1>1, <2>1
<1>4. PICK x, u : x = Line /\ u = Append(W, x)
  OBVIOUS
<1>5. x \in Nat /\ u \in Seq(Nat)
  BY <1>2, <1>4, AsyncLoggingAssumption
<1>6. Stream' = D \o u
  <2>1. D \o Append(W, x) = Append(D \o W, x)
    <3>1. D \in Seq(Nat) /\ W \in Seq(Nat) /\ x \in Nat
      BY <1>2, <1>5
    <3> QED
      BY <3>1, AppendConcat
  <2>2. Stream' = Append(D \o W, x)
    BY <1>2, <1>4
  <2> QED
    BY <1>4, <2>1, <2>2
<1>7. E = D /\ V = u
  BY <1>2, <1>3, <1>5, <1>6, CancelPrefix
<1>8. \E l \in 1..MaxLines : Waiting' = Append(Waiting, l)
  BY <1>1, <1>4, <1>7
<1>9. UNCHANGED <<Disk, dropped, Open>>
  BY <1>1, <1>7 DEF Open
<1> QED
  BY <1>8, <1>9 DEF Pipe!AppendLine

\* A step of the logger is a step of the pipe.
LEMMA PipeStep ==
  ASSUME IInv, IInv', Accounted, [Next]_vars
  PROVE  [Pipe!Next]_(Pipe!vars)
<1> USE DEF frontVars, backVars, fileVars, historyVars
<1>1. CASE Stop
  <2>1. Open' = FALSE /\ UNCHANGED <<Waiting, Disk, dropped>>
    BY <1>1 DEF Stop, Open, Waiting, Disk, Lines
  <2> QED
    BY <2>1 DEF Pipe!Next, Pipe!Close
<1>2. CASE ~Stop
  <2>1. Open' = Open
    BY <1>2 DEF Next, vars, Open, Owner, Start, StartReturns, StopNotifies, Joined,
       AppendToCurrent, AppendToFresh, CanAppend, Backend, Begin, CheckRunning, Wait,
       Collect, DropExcess, WriteBuffer, Recycle
  <2>2. CASE Moved
    BY <2>1, <2>2, MovedIsAdvance DEF IInv
  <2>3. CASE /\ Stream' = Append(Stream, Line) /\ appended' = appended + 1
             /\ UNCHANGED <<dropped, onDisk, owner>>
    <3>1. Line \in 1..MaxLines
      BY <2>3, AsyncLoggingAssumption DEF IInv, TypeOK, Room, Line
    <3> QED
      BY <2>3, <3>1, AppendIsAppendLine DEF IInv, Pipe!Next
  <2> QED
    BY <2>2, <2>3, StreamStep DEF Accounted
<1> QED
  BY <1>1, <1>2

\* A new logger is a new pipe.
LEMMA PipeInit == Init => Pipe!Init
<1> SUFFICES ASSUME Init PROVE Pipe!Init
  OBVIOUS
<1>1. Open = TRUE /\ dropped = {}
  BY DEF Init, Open
<1>2. Stream = <<>>
  <2>1. Elements(Stream) = {} /\ Stream \in Seq(Nat)
    <3>1. TypeOK /\ Accounted /\ appended = 0
      BY InitInv, AccountedInit DEF IInv, Init
    <3> QED
      BY <3>1, StreamType DEF Accounted
  <2>2. Len(Stream) = 0
    <3>1. ASSUME Len(Stream) # 0 PROVE FALSE
      <4>1. 1 \in 1..Len(Stream)
        BY <2>1, <3>1
      <4> QED
        BY <2>1, <4>1 DEF Elements
    <3> QED
      BY <3>1
  <2> QED
    BY <2>1, <2>2
<1>3. Stream = Disk \o Waiting /\ Disk \in Seq(Nat) /\ Waiting \in Seq(Nat)
  BY InitInv, WaitingIs DEF IInv
<1>4. Disk = <<>> /\ Waiting = <<>>
  <2>1. /\ Len(Stream) = Len(Disk) + Len(Waiting)
        /\ Len(Disk) \in Nat /\ Len(Waiting) \in Nat
    BY <1>3, PartsOf
  <2>2. Len(Disk) = 0 /\ Len(Waiting) = 0
    BY <1>2, <2>1
  <2> QED
    BY <1>3, <2>2
<1> QED
  BY <1>1, <1>4 DEF Pipe!Init

\* The logger implements the pipe: every step of its is a step of the pipe, or
\* none, for any number of lines, buffers, drops and failures.
THEOREM LoggerImplementsPipe == SafeSpec => Pipe!SafeSpec
<1>1. IInv /\ IInv' /\ Accounted /\ [Next]_vars => [Pipe!Next]_(Pipe!vars)
  BY PipeStep
<1> QED
  BY Invariant, LinesAccounted, PipeInit, <1>1, PTL DEF SafeSpec, Pipe!SafeSpec
=============================================================================
