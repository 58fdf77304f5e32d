------------------------- MODULE SocketBufferProofs -------------------------
(***************************************************************************)
(* Theorems about SocketBuffer: for messages and reads of any sizes, the   *)
(* bytes come out as they went in, size is exact between calls, and no     *)
(* node is lost.                                                           *)
(***************************************************************************)
EXTENDS SocketBuffer, TLAPS

Node == [first : Nat, size : Nat]

\* The bytes that have left the chain.
Gone == Len(given) + Len(out)

-----------------------------------------------------------------------------
(* The inductive invariant: the nodes hold adjacent stretches of the       *)
(* stream, from the next byte to be read to the last one pushed.           *)

Adjacent ==
  /\ \A i \in 1..Len(chain) : chain[i].size > 0
  /\ \A i \in 1..(Len(chain) - 1) : chain[i + 1].first = chain[i].first + chain[i].size
  /\ \A i \in 1..Len(chain) : chain[i].first + chain[i].size <= pushed + 1

Ends ==
  /\ chain # <<>> => /\ chain[1].first + offset = Gone + 1
                     /\ offset < chain[1].size
                     /\ chain[Len(chain)].first + chain[Len(chain)].size = pushed + 1
  /\ chain = <<>> => Gone = pushed /\ offset = 0

Numbered ==
  /\ \A i \in 1..Len(given) : given[i] = i
  /\ \A i \in 1..Len(out) : out[i] = Len(given) + i

Account ==
  /\ pc = "idle" => out = <<>> /\ want = 0 /\ size + Gone = pushed
  /\ pc = "spec" => want > 0 /\ size + want + Gone = pushed
  /\ Gone <= pushed

Nodes ==
  /\ \/ len = 0 /\ free = 0 /\ chain = <<>>
     \/ len = 7 /\ free + Len(chain) = 7
  /\ broken => pc = "idle" /\ Len(chain) = 7

IInv == TypeOK /\ Adjacent /\ Ends /\ Numbered /\ Account /\ Nodes

\* It says what the properties say.
LEMMA IInvImplies == IInv => TypeOK /\ BytesInOrder /\ BrokenOnlyWhenFull
<1> SUFFICES ASSUME IInv PROVE BytesInOrder /\ BrokenOnlyWhenFull
  BY DEF IInv
<1>1. Len(given) \in Nat /\ Len(out) \in Nat /\ DOMAIN given = 1..Len(given)
  BY DEF IInv, TypeOK
<1>2. (\A i \in DOMAIN given : given[i] = i) /\ Len(given) <= pushed
  BY <1>1 DEF IInv, TypeOK, Numbered, Account, Gone
<1>3. ASSUME pc = "idle"
      PROVE  size = pushed - Len(given)
  <2>1. Len(out) = 0
    BY <1>3 DEF IInv, Account
  <2>2. QED
    BY <1>1, <1>3, <2>1 DEF IInv, TypeOK, Account, Gone
<1>4. BrokenOnlyWhenFull
  BY DEF IInv, Nodes, BrokenOnlyWhenFull
<1>5. QED
  BY <1>2, <1>3, <1>4 DEF BytesInOrder

\* A new buffer satisfies it.
LEMMA InitIInv == Init => IInv
<1> SUFFICES ASSUME Init PROVE IInv
  OBVIOUS
<1>0. <<>> \in Seq(Nat) /\ <<>> \in Seq([first : Nat, size : Nat])
  OBVIOUS
<1>1. TypeOK
  BY <1>0 DEF Init, TypeOK
<1>2. Adjacent /\ Ends /\ Nodes
  BY DEF Init, Adjacent, Ends, Nodes, Gone
<1>3. Numbered /\ Account
  BY DEF Init, Numbered, Account, Gone
<1>4. QED
  BY <1>1, <1>2, <1>3 DEF IInv

-----------------------------------------------------------------------------
(* Lemmas about the parts of an operation.                                 *)

\* Numbers that continue a numbered sequence.
LEMMA Continued ==
  ASSUME NEW s \in Seq(Nat), NEW k \in Nat, NEW b \in Nat, NEW n \in Nat,
         b = k + Len(s) + 1,
         \A i \in 1..Len(s) : s[i] = k + i
  PROVE  LET t == s \o [i \in 1..n |-> b + (i - 1)]
         IN /\ t \in Seq(Nat)
            /\ Len(t) = Len(s) + n
            /\ \A i \in 1..Len(t) : t[i] = k + i
<1> DEFINE r == [i \in 1..n |-> b + (i - 1)]
           t == s \o r
<1>1. r \in Seq(Nat) /\ Len(r) = n
  <2>1. \A i \in 1..n : b + (i - 1) \in Nat
    OBVIOUS
  <2>2. QED
    BY <2>1
<1>2. t \in Seq(Nat) /\ Len(t) = Len(s) + n
  BY <1>1
<1>3. ASSUME NEW i \in 1..Len(t)
      PROVE  t[i] = k + i
  <2>1. CASE i <= Len(s)
    <3>1. t[i] = s[i]
      BY <1>1, <2>1
    <3>2. QED
      BY <2>1, <3>1
  <2>2. CASE i > Len(s)
    <3>1. i - Len(s) \in 1..n
      BY <1>2, <2>2
    <3>2. t[i] = r[i - Len(s)]
      BY <1>1, <1>2, <2>2
    <3>3. r[i - Len(s)] = b + ((i - Len(s)) - 1)
      BY <3>1
    <3>4. QED
      BY <1>2, <3>2, <3>3
  <2>3. QED
    BY <1>2, <2>1, <2>2
<1>4. QED
  BY <1>2, <1>3

\* The nodes and the sizes are numbers, the bytes gone too.
LEMMA Types ==
  ASSUME IInv
  PROVE  /\ chain \in Seq(Node) /\ Len(chain) \in Nat
         /\ \A i \in 1..Len(chain) : chain[i].first \in Nat /\ chain[i].size \in Nat
         /\ offset \in Nat /\ pushed \in Nat /\ Gone \in Nat /\ want \in Nat
         /\ size \in Nat /\ free \in Nat /\ Len(given) \in Nat /\ Len(out) \in Nat
         /\ given \in Seq(Nat) /\ out \in Seq(Nat)
         /\ chain # <<>> => Len(chain) > 0 /\ Head(chain) = chain[1]
<1>1. chain \in Seq(Node) /\ given \in Seq(Nat) /\ out \in Seq(Nat)
  BY DEF IInv, TypeOK, Node
<1>2. \A i \in 1..Len(chain) : chain[i] \in Node
  BY <1>1
<1>3. \A i \in 1..Len(chain) : chain[i].first \in Nat /\ chain[i].size \in Nat
  BY <1>2 DEF Node
<1>4. Len(chain) \in Nat /\ Len(given) \in Nat /\ Len(out) \in Nat
  BY <1>1
<1>5. chain # <<>> => Len(chain) > 0 /\ Head(chain) = chain[1]
  BY <1>1
<1>6. QED
  BY <1>1, <1>3, <1>4, <1>5 DEF IInv, TypeOK, Gone

\* Arithmetic: one, or more.
LEMMA OneOrMore == ASSUME NEW n \in Nat, n > 0 PROVE n = 1 \/ n > 1
OBVIOUS

\* What is copied out of the first node continues what was copied before.
LEMMA CopiedContinues ==
  ASSUME IInv, chain # <<>>, NEW n \in Nat
  PROVE  /\ Copied(n) \in Seq(Nat)
         /\ Len(Copied(n)) = Len(out) + n
         /\ \A i \in 1..Len(Copied(n)) : Copied(n)[i] = Len(given) + i
<1>1. Head(chain) = chain[1] /\ chain[1].first \in Nat
  BY Types
<1>2. Head(chain).first + offset \in Nat
  BY <1>1, Types, SMTT(40)
<1>3. /\ Head(chain).first + offset = Len(given) + Len(out) + 1
      /\ \A i \in 1..Len(out) : out[i] = Len(given) + i
  BY <1>1 DEF IInv, Ends, Gone, Numbered
<1>4. out \in Seq(Nat) /\ Len(given) \in Nat
  BY DEF IInv, TypeOK
<1>5. QED
  BY <1>2, <1>3, <1>4, Continued DEF Copied

\* What is left of the first node is something, and all there is if it is the
\* only one.
LEMMA FirstNode ==
  ASSUME IInv, chain # <<>>
  PROVE  /\ curLen \in Nat /\ curLen > 0
         /\ Len(chain) = 1 => curLen + Gone = pushed
<1>1. /\ Head(chain) = chain[1] /\ chain[1].first \in Nat /\ chain[1].size \in Nat
      /\ Len(chain) \in Nat /\ offset \in Nat
  BY Types
<1>2. offset < chain[1].size /\ chain[1].first + offset = Gone + 1
  BY DEF IInv, Ends
<1>3. curLen \in Nat /\ curLen > 0
  BY <1>1, <1>2 DEF curLen
<1>4. ASSUME Len(chain) = 1 PROVE curLen + Gone = pushed
  <2>1. chain[1].first + chain[1].size = pushed + 1
    BY <1>4 DEF IInv, Ends
  <2>2. Gone \in Nat /\ pushed \in Nat
    BY Types
  <2>3. QED
    BY <1>1, <1>2, <2>1, <2>2, SMTT(40) DEF curLen
<1>5. QED
  BY <1>3, <1>4

\* Where the first node ends.
LEMMA FirstEnds ==
  ASSUME IInv, chain # <<>>
  PROVE  chain[1].first + chain[1].size = (Gone + curLen) + 1
<1>1. /\ chain[1].first \in Nat /\ chain[1].size \in Nat
      /\ offset \in Nat /\ Gone \in Nat /\ Head(chain) = chain[1]
  BY Types
<1>2. chain[1].first + offset = Gone + 1
  BY DEF IInv, Ends
<1>3. curLen = chain[1].size - offset
  BY <1>1 DEF curLen
<1>4. chain[1].first + chain[1].size = (Gone + (chain[1].size - offset)) + 1
  BY <1>1, <1>2
<1>5. QED
  BY <1>3, <1>4

\* What is returned is numbered as what was given before goes on.
LEMMA Returned ==
  ASSUME NEW s \in Seq(Nat), NEW t \in Seq(Nat),
         \A i \in 1..Len(s) : s[i] = i,
         \A i \in 1..Len(t) : t[i] = Len(s) + i
  PROVE  /\ s \o t \in Seq(Nat) /\ Len(s \o t) = Len(s) + Len(t)
         /\ \A i \in 1..Len(s \o t) : (s \o t)[i] = i
<1>1. s \o t \in Seq(Nat) /\ Len(s \o t) = Len(s) + Len(t) /\ Len(s) \in Nat /\ Len(t) \in Nat
  OBVIOUS
<1>2. ASSUME NEW i \in 1..Len(s \o t) PROVE (s \o t)[i] = i
  <2>1. CASE i <= Len(s)
    BY <1>1, <2>1
  <2>2. CASE i > Len(s)
    <3>1. i - Len(s) \in 1..Len(t) /\ (s \o t)[i] = t[i - Len(s)]
      BY <1>1, <2>2
    <3>2. t[i - Len(s)] = Len(s) + (i - Len(s))
      BY <3>1
    <3>3. QED
      BY <1>1, <3>1, <3>2
  <2>3. QED
    BY <1>1, <2>1, <2>2
<1>3. QED
  BY <1>1, <1>2

\* Where the next byte is after a read inside the first node.
LEMMA FirstMoves ==
  ASSUME IInv, chain # <<>>
  PROVE  chain[1].first + (offset + want) = (Gone + want) + 1
<1>1. chain[1].first \in Nat /\ offset \in Nat /\ Gone \in Nat /\ want \in Nat
  BY Types
<1>2. chain[1].first + offset = Gone + 1
  BY DEF IInv, Ends
<1>3. QED
  BY <1>1, <1>2

\* A node does not reach beyond what was pushed.
LEMMA WithinPushed ==
  ASSUME IInv, chain # <<>>
  PROVE  Gone + curLen <= pushed
<1>1. chain[1].first + chain[1].size = (Gone + curLen) + 1
  BY FirstEnds
<1>2. 1 \in 1..Len(chain) /\ Gone \in Nat /\ pushed \in Nat /\ curLen \in Nat
  BY Types, FirstNode
<1>3. chain[1].first + chain[1].size <= pushed + 1
  BY <1>2 DEF IInv, Adjacent
<1>4. QED
  BY <1>1, <1>2, <1>3

\* Releasing the first node once the rest of it has been copied.
LEMMA ReleaseKeeps ==
  ASSUME IInv, chain # <<>>, Release, UNCHANGED <<pushed, len>>,
         Gone' = Gone + curLen
  PROVE  /\ chain' \in Seq(Node) /\ offset' = 0 /\ free' \in Nat
         /\ Adjacent' /\ Ends'
         /\ len' = 7 /\ free' + Len(chain') = 7
         /\ Len(chain') = Len(chain) - 1
<1>0. Len(chain) \in Nat /\ Len(chain) > 0
  BY Types
<1>1. /\ chain \in Seq(Node) /\ Len(chain) \in Nat /\ Len(chain) > 0
      /\ chain' = Tail(chain) /\ offset' = 0 /\ free' = free + 1
      /\ pushed' = pushed /\ len' = len
  BY Types DEF Release
<1>2. /\ chain' \in Seq(Node)
      /\ Len(chain') = Len(chain) - 1
      /\ \A i \in 1..Len(chain') : chain'[i] = chain[i + 1]
  BY <1>1
<1>3. Adjacent'
  <2>1. \A i \in 1..Len(chain') : chain'[i].size > 0
    BY <1>1, <1>2 DEF IInv, Adjacent
  <2>2. \A i \in 1..(Len(chain') - 1) :
          chain'[i + 1].first = chain'[i].first + chain'[i].size
    <3> SUFFICES ASSUME NEW i \in 1..(Len(chain') - 1)
                 PROVE  chain'[i + 1].first = chain'[i].first + chain'[i].size
      OBVIOUS
    <3>1. i \in 1..Len(chain') /\ i + 1 \in 1..Len(chain') /\ i + 1 \in 1..(Len(chain) - 1)
      BY <1>1, <1>2
    <3>2. chain'[i] = chain[i + 1] /\ chain'[i + 1] = chain[(i + 1) + 1]
      BY <1>2, <3>1
    <3>3. chain[(i + 1) + 1].first = chain[i + 1].first + chain[i + 1].size
      BY <3>1 DEF IInv, Adjacent
    <3>4. QED
      BY <3>2, <3>3
  <2>3. \A i \in 1..Len(chain') : chain'[i].first + chain'[i].size <= pushed' + 1
    BY <1>1, <1>2 DEF IInv, Adjacent
  <2>4. QED
    BY <2>1, <2>2, <2>3 DEF Adjacent
<1>4. Ends'
  <2>0. /\ Head(chain) = chain[1] /\ chain[1].first \in Nat /\ chain[1].size \in Nat
        /\ Gone \in Nat /\ offset \in Nat
    BY <1>1, Types
  <2>1. chain[1].first + chain[1].size = Gone' + 1
    BY FirstEnds
  <2>2. CASE Len(chain) = 1
    <3>1. chain' = <<>>
      BY <1>1, <2>2
    <3>2. Gone' = pushed
      <4>1. curLen \in Nat /\ curLen + Gone = pushed
        BY <2>2, FirstNode
      <4>2. QED
        BY <2>0, <4>1
    <3>3. QED
      BY <1>1, <3>1, <3>2 DEF Ends
  <2>3. CASE Len(chain) > 1
    <3>0. Len(chain') \in Nat /\ Len(chain') > 0 /\ Len(chain') + 1 = Len(chain)
      BY <1>1, <1>2, <2>3
    <3>1. /\ chain' # <<>> /\ 1 \in 1..Len(chain')
          /\ Len(chain') \in 1..Len(chain') /\ 1 \in 1..(Len(chain) - 1)
          /\ 1 + 1 \in 1..Len(chain)
      BY <1>1, <3>0
    <3>2. chain'[1] = chain[1 + 1] /\ chain'[Len(chain')] = chain[Len(chain)]
      BY <1>2, <3>0, <3>1
    <3>3. chain[1 + 1].first = chain[1].first + chain[1].size /\ chain[1 + 1].size > 0
      BY <3>1 DEF IInv, Adjacent
    <3>4. chain[1 + 1].first \in Nat /\ chain[1 + 1].size \in Nat
      BY <3>1, Types
    <3>5. chain'[1].first = Gone' + 1 /\ chain'[1].first \in Nat /\ chain'[1].size > 0
      BY <2>1, <3>2, <3>3, <3>4
    <3>6. chain'[1].first + 0 = chain'[1].first
      BY <3>5
    <3>7. chain'[1].first + offset' = Gone' + 1 /\ offset' < chain'[1].size
      BY <1>1, <3>5, <3>6
    <3>8. chain'[Len(chain')].first + chain'[Len(chain')].size = pushed' + 1
      BY <1>1, <3>2 DEF IInv, Ends
    <3>9. QED
      BY <3>1, <3>7, <3>8 DEF Ends
  <2>4. Len(chain) = 1 \/ Len(chain) > 1
    BY <1>0, OneOrMore
  <2>5. QED
    BY <2>2, <2>3, <2>4
<1>5. len' = 7 /\ free' + Len(chain') = 7 /\ free' \in Nat
  <2>1. len = 7 /\ free + Len(chain) = 7
    BY DEF IInv, Nodes
  <2>2. QED
    BY <1>1, <1>2, <2>1 DEF IInv, TypeOK
<1>6. QED
  BY <1>1, <1>2, <1>3, <1>4, <1>5

\* Copying the message into a node behind the others.
LEMMA EnqueueKeeps ==
  ASSUME IInv, NEW n \in Nat, n > 0, Enqueue(n)
  PROVE  /\ chain' \in Seq(Node) /\ Len(chain') = Len(chain) + 1
         /\ Gone' = Gone
         /\ Adjacent' /\ Ends' /\ Numbered'
<1> DEFINE node == [first |-> pushed + 1, size |-> n]
<1>0. /\ Len(chain) \in Nat /\ pushed \in Nat /\ Gone \in Nat /\ offset \in Nat
      /\ chain \in Seq(Node)
  BY Types
<1>1. /\ chain' = Append(chain, node) /\ pushed' = pushed + n
      /\ offset' = offset /\ out' = out /\ given' = given
  BY DEF Enqueue
<1>2. node \in Node /\ node.first = pushed + 1 /\ node.size = n
  BY <1>0 DEF Node
<1>3. /\ chain' \in Seq(Node) /\ Len(chain') = Len(chain) + 1
      /\ \A i \in 1..Len(chain) : chain'[i] = chain[i]
      /\ chain'[Len(chain) + 1] = node
  BY <1>0, <1>1, <1>2
<1>4. Gone' = Gone
  BY <1>1 DEF Gone
<1>5. Numbered'
  BY <1>1 DEF IInv, Numbered
<1>6. Adjacent'
  <2>1. ASSUME NEW i \in 1..Len(chain')
        PROVE  chain'[i].size > 0
    <3>1. i \in 1..Len(chain) \/ i = Len(chain) + 1
      BY <1>0, <1>3
    <3>2. CASE i \in 1..Len(chain)
      BY <1>3, <3>2 DEF IInv, Adjacent
    <3>3. CASE i = Len(chain) + 1
      BY <1>2, <1>3, <3>3
    <3>4. QED
      BY <3>1, <3>2, <3>3
  <2>2. ASSUME NEW i \in 1..(Len(chain') - 1)
        PROVE  chain'[i + 1].first = chain'[i].first + chain'[i].size
    <3>1. /\ i \in 1..Len(chain)
          /\ (i \in 1..(Len(chain) - 1) /\ i + 1 \in 1..Len(chain)) \/ i = Len(chain)
      BY <1>0, <1>3
    <3>2. CASE i \in 1..(Len(chain) - 1) /\ i + 1 \in 1..Len(chain)
      <4>1. chain'[i] = chain[i] /\ chain'[i + 1] = chain[i + 1]
        BY <1>3, <3>1, <3>2
      <4>2. chain[i + 1].first = chain[i].first + chain[i].size
        BY <3>2 DEF IInv, Adjacent
      <4>3. QED
        BY <4>1, <4>2
    <3>3. CASE i = Len(chain)
      <4>1. chain # <<>>
        BY <1>0, <3>1, <3>3
      <4>2. chain[i].first + chain[i].size = pushed + 1
        BY <3>3, <4>1 DEF IInv, Ends
      <4>3. chain'[i] = chain[i] /\ chain'[i + 1] = node
        BY <1>3, <3>1, <3>3
      <4>4. QED
        BY <1>2, <4>2, <4>3
    <3>4. QED
      BY <3>1, <3>2, <3>3
  <2>3. ASSUME NEW i \in 1..Len(chain')
        PROVE  chain'[i].first + chain'[i].size <= pushed' + 1
    <3>1. i \in 1..Len(chain) \/ i = Len(chain) + 1
      BY <1>0, <1>3
    <3>2. CASE i \in 1..Len(chain)
      <4>1. chain[i].first \in Nat /\ chain[i].size \in Nat
        BY <3>2, Types
      <4>2. chain[i].first + chain[i].size <= pushed + 1
        BY <3>2 DEF IInv, Adjacent
      <4>3. chain[i].first + chain[i].size <= (pushed + n) + 1
        BY <1>0, <4>1, <4>2
      <4>4. QED
        BY <1>1, <1>3, <3>2, <4>3
    <3>3. CASE i = Len(chain) + 1
      <4>1. (pushed + 1) + n <= (pushed + n) + 1
        BY <1>0
      <4>2. QED
        BY <1>1, <1>2, <1>3, <3>3, <4>1
    <3>4. QED
      BY <3>1, <3>2, <3>3
  <2>4. QED
    BY <2>1, <2>2, <2>3 DEF Adjacent
<1>7. Ends'
  <2>1. chain' # <<>>
    BY <1>0, <1>3
  <2>2. chain'[Len(chain')].first + chain'[Len(chain')].size = pushed' + 1
    <3>1. (pushed + 1) + n = (pushed + n) + 1
      BY <1>0
    <3>2. QED
      BY <1>1, <1>2, <1>3, <3>1
  <2>3. chain'[1].first + offset = Gone + 1 /\ offset < chain'[1].size
    <3>1. CASE chain = <<>>
      <4>1. Len(chain) = 0 /\ Gone = pushed /\ offset = 0
        BY <3>1 DEF IInv, Ends
      <4>2. chain'[1] = node
        BY <1>3, <4>1
      <4>3. QED
        BY <1>0, <1>2, <4>1, <4>2
    <3>2. CASE chain # <<>>
      <4>1. 1 \in 1..Len(chain)
        BY <3>2, Types
      <4>2. chain'[1] = chain[1]
        BY <1>3, <4>1
      <4>3. QED
        BY <3>2, <4>2 DEF IInv, Ends
    <3>3. QED
      BY <3>1, <3>2
  <2>4. QED
    BY <1>1, <1>4, <2>1, <2>2, <2>3 DEF Ends
<1>8. QED
  BY <1>3, <1>4, <1>5, <1>6, <1>7

-----------------------------------------------------------------------------
(* Every step keeps the invariant.                                         *)

LEMMA PushStep == ASSUME IInv, NEW n \in Size, Push(n) PROVE IInv'
<1> DEFINE FromPool == free > 0 /\ free' = free - 1 /\ UNCHANGED len
           FromNew == /\ free = 0 /\ NewNodes > 0
                      /\ free' = NewNodes - 1 /\ len' = NewNodes
           Breaks == /\ free = 0 /\ NewNodes = 0 /\ broken' = TRUE
                     /\ UNCHANGED <<size, offset, chain, len, free, pc, want, out,
                                    pushed, given>>
<1>0. /\ n \in Nat /\ n > 0 /\ pc = "idle" /\ ~broken
      /\ Len(chain) \in Nat /\ free \in Nat /\ Gone \in Nat /\ size \in Nat /\ pushed \in Nat
  BY SocketBufferAssumption, Types DEF Push
<1>1. /\ NewNodes = 0 => len # 0
      /\ NewNodes > 0 /\ (len = 0 \/ len = 7) => len = 0 /\ NewNodes = 7
  BY DEF NewNodes, LARGE_PAGE_NODE
<1>2. CASE Enqueue(n) /\ (FromPool \/ FromNew)
  <2>1. /\ chain' \in Seq(Node) /\ Len(chain') = Len(chain) + 1
        /\ Gone' = Gone /\ Adjacent' /\ Ends' /\ Numbered'
    BY <1>0, <1>2, EnqueueKeeps
  <2>2. /\ size' = size + n /\ pushed' = pushed + n
        /\ UNCHANGED <<offset, pc, want, out, given, broken>>
    BY <1>2 DEF Enqueue
  <2>3. free' \in Nat /\ len' \in Nat /\ len' = 7 /\ free' + Len(chain') = 7
    <3>1. (len = 0 /\ free = 0 /\ Len(chain) = 0) \/ (len = 7 /\ free + Len(chain) = 7)
      BY DEF IInv, Nodes
    <3>2. CASE FromPool
      BY <1>0, <2>1, <3>1, <3>2
    <3>3. CASE FromNew
      <4>1. len = 0 /\ NewNodes = 7 /\ Len(chain) = 0
        BY <1>0, <1>1, <3>1, <3>3
      <4>2. QED
        BY <2>1, <3>3, <4>1
    <3>4. QED
      BY <1>2, <3>2, <3>3
  <2>4. TypeOK'
    BY <1>0, <2>1, <2>2, <2>3 DEF IInv, TypeOK, Node
  <2>5. Nodes'
    BY <1>0, <2>2, <2>3 DEF Nodes
  <2>6. Account'
    <3>1. out = <<>> /\ want = 0 /\ size + Gone = pushed
      BY <1>0 DEF IInv, Account
    <3>2. (size + n) + Gone = pushed + n /\ Gone <= pushed + n
      BY <1>0, <3>1
    <3>3. QED
      BY <1>0, <2>1, <2>2, <3>1, <3>2 DEF Account
  <2>7. QED
    BY <2>1, <2>4, <2>5, <2>6 DEF IInv
<1>3. CASE Breaks
  <2>1. len = 7 /\ Len(chain) = 7
    BY <1>0, <1>1, <1>3 DEF IInv, Nodes
  <2>2. Gone' = Gone
    BY <1>3 DEF Gone
  <2>3. TypeOK' /\ Adjacent' /\ Numbered'
    BY <1>3 DEF IInv, TypeOK, Adjacent, Numbered
  <2>4. Ends' /\ Account'
    BY <1>3, <2>2 DEF IInv, Ends, Account
  <2>5. Nodes'
    BY <1>0, <1>3, <2>1 DEF IInv, Nodes
  <2>6. QED
    BY <2>3, <2>4, <2>5 DEF IInv
<1>4. (Enqueue(n) /\ (FromPool \/ FromNew)) \/ Breaks
  BY Zenon DEF Push, NewBufferNode
<1>5. QED
  BY <1>2, <1>3, <1>4

LEMMA ReadSpecStep == ASSUME IInv, NEW n \in Size, ReadSpec(n) PROVE IInv'
<1>1. /\ n \in Nat /\ n > 0 /\ pc = "idle" /\ size >= n /\ size' = size - n
      /\ pc' = "spec" /\ want' = n /\ ~broken
      /\ UNCHANGED <<offset, chain, out, pushed, given, len, free, broken>>
  BY SocketBufferAssumption DEF ReadSpec, poolVars
<1>2. size \in Nat /\ Gone \in Nat /\ pushed \in Nat
  BY Types
<1>3. Gone' = Gone
  BY <1>1 DEF Gone
<1>4. TypeOK'
  BY <1>1, <1>2 DEF IInv, TypeOK
<1>5. Adjacent' /\ Numbered' /\ Nodes'
  BY <1>1 DEF IInv, Adjacent, Numbered, Nodes
<1>6. Ends'
  BY <1>1, <1>3 DEF IInv, Ends
<1>7. Account'
  <2>1. size + Gone = pushed /\ Gone <= pushed
    BY <1>1 DEF IInv, Account
  <2>2. ((size - n) + n) + Gone = pushed
    BY <1>1, <1>2, <2>1
  <2>3. QED
    BY <1>1, <1>3, <2>1, <2>2 DEF Account
<1>8. QED
  BY <1>4, <1>5, <1>6, <1>7 DEF IInv

LEMMA ReadAllStep == ASSUME IInv, ReadAll PROVE IInv'
<1>1. /\ pc = "idle" /\ pc' = "all" /\ ~broken
      /\ UNCHANGED <<size, offset, chain, want, out, pushed, given, len, free, broken>>
  BY DEF ReadAll, poolVars
<1>2. Gone' = Gone
  BY <1>1 DEF Gone
<1>3. TypeOK' /\ Adjacent' /\ Numbered' /\ Nodes'
  BY <1>1 DEF IInv, TypeOK, Adjacent, Numbered, Nodes
<1>4. Ends' /\ Account'
  BY <1>1, <1>2 DEF IInv, Ends, Account
<1>5. QED
  BY <1>3, <1>4 DEF IInv

LEMMA EndAllStep == ASSUME IInv, EndAll PROVE IInv'
<1>0. Len(given) \in Nat /\ Len(out) \in Nat /\ given \in Seq(Nat) /\ out \in Seq(Nat)
  BY Types
<1>1. /\ pc = "all" /\ chain = <<>> /\ size' = 0 /\ given' = given \o out
      /\ pc' = "idle" /\ want' = 0 /\ out' = <<>>
      /\ UNCHANGED <<offset, chain, pushed, len, free, broken>>
  BY DEF EndAll, Return, poolVars
<1>2. given' \in Seq(Nat) /\ Len(given') = Len(given) + Len(out) /\ Len(out') = 0
  BY <1>0, <1>1
<1>3. Gone' = Gone /\ Gone = pushed
  BY <1>0, <1>1, <1>2 DEF IInv, Ends, Gone
<1>4. TypeOK' /\ Adjacent' /\ Nodes'
  BY <1>1, <1>2 DEF IInv, TypeOK, Adjacent, Nodes
<1>5. Numbered'
  BY Returned, <1>1 DEF IInv, Numbered
<1>6. Ends' /\ Account'
  BY <1>0, <1>1, <1>3 DEF IInv, Ends, Account, Gone
<1>7. QED
  BY <1>4, <1>5, <1>6 DEF IInv

LEMMA CopyAllStep == ASSUME IInv, CopyAll PROVE IInv'
<1>0. /\ chain # <<>> /\ Release /\ out' = Copied(curLen) /\ pc = "all"
      /\ UNCHANGED <<size, pc, want, pushed, given, len, broken>>
  BY DEF CopyAll
<1>1. curLen \in Nat /\ curLen > 0 /\ Gone \in Nat /\ Len(given) \in Nat /\ Len(out) \in Nat
  BY <1>0, Types, FirstNode
<1>2. /\ out' \in Seq(Nat) /\ Len(out') = Len(out) + curLen
      /\ \A i \in 1..Len(out') : out'[i] = Len(given) + i
  BY <1>0, <1>1, CopiedContinues
<1>3. Gone' = Gone + curLen
  BY <1>0, <1>1, <1>2 DEF Gone
<1>4. /\ chain' \in Seq(Node) /\ offset' = 0 /\ free' \in Nat /\ Adjacent' /\ Ends'
      /\ len' = 7 /\ free' + Len(chain') = 7
  BY <1>0, <1>3, ReleaseKeeps
<1>5. TypeOK'
  BY <1>0, <1>2, <1>4 DEF IInv, TypeOK, Node
<1>6. Numbered'
  BY <1>0, <1>2 DEF IInv, Numbered
<1>7. Gone' <= pushed
  BY <1>0, <1>3, WithinPushed
<1>8. Account' /\ Nodes'
  BY <1>0, <1>4, <1>7 DEF IInv, Account, Nodes
<1>9. QED
  BY <1>4, <1>5, <1>6, <1>8 DEF IInv

\* A read of what the buffer has does not come to the end of the chain.
LEMMA NextNode ==
  ASSUME IInv, pc = "spec", curLen < want
  PROVE  chain # <<>> /\ Len(chain) # 1
<1>1. /\ Gone \in Nat /\ pushed \in Nat /\ size \in Nat /\ want \in Nat /\ want > 0
      /\ size + want + Gone = pushed
  BY Types DEF IInv, Account
<1>2. chain # <<>>
  <2> SUFFICES ASSUME chain = <<>> PROVE FALSE
    OBVIOUS
  <2>1. Gone = pushed
    BY DEF IInv, Ends
  <2>2. QED
    BY <1>1, <2>1
<1>3. Len(chain) # 1
  <2> SUFFICES ASSUME Len(chain) = 1 PROVE FALSE
    OBVIOUS
  <2>1. curLen \in Nat /\ curLen + Gone = pushed
    BY <1>2, FirstNode
  <2>2. QED
    BY <1>1, <2>1
<1>4. QED
  BY <1>2, <1>3

LEMMA CopyNodeStep == ASSUME IInv, CopyNode PROVE IInv'
<1>0. /\ pc = "spec" /\ curLen < want /\ Release
      /\ UNCHANGED <<size, pushed, len, broken>>
  BY DEF CopyNode
<1>1. /\ chain # <<>> /\ out' = Copied(curLen) /\ want' = want - curLen
      /\ UNCHANGED <<pc, given>>
  BY NextNode, <1>0 DEF CopyNode
<1>2. /\ curLen \in Nat /\ curLen > 0 /\ Gone \in Nat /\ want \in Nat /\ size \in Nat
      /\ Len(given) \in Nat /\ Len(out) \in Nat /\ pushed \in Nat
  BY <1>1, Types, FirstNode
<1>3. /\ out' \in Seq(Nat) /\ Len(out') = Len(out) + curLen
      /\ \A i \in 1..Len(out') : out'[i] = Len(given) + i
  BY <1>1, <1>2, CopiedContinues
<1>4. Gone' = Gone + curLen
  BY <1>1, <1>2, <1>3 DEF Gone
<1>5. /\ chain' \in Seq(Node) /\ offset' = 0 /\ free' \in Nat /\ Adjacent' /\ Ends'
      /\ len' = 7 /\ free' + Len(chain') = 7
  BY <1>0, <1>1, <1>4, ReleaseKeeps
<1>6. TypeOK'
  BY <1>0, <1>1, <1>2, <1>3, <1>5 DEF IInv, TypeOK, Node
<1>7. Numbered'
  BY <1>1, <1>3 DEF IInv, Numbered
<1>8. Gone' <= pushed
  BY <1>1, <1>4, WithinPushed
<1>9. Account'
  <2>1. size + want + Gone = pushed
    BY <1>0 DEF IInv, Account
  <2>2. want' > 0 /\ size + (want - curLen) + (Gone + curLen) = pushed
    BY <1>0, <1>1, <1>2, <2>1
  <2>3. QED
    BY <1>0, <1>1, <1>4, <1>8, <2>2 DEF Account
<1>10. Nodes'
  BY <1>0, <1>5 DEF IInv, Nodes
<1>11. QED
  BY <1>5, <1>6, <1>7, <1>9, <1>10 DEF IInv

LEMMA CopyLastStep == ASSUME IInv, CopyLast PROVE IInv'
<1>0. /\ pc = "spec" /\ curLen >= want /\ pc' = "idle" /\ want' = 0 /\ out' = <<>>
      /\ given' = given \o Copied(want)
      /\ IF curLen = want THEN Release ELSE offset' = offset + want /\ UNCHANGED <<chain, free>>
      /\ UNCHANGED <<size, pushed, len, broken>>
  BY DEF CopyLast, Return
<1>1. /\ want \in Nat /\ want > 0 /\ size \in Nat /\ Gone \in Nat /\ pushed \in Nat
      /\ Len(given) \in Nat /\ Len(out) \in Nat /\ given \in Seq(Nat)
      /\ size + want + Gone = pushed /\ offset \in Nat /\ Len(chain) \in Nat
  BY <1>0, Types DEF IInv, Account
<1>2. chain # <<>>
  <2> SUFFICES ASSUME chain = <<>> PROVE FALSE
    OBVIOUS
  <2>1. Gone = pushed
    BY DEF IInv, Ends
  <2>2. QED
    BY <1>1, <2>1
<1>3. /\ curLen \in Nat /\ Head(chain) = chain[1]
      /\ chain[1].first \in Nat /\ chain[1].size \in Nat /\ 1 \in 1..Len(chain)
  BY <1>2, FirstNode, Types
<1>4. /\ Copied(want) \in Seq(Nat) /\ Len(Copied(want)) = Len(out) + want
      /\ \A i \in 1..Len(Copied(want)) : Copied(want)[i] = Len(given) + i
  BY <1>1, <1>2, CopiedContinues
<1>5. /\ given' \in Seq(Nat) /\ Len(given') = Len(given) + (Len(out) + want)
      /\ \A i \in 1..Len(given') : given'[i] = i
  <2>1. \A i \in 1..Len(given) : given[i] = i
    BY DEF IInv, Numbered
  <2>2. QED
    BY <1>0, <1>1, <1>4, <2>1, Returned
<1>6. Gone' = Gone + want /\ Len(out') = 0
  BY <1>0, <1>1, <1>5 DEF Gone
<1>7. Numbered'
  BY <1>0, <1>5, <1>6 DEF Numbered
<1>8. Account'
  <2>1. size + (Gone + want) = pushed /\ Gone + want <= pushed
    BY <1>1
  <2>2. QED
    BY <1>0, <1>6, <2>1 DEF Account
<1>9. CASE curLen = want
  <2>1. /\ chain' \in Seq(Node) /\ offset' = 0 /\ free' \in Nat /\ Adjacent' /\ Ends'
        /\ len' = 7 /\ free' + Len(chain') = 7
    BY <1>0, <1>2, <1>6, <1>9, ReleaseKeeps
  <2>2. TypeOK'
    BY <1>0, <1>5, <2>1 DEF IInv, TypeOK, Node
  <2>3. Nodes'
    BY <1>0, <2>1 DEF IInv, Nodes
  <2>4. QED
    BY <1>7, <1>8, <2>1, <2>2, <2>3 DEF IInv
<1>10. CASE curLen # want
  <2>1. offset' = offset + want /\ chain' = chain /\ free' = free
    BY <1>0, <1>10
  <2>2. Adjacent' /\ Nodes'
    BY <1>0, <2>1 DEF IInv, Adjacent, Nodes
  <2>3. TypeOK'
    BY <1>0, <1>1, <1>5, <2>1 DEF IInv, TypeOK
  <2>4. Ends'
    <3>1. /\ chain[1].first + offset = Gone + 1
          /\ chain[Len(chain)].first + chain[Len(chain)].size = pushed + 1
      BY <1>2 DEF IInv, Ends
    <3>2. chain[1].first + (offset + want) = (Gone + want) + 1
      BY <1>2, FirstMoves
    <3>3. offset + want < chain[1].size
      <4>1. want < chain[1].size - offset
        BY <1>0, <1>1, <1>3, <1>10 DEF curLen
      <4>2. QED
        BY <1>1, <1>3, <4>1
    <3>4. QED
      BY <1>0, <1>2, <1>6, <2>1, <3>1, <3>2, <3>3 DEF Ends
  <2>5. QED
    BY <1>7, <1>8, <2>2, <2>3, <2>4 DEF IInv
<1>11. QED
  BY <1>9, <1>10

\* Any step, or none.
LEMMA NextIInv == IInv /\ [Next]_vars => IInv'
<1> SUFFICES ASSUME IInv, [Next]_vars PROVE IInv'
  OBVIOUS
<1>1. ASSUME NEW n \in Size, Push(n) PROVE IInv'
  BY <1>1, PushStep
<1>2. ASSUME NEW n \in Size, ReadSpec(n) PROVE IInv'
  BY <1>2, ReadSpecStep
<1>3. CASE ReadAll
  BY <1>3, ReadAllStep
<1>4. CASE CopyLast
  BY <1>4, CopyLastStep
<1>5. CASE CopyNode
  BY <1>5, CopyNodeStep
<1>6. CASE CopyAll
  BY <1>6, CopyAllStep
<1>7. CASE EndAll
  BY <1>7, EndAllStep
<1>8. CASE UNCHANGED vars
  <2>1. Gone' = Gone
    BY <1>8 DEF vars, Gone
  <2>2. TypeOK' /\ Adjacent' /\ Numbered' /\ Nodes'
    BY <1>8 DEF vars, poolVars, IInv, TypeOK, Adjacent, Numbered, Nodes
  <2>3. Ends' /\ Account'
    BY <1>8, <2>1 DEF vars, poolVars, IInv, Ends, Account
  <2>4. QED
    BY <2>2, <2>3 DEF IInv
<1>9. QED
  BY <1>1, <1>2, <1>3, <1>4, <1>5, <1>6, <1>7, <1>8 DEF Next

LEMMA SpecIInv == Spec => []IInv
<1>1. QED
  BY InitIInv, NextIInv, PTL DEF Spec

-----------------------------------------------------------------------------
\* Every field keeps its type (SocketBuffer and BufferPool, Buffer.h:17-46).
THEOREM TypeCorrect == Spec => []TypeOK
<1>1. IInv => TypeOK
  BY DEF IInv
<1>2. QED
  BY SpecIInv, <1>1, PTL

\* Whatever the sizes of the messages and of the reads, what is read is what
\* was pushed, byte for byte, none left out or read twice, and size says how many
\* are left: the offset into the first node, its release and the split of a read
\* over nodes agree (Buffer.cpp:66, 97-160).
THEOREM BytesComeInOrder == Spec => []BytesInOrder
<1>1. IInv => BytesInOrder
  BY IInvImplies
<1>2. QED
  BY SpecIInv, <1>1, PTL

\* Seven nodes are all there ever are, in the chain or in the pool: only a push
\* that finds seven messages unread breaks the buffer.
THEOREM NodesAreKept == Spec => []BrokenOnlyWhenFull
<1>1. IInv => BrokenOnlyWhenFull
  BY IInvImplies
<1>2. QED
  BY SpecIInv, <1>1, PTL

=============================================================================
