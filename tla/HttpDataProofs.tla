--------------------------- MODULE HttpDataProofs ---------------------------
(***************************************************************************)
(* Proofs about HttpData for any requests, sent in any number of pieces and*)
(* with or without waiting for the answers: the type invariant, that a new *)
(* request meets a fresh parser, that each answer is the answer to the     *)
(* request it comes for, and that requests that arrive whole and one by    *)
(* one are answered as they should be.                                     *)
(***************************************************************************)
EXTENDS HttpData, SequenceTheorems, NaturalsInduction, WellFoundedInduction, TLAPS

-----------------------------------------------------------------------------
(* Sequences of sequences, one after the other.                            *)

\* A set of numbers with 0 and the successor of each of its members has them all.
LEMMA SetInduction ==
  ASSUME NEW S, 0 \in S, \A n \in Nat : n \in S => n + 1 \in S
  PROVE  Nat \subseteq S
<1> SUFFICES ASSUME NEW m \in Nat, m \notin S PROVE FALSE
  OBVIOUS
<1> DEFINE T == Nat \ S
<1>1. PICK k \in T : \A l \in T : ~(<<l, k>> \in OpToRel(<, Nat))
  <2>1. T \subseteq Nat /\ T # {}
    OBVIOUS
  <2> HIDE DEF T
  <2> QED
    BY <2>1, NatLessThanWellFounded, WFMin
<1>2. k - 1 \in Nat
  OBVIOUS
<1>3. <<k - 1, k>> \in OpToRel(<, Nat)
  BY <1>2 DEF OpToRel
<1>4. k - 1 \in S
  BY <1>1, <1>2, <1>3
<1> QED
  BY <1>2, <1>4

\* F is what FlattenSeq computes along q.
Flattens(F, q) ==
  F = [i \in 1..Len(q) |-> IF i = 1 THEN q[i] ELSE F[i - 1] \o q[i]]

\* The same up to place m, without saying where F ends.
FlattensTo(F, q, m) ==
  \A i \in 1..m : F[i] = IF i = 1 THEN q[i] ELSE F[i - 1] \o q[i]

\* Only one function is what FlattenSeq computes.
LEMMA FlattensUnique ==
  ASSUME NEW q, NEW F, NEW G, NEW n \in Nat, FlattensTo(F, q, n), FlattensTo(G, q, n)
  PROVE  \A i \in 1..n : F[i] = G[i]
<1> DEFINE T == {m \in Nat : m \in 1..n => F[m] = G[m]}
<1>1. 0 \in T
  OBVIOUS
<1>2. \A m \in Nat : m \in T => m + 1 \in T
  <2> SUFFICES ASSUME NEW m \in T, m + 1 \in 1..n PROVE F[m + 1] = G[m + 1]
    OBVIOUS
  <2>1. /\ F[m + 1] = IF m + 1 = 1 THEN q[m + 1] ELSE F[m + 1 - 1] \o q[m + 1]
        /\ G[m + 1] = IF m + 1 = 1 THEN q[m + 1] ELSE G[m + 1 - 1] \o q[m + 1]
    BY DEF FlattensTo
  <2>2. m + 1 - 1 = m /\ (m + 1 # 1 => m \in 1..n)
    OBVIOUS
  <2> QED
    BY <2>1, <2>2
<1> HIDE DEF T
<1>3. Nat \subseteq T
  BY <1>1, <1>2, SetInduction
<1> QED
  BY <1>3 DEF T

\* There is such a function for every sequence.
LEMMA FlattensExists ==
  ASSUME NEW S, NEW q \in Seq(Seq(S)), NEW n \in Nat, n <= Len(q)
  PROVE  \E F \in [1..n -> Seq(S)] : FlattensTo(F, q, n)
<1> DEFINE T == {m \in Nat : m <= Len(q) => \E F \in [1..m -> Seq(S)] : FlattensTo(F, q, m)}
<1>1. 0 \in T
  <2>1. [i \in 1..0 |-> <<>>] \in [1..0 -> Seq(S)]
    OBVIOUS
  <2>2. FlattensTo([i \in 1..0 |-> <<>>], q, 0)
    BY DEF FlattensTo
  <2> QED
    BY <2>1, <2>2
<1>2. ASSUME NEW m \in Nat, m \in T PROVE m + 1 \in T
  <2> SUFFICES ASSUME m + 1 <= Len(q)
               PROVE  \E F \in [1..(m + 1) -> Seq(S)] : FlattensTo(F, q, m + 1)
    OBVIOUS
  <2>1. PICK F \in [1..m -> Seq(S)] : FlattensTo(F, q, m)
    BY <1>2
  <2>2. q[m + 1] \in Seq(S)
    OBVIOUS
  <2> DEFINE last == IF m + 1 = 1 THEN q[m + 1] ELSE F[m] \o q[m + 1]
             G == [i \in 1..(m + 1) |-> IF i \in 1..m THEN F[i] ELSE last]
  <2>3. last \in Seq(S)
    BY <2>2
  <2> HIDE DEF last
  <2>4. G \in [1..(m + 1) -> Seq(S)]
    BY <2>3
  <2>5. ASSUME NEW i \in 1..(m + 1)
        PROVE  G[i] = IF i = 1 THEN q[i] ELSE G[i - 1] \o q[i]
    <3>1. CASE i = m + 1
      BY <3>1 DEF last
    <3>2. CASE i \in 1..m
      <4>1. F[i] = IF i = 1 THEN q[i] ELSE F[i - 1] \o q[i]
        BY <2>1, <3>2 DEF FlattensTo
      <4>2. i # 1 => G[i - 1] = F[i - 1]
        BY <3>2
      <4> QED
        BY <3>2, <4>1, <4>2
    <3> QED
      BY <3>1, <3>2
  <2>6. FlattensTo(G, q, m + 1)
    BY <2>5 DEF FlattensTo
  <2> QED
    BY <2>4, <2>6
<1> HIDE DEF T
<1>3. Nat \subseteq T
  BY <1>1, <1>2, SetInduction
<1> QED
  BY <1>3 DEF T

\* What FlattenSeq is, without recursion.
LEMMA FlattenIs ==
  ASSUME NEW S, NEW q \in Seq(Seq(S)), Len(q) # 0,
         NEW F, FlattensTo(F, q, Len(q))
  PROVE  SX!FlattenSeq(q) = F[Len(q)] /\ F[Len(q)] \in Seq(S)
<1> DEFINE n == Len(q)
<1>1. n \in Nat /\ n \in 1..n /\ n <= Len(q)
  OBVIOUS
<1>2. PICK G \in [1..n -> Seq(S)] : FlattensTo(G, q, n)
  BY <1>1, FlattensExists
<1>3. Flattens(G, q)
  BY <1>2 DEF Flattens, FlattensTo
<1> DEFINE C == CHOOSE f : f = [i \in 1..Len(q) |-> IF i = 1 THEN q[i] ELSE f[i - 1] \o q[i]]
<1>4. C = [i \in 1..Len(q) |-> IF i = 1 THEN q[i] ELSE C[i - 1] \o q[i]]
  BY <1>3 DEF Flattens
<1>5. SX!FlattenSeq(q) = C[n]
  BY DEF SX!FlattenSeq
<1> HIDE DEF C
<1>6. FlattensTo(C, q, n)
  <2> SUFFICES ASSUME NEW i \in 1..n
               PROVE  C[i] = IF i = 1 THEN q[i] ELSE C[i - 1] \o q[i]
    BY DEF FlattensTo
  <2> QED
    BY <1>4
<1> HIDE DEF n
<1>7. C[n] = F[n] /\ G[n] = F[n]
  BY <1>1, <1>2, <1>6, FlattensUnique DEF n
<1> QED
  BY <1>1, <1>2, <1>5, <1>7 DEF n

\* The sequences of a sequence, one after the other, are one sequence.
LEMMA FlattenType ==
  ASSUME NEW S, NEW q \in Seq(Seq(S))
  PROVE  SX!FlattenSeq(q) \in Seq(S)
<1>1. CASE Len(q) = 0
  <2>1. SX!FlattenSeq(q) = q /\ q = <<>>
    BY <1>1 DEF SX!FlattenSeq
  <2> QED
    BY <2>1
<1>2. CASE Len(q) # 0
  <2>1. PICK F \in [1..Len(q) -> Seq(S)] : FlattensTo(F, q, Len(q))
    BY FlattensExists
  <2> QED
    BY <1>2, <2>1, FlattenIs
<1> QED
  BY <1>1, <1>2

\* Of no sequences, the empty one.
LEMMA FlattenEmpty == SX!FlattenSeq(<<>>) = <<>>
BY DEF SX!FlattenSeq

\* One more sequence comes last.
LEMMA FlattenAppend ==
  ASSUME NEW S, NEW q \in Seq(Seq(S)), NEW s \in Seq(S)
  PROVE  SX!FlattenSeq(Append(q, s)) = SX!FlattenSeq(q) \o s
<1> DEFINE n == Len(q)
           r == Append(q, s)
<1>1. /\ r \in Seq(Seq(S)) /\ Len(r) = n + 1 /\ n \in Nat
      /\ n + 1 \in Nat /\ n + 1 <= Len(r)
      /\ \A i \in 1..n : r[i] = q[i]
      /\ r[n + 1] = s
  OBVIOUS
<1> HIDE DEF r
<1>2. PICK F \in [1..(n + 1) -> Seq(S)] : FlattensTo(F, r, n + 1)
  BY <1>1, FlattensExists
<1>3. SX!FlattenSeq(r) = F[n + 1]
  BY <1>1, <1>2, FlattenIs
<1>4. F[n + 1] = IF n + 1 = 1 THEN s ELSE F[n] \o s
  <2>1. PICK k : k = n + 1
    OBVIOUS
  <2>2. k \in 1..(n + 1) /\ k - 1 = n
    BY <1>1, <2>1
  <2>3. F[k] = IF k = 1 THEN r[k] ELSE F[k - 1] \o r[k]
    BY <1>2, <2>2 DEF FlattensTo
  <2> QED
    BY <1>1, <2>1, <2>2, <2>3
<1>5. CASE n = 0
  <2>1. q = <<>>
    BY <1>5
  <2> QED
    BY <1>3, <1>4, <1>5, <2>1, FlattenEmpty DEF r
<1>6. CASE n # 0
  <2>1. FlattensTo(F, q, n)
    <3> SUFFICES ASSUME NEW i \in 1..n
                 PROVE  F[i] = IF i = 1 THEN q[i] ELSE F[i - 1] \o q[i]
      BY DEF FlattensTo
    <3>1. i \in 1..(n + 1)
      BY <1>1
    <3>2. F[i] = IF i = 1 THEN r[i] ELSE F[i - 1] \o r[i]
      BY <1>2, <3>1 DEF FlattensTo
    <3> QED
      BY <1>1, <3>2
  <2>2. SX!FlattenSeq(q) = F[n]
    BY <1>6, <2>1, FlattenIs
  <2> QED
    BY <1>1, <1>3, <1>4, <1>6, <2>2 DEF r
<1> QED
  BY <1>5, <1>6

-----------------------------------------------------------------------------
(* The shape of the state.                                                 *)

\* What the stream and inBuffer_ are made of.
Token == Word \cup Method \cup {CR, LF, " ", ":", "/", "?", "HTTP", Junk, "www/index.html", "hello"}

Header == [key : Seq(Token), value : Seq(Token)]

Kind == {"200", "400", "404", "body", "hello", "none"}

Piece == [kind : Kind, file : Seq(Token), keep : BOOLEAN]

Data ==
  [inBuffer : Seq(Token), state : {"uri", "headers", "body", "analysis", "finish"},
   hState : HeaderStates, method : Method, file : Seq(Token),
   headers : SUBSET Header, keepAlive : BOOLEAN, error : BOOLEAN, reply : Kind,
   fin : BOOLEAN, out : Seq(Piece)]

\* The type invariant as the steps keep it.
Typed ==
  /\ \E n \in 1..MaxRequests : reqs \in [1..n -> Request]
  /\ taken \in 0..Len(Stream)
  /\ pc \in {"wait", "again", "closed"}
  /\ d \in Data
  /\ d.error => pc = "closed"

\* The request line is to be parsed next: nothing of an earlier request is left.
FreshData(s) == s.state = "uri" => s.hState = "start" /\ s.headers = {} /\ s.file = <<>>

\* A waiting connection that expects a request line has nothing in its buffer,
\* unless the client has said all it had to say.
Fresh ==
  /\ pc # "closed" => FreshData(d)
  /\ (pc = "wait" /\ d.state = "uri" /\ ~d.fin) => d.inBuffer = <<>>
  /\ pc = "again" => ~d.fin

\* The parts of the assumption that the steps need.
LEMMA Requests ==
  /\ MaxRequests \in Nat
  /\ SizeT \in Nat \ {0}
  /\ Request \subseteq
       [method : Method, path : Seq(Word \cup {"?"}), version : Word,
        headers : Seq([key : Word, value : Word]), body : Seq(Word)]
BY HttpDataAssumption

\* Everything a request is written with is a token.
LEMMA Tokens ==
  /\ CR \in Token /\ LF \in Token /\ " " \in Token /\ ":" \in Token /\ "/" \in Token
  /\ "HTTP" \in Token /\ "hello" \in Token /\ Junk \in Token /\ "www/index.html" \in Token
  /\ Word \subseteq Token /\ Method \subseteq Token /\ Word \cup {"?"} \subseteq Token
BY DEF Token

\* Sequences over a part of a set are sequences over the set.
LEMMA SeqMono ==
  ASSUME NEW S, NEW T, S \subseteq T, NEW s \in Seq(S)
  PROVE  s \in Seq(T)
<1>1. Len(s) \in Nat /\ s \in [1..Len(s) -> S]
  OBVIOUS
<1>2. s \in [1..Len(s) -> T]
  BY <1>1
<1> QED
  BY <1>1, <1>2

\* Sequences of so many elements.
LEMMA Tuples ==
  ASSUME NEW S, NEW a \in S, NEW b \in S, NEW c \in S, NEW e \in S, NEW f \in S, NEW g \in S
  PROVE  /\ <<a, b>> \in Seq(S) /\ <<a, b, c>> \in Seq(S)
         /\ <<a, b, c, e, f, g>> \in Seq(S)
OBVIOUS

\* A header line is six tokens.
LEMMA HeaderLineType ==
  ASSUME NEW h \in [key : Word, value : Word]
  PROVE  HeaderLine(h) \in Seq(Token)
<1>1. h.key \in Token /\ h.value \in Token
  BY Tokens
<1>2. <<h.key, ":", " ", h.value, CR, LF>> \in Seq(Token)
  BY <1>1, Tokens, Tuples
<1> QED
  BY <1>2 DEF HeaderLine

\* The text of a request is made of tokens.
LEMMA TextType == \A r \in Request : Text(r) \in Seq(Token)
<1> SUFFICES ASSUME NEW r \in Request PROVE Text(r) \in Seq(Token)
  OBVIOUS
<1>1. r \in [method : Method, path : Seq(Word \cup {"?"}), version : Word,
             headers : Seq([key : Word, value : Word]), body : Seq(Word)]
  BY Requests
<1> DEFINE lines == [i \in DOMAIN r.headers |-> HeaderLine(r.headers[i])]
<1>2. lines \in Seq(Seq(Token))
  <2>1. r.headers \in Seq([key : Word, value : Word])
    BY <1>1
  <2>2. DOMAIN r.headers = 1..Len(r.headers) /\ Len(r.headers) \in Nat
    BY <2>1
  <2>3. \A i \in 1..Len(r.headers) : HeaderLine(r.headers[i]) \in Seq(Token)
    <3> SUFFICES ASSUME NEW i \in 1..Len(r.headers)
                 PROVE  HeaderLine(r.headers[i]) \in Seq(Token)
      OBVIOUS
    <3>1. r.headers[i] \in [key : Word, value : Word]
      BY <2>1, ElementOfSeq
    <3> QED
      BY <3>1, HeaderLineType
  <2> QED
    BY <2>2, <2>3
<1> HIDE DEF lines
<1>3. SX!FlattenSeq(lines) \in Seq(Token)
  BY <1>2, FlattenType
<1>4. r.method \in Token /\ r.version \in Token
  BY <1>1, Tokens
<1>5. r.path \in Seq(Token) /\ r.body \in Seq(Token)
  <2>1. r.path \in Seq(Word \cup {"?"}) /\ r.body \in Seq(Word)
    BY <1>1
  <2>2. Word \cup {"?"} \subseteq Token /\ Word \subseteq Token
    BY Tokens
  <2> QED
    BY <2>1, <2>2, SeqMono
<1>6. <<r.method, " ", "/">> \in Seq(Token)
  BY <1>4, Tokens, Tuples
<1>7. <<" ", "HTTP", "/", r.version, CR, LF>> \in Seq(Token) /\ <<CR, LF>> \in Seq(Token)
  BY <1>4, Tokens, Tuples
<1>8. PICK a, p, b, f, c, e, T :
        /\ a = <<r.method, " ", "/">> /\ p = r.path /\ b = <<" ", "HTTP", "/", r.version, CR, LF>>
        /\ f = SX!FlattenSeq(lines) /\ c = <<CR, LF>> /\ e = r.body /\ T = Seq(Token)
  OBVIOUS
<1>9. Text(r) = a \o p \o b \o f \o c \o e
  BY <1>8 DEF Text, lines
<1>10. /\ a \in Seq(Token) /\ p \in Seq(Token) /\ b \in Seq(Token) /\ f \in Seq(Token)
       /\ c \in Seq(Token) /\ e \in Seq(Token)
  BY <1>3, <1>5, <1>6, <1>7, <1>8
<1> QED
  BY <1>9, <1>10

\* The client's stream, and what is read of it.
LEMMA StreamType ==
  ASSUME NEW n \in Nat, reqs \in [1..n -> Request]
  PROVE  Stream \in Seq(Token)
<1> DEFINE texts == [i \in DOMAIN reqs |-> Text(reqs[i])]
<1>1. texts \in Seq(Seq(Token))
  BY TextType
<1> HIDE DEF texts
<1> QED
  BY <1>1, FlattenType DEF Stream, texts

-----------------------------------------------------------------------------
(* std::string.                                                            *)

\* A set of numbers has a least one.
LEMMA Least ==
  ASSUME NEW T, T \subseteq Nat, T # {}
  PROVE  \E i \in T : \A j \in T : i <= j
<1>1. PICK k \in T : \A l \in T : ~(<<l, k>> \in OpToRel(<, Nat))
  BY NatLessThanWellFounded, WFMin
<1>2. \A l \in T : ~(l < k)
  BY <1>1 DEF OpToRel
<1> QED
  BY <1>2

\* find returns npos when t does not occur, else its first place.
LEMMA FindFirst ==
  ASSUME NEW s, Len(s) \in Nat, NEW t, NEW from \in Nat, NEW f, f = Find(s, t, from)
  PROVE  \/ f = npos /\ \A i \in from..(Len(s) - 1) : s[i + 1] # t
         \/ /\ f \in from..(Len(s) - 1) /\ s[f + 1] = t
            /\ \A i \in from..(Len(s) - 1) : s[i + 1] = t => f <= i
<1> DEFINE at == {i \in from..(Len(s) - 1) : s[i + 1] = t}
<1>1. CASE at = {}
  BY <1>1 DEF Find
<1>2. CASE at # {}
  <2>1. PICK i \in at : \A j \in at : i <= j
    <3>1. at \subseteq Nat
      OBVIOUS
    <3> HIDE DEF at
    <3> QED
      BY <1>2, <3>1, Least
  <2>2. f = CHOOSE k \in at : \A j \in at : k <= j
    BY <1>2 DEF Find
  <2>3. f \in at /\ \A j \in at : f <= j
    <3> HIDE DEF at
    <3> QED
      BY <2>1, <2>2
  <2> QED
    BY <2>3
<1> QED
  BY <1>1, <1>2

\* A size_t is never negative.
LEMMA SizeTType ==
  ASSUME NEW a \in Int, NEW b \in Int
  PROVE  npos \in Nat /\ Plus(a, b) \in Nat /\ Minus(a, b) \in Nat
BY Requests DEF npos, Plus, Minus

\* Find returns a place or npos.
LEMMA FindType ==
  ASSUME NEW s, Len(s) \in Nat, NEW t, NEW from \in Nat
  PROVE  Find(s, t, from) \in Nat
<1>1. PICK f : f = Find(s, t, from)
  OBVIOUS
<1>2. f = npos \/ f \in from..(Len(s) - 1)
  BY <1>1, FindFirst
<1>3. npos \in Nat
  BY SizeTType
<1> QED
  BY <1>1, <1>2, <1>3

\* A part of a text is a text of the same elements.
LEMMA SubstrType ==
  ASSUME NEW S, NEW s \in Seq(S), NEW pos \in Nat, NEW n \in Nat
  PROVE  Substr(s, pos, n) \in Seq(S)
BY DEF Substr

\* So is the rest of a text.
LEMMA FromType ==
  ASSUME NEW S, NEW s \in Seq(S), NEW pos \in Nat
  PROVE  From(s, pos) \in Seq(S)
BY SizeTType, SubstrType DEF From

\* A sequence of one element.
LEMMA Singleton == ASSUME NEW S, NEW a \in S PROVE <<a>> \in Seq(S)
OBVIOUS

\* A slice of a text, which may be one of what is in front of it.
LEMMA SliceType ==
  ASSUME NEW s \in Seq(Token), NEW from \in Int, NEW to \in Int, to <= Len(s)
  PROVE  Slice(s, from, to) \in Seq(Token)
<1>1. PICK m : m = IF from < 0 THEN 0 ELSE from
  OBVIOUS
<1>2. SubSeq(s, m + 1, to) \in Seq(Token)
  BY <1>1
<1>3. Junk \in Token
  BY Tokens
<1>4. <<Junk>> \in Seq(Token) /\ <<>> \in Seq(Token)
  BY <1>3, Singleton
<1>5. (IF from < 0 /\ to > from THEN <<Junk>> ELSE <<>>) \in Seq(Token)
  BY <1>4
<1> QED
  BY <1>1, <1>2, <1>5 DEF Slice

-----------------------------------------------------------------------------
(* parseURI.                                                               *)

\* parseURI always returns "error" or "success", and after "success" method_
\* and fileName_ are set: pos, a size_t, is not below 0.
LEMMA ParseURIType ==
  ASSUME NEW str \in Seq(Token), NEW u, u = ParseURI(str)
  PROVE  /\ u.flag \in {"error", "success"}
         /\ u.rest \in Seq(Token)
         /\ u.flag = "success" => u.method \in Method /\ u.file \in Seq(Token)
<1>1. PICK pos : pos = Find(str, CR, 0)
  OBVIOUS
<1>2. PICK line : line = Substr(str, 0, pos)
  OBVIOUS
<1>3. PICK method : method = MethodOf(line)
  OBVIOUS
<1>4. PICK first : first = Find(line, method, 0)
  OBVIOUS
<1>5. PICK slash : slash = Find(line, "/", first)
  OBVIOUS
<1>6. PICK space : space = Find(line, " ", slash)
  OBVIOUS
<1>7. pos \in Nat
  BY <1>1, FindType
<1>8. line \in Seq(Token) /\ Len(line) \in Nat
  BY <1>2, <1>7, SubstrType, SMTT(40)
<1>9. slash \in Nat /\ space \in Nat
  <2>1. first \in Nat
    BY <1>4, <1>8, FindType
  <2>2. slash \in Nat
    BY <1>5, <1>8, <2>1, FindType
  <2> QED
    BY <1>6, <1>8, <2>2, FindType
<1>10. method \in Method \cup {"none"}
  BY <1>3 DEF MethodOf, Method
<1>11. FileOf(line, slash, space) \in Seq(Token)
  <2>1. PICK from, many : from = Plus(slash, 1) /\ many = Minus(space, from)
    OBVIOUS
  <2>2. from \in Nat /\ many \in Nat
    <3>1. from \in Nat
      BY <1>9, <2>1, SizeTType
    <3> QED
      BY <1>9, <2>1, <3>1, SizeTType
  <2>3. PICK name : name = Substr(line, from, many)
    OBVIOUS
  <2>4. name \in Seq(Token)
    BY <1>8, <2>2, <2>3, SubstrType
  <2>5. Find(name, "?", 0) \in Nat
    <3>1. Len(name) \in Nat
      BY <2>4
    <3> QED
      BY <3>1, FindType
  <2>6. Substr(name, 0, Find(name, "?", 0)) \in Seq(Token)
    BY <2>4, <2>5, SubstrType
  <2>7. Index \in Seq(Token)
    BY Tokens, Singleton DEF Index
  <2> QED
    BY <2>1, <2>3, <2>6, <2>7 DEF FileOf
<1>12. CutLine(str, pos) \in Seq(Token)
  <2>1. PICK behind : behind = Plus(pos, 1)
    OBVIOUS
  <2>2. behind \in Nat
    BY <1>7, <2>1, SizeTType
  <2>3. From(str, behind) \in Seq(Token)
    BY <2>2, FromType
  <2> QED
    BY <2>1, <2>3 DEF CutLine
<1>13. /\ u.rest = CutLine(str, pos) /\ u.method = method
       /\ u.file = IF slash < 0 THEN Index ELSE FileOf(line, slash, space)
  BY <1>1, <1>2, <1>3, <1>4, <1>5, <1>6 DEF ParseURI
<1>14. /\ u.flag = "again" => pos < 0
       /\ pos < 0 \/ method = "none" => u.flag # "success"
  BY <1>1, <1>2, <1>3 DEF ParseURI
<1>15. u.flag \in {"again", "error", "success"}
  BY DEF ParseURI
<1>16. u.flag = "success" => method # "none"
  BY <1>14
<1>17. u.flag # "again"
  BY <1>7, <1>14
<1>18. u.file \in Seq(Token)
  BY <1>9, <1>11, <1>13
<1> QED
  BY <1>10, <1>12, <1>13, <1>15, <1>16, <1>17, <1>18

-----------------------------------------------------------------------------
(* The loop of parseHeaders.                                               *)

\* One turn, if the loop still goes on.
LoopTurn(str, p) == IF p.flag = "go" THEN HeaderStep(str, p) ELSE p

\* G holds the state of the loop after each of the first n turns.
Turns(G, str, p0, n) ==
  \A m \in 0..n : G[m] = IF m = 0 THEN p0 ELSE LoopTurn(str, G[m - 1])

\* Only one function is what HeaderLoop computes.
LEMMA TurnsUnique ==
  ASSUME NEW str, NEW p0, NEW n \in Nat, NEW F, NEW G,
         Turns(F, str, p0, n), Turns(G, str, p0, n)
  PROVE  F[n] = G[n]
<1> DEFINE T == {m \in Nat : m <= n => F[m] = G[m]}
<1>1. 0 \in T
  BY DEF Turns
<1>2. \A m \in Nat : m \in T => m + 1 \in T
  <2> SUFFICES ASSUME NEW m \in Nat, F[m] = G[m], m + 1 <= n PROVE F[m + 1] = G[m + 1]
    OBVIOUS
  <2>1. PICK k : k = m + 1
    OBVIOUS
  <2>2. k \in 0..n /\ k # 0 /\ k - 1 = m
    BY <2>1
  <2>3. F[k] = LoopTurn(str, F[k - 1]) /\ G[k] = LoopTurn(str, G[k - 1])
    BY <2>2 DEF Turns
  <2> QED
    BY <2>1, <2>2, <2>3
<1> HIDE DEF T
<1>3. Nat \subseteq T
  BY <1>1, <1>2, SetInduction
<1> QED
  BY <1>3 DEF T

\* G is that function.
TurnsOf(G, str, p0, n) ==
  G = [m \in 0..n |-> IF m = 0 THEN p0 ELSE LoopTurn(str, G[m - 1])]

\* For every number of turns there is such a function.
LEMMA TurnsExist ==
  ASSUME NEW str, NEW p0, NEW n \in Nat
  PROVE  \E G : TurnsOf(G, str, p0, n)
<1> DEFINE Is(G, k) == TurnsOf(G, str, p0, k)
           T == {k \in Nat : \E G : Is(G, k)}
<1> USE DEF TurnsOf
<1>1. 0 \in T
  <2>1. PICK G : G = [m \in 0..0 |-> p0]
    OBVIOUS
  <2>2. G = [m \in 0..0 |-> IF m = 0 THEN p0 ELSE LoopTurn(str, G[m - 1])]
    BY <2>1
  <2> QED
    BY <2>2
<1>2. \A k \in Nat : k \in T => k + 1 \in T
  <2> SUFFICES ASSUME NEW k \in Nat, NEW G, Is(G, k) PROVE \E H : Is(H, k + 1)
    OBVIOUS
  <2>1. PICK l : l = k + 1
    OBVIOUS
  <2>2. l \in Nat /\ l - 1 = k /\ l # 0
    BY <2>1
  <2>3. PICK H : H = [m \in 0..l |-> IF m = l THEN LoopTurn(str, G[k]) ELSE G[m]]
    OBVIOUS
  <2>4. ASSUME NEW m \in 0..l
        PROVE  H[m] = IF m = 0 THEN p0 ELSE LoopTurn(str, H[m - 1])
    <3>1. CASE m = l
      <4>1. m - 1 = k /\ k \in 0..l /\ k # l
        BY <2>2, <3>1
      <4>2. H[m] = LoopTurn(str, G[k]) /\ H[m - 1] = G[k]
        BY <2>3, <3>1, <4>1
      <4> QED
        BY <2>2, <3>1, <4>2
    <3>2. CASE m # l
      <4>1. m \in 0..k
        BY <2>2, <3>2
      <4>2. G[m] = IF m = 0 THEN p0 ELSE LoopTurn(str, G[m - 1])
        BY <4>1
      <4>3. H[m] = G[m]
        BY <2>3, <3>2
      <4>4. m # 0 => m - 1 \in 0..l /\ m - 1 # l /\ H[m - 1] = G[m - 1]
        BY <2>2, <2>3, <4>1
      <4> QED
        BY <4>2, <4>3, <4>4
    <3> QED
      BY <3>1, <3>2
  <2>5. H = [m \in 0..l |-> IF m = 0 THEN p0 ELSE LoopTurn(str, H[m - 1])]
    <3>1. H = [m \in 0..l |-> H[m]]
      BY <2>3
    <3> QED
      BY <2>4, <3>1
  <2> QED
    BY <2>1, <2>5
<1> HIDE DEF T
<1>3. Nat \subseteq T
  BY <1>1, <1>2, SetInduction
<1> QED
  BY <1>3 DEF T

\* What the loop computes, without recursion.
LEMMA LoopIs ==
  ASSUME NEW str, Len(str) \in Nat, NEW p0
  PROVE  \E G : Turns(G, str, p0, Len(str)) /\ HeaderLoop(str, p0) = G[Len(str)]
<1>1. PICK n \in Nat : n = Len(str)
  OBVIOUS
<1>2. PICK G : TurnsOf(G, str, p0, n)
  BY TurnsExist
<1> DEFINE C == CHOOSE f : f = [m \in 0..n |-> IF m = 0 THEN p0 ELSE LoopTurn(str, f[m - 1])]
<1>3. C = [m \in 0..n |-> IF m = 0 THEN p0 ELSE LoopTurn(str, C[m - 1])]
  BY <1>2 DEF TurnsOf
<1>4. HeaderLoop(str, p0) = C[n]
  BY <1>1 DEF HeaderLoop, LoopTurn
<1> HIDE DEF C
<1>5. Turns(C, str, p0, n)
  <2> SUFFICES ASSUME NEW m \in 0..n
               PROVE  C[m] = IF m = 0 THEN p0 ELSE LoopTurn(str, C[m - 1])
    BY DEF Turns
  <2> QED
    BY <1>3
<1> QED
  BY <1>1, <1>4, <1>5

\* The state of the loop.
Turn ==
  [i : Nat, h : HeaderStates, headers : SUBSET Header, ks : Int, ke : Int,
   vs : Int, ve : Int, begin : Nat, flag : {"go", "error", "stop"}]

\* The positions are behind the one the loop has come to.
TurnOK(p, n) ==
  p \in Turn /\ p.i <= n /\ p.ke <= p.i /\ p.ve <= p.i /\ p.begin <= p.i

\* SetHeader keeps the type of the headers.
LEMMA SetHeaderType ==
  ASSUME NEW headers \in SUBSET Header, NEW key \in Seq(Token), NEW value \in Seq(Token)
  PROVE  SetHeader(headers, key, value) \in SUBSET Header
BY DEF SetHeader, Header

\* A turn of parseHeaders keeps its places within what it has read.
LEMMA HeaderStepType ==
  ASSUME NEW str \in Seq(Token), NEW n \in 0..(Len(str) - 1), NEW p, TurnOK(p, n),
         NEW q, q = HeaderStep(str, p)
  PROVE  TurnOK(q, n + 1)
<1>1. PICK i : i = p.i
  OBVIOUS
<1>2. PICK t : t = str[i + 1]
  OBVIOUS
<1>3. p \in Turn /\ i \in Nat /\ i <= n /\ p.ke <= i /\ p.ve <= i /\ p.begin <= i
  BY <1>1 DEF TurnOK, Turn
<1>4. p.ke \in Int /\ p.ve \in Int /\ p.begin \in Nat /\ n \in Nat
  BY <1>3 DEF Turn
<1>5. PICK new : new = SetHeader(p.headers, Slice(str, p.ks, p.ke), Slice(str, p.vs, p.ve))
  OBVIOUS
<1>6. new \in SUBSET Header
  <2>1. /\ p.ks \in Int /\ p.ke \in Int /\ p.vs \in Int /\ p.ve \in Int
        /\ p.headers \in SUBSET Header
    BY <1>3 DEF Turn
  <2>2. p.ke <= Len(str) /\ p.ve <= Len(str)
    BY <1>3, <2>1
  <2>3. Slice(str, p.ks, p.ke) \in Seq(Token) /\ Slice(str, p.vs, p.ve) \in Seq(Token)
    BY <2>1, <2>2, SliceType
  <2> QED
    BY <1>5, <2>1, <2>3, SetHeaderType
<1>7. PICK r : r = [p EXCEPT !.i = i + 1]
  OBVIOUS
<1>8. /\ r \in Turn /\ r.i = i + 1 /\ r.ke = p.ke /\ r.ve = p.ve /\ r.begin = p.begin
      /\ r.headers = p.headers
  BY <1>3, <1>7, SMTT(40) DEF Turn
<1>9. TurnOK([p EXCEPT !.flag = "error"], n + 1)
  <2>1. PICK g : g = [p EXCEPT !.flag = "error"]
    OBVIOUS
  <2>2. /\ g \in Turn /\ g.i = i /\ g.ke = p.ke /\ g.ve = p.ve /\ g.begin = p.begin
    BY <1>1, <1>3, <2>1 DEF Turn
  <2> QED
    BY <1>3, <1>4, <2>1, <2>2 DEF TurnOK
<1>10. TurnOK(r, n + 1)
  BY <1>3, <1>8, <1>4 DEF TurnOK
<1>11. \A h \in HeaderStates :
         LET g == [r EXCEPT !.h = h]
         IN /\ g \in Turn /\ g.i = i + 1 /\ g.ke = p.ke /\ g.ve = p.ve
            /\ g.begin = p.begin /\ g.headers = p.headers
  BY <1>8 DEF Turn
<1> DEFINE Go(h) == [r EXCEPT !.h = h]
           Error == [p EXCEPT !.flag = "error"]
<1>12. \A h \in HeaderStates : TurnOK(Go(h), n + 1)
  <2> SUFFICES ASSUME NEW h \in HeaderStates PROVE TurnOK(Go(h), n + 1)
    OBVIOUS
  <2>1. PICK g : g = Go(h)
    OBVIOUS
  <2>2. /\ g \in Turn /\ g.i = i + 1 /\ g.ke = p.ke /\ g.ve = p.ve
        /\ g.begin = p.begin /\ g.headers = p.headers
    BY <1>11, <2>1
  <2> QED
    BY <1>3, <1>4, <2>1, <2>2 DEF TurnOK
<1>13. ASSUME NEW g \in Turn, TurnOK(g, n + 1), g.i = i + 1
       PROVE  /\ TurnOK([g EXCEPT !.ks = i, !.begin = i], n + 1)
              /\ TurnOK([g EXCEPT !.ks = i], n + 1)
              /\ TurnOK([g EXCEPT !.ke = i], n + 1)
              /\ TurnOK([g EXCEPT !.vs = i], n + 1)
              /\ TurnOK([g EXCEPT !.ve = i], n + 1)
              /\ TurnOK([g EXCEPT !.begin = i, !.headers = new], n + 1)
              /\ TurnOK([g EXCEPT !.flag = "stop", !.ks = i, !.begin = i], n + 1)
  <2>1. /\ g.i <= n + 1 /\ g.ke <= g.i /\ g.ve <= g.i /\ g.begin <= g.i /\ i <= i + 1
        /\ i \in Int
    BY <1>3, <1>13 DEF TurnOK
  <2>2. TurnOK([g EXCEPT !.ks = i, !.begin = i], n + 1)
    BY <1>13, <1>3, <2>1 DEF TurnOK, Turn
  <2>3. TurnOK([g EXCEPT !.ks = i], n + 1)
    BY <1>13, <1>3, <2>1 DEF TurnOK, Turn
  <2>4. TurnOK([g EXCEPT !.ke = i], n + 1)
    BY <1>13, <1>3, <2>1 DEF TurnOK, Turn
  <2>5. TurnOK([g EXCEPT !.vs = i], n + 1)
    BY <1>13, <1>3, <2>1 DEF TurnOK, Turn
  <2>6. TurnOK([g EXCEPT !.ve = i], n + 1)
    BY <1>13, <1>3, <2>1 DEF TurnOK, Turn
  <2>7. TurnOK([g EXCEPT !.begin = i, !.headers = new], n + 1)
    BY <1>13, <1>3, <1>6, <2>1 DEF TurnOK, Turn
  <2>8. TurnOK([g EXCEPT !.flag = "stop", !.ks = i, !.begin = i], n + 1)
    BY <1>13, <1>3, <2>1 DEF TurnOK, Turn
  <2> QED
    BY <2>2, <2>3, <2>4, <2>5, <2>6, <2>7, <2>8
<1>14. p.h = "start" => q = IF t \in {CR, LF} THEN r ELSE [Go("key") EXCEPT !.ks = i, !.begin = i]
  BY <1>1, <1>2, <1>5, <1>7 DEF HeaderStep
<1>15. p.h = "key" => q = IF t = ":" THEN IF i - p.ks <= 0 THEN Error ELSE [Go("colon") EXCEPT !.ke = i]
                         ELSE IF t \in {CR, LF} THEN Error ELSE r
  BY <1>1, <1>2, <1>5, <1>7 DEF HeaderStep
<1>16. p.h = "colon" => q = IF t = " " THEN Go("spaces") ELSE Error
  BY <1>1, <1>2, <1>5, <1>7 DEF HeaderStep
<1>17. p.h = "spaces" => q = [Go("value") EXCEPT !.vs = i]
  BY <1>1, <1>2, <1>5, <1>7 DEF HeaderStep
<1>18. p.h = "value" => q = IF t = CR THEN IF i - p.vs <= 0 THEN Error ELSE [Go("cr") EXCEPT !.ve = i]
                         ELSE IF i - p.vs > MaxValue THEN Error ELSE r
  BY <1>1, <1>2, <1>5, <1>7 DEF HeaderStep
<1>19. p.h = "cr" => q = IF t = LF THEN [Go("lf") EXCEPT !.begin = i, !.headers = new] ELSE Error
  BY <1>1, <1>2, <1>5, <1>7 DEF HeaderStep
<1>20. p.h = "lf" => q = IF t = CR THEN Go("end_cr") ELSE [Go("key") EXCEPT !.ks = i]
  BY <1>1, <1>2, <1>5, <1>7 DEF HeaderStep
<1>21. p.h = "end_cr" => q = IF t = LF THEN Go("end_lf") ELSE Error
  BY <1>1, <1>2, <1>5, <1>7 DEF HeaderStep
<1>22. p.h = "end_lf" => q = [r EXCEPT !.flag = "stop", !.ks = i, !.begin = i]
  BY <1>1, <1>2, <1>5, <1>7 DEF HeaderStep
<1>23. {"key", "colon", "spaces", "value", "cr", "lf", "end_cr", "end_lf"} \subseteq HeaderStates
  BY DEF HeaderStates
<1>24. \A h \in HeaderStates : /\ Go(h) \in Turn /\ TurnOK(Go(h), n + 1) /\ Go(h).i = i + 1
  BY <1>11, <1>12
<1> HIDE DEF Go, Error
<1>25. CASE p.h = "start"
  BY <1>10, <1>13, <1>23, <1>14, <1>24, <1>25
<1>26. CASE p.h = "key"
  BY <1>9, <1>10, <1>13, <1>23, <1>15, <1>24, <1>26 DEF Error
<1>27. CASE p.h = "colon"
  BY <1>9, <1>23, <1>16, <1>24, <1>27 DEF Error
<1>28. CASE p.h = "spaces"
  BY <1>13, <1>23, <1>17, <1>24, <1>28
<1>29. CASE p.h = "value"
  BY <1>9, <1>10, <1>13, <1>23, <1>18, <1>24, <1>29 DEF Error
<1>30. CASE p.h = "cr"
  BY <1>9, <1>13, <1>23, <1>19, <1>24, <1>30 DEF Error
<1>31. CASE p.h = "lf"
  BY <1>13, <1>23, <1>20, <1>24, <1>31
<1>32. CASE p.h = "end_cr"
  BY <1>9, <1>23, <1>21, <1>24, <1>32 DEF Error
<1>33. CASE p.h = "end_lf"
  BY <1>8, <1>10, <1>13, <1>22, <1>33
<1>34. p.h \in HeaderStates
  BY <1>3 DEF Turn
<1> QED
  BY <1>25, <1>26, <1>27, <1>28, <1>29, <1>30, <1>31, <1>32, <1>33, <1>34 DEF HeaderStates

\* The loop keeps its shape for as many turns as it takes.
LEMMA HeaderLoopType ==
  ASSUME NEW str \in Seq(Token), NEW p0, TurnOK(p0, 0)
  PROVE  HeaderLoop(str, p0) \in Turn
<1>1. Len(str) \in Nat
  OBVIOUS
<1>2. PICK G : Turns(G, str, p0, Len(str)) /\ HeaderLoop(str, p0) = G[Len(str)]
  BY <1>1, LoopIs
<1> DEFINE T == {m \in Nat : m <= Len(str) => TurnOK(G[m], m)}
<1>3. 0 \in T
  BY <1>1, <1>2 DEF Turns
<1>4. \A m \in Nat : m \in T => m + 1 \in T
  <2> SUFFICES ASSUME NEW m \in Nat, TurnOK(G[m], m), m + 1 <= Len(str)
               PROVE  TurnOK(G[m + 1], m + 1)
    OBVIOUS
  <2>1. PICK k : k = m + 1
    OBVIOUS
  <2>2. k \in 0..Len(str) /\ k # 0 /\ k - 1 = m /\ m \in 0..(Len(str) - 1)
    BY <1>1, <2>1
  <2>3. G[k] = LoopTurn(str, G[m])
    BY <1>2, <2>2 DEF Turns
  <2>4. CASE G[m].flag = "go"
    BY <2>1, <2>2, <2>3, <2>4, HeaderStepType DEF LoopTurn
  <2>5. CASE G[m].flag # "go"
    <3>1. G[k] = G[m]
      BY <2>3, <2>5 DEF LoopTurn
    <3>2. TurnOK(G[m], m + 1)
      BY SMTT(40) DEF TurnOK, Turn
    <3> QED
      BY <2>1, <3>1, <3>2
  <2> QED
    BY <2>4, <2>5
<1> HIDE DEF T
<1>5. Nat \subseteq T
  BY <1>3, <1>4, SetInduction
<1> QED
  BY <1>1, <1>2, <1>5 DEF T, TurnOK

\* What parseHeaders leaves.
LEMMA ParseHeadersType ==
  ASSUME NEW str \in Seq(Token), NEW h \in HeaderStates, NEW headers \in SUBSET Header,
         NEW p, p = ParseHeaders(str, h, headers)
  PROVE  /\ p.flag \in {"again", "error", "success"}
         /\ p.rest \in Seq(Token) /\ p.h \in HeaderStates /\ p.headers \in SUBSET Header
<1>1. PICK p0 : p0 = [i |-> 0, h |-> h, headers |-> headers, ks |-> -1, ke |-> -1,
                      vs |-> -1, ve |-> -1, begin |-> 0, flag |-> "go"]
  OBVIOUS
<1>2. PICK q : q = HeaderLoop(str, p0)
  OBVIOUS
<1>3. TurnOK(p0, 0)
  BY <1>1 DEF TurnOK, Turn
<1>4. q \in Turn
  BY <1>2, <1>3, HeaderLoopType
<1>5. q.i \in Nat /\ q.begin \in Nat /\ q.h \in HeaderStates /\ q.headers \in SUBSET Header
  BY <1>4 DEF Turn
<1>6. From(str, q.i) \in Seq(Token) /\ From(str, q.begin) \in Seq(Token)
  BY <1>5, FromType
<1>7. /\ p.flag \in {"again", "error", "success"}
      /\ p.rest \in {str, From(str, q.i), From(str, q.begin)}
      /\ p.h = q.h /\ p.headers = q.headers
  BY <1>1, <1>2 DEF ParseHeaders
<1> QED
  BY <1>5, <1>6, <1>7

-----------------------------------------------------------------------------
(* The phases of handleRead.                                               *)

\* What is left after an error.
LEMMA FailType ==
  ASSUME NEW s \in Data, NEW reply \in Kind
  PROVE  Fail(s, reply) \in Data /\ Fail(s, reply).error /\ Fail(s, reply).fin = s.fin
BY DEF Fail, Data

\* After the request line, an error or the headers are next.
LEMMA UriPhaseType ==
  ASSUME NEW s \in Data, NEW t, t = UriPhase(s)
  PROVE  t \in Data /\ t.fin = s.fin /\ (t.error \/ t.state # "uri" \/ s.error)
<1>1. PICK u : u = ParseURI(s.inBuffer)
  OBVIOUS
<1>2. s.inBuffer \in Seq(Token)
  BY DEF Data
<1>3. /\ u.flag \in {"error", "success"} /\ u.rest \in Seq(Token)
      /\ u.flag = "success" => u.method \in Method /\ u.file \in Seq(Token)
  BY <1>1, <1>2, ParseURIType
<1>4. CASE s.state # "uri"
  BY <1>4 DEF UriPhase
<1>5. CASE s.state = "uri" /\ u.flag = "error"
  <2>1. PICK f : f = Fail(s, "400")
    OBVIOUS
  <2>2. t = [f EXCEPT !.inBuffer = <<>>]
    BY <1>1, <1>5, <2>1 DEF UriPhase
  <2>3. f \in Data /\ f.error /\ f.fin = s.fin
    BY <2>1, FailType DEF Kind
  <2>4. <<>> \in Seq(Token)
    OBVIOUS
  <2>5. f \in Data => t \in Data /\ t.error = f.error /\ t.fin = f.fin
    BY <2>2, <2>4 DEF Data
  <2> QED
    BY <2>3, <2>5
<1>6. CASE s.state = "uri" /\ u.flag = "success"
  <2>1. t = [s EXCEPT !.state = "headers", !.inBuffer = u.rest,
                      !.method = u.method, !.file = u.file]
    BY <1>1, <1>6 DEF UriPhase
  <2> QED
    BY <1>3, <1>6, <2>1 DEF Data
<1> QED
  BY <1>3, <1>4, <1>5, <1>6

\* After the headers: the body, the analysis or an error, not a new request.
LEMMA HeaderPhaseType ==
  ASSUME NEW s \in Data, NEW t, t = HeaderPhase(s)
  PROVE  t \in Data /\ t.fin = s.fin /\ (t.error \/ t.state # "uri" \/ s.state = "uri")
<1>1. PICK p : p = ParseHeaders(s.inBuffer, s.hState, s.headers)
  OBVIOUS
<1>2. s.inBuffer \in Seq(Token) /\ s.hState \in HeaderStates /\ s.headers \in SUBSET Header
  BY DEF Data
<1>3. /\ p.flag \in {"again", "error", "success"}
      /\ p.rest \in Seq(Token) /\ p.h \in HeaderStates /\ p.headers \in SUBSET Header
  BY <1>1, <1>2, ParseHeadersType
<1>4. PICK left : left = [s EXCEPT !.inBuffer = p.rest, !.hState = p.h, !.headers = p.headers]
  OBVIOUS
<1>5. left \in Data /\ left.fin = s.fin /\ left.state = s.state
  BY <1>3, <1>4 DEF Data
<1>6. CASE s.error \/ s.state # "headers"
  BY <1>6 DEF HeaderPhase
<1>7. CASE ~s.error /\ s.state = "headers" /\ p.flag = "error"
  <2>1. t = Fail(left, "400")
    BY <1>1, <1>4, <1>7 DEF HeaderPhase
  <2> QED
    BY <1>5, <2>1, FailType DEF Kind
<1>8. CASE ~s.error /\ s.state = "headers" /\ p.flag = "again"
  <2>1. t = left
    BY <1>1, <1>4, <1>8 DEF HeaderPhase
  <2> QED
    BY <1>5, <1>8, <2>1
<1>9. CASE ~s.error /\ s.state = "headers" /\ p.flag = "success"
  <2>1. t = [left EXCEPT !.state = IF s.method = "POST" THEN "body" ELSE "analysis"]
    BY <1>1, <1>4, <1>9 DEF HeaderPhase
  <2> QED
    BY <1>5, <2>1 DEF Data
<1> QED
  BY <1>3, <1>6, <1>7, <1>8, <1>9

\* After the body comes the analysis, or an error.
LEMMA BodyPhaseType ==
  ASSUME NEW s \in Data, NEW t, t = BodyPhase(s)
  PROVE  t \in Data /\ t.fin = s.fin /\ (t.error \/ t.state # "uri" \/ s.state = "uri")
<1>1. t \in {s, Fail(s, "400"), [s EXCEPT !.state = "analysis"]}
  BY DEF BodyPhase
<1>2. CASE t = s
  BY <1>2
<1>3. CASE t = Fail(s, "400")
  BY <1>3, FailType DEF Kind
<1>4. CASE t = [s EXCEPT !.state = "analysis"]
  BY <1>4 DEF Data
<1> QED
  BY <1>1, <1>2, <1>3, <1>4

\* A response is made of pieces.
LEMMA ReplyType ==
  ASSUME NEW method, NEW file \in Seq(Token), NEW keep \in BOOLEAN
  PROVE  Reply(method, file, keep) \in Seq(Piece)
<1>1. <<"hello">> \in Seq(Token)
  BY Tokens, Singleton
<1>2. Hello \in Piece /\ OkHead(file, keep) \in Piece /\ Body(file) \in Piece
  BY <1>1 DEF Hello, OkHead, Body, Piece, Kind
<1>3. <<Hello>> \in Seq(Piece) /\ <<OkHead(file, keep)>> \in Seq(Piece)
  BY <1>2, Singleton
<1>4. <<OkHead(file, keep), Body(file)>> \in Seq(Piece)
  BY <1>2
<1> QED
  BY <1>3, <1>4 DEF Reply

\* After the analysis the request is finished, or refused.
LEMMA AnalysisPhaseType ==
  ASSUME NEW s \in Data, NEW t, t = AnalysisPhase(s)
  PROVE  t \in Data /\ t.fin = s.fin /\ (t.error \/ t.state # "uri" \/ s.state = "uri")
<1>1. PICK asked : asked = Asked(s.headers)
  OBVIOUS
<1>2. PICK kept : kept = [s EXCEPT !.keepAlive = @ \/ asked]
  OBVIOUS
<1>3. PICK reply : reply = Reply(s.method, s.file, asked)
  OBVIOUS
<1>4. asked \in BOOLEAN
  BY <1>1 DEF Asked
<1>5. kept \in Data /\ kept.fin = s.fin
  BY <1>2 DEF Data
<1>6. reply \in Seq(Piece)
  <2>1. s.file \in Seq(Token)
    BY DEF Data
  <2> QED
    BY <1>3, <1>4, <2>1, ReplyType
<1>7. \A k \in {"none", "404"} :
        /\ Fail(s, k) \in Data /\ Fail(s, k).error /\ Fail(s, k).fin = s.fin
        /\ Fail(kept, k) \in Data /\ Fail(kept, k).error /\ Fail(kept, k).fin = s.fin
  BY <1>5, FailType DEF Kind
<1>8. CASE s.error \/ s.state # "analysis"
  BY <1>8 DEF AnalysisPhase
<1>9. CASE t \in {Fail(s, "none"), Fail(kept, "404")}
  BY <1>7, <1>9
<1>10. CASE t = [Fail(kept, "404") EXCEPT !.out = <<>>]
  <2>1. PICK f : f = Fail(kept, "404")
    OBVIOUS
  <2>2. f \in Data /\ f.error /\ f.fin = s.fin
    BY <1>7, <2>1
  <2>3. <<>> \in Seq(Piece)
    OBVIOUS
  <2>4. f \in Data => t \in Data /\ t.error = f.error /\ t.fin = f.fin
    BY <1>10, <2>1, <2>3 DEF Data
  <2> QED
    BY <2>2, <2>4
<1>11. CASE t \in {[kept EXCEPT !.state = "finish", !.out = reply],
                   [kept EXCEPT !.state = "finish", !.out = @ \o reply]}
  <2>1. kept.out \in Seq(Piece)
    BY <1>5 DEF Data
  <2>2. PICK all : all = kept.out \o reply
    OBVIOUS
  <2>3. all \in Seq(Piece)
    BY <1>6, <2>1, <2>2
  <2>4. t = [kept EXCEPT !.state = "finish", !.out = reply]
          \/ t = [kept EXCEPT !.state = "finish", !.out = all]
    BY <1>11, <2>2
  <2> QED
    BY <1>5, <1>6, <2>3, <2>4, ZenonT(40) DEF Data
<1>12. \/ s.error \/ s.state # "analysis"
       \/ t \in {Fail(s, "none"), Fail(kept, "404"), [Fail(kept, "404") EXCEPT !.out = <<>>],
                 [kept EXCEPT !.state = "finish", !.out = reply],
                 [kept EXCEPT !.state = "finish", !.out = @ \o reply]}
  BY <1>1, <1>2, <1>3 DEF AnalysisPhase
<1> QED
  BY <1>8, <1>9, <1>10, <1>11, <1>12

\* An error is left as it is by the phases that follow.
LEMMA ErrorStays ==
  ASSUME NEW s, s.error
  PROVE  HeaderPhase(s) = s /\ BodyPhase(s) = s /\ AnalysisPhase(s) = s
BY DEF HeaderPhase, BodyPhase, AnalysisPhase

\* handleRead never leaves a connection waiting for the request line it has
\* just looked at: the line was taken or refused.
LEMMA ParsedType ==
  ASSUME NEW s \in Data, ~s.error
  PROVE  /\ Parsed(s) \in Data /\ Parsed(s).fin = s.fin
         /\ Parsed(s).error \/ Parsed(s).state # "uri"
<1>1. PICK u : u = UriPhase(s)
  OBVIOUS
<1>2. PICK h : h = HeaderPhase(u)
  OBVIOUS
<1>3. PICK b : b = BodyPhase(h)
  OBVIOUS
<1>4. PICK t : t = AnalysisPhase(b)
  OBVIOUS
<1>5. u \in Data /\ u.fin = s.fin /\ (u.error \/ u.state # "uri")
  BY <1>1, UriPhaseType
<1>6. h \in Data /\ h.fin = s.fin /\ (h.error \/ h.state # "uri")
  BY <1>2, <1>5, HeaderPhaseType, ErrorStays
<1>7. b \in Data /\ b.fin = s.fin /\ (b.error \/ b.state # "uri")
  BY <1>3, <1>6, BodyPhaseType, ErrorStays
<1>8. t \in Data /\ t.fin = s.fin /\ (t.error \/ t.state # "uri")
  BY <1>4, <1>7, AnalysisPhaseType, ErrorStays
<1>9. t = Parsed(s)
  BY <1>1, <1>2, <1>3, <1>4 DEF Parsed
<1> QED
  BY <1>8, <1>9

-----------------------------------------------------------------------------
(* The steps.                                                              *)

\* What the client sends is a sequence of tokens.
LEMMA StreamKnown == Typed => Stream \in Seq(Token) /\ Len(Stream) \in Nat
<1> SUFFICES ASSUME Typed PROVE Stream \in Seq(Token) /\ Len(Stream) \in Nat
  OBVIOUS
<1>1. PICK n \in 1..MaxRequests : reqs \in [1..n -> Request]
  BY DEF Typed
<1>2. n \in Nat
  BY <1>1, Requests
<1>3. Stream \in Seq(Token)
  BY <1>1, <1>2, StreamType
<1> QED
  BY <1>3

\* A new connection.
LEMMA InitTyped == Init => Typed /\ Fresh
<1> SUFFICES ASSUME Init PROVE Typed /\ Fresh
  OBVIOUS
<1>1. \E n \in 1..MaxRequests : reqs \in [1..n -> Request]
  BY DEF Init
<1>2. PICK n \in 1..MaxRequests : reqs \in [1..n -> Request]
  BY <1>1
<1>3. n \in Nat
  BY <1>2, Requests
<1>4. taken \in 0..Len(Stream)
  <2>1. Stream \in Seq(Token)
    BY <1>2, <1>3, StreamType
  <2>2. Len(Stream) \in Nat
    BY <2>1
  <2> QED
    BY <2>2 DEF Init
<1>5. <<>> \in Seq(Token) /\ <<>> \in Seq(Piece) /\ {} \in SUBSET Header
  OBVIOUS
<1>6. d \in Data
  BY <1>5 DEF Init, Data, Method, HeaderStates, Kind
<1>7. pc = "wait" /\ d.error = FALSE
  BY DEF Init
<1>8. d.inBuffer = <<>> /\ FreshData(d)
  BY DEF Init, FreshData
<1> QED
  BY <1>1, <1>4, <1>6, <1>7, <1>8 DEF Typed, Fresh

\* What writing leaves.
LEMMA WriteSomeType ==
  ASSUME NEW s \in Data, NEW n \in 0..Len(s.out), WriteSome(s, n)
  PROVE  /\ d' \in Data /\ d'.error = s.error /\ d'.state = s.state /\ d'.fin = s.fin
         /\ d'.inBuffer = s.inBuffer /\ d'.hState = s.hState /\ d'.headers = s.headers
         /\ d'.file = s.file
<1>1. s.out \in Seq(Piece)
  BY DEF Data
<1>2. PICK out : out = SubSeq(s.out, n + 1, Len(s.out))
  OBVIOUS
<1>3. out \in Seq(Piece)
  BY <1>1, <1>2
<1>4. d' = [s EXCEPT !.out = out]
  BY <1>2 DEF WriteSome
<1> QED
  BY <1>3, <1>4 DEF Data

\* A write that fails closes the connection.
LEMMA WriteFailsType ==
  ASSUME NEW s \in Data, WriteFails(s)
  PROVE  d' \in Data /\ d'.error /\ pc' = "closed"
BY DEF WriteFails, Data

\* reset leaves a fresh parser.
LEMMA ClearedType ==
  ASSUME NEW s \in Data, NEW t, t = Cleared(s)
  PROVE  /\ t \in Data /\ FreshData(t) /\ t.state = "uri" /\ t.error = s.error /\ t.fin = s.fin
         /\ t.inBuffer = s.inBuffer
<1>1. <<>> \in Seq(Token) /\ {} \in SUBSET Header
  OBVIOUS
<1>2. t = [s EXCEPT !.file = <<>>, !.state = "uri", !.hState = "start", !.headers = {}]
  BY DEF Cleared
<1> QED
  BY <1>1, <1>2, ZenonT(40) DEF Data, FreshData, HeaderStates

\* What the end of handleRead keeps: s is what the phases have made of the read.
Kept == d' \in Data /\ (d'.error => pc' = "closed") /\ pc' \in {"wait", "again", "closed"}

\* A request that is refused.
LEMMA RefuseType ==
  ASSUME NEW s \in Data, Refuse(s)
  PROVE  Kept /\ Fresh'
BY DEF Refuse, Kept, Fresh

\* A request that is not complete.
LEMMA AwaitType ==
  ASSUME NEW s \in Data, Await(s), FreshData(s), s.fin \/ s.state # "uri"
  PROVE  Kept /\ Fresh'
<1>1. ASSUME NEW n \in 0..Len(s.out), WriteSome(s, n), pc' = Settled(d')
      PROVE  Kept /\ Fresh'
  <2>1. /\ d' \in Data /\ ~d'.error /\ d'.state = s.state /\ d'.fin = s.fin
        /\ d'.hState = s.hState /\ d'.headers = s.headers /\ d'.file = s.file
    BY <1>1, WriteSomeType DEF Await
  <2>2. pc' \in {"closed", "wait"}
    BY <1>1 DEF Settled
  <2>3. FreshData(d')
    BY <2>1 DEF FreshData
  <2> QED
    BY <2>1, <2>2, <2>3 DEF Kept, Fresh
<1>2. CASE WriteFails(s)
  BY <1>2, WriteFailsType DEF Kept, Fresh
<1> QED
  BY <1>1, <1>2 DEF Await

\* A request that is answered.
LEMMA AnswerType ==
  ASSUME NEW s \in Data, Answer(s)
  PROVE  Kept /\ Fresh'
<1>1. ASSUME NEW n \in 0..Len(s.out), WriteSome(Cleared(s), n),
             pc' = IF s.inBuffer # <<>> /\ ~s.fin THEN "again" ELSE Settled(d')
      PROVE  Kept /\ Fresh'
  <2>1. PICK t : t = Cleared(s)
    OBVIOUS
  <2>2. /\ t \in Data /\ FreshData(t) /\ t.state = "uri" /\ t.error = s.error
        /\ t.fin = s.fin /\ t.inBuffer = s.inBuffer
    BY <2>1, ClearedType
  <2>3. t.out = s.out
    BY <2>1 DEF Cleared, Data
  <2>4. /\ d' \in Data /\ d'.error = t.error /\ d'.state = "uri" /\ d'.fin = t.fin
        /\ d'.inBuffer = t.inBuffer
        /\ d'.hState = t.hState /\ d'.headers = t.headers /\ d'.file = t.file
    BY <1>1, <2>1, <2>2, <2>3, WriteSomeType
  <2>5. ~s.error
    BY DEF Answer
  <2>6. FreshData(d')
    BY <2>2, <2>4 DEF FreshData
  <2>7. pc' \in {"wait", "again", "closed"} /\ (pc' = "again" => ~s.fin)
    BY <1>1 DEF Settled
  <2>8. pc' = "wait" => s.fin \/ s.inBuffer = <<>>
    BY <1>1
  <2> QED
    BY <2>2, <2>4, <2>5, <2>6, <2>7, <2>8 DEF Kept, Fresh
<1>2. CASE WriteFails(s)
  BY <1>2, WriteFailsType DEF Kept, Fresh
<1> QED
  BY <1>1, <1>2 DEF Answer

\* A read: what the phases are given, and what they leave.
LEMMA HandleReadType ==
  ASSUME Typed, Fresh, pc # "closed", NEW upto \in Available, NEW fin \in BOOLEAN,
         HandleRead(upto, fin)
  PROVE  Typed' /\ Fresh'
<1>1. /\ Stream \in Seq(Token) /\ Len(Stream) \in Nat /\ taken \in 0..Len(Stream)
      /\ d \in Data /\ ~d.error
  BY StreamKnown DEF Typed
<1>2. upto \in taken..Len(Stream)
  BY DEF Available
<1>3. PICK s : s = [d EXCEPT !.inBuffer = @ \o SubSeq(Stream, taken + 1, upto), !.fin = fin]
  OBVIOUS
<1>4. /\ s \in Data /\ s.fin = fin /\ s.error = d.error /\ s.state = d.state
      /\ s.hState = d.hState /\ s.headers = d.headers /\ s.file = d.file
  <2>1. SubSeq(Stream, taken + 1, upto) \in Seq(Token)
    BY <1>1, <1>2
  <2>2. d.inBuffer \in Seq(Token)
    BY <1>1 DEF Data
  <2>3. PICK buf : buf = d.inBuffer \o SubSeq(Stream, taken + 1, upto)
    OBVIOUS
  <2>4. buf \in Seq(Token)
    BY <2>1, <2>2, <2>3
  <2>5. s = [d EXCEPT !.inBuffer = buf, !.fin = fin]
    BY <1>3, <2>3
  <2> QED
    BY <1>1, <2>4, <2>5 DEF Data
<1>5. PICK p : p = IF fin /\ upto = taken THEN s ELSE Parsed(s)
  OBVIOUS
<1>6. p \in Data /\ (p.error \/ FreshData(p)) /\ (p.error \/ p.fin \/ p.state # "uri")
  <2>1. CASE fin /\ upto = taken
    <3>1. FreshData(s)
      BY <1>4 DEF Fresh, FreshData
    <3> QED
      BY <1>4, <1>5, <2>1, <3>1
  <2>2. CASE ~(fin /\ upto = taken)
    <3>1. p = Parsed(s)
      BY <1>5, <2>2
    <3>2. ~s.error
      BY <1>1, <1>4
    <3> QED
      BY <1>4, <3>1, <3>2, ParsedType DEF FreshData
  <2> QED
    BY <2>1, <2>2
<1>7. Refuse(p) \/ Await(p) \/ Answer(p)
  BY <1>3, <1>5 DEF HandleRead
<1>8. Kept /\ Fresh'
  <2>1. CASE Refuse(p)
    BY <1>6, <2>1, RefuseType
  <2>2. CASE Await(p)
    <3>1. ~p.error
      BY <2>2 DEF Await
    <3> QED
      BY <1>6, <2>2, <3>1, AwaitType
  <2>3. CASE Answer(p)
    BY <1>6, <2>3, AnswerType
  <2> QED
    BY <1>7, <2>1, <2>2, <2>3
<1>9. taken' = upto /\ reqs' = reqs
  BY DEF HandleRead
<1>10. taken' \in 0..Len(Stream) /\ Stream' = Stream
  BY <1>1, <1>2, <1>9 DEF Stream
<1> QED
  BY <1>8, <1>9, <1>10 DEF Typed, Kept

\* No step leaves the parser with anything of the last request.
LEMMA TypedStep == Typed /\ Fresh /\ [Next]_vars => Typed' /\ Fresh'
<1> SUFFICES ASSUME Typed, Fresh, [Next]_vars PROVE Typed' /\ Fresh'
  OBVIOUS
<1>1. CASE ReadEvent
  <2>1. PICK upto \in Available, fin \in BOOLEAN : HandleRead(upto, fin)
    BY <1>1 DEF ReadEvent
  <2>2. pc # "closed"
    BY <1>1 DEF ReadEvent
  <2> QED
    BY <2>1, <2>2, HandleReadType
<1>2. CASE ReadAgain
  <2>1. PICK upto \in Available, fin \in BOOLEAN : HandleRead(upto, fin)
    BY <1>2 DEF ReadAgain
  <2>2. pc # "closed"
    BY <1>2 DEF ReadAgain
  <2> QED
    BY <2>1, <2>2, HandleReadType
<1>3. CASE WriteEvent
  <2>1. reqs' = reqs /\ taken' = taken /\ Stream' = Stream /\ pc = "wait"
    BY <1>3 DEF WriteEvent, Stream
  <2>2. ASSUME NEW n \in 1..Len(d.out), WriteSome(d, n), pc' = Settled(d')
        PROVE  Kept /\ Fresh'
    <3>1. d \in Data /\ n \in 0..Len(d.out)
      BY DEF Typed
    <3>2. /\ d' \in Data /\ d'.error = d.error /\ d'.state = d.state /\ d'.fin = d.fin
          /\ d'.inBuffer = d.inBuffer /\ d'.hState = d.hState /\ d'.headers = d.headers
          /\ d'.file = d.file
      BY <2>2, <3>1, WriteSomeType
    <3>3. pc' \in {"wait", "closed"} /\ (d'.error => pc' = "closed")
      BY <2>2 DEF Settled
    <3>4. FreshData(d')
      BY <2>1, <3>2 DEF Fresh, FreshData
    <3> QED
      BY <2>1, <3>2, <3>3, <3>4 DEF Kept, Fresh
  <2>3. WriteFails(d) => Kept /\ Fresh'
    BY WriteFailsType DEF Kept, Fresh, Typed
  <2>4. Kept /\ Fresh'
    BY <1>3, <2>2, <2>3 DEF WriteEvent
  <2> QED
    BY <2>1, <2>4 DEF Typed, Kept
<1>4. CASE UNCHANGED vars
  <2>1. Stream' = Stream
    BY <1>4 DEF vars, Stream
  <2> QED
    BY <1>4, <2>1 DEF vars, Typed, Fresh
<1>5. Done => UNCHANGED vars
  BY DEF Done
<1> QED
  BY <1>1, <1>2, <1>3, <1>4, <1>5 DEF Next

\* Every state the handlers leave has its shape: the states of the two parsers
\* are among those declared, and an error closes the connection.
THEOREM TypeCorrect == Spec => []TypeOK
<1>1. Typed => TypeOK
  BY DEF Typed, TypeOK, Data, Method
<1> QED
  BY <1>1, InitTyped, TypedStep, PTL DEF Spec

\* A new request meets a fresh parser, however the stream is cut and whenever
\* the socket takes the responses (HttpData.cpp:75-89, 192-198).
THEOREM ParserStartsFresh == Spec => []FreshStart
<1>1. Typed /\ Fresh => FreshStart
  BY DEF Typed, Fresh, FreshData, FreshStart
<1> QED
  BY <1>1, InitTyped, TypedStep, PTL DEF Spec

-----------------------------------------------------------------------------
(* Where the tokens of a request are.  Places count from 0, as positions in*)
(* a std::string do: a request begins at A, its headers at K, and there are*)
(* n of them.                                                              *)

\* The blank, under a name of its own.
SP == " "

\* The token at place x of the stream S.
Tok(S, x) == S[x + 1]

\* Where the j-th header begins.
Key(K, j) == K + 6 * (j - 1)

\* From x on, no colon comes before the line ends: an error, if it is a name.
NoColon(S, x) ==
  \A z \in x..(Len(S) - 1) :
    Tok(S, z) = ":" => \E w \in x..(z - 1) : Tok(S, w) \in {CR, LF}

\* A header line begins at k: name, colon, blank, value, CR, LF.
HeaderAt(S, k) ==
  /\ Tok(S, k) \notin {CR, LF, ":", SP} /\ Tok(S, k + 1) = ":" /\ Tok(S, k + 2) = SP
  /\ Tok(S, k + 3) \notin {CR, LF, ":", SP} /\ Tok(S, k + 4) = CR /\ Tok(S, k + 5) = LF

\* The stream S has a request from A on, as far as parseHeaders can tell.
Grid(S, A, K, n) ==
  /\ \A z \in A..(K - 3) : Tok(S, z) \notin {CR, LF, ":"}
  /\ Tok(S, K - 2) = CR /\ Tok(S, K - 1) = LF
  /\ \A j \in 1..n : HeaderAt(S, Key(K, j))
  /\ Tok(S, K + 6 * n) = CR /\ Tok(S, K + 6 * n + 1) = LF
  /\ K + 6 * n + 2 <= Len(S)
  /\ n = 0 => \/ K + 2 >= Len(S)
              \/ Tok(S, K + 2) \notin {CR, LF} /\ NoColon(S, K + 2) /\ NoColon(S, K + 3)

\* str is what inBuffer_ holds of the stream when F tokens have been cut off.
Buffers(S, A, K, n, F, t, str) ==
  /\ S \in Seq(Token) /\ str \in Seq(Token) /\ Len(S) \in Nat /\ Len(str) \in Nat
  /\ A \in Nat /\ K \in Nat /\ n \in Nat /\ F \in Nat /\ t \in Nat
  /\ A + 9 <= K /\ t <= Len(S) /\ F + Len(str) = t
  /\ \A i \in 0..(Len(str) - 1) : str[i + 1] = Tok(S, F + i)

-----------------------------------------------------------------------------
(* Where parseHeaders is in a request, in each of its states: at place x,  *)
(* with a line that begins at y.                                           *)

\* y is where a header may be taken to begin.
Begins(K, n, y) ==
  \/ n >= 1 /\ y = K
  \/ \E j \in 1..(n - 1) : y = Key(K, j) + 5

\* Before a line, or behind a CR or an LF that a line begins with.
StartPlace(S, A, K, n, x) ==
  \/ x \in {A, K - 1, K}
  \/ x >= 0 /\ x = A - 1 /\ Tok(S, x) = LF
  \/ n = 0 /\ x \in {K + 1, K + 2}

\* In the name of a header, or in what no name can be got from.
KeyPlace(S, K, n, x, y) ==
  \/ Begins(K, n, y) /\ \E j \in 1..n : x \in {Key(K, j), Key(K, j) + 1}
  \/ NoColon(S, x) /\ (Begins(K, n, y) \/ NoColon(S, y))

\* Behind a colon: of a header, or of what ends in an error.
ColonPlace(S, K, n, x, y) ==
  Begins(K, n, y) /\ ((\E j \in 1..n : x = Key(K, j) + 2) \/ Tok(S, x) # SP)

\* Behind the blank.
SpacesPlace(K, n, x, y) == Begins(K, n, y) /\ x \in K..(K + 6 * n - 3)

\* In a value.
ValuePlace(K, n, x, y) == Begins(K, n, y) /\ x \in K..(K + 6 * n - 2)

\* Behind a CR, which ends a header or leads to an error.
CrPlace(S, K, n, x, y) ==
  Begins(K, n, y) /\ ((\E j \in 1..n : x = Key(K, j) + 5) \/ Tok(S, x) # LF)

\* Behind a header's LF; the line is taken to begin with that LF.
LfPlace(K, n, x, y) == \E j \in 1..n : y = Key(K, j) + 5 /\ x \in {y, y + 1}

\* Behind the CR of the blank line, of which t tokens tell.
EndCrPlace(K, n, x, y, t) ==
  n >= 1 /\ y = K + 6 * n - 1 /\ x \in {y, y + 2} /\ t >= K + 6 * n + 1

\* Behind the blank line, or where the loop broke off before it was counted.
EndLfPlace(K, n, x, t) == x \in {K + 6 * n, K + 6 * n + 2} /\ t >= K + 6 * n + 1

\* In state h of the parser of headers.
Place(S, A, K, n, h, x, y, t) ==
  /\ h = "start" => StartPlace(S, A, K, n, x) /\ StartPlace(S, A, K, n, y)
  /\ h = "key" => KeyPlace(S, K, n, x, y)
  /\ h = "colon" => ColonPlace(S, K, n, x, y)
  /\ h = "spaces" => SpacesPlace(K, n, x, y)
  /\ h = "value" => ValuePlace(K, n, x, y)
  /\ h = "cr" => CrPlace(S, K, n, x, y)
  /\ h = "lf" => LfPlace(K, n, x, y)
  /\ h = "end_cr" => EndCrPlace(K, n, x, y, t)
  /\ h = "end_lf" => EndLfPlace(K, n, x, t)

\* The name that has been read so far begins at ks: if it is of one token, it
\* is the name of a header.
KeyMarks(S, K, n, x, ks) ==
  \/ x >= ks + 2 \/ NoColon(S, x)
  \/ \E j \in 1..n : x = Key(K, j) \/ (ks = Key(K, j) /\ x = Key(K, j) + 1)

\* The same of a name from ks to ke, and x is m tokens behind its header.
NameMarks(K, n, x, ks, ke, m) ==
  \/ ke >= ks + 2
  \/ \E j \in 1..n : ks = Key(K, j) /\ ke = ks + 1 /\ x = ks + m

\* And a value from vs.
ValueMarks(K, n, x, ks, ke, vs, m) ==
  \/ ke >= ks + 2
  \/ \E j \in 1..n : ks = Key(K, j) /\ ke = ks + 1 /\ x = ks + m /\ vs = ks + 3

\* And the value ends at ve.
LineMarks(K, n, x, ks, ke, vs, ve) ==
  \/ ke >= ks + 2
  \/ \E j \in 1..n :
       ks = Key(K, j) /\ ke = ks + 1 /\ x = ks + 5 /\ vs = ks + 3 /\ ve = ks + 4

\* The four marks of the line that is read, in the states that use them.
Marks(S, K, n, h, x, ks, ke, vs, ve) ==
  /\ h = "key" => KeyMarks(S, K, n, x, ks)
  /\ h = "colon" => NameMarks(K, n, x, ks, ke, 2)
  /\ h = "spaces" => NameMarks(K, n, x, ks, ke, 3)
  /\ h = "value" => ValueMarks(K, n, x, ks, ke, vs, 4)
  /\ h = "cr" => LineMarks(K, n, x, ks, ke, vs, ve)

\* The name and the value of a header that keeps the connection are those of
\* one header of the request.
Taken(S, K, n, headers) ==
  \A h \in headers : h.key = <<"Connection">> =>
     \E j \in 1..n : Tok(S, Key(K, j)) = "Connection" /\ h.value = <<Tok(S, Key(K, j) + 3)>>

\* The loop goes on.
Going(S, A, K, n, F, t, p) ==
  /\ Place(S, A, K, n, p.h, F + p.i, F + p.begin, t)
  /\ Taken(S, K, n, p.headers)
  /\ p.ks = -1 \/ (p.ks < p.i /\ p.ks >= 0
                     /\ Marks(S, K, n, p.h, F + p.i, F + p.ks, F + p.ke, F + p.vs, F + p.ve))

\* The loop has broken off behind the blank line.
Stopped(S, K, n, F, t, p) ==
  /\ p.h = "end_lf" /\ EndLfPlace(K, n, F + p.i - 1, t)
  /\ Taken(S, K, n, p.headers)

\* The invariant of the loop.
Turning(S, A, K, n, F, t, p) ==
  /\ p.flag = "go" => Going(S, A, K, n, F, t, p)
  /\ p.flag = "stop" => Stopped(S, K, n, F, t, p)

-----------------------------------------------------------------------------
(* What a turn of the loop does in each state.                             *)

\* Before a line CR and LF are passed over, and anything else begins a name.
LEMMA StepStart ==
  ASSUME NEW str, NEW p \in Turn, p.flag = "go", p.h = "start", NEW q, q = HeaderStep(str, p)
  PROVE  /\ q.flag = "go" /\ q.i = p.i + 1 /\ q.headers = p.headers
         /\ IF str[p.i + 1] \in {CR, LF} THEN q.h = "start" /\ q.begin = p.begin /\ q.ks = p.ks
            ELSE q.h = "key" /\ q.ks = p.i /\ q.begin = p.i
BY DEF HeaderStep, Turn

\* A name ends at a colon, and a line in it is an error.
LEMMA StepKey ==
  ASSUME NEW str, NEW p \in Turn, p.flag = "go", p.h = "key", NEW q, q = HeaderStep(str, p)
  PROVE  \/ q.flag = "error"
         \/ /\ q.flag = "go" /\ q.i = p.i + 1 /\ q.headers = p.headers
            /\ q.begin = p.begin /\ q.ks = p.ks
            /\ \/ str[p.i + 1] = ":" /\ q.h = "colon" /\ q.ke = p.i
               \/ str[p.i + 1] \notin {":", CR, LF} /\ q.h = "key"
BY DEF HeaderStep, Turn

\* A colon wants a blank.
LEMMA StepColon ==
  ASSUME NEW str, NEW p \in Turn, p.flag = "go", p.h = "colon", NEW q, q = HeaderStep(str, p)
  PROVE  \/ q.flag = "error"
         \/ /\ q.flag = "go" /\ q.i = p.i + 1 /\ q.headers = p.headers
            /\ q.begin = p.begin /\ q.ks = p.ks /\ q.ke = p.ke
            /\ str[p.i + 1] = SP /\ q.h = "spaces"
BY DEF HeaderStep, Turn, SP

\* The value begins at what follows the blank.
LEMMA StepSpaces ==
  ASSUME NEW str, NEW p \in Turn, p.flag = "go", p.h = "spaces", NEW q, q = HeaderStep(str, p)
  PROVE  /\ q.flag = "go" /\ q.i = p.i + 1 /\ q.headers = p.headers
         /\ q.begin = p.begin /\ q.ks = p.ks /\ q.ke = p.ke /\ q.vs = p.i /\ q.h = "value"
BY DEF HeaderStep, Turn

\* A value ends at a CR.
LEMMA StepValue ==
  ASSUME NEW str, NEW p \in Turn, p.flag = "go", p.h = "value", NEW q, q = HeaderStep(str, p)
  PROVE  \/ q.flag = "error"
         \/ /\ q.flag = "go" /\ q.i = p.i + 1 /\ q.headers = p.headers
            /\ q.begin = p.begin /\ q.ks = p.ks /\ q.ke = p.ke /\ q.vs = p.vs
            /\ \/ str[p.i + 1] = CR /\ q.h = "cr" /\ q.ve = p.i
               \/ str[p.i + 1] # CR /\ q.h = "value"
BY DEF HeaderStep, Turn

\* With the LF behind it the header is entered.
LEMMA StepCr ==
  ASSUME NEW str, NEW p \in Turn, p.flag = "go", p.h = "cr", NEW q, q = HeaderStep(str, p)
  PROVE  \/ q.flag = "error"
         \/ /\ q.flag = "go" /\ q.i = p.i + 1 /\ q.begin = p.i /\ q.ks = p.ks
            /\ str[p.i + 1] = LF /\ q.h = "lf"
            /\ q.headers = SetHeader(p.headers, Slice(str, p.ks, p.ke), Slice(str, p.vs, p.ve))
<1>1. PICK new : new = SetHeader(p.headers, Slice(str, p.ks, p.ke), Slice(str, p.vs, p.ve))
  OBVIOUS
<1>2. q = IF str[p.i + 1] = LF
          THEN [p EXCEPT !.i = p.i + 1, !.h = "lf", !.begin = p.i, !.headers = new]
          ELSE [p EXCEPT !.flag = "error"]
  BY <1>1 DEF HeaderStep
<1> QED
  BY <1>1, <1>2 DEF Turn

\* The next line is the blank one, or begins a name.
LEMMA StepLf ==
  ASSUME NEW str, NEW p \in Turn, p.flag = "go", p.h = "lf", NEW q, q = HeaderStep(str, p)
  PROVE  /\ q.flag = "go" /\ q.i = p.i + 1 /\ q.headers = p.headers /\ q.begin = p.begin
         /\ IF str[p.i + 1] = CR THEN q.h = "end_cr" /\ q.ks = p.ks
            ELSE q.h = "key" /\ q.ks = p.i
BY DEF HeaderStep, Turn

\* The CR of the blank line wants an LF.
LEMMA StepEndCr ==
  ASSUME NEW str, NEW p \in Turn, p.flag = "go", p.h = "end_cr", NEW q, q = HeaderStep(str, p)
  PROVE  \/ q.flag = "error"
         \/ /\ q.flag = "go" /\ q.i = p.i + 1 /\ q.headers = p.headers
            /\ q.begin = p.begin /\ q.ks = p.ks /\ str[p.i + 1] = LF /\ q.h = "end_lf"
BY DEF HeaderStep, Turn

\* Then the loop breaks off.
LEMMA StepEndLf ==
  ASSUME NEW str, NEW p \in Turn, p.flag = "go", p.h = "end_lf", NEW q, q = HeaderStep(str, p)
  PROVE  q.flag = "stop" /\ q.i = p.i + 1 /\ q.headers = p.headers /\ q.h = "end_lf"
BY DEF HeaderStep, Turn

-----------------------------------------------------------------------------
(* Names, and the lines they can be got from.                              *)

\* A line that ends before its first colon.
LEMMA LineEnds ==
  ASSUME NEW S, Len(S) \in Nat, NEW x \in Nat, NEW w \in Nat, x <= w, w < Len(S),
         Tok(S, w) \in {CR, LF}, \A z \in x..w : Tok(S, z) # ":"
  PROVE  NoColon(S, x)
<1> SUFFICES ASSUME NEW z \in x..(Len(S) - 1), Tok(S, z) = ":"
             PROVE  \E v \in x..(z - 1) : Tok(S, v) \in {CR, LF}
  BY DEF NoColon
<1>1. ~(z <= w)
  OBVIOUS
<1>2. w \in x..(z - 1)
  BY <1>1
<1> QED
  BY <1>2

\* The rest of such a line.
LEMMA LineGoesOn ==
  ASSUME NEW S, Len(S) \in Nat, NEW x \in Nat, x < Len(S), NoColon(S, x),
         Tok(S, x) \notin {CR, LF}
  PROVE  Tok(S, x) # ":" /\ NoColon(S, x + 1)
<1>1. Tok(S, x) # ":"
  <2> SUFFICES ASSUME Tok(S, x) = ":" PROVE FALSE
    OBVIOUS
  <2>1. x \in x..(Len(S) - 1)
    OBVIOUS
  <2>2. PICK w \in x..(x - 1) : Tok(S, w) \in {CR, LF}
    BY <2>1 DEF NoColon
  <2> QED
    OBVIOUS
<1>2. NoColon(S, x + 1)
  <2> SUFFICES ASSUME NEW z \in (x + 1)..(Len(S) - 1), Tok(S, z) = ":"
               PROVE  \E w \in (x + 1)..(z - 1) : Tok(S, w) \in {CR, LF}
    BY DEF NoColon
  <2>1. z \in x..(Len(S) - 1)
    OBVIOUS
  <2>2. PICK w \in x..(z - 1) : Tok(S, w) \in {CR, LF}
    BY <2>1 DEF NoColon
  <2>3. w # x
    BY <2>2
  <2> QED
    BY <2>2, <2>3
<1> QED
  BY <1>1, <1>2

\* Every place among the headers is one of a header's six.
LEMMA PlaceOfHeader ==
  ASSUME NEW K \in Nat, NEW n \in Nat, NEW x \in K..(K + 6 * n - 1)
  PROVE  \E j \in 1..n, m \in 0..5 : x = Key(K, j) + m
<1>1. PICK c \in Nat : c = x - K
  OBVIOUS
<1>2. PICK l, m : l = c \div 6 /\ m = c % 6
  OBVIOUS
<1>3. l \in Nat /\ m \in 0..5 /\ c = 6 * l + m
  BY <1>2
<1>4. l + 1 \in 1..n
  BY <1>1, <1>3
<1>5. x = K + 6 * ((l + 1) - 1) + m
  BY <1>1, <1>3
<1> QED
  BY <1>3, <1>4, <1>5 DEF Key

\* The places of the headers.
LEMMA KeyPlaces ==
  ASSUME NEW K \in Nat, NEW n \in Nat, NEW j \in 1..n
  PROVE  /\ Key(K, j) \in Nat /\ K <= Key(K, j) /\ Key(K, j) + 6 <= K + 6 * n
         /\ j < n => j + 1 \in 1..n /\ Key(K, j + 1) = Key(K, j) + 6
         /\ j = n => Key(K, j) + 6 = K + 6 * n
         /\ j = 1 <=> Key(K, j) = K
BY DEF Key

\* Where a header may be taken to begin there is the name of the first, or an LF.
LEMMA BeginsAt ==
  ASSUME NEW S, NEW A, NEW K \in Nat, NEW n \in Nat, Grid(S, A, K, n), NEW y, Begins(K, n, y)
  PROVE  /\ y \in Nat /\ n >= 1 /\ K <= y /\ y <= K + 6 * n - 6
         /\ Tok(S, y) # SP /\ (y = K \/ Tok(S, y) = LF)
         /\ y = K => Tok(S, y) \notin {CR, LF, ":"}
<1>1. CASE n >= 1 /\ y = K
  <2>1. 1 \in 1..n /\ Key(K, 1) = K
    BY <1>1 DEF Key
  <2>2. HeaderAt(S, K)
    BY <2>1 DEF Grid
  <2>3. Tok(S, y) # SP /\ Tok(S, y) \notin {CR, LF, ":"}
    BY <1>1, <2>2 DEF HeaderAt
  <2>4. y \in Nat /\ n >= 1 /\ K <= y /\ y <= K + 6 * n - 6
    BY <1>1
  <2> QED
    BY <1>1, <2>3, <2>4, Zenon
<1>2. ASSUME NEW j \in 1..(n - 1), y = Key(K, j) + 5
      PROVE  /\ y \in Nat /\ n >= 1 /\ K < y /\ y <= K + 6 * n - 6
             /\ Tok(S, y) = LF
  <2>1. j \in 1..n
    OBVIOUS
  <2>2. HeaderAt(S, Key(K, j))
    BY <2>1 DEF Grid
  <2>3. Key(K, j) \in Nat /\ K <= Key(K, j) /\ Key(K, j) + 6 <= K + 6 * (n - 1)
    BY <2>1 DEF Key
  <2>4. Tok(S, y) = LF
    BY <1>2, <2>2 DEF HeaderAt
  <2>5. y \in Nat /\ n >= 1 /\ K < y /\ y <= K + 6 * n - 6
    BY <1>2, <2>3
  <2> QED
    BY <2>4, <2>5
<1>3. LF # SP
  BY DEF LF, SP
<1>4. CASE \E j \in 1..(n - 1) : y = Key(K, j) + 5
  <2>1. y \in Nat /\ n >= 1 /\ K < y /\ y <= K + 6 * n - 6 /\ Tok(S, y) = LF
    BY <1>2, <1>4
  <2>2. y # K /\ K <= y
    BY <2>1
  <2> QED
    BY <1>3, <2>1, <2>2, Zenon
<1> QED
  BY <1>1, <1>4 DEF Begins

\* The tokens of a header, and where its line has no colon any more.
LEMMA HeaderTokens ==
  ASSUME NEW S, Len(S) \in Nat, NEW A, NEW K \in Nat, NEW n \in Nat, Grid(S, A, K, n),
         NEW j \in 1..n, NEW k, k = Key(K, j)
  PROVE  /\ k \in Nat /\ HeaderAt(S, k) /\ k + 5 < Len(S)
         /\ NoColon(S, k + 5)
<1>1. k \in Nat /\ k + 6 <= K + 6 * n
  BY KeyPlaces
<1>2. HeaderAt(S, k) /\ K + 6 * n + 2 <= Len(S)
  BY DEF Grid
<1>3. k + 5 < Len(S) /\ k + 5 \in Nat
  BY <1>1, <1>2
<1>4. Tok(S, k + 5) = LF /\ LF # ":"
  BY <1>2 DEF HeaderAt, LF
<1>5. \A z \in (k + 5)..(k + 5) : Tok(S, z) # ":"
  BY <1>3, <1>4
<1>6. NoColon(S, k + 5)
  BY <1>3, <1>4, <1>5, LineEnds
<1> QED
  BY <1>1, <1>2, <1>3, <1>6

\* The blank line, and where it has no colon.
LEMMA BlankTokens ==
  ASSUME NEW S, Len(S) \in Nat, NEW A, NEW K \in Nat, NEW n \in Nat, Grid(S, A, K, n),
         NEW b, b = K + 6 * n
  PROVE  /\ b \in Nat /\ Tok(S, b) = CR /\ Tok(S, b + 1) = LF /\ b + 2 <= Len(S)
         /\ NoColon(S, b) /\ NoColon(S, b + 1)
<1>1. b \in Nat /\ Tok(S, b) = CR /\ Tok(S, b + 1) = LF /\ b + 2 <= Len(S)
  BY DEF Grid
<1>2. CR # ":" /\ LF # ":"
  BY DEF CR, LF
<1>3. NoColon(S, b)
  <2>1. \A z \in b..b : Tok(S, z) # ":"
    BY <1>1, <1>2
  <2> QED
    BY <1>1, <2>1, LineEnds, SMTT(40)
<1>4. NoColon(S, b + 1)
  <2>1. PICK c \in Nat : c = b + 1
    BY <1>1
  <2>2. \A z \in c..c : Tok(S, z) # ":"
    BY <1>1, <1>2, <2>1
  <2> QED
    BY <1>1, <2>1, <2>2, LineEnds, SMTT(40)
<1> QED
  BY <1>1, <1>3, <1>4

\* The request line has no colon either.
LEMMA RequestLineTokens ==
  ASSUME NEW S, Len(S) \in Nat, NEW A \in Nat, NEW K \in Nat, NEW n \in Nat, Grid(S, A, K, n),
         A + 9 <= K
  PROVE  /\ Tok(S, A) \notin {CR, LF} /\ Tok(S, K - 1) = LF
         /\ NoColon(S, A) /\ NoColon(S, A + 1)
<1>1. PICK w \in Nat : w = K - 2
  OBVIOUS
<1>2. Tok(S, w) = CR /\ w < Len(S) /\ A <= w /\ A + 1 <= w
  BY <1>1 DEF Grid
<1>3. \A z \in A..w : Tok(S, z) # ":"
  <2>1. \A z \in A..(K - 3) : Tok(S, z) \notin {CR, LF, ":"}
    BY DEF Grid
  <2>2. CR # ":"
    BY DEF CR
  <2> QED
    BY <1>1, <1>2, <2>1, <2>2
<1>4. NoColon(S, A) /\ NoColon(S, A + 1)
  <2>1. \A z \in (A + 1)..w : Tok(S, z) # ":"
    BY <1>3
  <2>2. A + 1 \in Nat
    OBVIOUS
  <2> QED
    BY <1>2, <1>3, <2>1, <2>2, LineEnds
<1>5. Tok(S, A) \notin {CR, LF} /\ Tok(S, K - 1) = LF
  BY DEF Grid
<1> QED
  BY <1>4, <1>5

-----------------------------------------------------------------------------
(* From each place to the next: what a turn of the loop keeps.             *)

\* Between requests, and at a line that is taken for the first header.
LEMMA StartGoes ==
  ASSUME NEW S, Len(S) \in Nat, NEW A \in Nat, NEW K \in Nat, NEW n \in Nat, Grid(S, A, K, n),
         A + 9 <= K, NEW x \in Nat, x < Len(S), StartPlace(S, A, K, n, x)
  PROVE  /\ Tok(S, x) \in {CR, LF} => StartPlace(S, A, K, n, x + 1)
         /\ Tok(S, x) \notin {CR, LF} =>
              KeyPlace(S, K, n, x + 1, x) /\ KeyMarks(S, K, n, x + 1, x)
<1>1. /\ Tok(S, A) \notin {CR, LF} /\ Tok(S, K - 1) = LF
      /\ NoColon(S, A) /\ NoColon(S, A + 1)
  BY RequestLineTokens
<1>2. CASE x = A
  BY <1>1, <1>2 DEF KeyPlace, KeyMarks
<1>3. CASE x = K - 1
  BY <1>1, <1>3 DEF StartPlace
<1>4. CASE x = A - 1 /\ Tok(S, x) = LF
  <2>1. x + 1 = A
    BY <1>4
  <2> QED
    BY <1>4, <2>1 DEF StartPlace
<1>5. CASE n >= 1 /\ x = K
  <2>1. 1 \in 1..n /\ Key(K, 1) = K
    BY <1>5 DEF Key
  <2>2. Tok(S, K) \notin {CR, LF, ":"}
    BY <2>1 DEF Grid, HeaderAt
  <2>3. Begins(K, n, x)
    BY <1>5 DEF Begins
  <2> QED
    BY <1>5, <2>1, <2>2, <2>3 DEF KeyPlace, KeyMarks
<1>6. CASE n = 0 /\ x \in {K, K + 1}
  <2>1. Tok(S, K) = CR /\ Tok(S, K + 1) = LF
    BY <1>6 DEF Grid
  <2> QED
    BY <1>6, <2>1 DEF StartPlace
<1>7. CASE n = 0 /\ x = K + 2
  <2>1. Tok(S, x) \notin {CR, LF} /\ NoColon(S, x) /\ NoColon(S, x + 1)
    BY <1>7 DEF Grid
  <2> QED
    BY <2>1 DEF KeyPlace, KeyMarks
<1> QED
  BY <1>2, <1>3, <1>4, <1>5, <1>6, <1>7 DEF StartPlace

\* In a name.
LEMMA KeyGoes ==
  ASSUME NEW S, Len(S) \in Nat, NEW A, NEW K \in Nat, NEW n \in Nat, Grid(S, A, K, n),
         NEW x \in Nat, x < Len(S), NEW y, KeyPlace(S, K, n, x, y), Tok(S, x) \notin {CR, LF}
  PROVE  /\ Tok(S, x) = ":" => ColonPlace(S, K, n, x + 1, y)
         /\ Tok(S, x) # ":" => KeyPlace(S, K, n, x + 1, y)
<1>1. ASSUME NEW j \in 1..n, Begins(K, n, y), x \in {Key(K, j), Key(K, j) + 1}
      PROVE  /\ Tok(S, x) = ":" => ColonPlace(S, K, n, x + 1, y)
             /\ Tok(S, x) # ":" => KeyPlace(S, K, n, x + 1, y)
  <2>1. PICK k : k = Key(K, j)
    OBVIOUS
  <2>2. k \in Nat /\ Tok(S, k) # ":" /\ Tok(S, k + 1) = ":"
    BY <2>1, KeyPlaces DEF Grid, HeaderAt
  <2>3. CASE x = k
    BY <1>1, <2>1, <2>2, <2>3 DEF KeyPlace
  <2>4. CASE x = k + 1
    <3>1. x + 1 = k + 2
      BY <2>2, <2>4
    <3> QED
      BY <1>1, <2>1, <2>2, <2>4, <3>1 DEF ColonPlace
  <2> QED
    BY <1>1, <2>1, <2>3, <2>4
<1>2. CASE NoColon(S, x) /\ (Begins(K, n, y) \/ NoColon(S, y))
  <2>1. Tok(S, x) # ":" /\ NoColon(S, x + 1)
    BY <1>2, LineGoesOn
  <2> QED
    BY <1>2, <2>1 DEF KeyPlace
<1> QED
  BY <1>1, <1>2 DEF KeyPlace

\* The marks of a name, one token on.
LEMMA KeyMarksGo ==
  ASSUME NEW S, Len(S) \in Nat, NEW A, NEW K \in Nat, NEW n \in Nat, Grid(S, A, K, n),
         NEW x \in Nat, x < Len(S), NEW ks \in Nat, ks < x, KeyMarks(S, K, n, x, ks),
         Tok(S, x) \notin {CR, LF}
  PROVE  /\ Tok(S, x) = ":" => NameMarks(K, n, x + 1, ks, x, 2)
         /\ Tok(S, x) # ":" => KeyMarks(S, K, n, x + 1, ks)
<1>1. CASE x >= ks + 2
  BY <1>1 DEF NameMarks, KeyMarks
<1>2. CASE NoColon(S, x)
  <2>1. Tok(S, x) # ":" /\ NoColon(S, x + 1)
    BY <1>2, LineGoesOn
  <2> QED
    BY <2>1 DEF KeyMarks
<1>3. ASSUME NEW j \in 1..n, x = Key(K, j)
      PROVE  /\ Tok(S, x) # ":"
             /\ KeyMarks(S, K, n, x + 1, ks)
  <2>1. Tok(S, x) # ":"
    BY <1>3 DEF Grid, HeaderAt
  <2>2. x + 1 >= ks + 2
    OBVIOUS
  <2> QED
    BY <2>1, <2>2 DEF KeyMarks
<1>4. ASSUME NEW j \in 1..n, ks = Key(K, j), x = Key(K, j) + 1
      PROVE  /\ Tok(S, x) = ":"
             /\ NameMarks(K, n, x + 1, ks, x, 2)
  <2>1. Tok(S, x) = ":"
    BY <1>4 DEF Grid, HeaderAt
  <2>2. x = ks + 1 /\ x + 1 = ks + 2
    BY <1>4
  <2> QED
    BY <1>4, <2>1, <2>2 DEF NameMarks
<1> QED
  BY <1>1, <1>2, <1>3, <1>4 DEF KeyMarks

\* Behind the colon.
LEMMA ColonGoes ==
  ASSUME NEW S, NEW K \in Nat, NEW n \in Nat, NEW x \in Nat, NEW y,
         ColonPlace(S, K, n, x, y), Tok(S, x) = SP
  PROVE  SpacesPlace(K, n, x + 1, y)
<1>1. PICK j \in 1..n : x = Key(K, j) + 2
  BY DEF ColonPlace
<1>2. Key(K, j) \in Nat /\ K <= Key(K, j) /\ Key(K, j) + 6 <= K + 6 * n
  BY KeyPlaces
<1>3. PICK k \in Nat : k = Key(K, j) /\ K <= k /\ k + 6 <= K + 6 * n
  BY <1>2
<1>4. x = k + 2
  BY <1>1, <1>3
<1>5. x + 1 \in K..(K + 6 * n - 3)
  BY ONLY K \in Nat, n \in Nat, x \in Nat, k \in Nat, <1>3, <1>4
<1> QED
  BY <1>5 DEF ColonPlace, SpacesPlace

\* At the first token of a value, whatever it is.
LEMMA SpacesGo ==
  ASSUME NEW K \in Nat, NEW n \in Nat, NEW x \in Nat, NEW y, SpacesPlace(K, n, x, y)
  PROVE  ValuePlace(K, n, x + 1, y)
BY DEF SpacesPlace, ValuePlace

\* In a value: the only CRs among the headers are where their lines end.
LEMMA ValueGoes ==
  ASSUME NEW S, Len(S) \in Nat, NEW A, NEW K \in Nat, NEW n \in Nat, Grid(S, A, K, n),
         NEW x \in Nat, NEW y, ValuePlace(K, n, x, y)
  PROVE  /\ Tok(S, x) = CR => CrPlace(S, K, n, x + 1, y)
         /\ Tok(S, x) # CR => ValuePlace(K, n, x + 1, y)
<1>1. x \in K..(K + 6 * n - 1) /\ Begins(K, n, y) /\ x <= K + 6 * n - 2
  BY DEF ValuePlace
<1>2. PICK j \in 1..n, m \in 0..5 : x = Key(K, j) + m
  BY <1>1, PlaceOfHeader
<1>3. PICK k : k = Key(K, j)
  OBVIOUS
<1>4. k \in Nat /\ HeaderAt(S, k) /\ k + 6 <= K + 6 * n
  BY <1>3, KeyPlaces DEF Grid
<1>5. CASE m = 4
  <2>1. x = k + 4 /\ x + 1 = k + 5
    BY <1>2, <1>3, <1>4, <1>5
  <2>2. Tok(S, x) = CR
    BY <1>4, <2>1 DEF HeaderAt
  <2> QED
    BY <1>1, <1>3, <2>1, <2>2 DEF CrPlace
<1>6. CASE m # 4
  <2>1. Tok(S, x) # CR
    <3>1. m = 0 => Tok(S, x) = Tok(S, k)
      BY <1>2, <1>3, <1>4
    <3>2. m \in {0, 1, 2, 3, 5}
      BY <1>6
    <3>3. CR # ":" /\ CR # SP /\ CR # LF
      BY DEF CR, LF, SP
    <3> QED
      BY <1>2, <1>3, <1>4, <3>1, <3>2, <3>3 DEF HeaderAt
  <2>2. x # K + 6 * n - 2
    <3> SUFFICES ASSUME x = K + 6 * n - 2 PROVE FALSE
      OBVIOUS
    <3>1. 6 * j + m = 6 * n + 4
      BY <1>2 DEF Key
    <3> QED
      BY <1>6, <3>1
  <2>3. x + 1 \in K..(K + 6 * n - 2)
    BY <1>1, <2>2
  <2> QED
    BY <1>1, <2>1, <2>3 DEF ValuePlace
<1> QED
  BY <1>5, <1>6

\* Behind the CR of a header.
LEMMA CrGoes ==
  ASSUME NEW S, NEW K \in Nat, NEW n \in Nat, NEW x \in Nat, NEW y, CrPlace(S, K, n, x, y),
         Tok(S, x) = LF
  PROVE  LfPlace(K, n, x + 1, x)
BY DEF CrPlace, LfPlace

\* Behind the LF of a header, or still at it: the next header, or the blank line.
LEMMA LfGoes ==
  ASSUME NEW S, Len(S) \in Nat, NEW A, NEW K \in Nat, NEW n \in Nat, Grid(S, A, K, n),
         NEW x \in Nat, NEW y \in Nat, LfPlace(K, n, x, y), NEW t \in Nat, x < t
  PROVE  /\ Tok(S, x) = CR => EndCrPlace(K, n, x + 1, y, t)
         /\ Tok(S, x) # CR => KeyPlace(S, K, n, x + 1, y) /\ KeyMarks(S, K, n, x + 1, x)
<1>1. PICK j \in 1..n : y = Key(K, j) + 5 /\ x \in {y, y + 1}
  BY DEF LfPlace
<1>2. PICK k : k = Key(K, j)
  OBVIOUS
<1>3. /\ k \in Nat /\ HeaderAt(S, k) /\ NoColon(S, y)
      /\ Tok(S, y) = LF
  <2>1. k \in Nat /\ HeaderAt(S, k) /\ NoColon(S, k + 5)
    BY <1>2, HeaderTokens
  <2> QED
    BY <1>1, <1>2, <2>1 DEF HeaderAt
<1>4. CR # LF
  BY DEF CR, LF
<1>5. CASE j < n
  <2>1. j + 1 \in 1..n /\ Key(K, j + 1) = y + 1
    <3>1. j + 1 \in 1..n /\ Key(K, j + 1) = Key(K, j) + 6
      BY <1>5, KeyPlaces
    <3>2. y = k + 5
      BY <1>1, <1>2
    <3> QED
      BY <1>2, <1>3, <3>1, <3>2
  <2>2. PICK l \in 1..n : Key(K, l) = y + 1
    BY <2>1
  <2>3. Tok(S, y + 1) # CR
    BY <2>2 DEF Grid, HeaderAt
  <2>4. Begins(K, n, y)
    BY <1>1, <1>5 DEF Begins
  <2>5. Tok(S, x) # CR
    BY <1>1, <1>3, <1>4, <2>3
  <2>6. x + 1 \in {Key(K, l), Key(K, l) + 1}
    BY <1>1, <2>2
  <2>7. KeyPlace(S, K, n, x + 1, y)
    BY <2>4, <2>6 DEF KeyPlace
  <2>8. KeyMarks(S, K, n, x + 1, x)
    BY <1>1, <2>2 DEF KeyMarks
  <2> QED
    BY <2>5, <2>7, <2>8
<1>6. CASE j = n
  <2>1. PICK b : b = K + 6 * n
    OBVIOUS
  <2>2. y + 1 = b /\ b \in Nat
    <3>1. Key(K, j) + 6 = K + 6 * n
      BY <1>6 DEF Key
    <3>2. y = k + 5
      BY <1>1, <1>2
    <3> QED
      BY <1>2, <1>3, <2>1, <3>1, <3>2
  <2>3. Tok(S, b) = CR /\ NoColon(S, b)
    BY <2>1, BlankTokens
  <2>4. CASE x = y
    BY <1>3, <1>4, <2>2, <2>3, <2>4 DEF KeyPlace, KeyMarks
  <2>5. CASE x = b
    <3>1. EndCrPlace(K, n, x + 1, y, t)
      BY <1>6, <2>1, <2>2, <2>5 DEF EndCrPlace
    <3> QED
      BY <2>3, <2>5, <3>1
  <2> QED
    BY <1>1, <2>2, <2>4, <2>5
<1> QED
  BY <1>5, <1>6

\* In the blank line.
LEMMA EndCrGoes ==
  ASSUME NEW K \in Nat, NEW n \in Nat, NEW x \in Nat, NEW y, NEW t, EndCrPlace(K, n, x, y, t)
  PROVE  EndLfPlace(K, n, x + 1, t)
BY DEF EndCrPlace, EndLfPlace

\* From the colon to the blank.
LEMMA NameGoes ==
  ASSUME NEW K \in Nat, NEW n \in Nat, NEW x \in Nat, NEW ks \in Nat, NEW ke \in Int,
         NameMarks(K, n, x, ks, ke, 2)
  PROVE  NameMarks(K, n, x + 1, ks, ke, 3)
BY DEF NameMarks

\* From the blank to the value.
LEMMA NameThenValue ==
  ASSUME NEW K \in Nat, NEW n \in Nat, NEW x \in Nat, NEW ks \in Nat, NEW ke \in Int,
         NameMarks(K, n, x, ks, ke, 3)
  PROVE  ValueMarks(K, n, x + 1, ks, ke, x, 4)
BY DEF NameMarks, ValueMarks

\* The marks of a value, one token on.
LEMMA ValueMarksGo ==
  ASSUME NEW S, NEW A, NEW K \in Nat, NEW n \in Nat, Grid(S, A, K, n), NEW x \in Nat,
         NEW ks \in Nat, NEW ke \in Int, NEW vs \in Int, ValueMarks(K, n, x, ks, ke, vs, 4)
  PROVE  /\ Tok(S, x) = CR => LineMarks(K, n, x + 1, ks, ke, vs, x)
         /\ Tok(S, x) # CR => ValueMarks(K, n, x + 1, ks, ke, vs, 4)
<1>1. CASE ke >= ks + 2
  BY <1>1 DEF ValueMarks, LineMarks
<1>2. ASSUME NEW j \in 1..n, ks = Key(K, j), ke = ks + 1, x = ks + 4, vs = ks + 3
      PROVE  Tok(S, x) = CR /\ LineMarks(K, n, x + 1, ks, ke, vs, x)
  <2>1. Tok(S, x) = CR
    BY <1>2 DEF Grid, HeaderAt
  <2>2. x + 1 = ks + 5
    BY <1>2
  <2> QED
    BY <1>2, <2>1, <2>2 DEF LineMarks
<1> QED
  BY <1>1, <1>2 DEF ValueMarks

\* A sequence of one element, by its element.
LEMMA OneElement ==
  ASSUME NEW S, NEW s \in Seq(S), Len(s) = 1, NEW a, s[1] = a
  PROVE  s = <<a>>
<1>1. a \in S
  BY ElementOfSeq
<1>2. <<a>> \in Seq(S) /\ Len(<<a>>) = 1 /\ <<a>>[1] = a
  BY <1>1, Singleton
<1>3. \A i \in 1..Len(s) : s[i] = <<a>>[i]
  BY <1>2
<1> QED
  BY <1>2, <1>3, SeqEqual

\* A name of one token.
LEMMA SliceOfOne ==
  ASSUME NEW str \in Seq(Token), NEW a \in Nat, a < Len(str)
  PROVE  Slice(str, a, a + 1) = <<str[a + 1]>>
<1>1. SubSeq(str, a + 1, a + 1) = <<str[a + 1]>>
  <2>1. PICK s : s = SubSeq(str, a + 1, a + 1)
    OBVIOUS
  <2>2. s \in Seq(Token) /\ Len(s) = 1 /\ s[1] = str[a + 1]
    BY <2>1
  <2> QED
    BY <2>1, <2>2, OneElement
<1>2. Slice(str, a, a + 1) = <<>> \o SubSeq(str, a + 1, a + 1)
  BY DEF Slice
<1>3. <<str[a + 1]>> \in Seq(Token)
  BY ElementOfSeq, Singleton
<1> QED
  BY <1>1, <1>2, <1>3

\* A name of several tokens is not one of one token.
LEMMA SliceOfMore ==
  ASSUME NEW str \in Seq(Token), NEW a \in Nat, NEW b \in Nat, a + 2 <= b, b <= Len(str), NEW c
  PROVE  Slice(str, a, b) # <<c>>
<1>1. PICK s : s = SubSeq(str, a + 1, b)
  OBVIOUS
<1>2. s \in Seq(Token) /\ Len(s) = b - a
  BY <1>1
<1>3. Slice(str, a, b) = <<>> \o s
  BY <1>1 DEF Slice
<1>4. <<>> \o s = s
  BY <1>2
<1>5. Len(s) # 1
  BY <1>2
<1>6. Len(<<c>>) = 1
  OBVIOUS
<1> QED
  BY <1>3, <1>4, <1>5, <1>6

\* A name that began before the buffer is no header's.
LEMMA SliceOfNothing ==
  ASSUME NEW str \in Seq(Token), NEW b \in Int, b <= Len(str)
  PROVE  Slice(str, -1, b) # <<"Connection">>
<1>1. CASE b > -1
  <2>1. PICK s : s = SubSeq(str, 1, b)
    OBVIOUS
  <2>2. s \in Seq(Token)
    BY <1>1, <2>1
  <2>3. Slice(str, -1, b) = <<Junk>> \o s
    BY <1>1, <2>1 DEF Slice
  <2>4. <<Junk>> \in Seq(Token) /\ Len(<<Junk>>) = 1 /\ <<Junk>>[1] = Junk
    BY Tokens, Singleton
  <2>5. (<<Junk>> \o s)[1] = Junk
    BY <2>2, <2>4
  <2>6. <<"Connection">>[1] = "Connection" /\ Junk # "Connection"
    BY DEF Junk
  <2> QED
    BY <2>3, <2>5, <2>6
<1>2. CASE b <= -1
  <2>1. Slice(str, -1, b) = <<>> \o SubSeq(str, 1, b)
    BY <1>2 DEF Slice
  <2>2. SubSeq(str, 1, b) = <<>>
    BY <1>2
  <2>3. Slice(str, -1, b) = <<>>
    BY <2>1, <2>2
  <2> QED
    BY <2>3
<1> QED
  BY <1>1, <1>2

\* One more header keeps the connection only as the request has it.
LEMMA TakenOneMore ==
  ASSUME NEW S, NEW K, NEW n, NEW headers, Taken(S, K, n, headers), NEW key, NEW value,
         key = <<"Connection">> =>
           \E j \in 1..n : Tok(S, Key(K, j)) = "Connection" /\ value = <<Tok(S, Key(K, j) + 3)>>
  PROVE  Taken(S, K, n, SetHeader(headers, key, value))
<1> SUFFICES ASSUME NEW h \in SetHeader(headers, key, value), h.key = <<"Connection">>
             PROVE  \E j \in 1..n : /\ Tok(S, Key(K, j)) = "Connection"
                                    /\ h.value = <<Tok(S, Key(K, j) + 3)>>
  BY DEF Taken
<1>1. CASE h \in headers
  BY <1>1 DEF Taken
<1>2. CASE h = [key |-> key, value |-> value]
  BY <1>2
<1> QED
  BY <1>1, <1>2 DEF SetHeader

\* The header that ends at the CR in front of place F + i.
LEMMA TakenLine ==
  ASSUME NEW S, NEW A, NEW K, NEW n, NEW F, NEW t, NEW str, Buffers(S, A, K, n, F, t, str),
         NEW p, p \in Turn, p.i < Len(str), p.ke <= p.i, p.ve <= p.i,
         Taken(S, K, n, p.headers),
         \/ p.ks = -1
         \/ p.ks >= 0 /\ LineMarks(K, n, F + p.i, F + p.ks, F + p.ke, F + p.vs, F + p.ve)
  PROVE  Taken(S, K, n, SetHeader(p.headers, Slice(str, p.ks, p.ke), Slice(str, p.vs, p.ve)))
<1>1. PICK key, value : key = Slice(str, p.ks, p.ke) /\ value = Slice(str, p.vs, p.ve)
  OBVIOUS
<1>2. /\ p.i \in Nat /\ p.ks \in Int /\ p.ke \in Int /\ p.vs \in Int /\ p.ve \in Int
      /\ str \in Seq(Token) /\ Len(str) \in Nat /\ F \in Nat /\ K \in Nat /\ n \in Nat
  BY DEF Buffers, Turn
<1>3. CASE p.ks = -1
  <2>1. p.ke <= Len(str)
    BY <1>2
  <2>2. key # <<"Connection">>
    BY <1>1, <1>2, <1>3, <2>1, SliceOfNothing
  <2> QED
    BY <1>1, <2>2, TakenOneMore
<1>4. CASE p.ks >= 0 /\ F + p.ke >= F + p.ks + 2
  <2>1. PICK a \in Nat, b \in Nat : a = p.ks /\ b = p.ke
    BY <1>2, <1>4
  <2>2. a + 2 <= b /\ b <= Len(str)
    <3>1. F + b >= F + a + 2
      BY <1>4, <2>1
    <3>2. b <= p.i /\ p.i < Len(str)
      BY <2>1
    <3> QED
      BY <1>2, <3>1, <3>2
  <2>3. Slice(str, a, b) # <<"Connection">>
    BY <1>2, <2>2, SliceOfMore
  <2>4. key # <<"Connection">>
    BY <1>1, <2>1, <2>3
  <2> QED
    BY <1>1, <2>4, TakenOneMore
<1>5. ASSUME NEW j \in 1..n, p.ks >= 0, F + p.ks = Key(K, j), F + p.ke = F + p.ks + 1,
             F + p.i = F + p.ks + 5, F + p.vs = F + p.ks + 3, F + p.ve = F + p.ks + 4
      PROVE  Taken(S, K, n, SetHeader(p.headers, key, value))
  <2>1. PICK a \in Nat : a = p.ks
    BY <1>2, <1>5
  <2>2. p.ke = a + 1 /\ p.vs = a + 3 /\ p.ve = a + 4 /\ a + 5 < Len(str) /\ F + a = Key(K, j)
    <3>1. PICK i \in Nat, ke \in Int, vs \in Int, ve \in Int :
             i = p.i /\ ke = p.ke /\ vs = p.vs /\ ve = p.ve
      BY <1>2
    <3>2. F + ke = F + a + 1 /\ F + vs = F + a + 3 /\ F + ve = F + a + 4 /\ F + i = F + a + 5
      BY <1>5, <2>1, <3>1
    <3>3. ke = a + 1 /\ vs = a + 3 /\ ve = a + 4 /\ i = a + 5
      BY <1>2, <3>2
    <3>4. i < Len(str) /\ F + a = Key(K, j)
      BY <1>5, <2>1, <3>1
    <3> QED
      BY <3>1, <3>3, <3>4
  <2>3. key = <<str[a + 1]>>
    <3>1. a < Len(str)
      BY <1>2, <2>2
    <3> QED
      BY <1>1, <1>2, <2>1, <2>2, <3>1, SliceOfOne
  <2>4. value = <<str[a + 3 + 1]>>
    <3>1. PICK b \in Nat : b = a + 3
      OBVIOUS
    <3>2. b < Len(str) /\ b + 1 = a + 4
      BY <1>2, <2>2, <3>1
    <3>3. Slice(str, b, b + 1) = <<str[b + 1]>>
      BY <1>2, <3>2, SliceOfOne
    <3> QED
      BY <1>1, <2>2, <3>1, <3>2, <3>3
  <2>5. str[a + 1] = Tok(S, F + a) /\ str[a + 3 + 1] = Tok(S, F + (a + 3))
    <3>1. \A i \in 0..(Len(str) - 1) : str[i + 1] = Tok(S, F + i)
      BY DEF Buffers
    <3>2. a \in 0..(Len(str) - 1) /\ a + 3 \in 0..(Len(str) - 1)
      BY <1>2, <2>2
    <3> QED
      BY <3>1, <3>2
  <2>6. F + (a + 3) = Key(K, j) + 3
    BY <1>2, <2>2
  <2>7. key = <<Tok(S, Key(K, j))>> /\ value = <<Tok(S, Key(K, j) + 3)>>
    BY <2>2, <2>3, <2>4, <2>5, <2>6
  <2>8. key = <<"Connection">> => Tok(S, Key(K, j)) = "Connection"
    <3> SUFFICES ASSUME key = <<"Connection">> PROVE Tok(S, Key(K, j)) = "Connection"
      OBVIOUS
    <3>1. key[1] = "Connection"
      OBVIOUS
    <3>2. key[1] = Tok(S, Key(K, j))
      BY <2>7
    <3> QED
      BY <3>1, <3>2
  <2>9. key = <<"Connection">> =>
          \E l \in 1..n : Tok(S, Key(K, l)) = "Connection" /\ value = <<Tok(S, Key(K, l) + 3)>>
    BY <2>7, <2>8
  <2> QED
    BY <2>9, TakenOneMore
<1> QED
  BY <1>1, <1>3, <1>4, <1>5 DEF LineMarks

\* A turn that finds the loop in place leaves it in place.
LEMMA TurnKeepsPlace ==
  ASSUME NEW S, NEW A, NEW K, NEW n, NEW F, NEW t, NEW str, Buffers(S, A, K, n, F, t, str),
         Grid(S, A, K, n),
         NEW p, p \in Turn, p.flag = "go", p.i < Len(str), p.ke <= p.i, p.ve <= p.i,
         Going(S, A, K, n, F, t, p), NEW q, q = HeaderStep(str, p)
  PROVE  Turning(S, A, K, n, F, t, q)
<1>1. /\ Len(S) \in Nat /\ A \in Nat /\ K \in Nat /\ n \in Nat /\ F \in Nat /\ t \in Nat
      /\ A + 9 <= K /\ Len(str) \in Nat /\ t <= Len(S) /\ F + Len(str) = t
  BY DEF Buffers
<1>2. PICK i \in Nat, begin \in Nat, ks \in Int, ke \in Int, vs \in Int, ve \in Int :
        /\ i = p.i /\ begin = p.begin /\ ks = p.ks /\ ke = p.ke /\ vs = p.vs /\ ve = p.ve
  BY DEF Turn
<1>3. PICK x \in Nat, y \in Nat : x = F + i /\ y = F + begin
  BY <1>1
<1>4. i < Len(str) /\ x < t /\ x < Len(S)
  <2>1. i < Len(str)
    BY <1>2
  <2> QED
    BY <1>1, <1>3, <2>1
<1>5. str[p.i + 1] = Tok(S, x)
  <2>1. \A j \in 0..(Len(str) - 1) : str[j + 1] = Tok(S, F + j)
    BY DEF Buffers
  <2>2. i \in 0..(Len(str) - 1)
    BY <1>1, <1>4
  <2> QED
    BY <1>2, <1>3, <2>1, <2>2
<1>6. /\ Place(S, A, K, n, p.h, x, y, t) /\ Taken(S, K, n, p.headers)
      /\ ks = -1 \/ (ks < i /\ ks >= 0 /\ Marks(S, K, n, p.h, x, F + ks, F + ke, F + vs, F + ve))
  BY <1>2, <1>3 DEF Going
<1>7. F + (i + 1) = x + 1
  BY <1>1, <1>3
<1>8. ASSUME q.flag = "go", q.i = p.i + 1, Taken(S, K, n, q.headers),
             Place(S, A, K, n, q.h, x + 1, F + q.begin, t),
             \/ q.ks = -1
             \/ /\ q.ks < q.i /\ q.ks >= 0
                /\ Marks(S, K, n, q.h, x + 1, F + q.ks, F + q.ke, F + q.vs, F + q.ve)
      PROVE  Turning(S, A, K, n, F, t, q)
  <2>1. F + q.i = x + 1
    BY <1>2, <1>7, <1>8
  <2> QED
    BY <1>8, <2>1 DEF Turning, Going
<1>9. q.flag = "error" => Turning(S, A, K, n, F, t, q)
  BY DEF Turning
<1>10. ks # -1 => F + ks \in Nat /\ F + ks < x /\ F + ke \in Int /\ F + vs \in Int
  BY <1>1, <1>3, <1>6
<1>11. CASE p.h = "start"
  <2>1. StartPlace(S, A, K, n, x) /\ StartPlace(S, A, K, n, y)
    BY <1>6, <1>11 DEF Place
  <2>2. /\ Tok(S, x) \in {CR, LF} => StartPlace(S, A, K, n, x + 1)
        /\ Tok(S, x) \notin {CR, LF} =>
              KeyPlace(S, K, n, x + 1, x) /\ KeyMarks(S, K, n, x + 1, x)
    BY <1>1, <1>4, <2>1, StartGoes
  <2>3. /\ q.flag = "go" /\ q.i = p.i + 1 /\ q.headers = p.headers
        /\ IF Tok(S, x) \in {CR, LF} THEN q.h = "start" /\ q.begin = p.begin /\ q.ks = p.ks
           ELSE q.h = "key" /\ q.ks = p.i /\ q.begin = p.i
    BY <1>5, <1>11, StepStart
  <2>4. CASE Tok(S, x) \in {CR, LF}
    <3>1. Place(S, A, K, n, q.h, x + 1, F + q.begin, t)
      BY <1>2, <1>3, <2>1, <2>2, <2>3, <2>4 DEF Place
    <3>2. q.ks = -1 \/ (q.ks < q.i /\ q.ks >= 0)
      BY <1>2, <1>6, <2>3, <2>4
    <3>3. Marks(S, K, n, q.h, x + 1, F + q.ks, F + q.ke, F + q.vs, F + q.ve)
      BY <2>3, <2>4 DEF Marks
    <3> QED
      BY <1>6, <1>8, <2>3, <3>1, <3>2, <3>3
  <2>5. CASE Tok(S, x) \notin {CR, LF}
    <3>1. q.h = "key" /\ F + q.ks = x /\ F + q.begin = x
      BY <1>2, <1>3, <2>3, <2>5
    <3>2. Place(S, A, K, n, q.h, x + 1, F + q.begin, t)
      BY <2>2, <2>5, <3>1 DEF Place
    <3>3. q.ks < q.i /\ q.ks >= 0
      BY <1>2, <2>3, <2>5
    <3>4. Marks(S, K, n, q.h, x + 1, F + q.ks, F + q.ke, F + q.vs, F + q.ve)
      BY <2>2, <2>5, <3>1 DEF Marks
    <3> QED
      BY <1>6, <1>8, <2>3, <3>2, <3>3, <3>4
  <2> QED
    BY <2>4, <2>5
<1>12. CASE p.h = "key"
  <2>1. KeyPlace(S, K, n, x, y)
    BY <1>6, <1>12 DEF Place
  <2>2. \/ q.flag = "error"
        \/ /\ q.flag = "go" /\ q.i = p.i + 1 /\ q.headers = p.headers
           /\ q.begin = p.begin /\ q.ks = p.ks
           /\ \/ Tok(S, x) = ":" /\ q.h = "colon" /\ q.ke = p.i
              \/ Tok(S, x) \notin {":", CR, LF} /\ q.h = "key"
    BY <1>5, <1>12, StepKey
  <2> SUFFICES ASSUME q.flag # "error" PROVE Turning(S, A, K, n, F, t, q)
    BY <1>9
  <2>3. Tok(S, x) \notin {CR, LF}
    <3>1. ":" \notin {CR, LF}
      BY DEF CR, LF
    <3> QED
      BY <2>2, <3>1
  <2>4. /\ Tok(S, x) = ":" => ColonPlace(S, K, n, x + 1, y)
        /\ Tok(S, x) # ":" => KeyPlace(S, K, n, x + 1, y)
    BY <1>1, <1>4, <2>1, <2>3, KeyGoes
  <2>5. ks # -1 => /\ Tok(S, x) = ":" => NameMarks(K, n, x + 1, F + ks, x, 2)
                   /\ Tok(S, x) # ":" => KeyMarks(S, K, n, x + 1, F + ks)
    <3> SUFFICES ASSUME ks # -1
                 PROVE  /\ Tok(S, x) = ":" => NameMarks(K, n, x + 1, F + ks, x, 2)
                        /\ Tok(S, x) # ":" => KeyMarks(S, K, n, x + 1, F + ks)
      OBVIOUS
    <3>1. KeyMarks(S, K, n, x, F + ks)
      BY <1>6, <1>12 DEF Marks
    <3> QED
      BY <1>1, <1>4, <1>10, <2>3, <3>1, KeyMarksGo
  <2>6. F + q.begin = y /\ F + q.ks = F + ks
    BY <1>2, <1>3, <2>2
  <2>7. q.ks = -1 \/ (ks # -1 /\ q.ks < q.i /\ q.ks >= 0)
    BY <1>2, <1>6, <2>2, SMTT(40)
  <2>8. CASE Tok(S, x) = ":"
    <3>1. q.h = "colon" /\ F + q.ke = x
      BY <1>2, <1>3, <2>2, <2>8
    <3>2. Place(S, A, K, n, q.h, x + 1, F + q.begin, t)
      BY <2>4, <2>6, <2>8, <3>1 DEF Place
    <3>3. ks # -1 => Marks(S, K, n, q.h, x + 1, F + q.ks, F + q.ke, F + q.vs, F + q.ve)
      BY <2>5, <2>6, <2>8, <3>1 DEF Marks
    <3> QED
      BY <1>6, <1>8, <2>2, <2>7, <3>2, <3>3
  <2>9. CASE Tok(S, x) # ":"
    <3>1. q.h = "key"
      BY <2>2, <2>9
    <3>2. Place(S, A, K, n, q.h, x + 1, F + q.begin, t)
      BY <2>4, <2>6, <2>9, <3>1 DEF Place
    <3>3. ks # -1 => Marks(S, K, n, q.h, x + 1, F + q.ks, F + q.ke, F + q.vs, F + q.ve)
      BY <2>5, <2>6, <2>9, <3>1 DEF Marks
    <3> QED
      BY <1>6, <1>8, <2>2, <2>7, <3>2, <3>3
  <2> QED
    BY <2>8, <2>9
<1>13. CASE p.h = "colon"
  <2>1. ColonPlace(S, K, n, x, y)
    BY <1>6, <1>13 DEF Place
  <2>2. \/ q.flag = "error"
        \/ /\ q.flag = "go" /\ q.i = p.i + 1 /\ q.headers = p.headers
           /\ q.begin = p.begin /\ q.ks = p.ks /\ q.ke = p.ke
           /\ Tok(S, x) = SP /\ q.h = "spaces"
    BY <1>5, <1>13, StepColon
  <2> SUFFICES ASSUME q.flag # "error" PROVE Turning(S, A, K, n, F, t, q)
    BY <1>9
  <2>3. SpacesPlace(K, n, x + 1, y)
    BY <1>1, <2>1, <2>2, ColonGoes
  <2>4. ks # -1 => NameMarks(K, n, x + 1, F + ks, F + ke, 3)
    <3> SUFFICES ASSUME ks # -1 PROVE NameMarks(K, n, x + 1, F + ks, F + ke, 3)
      OBVIOUS
    <3>1. NameMarks(K, n, x, F + ks, F + ke, 2)
      BY <1>6, <1>13 DEF Marks
    <3> QED
      BY <1>1, <1>10, <3>1, NameGoes
  <2>5. F + q.begin = y /\ F + q.ks = F + ks /\ F + q.ke = F + ke
    BY <1>2, <1>3, <2>2
  <2>6. q.ks = -1 \/ (ks # -1 /\ q.ks < q.i /\ q.ks >= 0)
    <3>1. q.ks = ks /\ q.i = i + 1
      BY <1>2, <2>2
    <3> QED
      BY <1>6, <3>1
  <2>7. Place(S, A, K, n, q.h, x + 1, F + q.begin, t)
    BY <2>2, <2>3, <2>5 DEF Place
  <2>8. ks # -1 => Marks(S, K, n, q.h, x + 1, F + q.ks, F + q.ke, F + q.vs, F + q.ve)
    BY <2>2, <2>4, <2>5 DEF Marks
  <2> QED
    BY <1>6, <1>8, <2>2, <2>6, <2>7, <2>8
<1>14. CASE p.h = "spaces"
  <2>1. SpacesPlace(K, n, x, y)
    BY <1>6, <1>14 DEF Place
  <2>2. /\ q.flag = "go" /\ q.i = p.i + 1 /\ q.headers = p.headers
        /\ q.begin = p.begin /\ q.ks = p.ks /\ q.ke = p.ke /\ q.vs = p.i /\ q.h = "value"
    BY <1>14, StepSpaces
  <2>3. ValuePlace(K, n, x + 1, y)
    BY <1>1, <2>1, SpacesGo
  <2>4. ks # -1 => ValueMarks(K, n, x + 1, F + ks, F + ke, x, 4)
    <3> SUFFICES ASSUME ks # -1 PROVE ValueMarks(K, n, x + 1, F + ks, F + ke, x, 4)
      OBVIOUS
    <3>1. NameMarks(K, n, x, F + ks, F + ke, 3)
      BY <1>6, <1>14 DEF Marks
    <3> QED
      BY <1>1, <1>10, <3>1, NameThenValue
  <2>5. F + q.begin = y /\ F + q.ks = F + ks /\ F + q.ke = F + ke /\ F + q.vs = x
    BY <1>2, <1>3, <2>2
  <2>6. q.ks = -1 \/ (ks # -1 /\ q.ks < q.i /\ q.ks >= 0)
    BY <1>2, <1>6, <2>2
  <2>7. Place(S, A, K, n, q.h, x + 1, F + q.begin, t)
    BY <2>2, <2>3, <2>5 DEF Place
  <2>8. ks # -1 => Marks(S, K, n, q.h, x + 1, F + q.ks, F + q.ke, F + q.vs, F + q.ve)
    BY <2>2, <2>4, <2>5 DEF Marks
  <2> QED
    BY <1>6, <1>8, <2>2, <2>6, <2>7, <2>8
<1>15. CASE p.h = "value"
  <2>1. ValuePlace(K, n, x, y)
    BY <1>6, <1>15 DEF Place
  <2>2. \/ q.flag = "error"
        \/ /\ q.flag = "go" /\ q.i = p.i + 1 /\ q.headers = p.headers
           /\ q.begin = p.begin /\ q.ks = p.ks /\ q.ke = p.ke /\ q.vs = p.vs
           /\ \/ Tok(S, x) = CR /\ q.h = "cr" /\ q.ve = p.i
              \/ Tok(S, x) # CR /\ q.h = "value"
    BY <1>5, <1>15, StepValue
  <2> SUFFICES ASSUME q.flag # "error" PROVE Turning(S, A, K, n, F, t, q)
    BY <1>9
  <2>3. /\ Tok(S, x) = CR => CrPlace(S, K, n, x + 1, y)
        /\ Tok(S, x) # CR => ValuePlace(K, n, x + 1, y)
    BY <1>1, <2>1, ValueGoes
  <2>4. ks # -1 => /\ Tok(S, x) = CR => LineMarks(K, n, x + 1, F + ks, F + ke, F + vs, x)
                   /\ Tok(S, x) # CR => ValueMarks(K, n, x + 1, F + ks, F + ke, F + vs, 4)
    <3> SUFFICES ASSUME ks # -1
                 PROVE  /\ Tok(S, x) = CR => LineMarks(K, n, x + 1, F + ks, F + ke, F + vs, x)
                        /\ Tok(S, x) # CR => ValueMarks(K, n, x + 1, F + ks, F + ke, F + vs, 4)
      OBVIOUS
    <3>1. ValueMarks(K, n, x, F + ks, F + ke, F + vs, 4)
      BY <1>6, <1>15 DEF Marks
    <3> QED
      BY <1>1, <1>10, <3>1, ValueMarksGo
  <2>5. F + q.begin = y /\ F + q.ks = F + ks /\ F + q.ke = F + ke /\ F + q.vs = F + vs
    BY <1>2, <1>3, <2>2
  <2>6. q.ks = -1 \/ (ks # -1 /\ q.ks < q.i /\ q.ks >= 0)
    BY <1>2, <1>6, <2>2, SMTT(40)
  <2>7. CASE Tok(S, x) = CR
    <3>1. q.h = "cr" /\ F + q.ve = x
      BY <1>2, <1>3, <2>2, <2>7
    <3>2. Place(S, A, K, n, q.h, x + 1, F + q.begin, t)
      BY <2>3, <2>5, <2>7, <3>1 DEF Place
    <3>3. ks # -1 => Marks(S, K, n, q.h, x + 1, F + q.ks, F + q.ke, F + q.vs, F + q.ve)
      BY <2>4, <2>5, <2>7, <3>1 DEF Marks
    <3> QED
      BY <1>6, <1>8, <2>2, <2>6, <3>2, <3>3
  <2>8. CASE Tok(S, x) # CR
    <3>1. q.h = "value"
      BY <2>2, <2>8
    <3>2. Place(S, A, K, n, q.h, x + 1, F + q.begin, t)
      BY <2>3, <2>5, <2>8, <3>1 DEF Place
    <3>3. ks # -1 => Marks(S, K, n, q.h, x + 1, F + q.ks, F + q.ke, F + q.vs, F + q.ve)
      BY <2>4, <2>5, <2>8, <3>1 DEF Marks
    <3> QED
      BY <1>6, <1>8, <2>2, <2>6, <3>2, <3>3
  <2> QED
    BY <2>7, <2>8
<1>16. CASE p.h = "cr"
  <2>1. CrPlace(S, K, n, x, y)
    BY <1>6, <1>16 DEF Place
  <2>2. \/ q.flag = "error"
        \/ /\ q.flag = "go" /\ q.i = p.i + 1 /\ q.begin = p.i /\ q.ks = p.ks
           /\ Tok(S, x) = LF /\ q.h = "lf"
           /\ q.headers = SetHeader(p.headers, Slice(str, p.ks, p.ke), Slice(str, p.vs, p.ve))
    BY <1>5, <1>16, StepCr
  <2> SUFFICES ASSUME q.flag # "error" PROVE Turning(S, A, K, n, F, t, q)
    BY <1>9
  <2>3. LfPlace(K, n, x + 1, x)
    BY <1>1, <2>1, <2>2, CrGoes
  <2>4. Taken(S, K, n, q.headers)
    <3>1. \/ p.ks = -1
          \/ p.ks >= 0 /\ LineMarks(K, n, F + p.i, F + p.ks, F + p.ke, F + p.vs, F + p.ve)
      BY <1>16 DEF Going, Marks
    <3>2. Taken(S, K, n, SetHeader(p.headers, Slice(str, p.ks, p.ke), Slice(str, p.vs, p.ve)))
      BY <1>6, <3>1, TakenLine
    <3> QED
      BY <2>2, <3>2
  <2>5. F + q.begin = x
    BY <1>2, <1>3, <2>2
  <2>6. q.ks = -1 \/ (q.ks < q.i /\ q.ks >= 0)
    BY <1>2, <1>6, <2>2, SMTT(40)
  <2>7. Place(S, A, K, n, q.h, x + 1, F + q.begin, t)
    BY <2>2, <2>3, <2>5 DEF Place
  <2>8. Marks(S, K, n, q.h, x + 1, F + q.ks, F + q.ke, F + q.vs, F + q.ve)
    BY <2>2 DEF Marks
  <2> QED
    BY <1>8, <2>2, <2>4, <2>6, <2>7, <2>8
<1>17. CASE p.h = "lf"
  <2>1. LfPlace(K, n, x, y)
    BY <1>6, <1>17 DEF Place
  <2>2. /\ q.flag = "go" /\ q.i = p.i + 1 /\ q.headers = p.headers /\ q.begin = p.begin
        /\ IF Tok(S, x) = CR THEN q.h = "end_cr" /\ q.ks = p.ks
           ELSE q.h = "key" /\ q.ks = p.i
    BY <1>5, <1>17, StepLf
  <2>3. /\ Tok(S, x) = CR => EndCrPlace(K, n, x + 1, y, t)
        /\ Tok(S, x) # CR => KeyPlace(S, K, n, x + 1, y) /\ KeyMarks(S, K, n, x + 1, x)
    BY <1>1, <1>4, <2>1, LfGoes
  <2>4. F + q.begin = y
    BY <1>2, <1>3, <2>2
  <2>5. CASE Tok(S, x) = CR
    <3>1. Place(S, A, K, n, q.h, x + 1, F + q.begin, t)
      BY <2>2, <2>3, <2>4, <2>5 DEF Place
    <3>2. q.ks = -1 \/ (q.ks < q.i /\ q.ks >= 0)
      BY <1>2, <1>6, <2>2, <2>5
    <3>3. Marks(S, K, n, q.h, x + 1, F + q.ks, F + q.ke, F + q.vs, F + q.ve)
      BY <2>2, <2>5 DEF Marks
    <3> QED
      BY <1>6, <1>8, <2>2, <3>1, <3>2, <3>3
  <2>6. CASE Tok(S, x) # CR
    <3>1. q.h = "key" /\ F + q.ks = x
      BY <1>2, <1>3, <2>2, <2>6
    <3>2. Place(S, A, K, n, q.h, x + 1, F + q.begin, t)
      BY <2>3, <2>4, <2>6, <3>1 DEF Place
    <3>3. q.ks < q.i /\ q.ks >= 0
      BY <1>2, <2>2, <2>6
    <3>4. Marks(S, K, n, q.h, x + 1, F + q.ks, F + q.ke, F + q.vs, F + q.ve)
      BY <2>3, <2>6, <3>1 DEF Marks
    <3> QED
      BY <1>6, <1>8, <2>2, <3>2, <3>3, <3>4
  <2> QED
    BY <2>5, <2>6
<1>18. CASE p.h = "end_cr"
  <2>1. EndCrPlace(K, n, x, y, t)
    BY <1>6, <1>18 DEF Place
  <2>2. \/ q.flag = "error"
        \/ /\ q.flag = "go" /\ q.i = p.i + 1 /\ q.headers = p.headers
           /\ q.begin = p.begin /\ q.ks = p.ks /\ Tok(S, x) = LF /\ q.h = "end_lf"
    BY <1>5, <1>18, StepEndCr
  <2> SUFFICES ASSUME q.flag # "error" PROVE Turning(S, A, K, n, F, t, q)
    BY <1>9
  <2>3. EndLfPlace(K, n, x + 1, t)
    BY <1>1, <2>1, EndCrGoes
  <2>4. Place(S, A, K, n, q.h, x + 1, F + q.begin, t)
    BY <2>2, <2>3 DEF Place
  <2>5. q.ks = -1 \/ (q.ks < q.i /\ q.ks >= 0)
    BY <1>2, <1>6, <2>2
  <2>6. Marks(S, K, n, q.h, x + 1, F + q.ks, F + q.ke, F + q.vs, F + q.ve)
    BY <2>2 DEF Marks
  <2> QED
    BY <1>6, <1>8, <2>2, <2>4, <2>5, <2>6
<1>19. CASE p.h = "end_lf"
  <2>1. EndLfPlace(K, n, x, t)
    BY <1>6, <1>19 DEF Place
  <2>2. q.flag = "stop" /\ q.i = p.i + 1 /\ q.headers = p.headers /\ q.h = "end_lf"
    BY <1>19, StepEndLf
  <2>3. F + q.i - 1 = x
    BY <1>1, <1>2, <1>3, <2>2
  <2> QED
    BY <1>6, <2>1, <2>2, <2>3 DEF Turning, Stopped
<1>20. p.h \in HeaderStates
  BY DEF Turn
<1> QED
  BY <1>11, <1>12, <1>13, <1>14, <1>15, <1>16, <1>17, <1>18, <1>19, <1>20 DEF HeaderStates

\* A turn that does not break off or return moves on by one token.
LEMMA StepCounts ==
  ASSUME NEW str, NEW p \in Turn, p.flag = "go", NEW q, q = HeaderStep(str, p)
  PROVE  q.flag = "go" => q.i = p.i + 1
<1>1. p.h \in HeaderStates
  BY DEF Turn
<1>2. CASE p.h \in {"start", "lf"}
  BY <1>2, StepStart, StepLf
<1>3. CASE p.h \in {"key", "colon", "spaces"}
  <2>1. p.h = "colon" => \/ q.flag = "error"
                         \/ q.flag = "go" /\ q.i = p.i + 1
    BY StepColon, Zenon
  <2> QED
    BY <1>3, <2>1, StepKey, StepSpaces
<1>4. CASE p.h \in {"value", "cr"}
  BY <1>4, StepValue, StepCr
<1>5. CASE p.h \in {"end_cr", "end_lf"}
  BY <1>5, StepEndCr, StepEndLf
<1> QED
  BY <1>1, <1>2, <1>3, <1>4, <1>5 DEF HeaderStates

\* Where the loop ends.
LEMMA LoopKeepsPlace ==
  ASSUME NEW S, NEW A, NEW K, NEW n, NEW F, NEW t, NEW str, Buffers(S, A, K, n, F, t, str),
         Grid(S, A, K, n), NEW p0, TurnOK(p0, 0), p0.flag = "go",
         Going(S, A, K, n, F, t, p0), NEW p, p = HeaderLoop(str, p0)
  PROVE  /\ TurnOK(p, Len(str)) /\ Turning(S, A, K, n, F, t, p)
         /\ p.flag = "go" => p.i = Len(str)
<1>1. str \in Seq(Token) /\ Len(str) \in Nat
  BY DEF Buffers
<1>2. PICK G : Turns(G, str, p0, Len(str)) /\ HeaderLoop(str, p0) = G[Len(str)]
  BY <1>1, LoopIs
<1> DEFINE Good(r, m) == /\ TurnOK(r, m) /\ Turning(S, A, K, n, F, t, r)
                         /\ r.flag = "go" => r.i = m
           T == {m \in Nat : m <= Len(str) => Good(G[m], m)}
<1>3. 0 \in T
  <2>1. G[0] = p0
    BY <1>1, <1>2 DEF Turns
  <2>2. p0.i = 0
    BY DEF TurnOK, Turn
  <2>3. Turning(S, A, K, n, F, t, p0)
    BY DEF Turning
  <2> QED
    BY <2>1, <2>2, <2>3
<1>4. \A m \in Nat : m \in T => m + 1 \in T
  <2> SUFFICES ASSUME NEW m \in Nat, Good(G[m], m), m + 1 <= Len(str)
               PROVE  Good(G[m + 1], m + 1)
    OBVIOUS
  <2>1. PICK k : k = m + 1
    OBVIOUS
  <2>2. k \in 0..Len(str) /\ k # 0 /\ k - 1 = m /\ m \in 0..(Len(str) - 1)
    BY <1>1, <2>1
  <2>3. G[k] = LoopTurn(str, G[m])
    BY <1>2, <2>2 DEF Turns
  <2>4. PICK r, q : r = G[m] /\ q = G[k]
    OBVIOUS
  <2>5. CASE r.flag = "go"
    <3>1. q = HeaderStep(str, r)
      BY <2>3, <2>4, <2>5 DEF LoopTurn
    <3>2. TurnOK(r, m) /\ r.i = m /\ Going(S, A, K, n, F, t, r)
      BY <2>4, <2>5 DEF Turning
    <3>3. TurnOK(q, m + 1)
      BY <1>1, <2>2, <3>1, <3>2, HeaderStepType
    <3>4. r \in Turn /\ r.i < Len(str) /\ r.ke <= r.i /\ r.ve <= r.i
      BY <1>1, <2>2, <3>2 DEF TurnOK
    <3>5. Turning(S, A, K, n, F, t, q)
      BY <2>5, <3>1, <3>2, <3>4, TurnKeepsPlace
    <3>6. q.flag = "go" => q.i = r.i + 1
      BY <2>5, <3>1, <3>4, StepCounts
    <3> QED
      BY <2>1, <2>4, <3>2, <3>3, <3>5, <3>6
  <2>6. CASE r.flag # "go"
    <3>1. q = r
      BY <2>3, <2>4, <2>6 DEF LoopTurn
    <3>2. TurnOK(r, m + 1)
      BY <2>4, SMTT(40) DEF TurnOK, Turn
    <3> QED
      BY <2>1, <2>4, <2>6, <3>1, <3>2
  <2> QED
    BY <2>5, <2>6
<1> HIDE DEF T
<1>5. Len(str) \in T
  BY <1>1, <1>3, <1>4, SetInduction
<1> QED
  BY <1>1, <1>2, <1>5 DEF T

-----------------------------------------------------------------------------
(* Where the requests of a stream begin and end.                           *)

\* The first n of a sequence of sequences.
First(q, n) == [i \in 1..n |-> q[i]]

\* Where they end.
Ends(q, n) == Len(SX!FlattenSeq(First(q, n)))

\* The function FlattenSeq computes exists.
LEMMA FlattenFunction ==
  ASSUME NEW S, NEW q \in Seq(Seq(S))
  PROVE  \E F \in [1..Len(q) -> Seq(S)] : FlattensTo(F, q, Len(q))
<1>1. Len(q) \in Nat /\ Len(q) <= Len(q)
  OBVIOUS
<1> QED
  BY <1>1, FlattensExists

\* F is the flattening of each beginning of q, and each begins the next ones.
LEMMA FlattenBegins ==
  ASSUME NEW S, NEW q \in Seq(Seq(S)), NEW F \in [1..Len(q) -> Seq(S)],
         FlattensTo(F, q, Len(q)), NEW n \in 1..Len(q)
  PROVE  /\ SX!FlattenSeq(First(q, n)) = F[n]
         /\ F[n] = IF n = 1 THEN q[n] ELSE F[n - 1] \o q[n]
<1>1. /\ First(q, n) \in Seq(Seq(S)) /\ Len(First(q, n)) = n
      /\ \A i \in 1..n : First(q, n)[i] = q[i]
  BY DEF First
<1>2. PICK p : p = First(q, n)
  OBVIOUS
<1>3. p \in Seq(Seq(S)) /\ Len(p) = n /\ n # 0
  BY <1>1, <1>2
<1>4. FlattensTo(F, p, n)
  <2> SUFFICES ASSUME NEW i \in 1..n
               PROVE  F[i] = IF i = 1 THEN p[i] ELSE F[i - 1] \o p[i]
    BY DEF FlattensTo
  <2>1. i \in 1..Len(q) /\ p[i] = q[i]
    BY <1>1, <1>2
  <2>2. F[i] = IF i = 1 THEN q[i] ELSE F[i - 1] \o q[i]
    BY <2>1 DEF FlattensTo
  <2> QED
    BY <2>1, <2>2
<1>5. SX!FlattenSeq(p) = F[n]
  BY <1>3, <1>4, FlattenIs
<1> QED
  BY <1>2, <1>5 DEF FlattensTo

\* Each end is the one before and the length of what comes between.
LEMMA EndsAre ==
  ASSUME NEW S, NEW q \in Seq(Seq(S))
  PROVE  /\ Ends(q, 0) = 0
         /\ \A n \in 1..Len(q) : Ends(q, n) = Ends(q, n - 1) + Len(q[n])
         /\ \A n \in 0..Len(q) : Ends(q, n) \in Nat
         /\ Ends(q, Len(q)) = Len(SX!FlattenSeq(q))
<1>1. Ends(q, 0) = 0
  <2>1. First(q, 0) = <<>>
    BY DEF First
  <2> QED
    BY <2>1, FlattenEmpty DEF Ends
<1>2. ASSUME NEW n \in 0..Len(q) PROVE Ends(q, n) \in Nat
  <2>1. First(q, n) \in Seq(Seq(S))
    BY DEF First
  <2>2. SX!FlattenSeq(First(q, n)) \in Seq(S)
    BY <2>1, FlattenType
  <2> QED
    BY <2>2 DEF Ends
<1>3. ASSUME NEW n \in 1..Len(q) PROVE Ends(q, n) = Ends(q, n - 1) + Len(q[n])
  <2>1. PICK F \in [1..Len(q) -> Seq(S)] : FlattensTo(F, q, Len(q))
    BY FlattenFunction
  <2>2. Ends(q, n) = Len(F[n])
    BY <2>1, FlattenBegins DEF Ends
  <2>3. F[n] = IF n = 1 THEN q[n] ELSE F[n - 1] \o q[n]
    BY <2>1, FlattenBegins, ZenonT(40)
  <2>4. CASE n = 1
    BY <1>1, <2>2, <2>3, <2>4
  <2>5. CASE n # 1
    <3>1. PICK m \in 1..Len(q) : m = n - 1
      BY <2>5
    <3>2. Ends(q, m) = Len(F[m])
      BY <2>1, FlattenBegins DEF Ends
    <3>3. F[m] \in Seq(S) /\ q[n] \in Seq(S)
      BY ElementOfSeq
    <3>4. F[n] = F[m] \o q[n]
      BY <2>3, <2>5, <3>1
    <3>5. Len(F[n]) = Len(F[m]) + Len(q[n])
      BY <3>3, <3>4
    <3> QED
      BY <2>2, <3>1, <3>2, <3>5
  <2> QED
    BY <2>4, <2>5
<1>4. Ends(q, Len(q)) = Len(SX!FlattenSeq(q))
  <2>1. First(q, Len(q)) = q
    BY DEF First
  <2> QED
    BY <2>1 DEF Ends
<1> QED
  BY <1>1, <1>2, <1>3, <1>4

\* What is at the m-th place of the n-th sequence.
LEMMA FlattenAt ==
  ASSUME NEW S, NEW q \in Seq(Seq(S)), NEW n \in 1..Len(q), NEW m \in 1..Len(q[n])
  PROVE  SX!FlattenSeq(q)[Ends(q, n - 1) + m] = q[n][m]
<1>1. PICK F \in [1..Len(q) -> Seq(S)] : FlattensTo(F, q, Len(q))
  BY FlattenFunction
<1>2. PICK x : x = Ends(q, n - 1) + m
  OBVIOUS
<1>3. q[n] \in Seq(S) /\ Len(q[n]) \in Nat
  OBVIOUS
<1>4. Ends(q, n - 1) \in Nat /\ Ends(q, n) = Ends(q, n - 1) + Len(q[n])
  BY EndsAre
<1>5. x \in 1..Len(F[n]) /\ F[n][x] = q[n][m]
  <2>1. Ends(q, n) = Len(F[n])
    BY <1>1, FlattenBegins DEF Ends
  <2>2. F[n] = IF n = 1 THEN q[n] ELSE F[n - 1] \o q[n]
    BY <1>1, FlattenBegins, ZenonT(40)
  <2>3. CASE n = 1
    <3>1. Ends(q, n - 1) = 0
      BY <2>3, EndsAre
    <3> QED
      BY <1>2, <1>3, <2>2, <2>3, <3>1
  <2>4. CASE n # 1
    <3>1. PICK k \in 1..Len(q) : k = n - 1
      BY <2>4
    <3>2. Ends(q, k) = Len(F[k])
      BY <1>1, FlattenBegins DEF Ends
    <3>3. F[k] \in Seq(S)
      OBVIOUS
    <3>4. F[n] = F[k] \o q[n]
      BY <2>2, <2>4, <3>1
    <3>5. x = Len(F[k]) + m
      BY <1>2, <3>1, <3>2
    <3>6. /\ Len(F[k]) \in Nat /\ x \in 1..(Len(F[k]) + Len(q[n])) /\ x > Len(F[k])
          /\ x - Len(F[k]) = m
      BY <1>3, <3>3, <3>5
    <3> QED
      BY <1>3, <3>3, <3>4, <3>6
  <2> QED
    BY <2>3, <2>4
<1> DEFINE T == {j \in Nat : n + j <= Len(q) => x \in 1..Len(F[n + j]) /\ F[n + j][x] = q[n][m]}
<1>6. 0 \in T
  BY <1>5
<1>7. \A j \in Nat : j \in T => j + 1 \in T
  <2> SUFFICES ASSUME NEW j \in Nat, n + (j + 1) <= Len(q),
                      x \in 1..Len(F[n + j]), F[n + j][x] = q[n][m]
               PROVE  x \in 1..Len(F[n + (j + 1)]) /\ F[n + (j + 1)][x] = q[n][m]
    OBVIOUS
  <2>1. PICK k \in 1..Len(q), l \in 1..Len(q) : k = n + j /\ l = n + (j + 1)
    OBVIOUS
  <2>2. l # 1 /\ l - 1 = k
    BY <2>1
  <2>3. F[l] = F[k] \o q[l]
    BY <1>1, <2>2, FlattenBegins, ZenonT(40)
  <2>4. F[k] \in Seq(S) /\ q[l] \in Seq(S)
    BY ElementOfSeq
  <2>5. x \in 1..Len(F[k]) /\ F[k][x] = q[n][m]
    BY <2>1
  <2>6. x \in 1..Len(F[l]) /\ F[l][x] = F[k][x]
    BY <2>3, <2>4, <2>5
  <2> QED
    BY <2>1, <2>5, <2>6
<1> HIDE DEF T
<1>8. Nat \subseteq T
  BY <1>6, <1>7, SetInduction
<1>9. PICK j \in Nat : n + j = Len(q)
  <2>1. Len(q) - n \in Nat /\ n + (Len(q) - n) = Len(q)
    OBVIOUS
  <2> QED
    BY <2>1
<1>10. F[Len(q)][x] = q[n][m]
  <2>1. j \in T /\ n + j <= Len(q)
    BY <1>8, <1>9
  <2> QED
    BY <1>9, <2>1 DEF T
<1>11. SX!FlattenSeq(q) = F[Len(q)]
  <2>1. Len(q) # 0
    OBVIOUS
  <2> QED
    BY <1>1, <2>1, FlattenIs
<1> QED
  BY <1>2, <1>10, <1>11

\* A request as the assumption has it.
WellFormed(r) ==
  /\ r.method \in Method /\ r.version \in Word
  /\ r.path \in Seq(Token) /\ Len(r.path) \in Nat
  /\ \A i \in 1..Len(r.path) : r.path[i] \in Word \cup {"?"} /\ (r.path[i] = "?" <=> i = 2)
  /\ r.headers \in Seq([key : Word, value : Word]) /\ Len(r.headers) \in Nat
  /\ \A i \in 1..Len(r.headers) : r.headers[i].key \in Word /\ r.headers[i].value \in Word
  /\ r.body \in Seq(Token) /\ Len(r.body) \in Nat
  /\ r.body # <<>> => r.method = "POST" /\ r.headers # <<>>

\* What the assumption says beyond the types.
LEMMA Assumed ==
  /\ Word \cap (Method \cup {CR, LF, " ", "/", ":", "?"}) = {}
  /\ \A r \in Request :
       /\ \A i \in DOMAIN r.path : r.path[i] = "?" <=> i = 2
       /\ r.body # <<>> => r.method = "POST" /\ r.headers # <<>>
       /\ MaxRequests * Len(Text(r)) + 1 < SizeT
BY HttpDataAssumption

\* Every request is well formed.
LEMMA RequestWellFormed == \A r \in Request : WellFormed(r)
<1> SUFFICES ASSUME NEW r \in Request PROVE WellFormed(r)
  OBVIOUS
<1>1. r \in [method : Method, path : Seq(Word \cup {"?"}), version : Word,
             headers : Seq([key : Word, value : Word]), body : Seq(Word)]
  BY Requests
<1>2. /\ r.method \in Method /\ r.version \in Word
      /\ r.path \in Seq(Word \cup {"?"}) /\ r.headers \in Seq([key : Word, value : Word])
      /\ r.body \in Seq(Word)
  BY <1>1
<1>3. Len(r.path) \in Nat /\ Len(r.headers) \in Nat /\ Len(r.body) \in Nat
  BY <1>2
<1>4. r.path \in Seq(Token) /\ r.body \in Seq(Token)
  BY <1>2, Tokens, SeqMono
<1>5. \A i \in 1..Len(r.path) : r.path[i] \in Word \cup {"?"} /\ (r.path[i] = "?" <=> i = 2)
  <2>1. DOMAIN r.path = 1..Len(r.path)
    BY <1>2
  <2>2. \A i \in 1..Len(r.path) : r.path[i] \in Word \cup {"?"}
    BY <1>2, ElementOfSeq
  <2> QED
    BY <2>1, <2>2, Assumed
<1>6. \A i \in 1..Len(r.headers) : r.headers[i].key \in Word /\ r.headers[i].value \in Word
  <2> SUFFICES ASSUME NEW i \in 1..Len(r.headers)
               PROVE  r.headers[i].key \in Word /\ r.headers[i].value \in Word
    OBVIOUS
  <2>1. r.headers[i] \in [key : Word, value : Word]
    BY <1>2, ElementOfSeq
  <2> QED
    BY <2>1
<1>7. r.body # <<>> => r.method = "POST" /\ r.headers # <<>>
  BY Assumed
<1> QED
  BY <1>2, <1>3, <1>4, <1>5, <1>6, <1>7 DEF WellFormed

\* u is s and then t, place by place.
Joins(s, t, u) ==
  /\ Len(u) = Len(s) + Len(t)
  /\ \A x \in 1..Len(s) : u[x] = s[x]
  /\ \A x \in (Len(s) + 1)..(Len(s) + Len(t)) : u[x] = t[x - Len(s)]

\* \o under a name of its own, to cite a lemma about it.
Cat(s, t) == s \o t

\* Where the elements of a concatenation come from.
LEMMA CatPlaces ==
  ASSUME NEW S, NEW s \in Seq(S), NEW t \in Seq(S), NEW u, u = Cat(s, t)
  PROVE  u \in Seq(S) /\ Joins(s, t, u)
BY ConcatProperties DEF Cat, Joins

\* The header lines of a request.
Lines(r) == [i \in DOMAIN r.headers |-> HeaderLine(r.headers[i])]

\* The m-th token of the j-th header line.
LEMMA LinesAt ==
  ASSUME NEW r, WellFormed(r), NEW f, f = SX!FlattenSeq(Lines(r))
  PROVE  /\ f \in Seq(Token) /\ Len(f) = 6 * Len(r.headers)
         /\ \A j \in 1..Len(r.headers), m \in 1..6 :
              f[6 * (j - 1) + m] = HeaderLine(r.headers[j])[m]
<1>1. PICK n \in Nat : n = Len(r.headers) /\ DOMAIN r.headers = 1..n
  BY DEF WellFormed
<1>2. PICK q : q = Lines(r)
  OBVIOUS
<1>3. \A i \in 1..n : HeaderLine(r.headers[i]) \in Seq(Token) /\ Len(HeaderLine(r.headers[i])) = 6
  <2> SUFFICES ASSUME NEW i \in 1..n
               PROVE  /\ HeaderLine(r.headers[i]) \in Seq(Token)
                      /\ Len(HeaderLine(r.headers[i])) = 6
    OBVIOUS
  <2>1. r.headers[i] \in [key : Word, value : Word]
    BY <1>1, ElementOfSeq DEF WellFormed
  <2>2. HeaderLine(r.headers[i]) \in Seq(Token)
    BY <2>1, HeaderLineType
  <2> QED
    BY <2>2 DEF HeaderLine
<1>4. q \in Seq(Seq(Token)) /\ Len(q) = n /\ \A i \in 1..n : q[i] = HeaderLine(r.headers[i])
  BY <1>1, <1>2, <1>3 DEF Lines
<1>5. f \in Seq(Token)
  BY <1>2, <1>4, FlattenType
<1> DEFINE T == {j \in Nat : j <= n => Ends(q, j) = 6 * j}
<1>6. 0 \in T
  BY <1>4, EndsAre
<1>7. \A j \in Nat : j \in T => j + 1 \in T
  <2> SUFFICES ASSUME NEW j \in Nat, j + 1 <= n, Ends(q, j) = 6 * j
               PROVE  Ends(q, j + 1) = 6 * (j + 1)
    OBVIOUS
  <2>1. PICK k \in 1..n : k = j + 1 /\ k - 1 = j
    OBVIOUS
  <2>2. Ends(q, k) = Ends(q, k - 1) + Len(q[k])
    BY <1>4, EndsAre
  <2>3. Len(q[k]) = 6
    BY <1>3, <1>4
  <2> QED
    BY <2>1, <2>2, <2>3
<1> HIDE DEF T
<1>8. \A j \in 0..n : Ends(q, j) = 6 * j
  <2>1. Nat \subseteq T
    BY <1>6, <1>7, SetInduction
  <2> QED
    BY <2>1 DEF T
<1>9. Len(f) = 6 * n
  <2>1. Ends(q, n) = Len(f)
    BY <1>2, <1>4, EndsAre
  <2> QED
    BY <1>8, <2>1
<1>10. ASSUME NEW j \in 1..n, NEW m \in 1..6
       PROVE  f[6 * (j - 1) + m] = HeaderLine(r.headers[j])[m]
  <2>1. m \in 1..Len(q[j]) /\ j \in 1..Len(q)
    BY <1>3, <1>4
  <2>2. SX!FlattenSeq(q)[Ends(q, j - 1) + m] = q[j][m]
    BY <1>4, <2>1, FlattenAt
  <2>3. Ends(q, j - 1) = 6 * (j - 1)
    BY <1>8
  <2> QED
    BY <1>2, <1>4, <2>2, <2>3
<1> QED
  BY <1>1, <1>5, <1>9, <1>10

-----------------------------------------------------------------------------
(* The text of a request, token by token.                                  *)

\* The elements of short tuples.
LEMMA TupleElements ==
  ASSUME NEW a, NEW b, NEW c, NEW e, NEW f, NEW g
  PROVE  /\ Len(<<a, b>>) = 2 /\ <<a, b>>[1] = a /\ <<a, b>>[2] = b
         /\ Len(<<a, b, c>>) = 3 /\ <<a, b, c>>[1] = a /\ <<a, b, c>>[2] = b /\ <<a, b, c>>[3] = c
         /\ LET t == <<a, b, c, e, f, g>>
            IN /\ Len(t) = 6 /\ t[1] = a /\ t[2] = b /\ t[3] = c /\ t[4] = e /\ t[5] = f /\ t[6] = g
OBVIOUS

\* Where the headers of a request begin that begins at A.
HeadersOf(r, A) == A + 9 + Len(r.path)

\* Where the body of such a request begins.
BodyOf(r, A) == HeadersOf(r, A) + 6 * Len(r.headers) + 2

\* The request line of r is in S from A on.
LineAt(S, r, A) ==
  LET K == HeadersOf(r, A)
  IN /\ Tok(S, A) = r.method /\ Tok(S, A + 1) = SP /\ Tok(S, A + 2) = "/"
     /\ \A i \in 1..Len(r.path) : Tok(S, A + 2 + i) = r.path[i]
     /\ Tok(S, K - 6) = SP /\ Tok(S, K - 5) = "HTTP" /\ Tok(S, K - 4) = "/"
     /\ Tok(S, K - 3) = r.version /\ Tok(S, K - 2) = CR /\ Tok(S, K - 1) = LF

\* The header h is in S from k on.
LineOf(S, k, h) ==
  /\ Tok(S, k) = h.key /\ Tok(S, k + 1) = ":" /\ Tok(S, k + 2) = SP
  /\ Tok(S, k + 3) = h.value /\ Tok(S, k + 4) = CR /\ Tok(S, k + 5) = LF

\* The headers of r are in S, where they belong if r begins at A.
HeadersAt(S, r, A) ==
  \A j \in 1..Len(r.headers) : LineOf(S, Key(HeadersOf(r, A), j), r.headers[j])

\* The request r begins at A, and S goes on at least to the end of its blank line.
Layout(S, r, A) ==
  /\ LineAt(S, r, A) /\ HeadersAt(S, r, A)
  /\ Tok(S, BodyOf(r, A) - 2) = CR /\ Tok(S, BodyOf(r, A) - 1) = LF
  /\ BodyOf(r, A) <= Len(S)

\* A request written down by itself is laid out from place 0.
LEMMA TextLayout ==
  ASSUME NEW r, WellFormed(r), NEW t, t = Text(r)
  PROVE  /\ t \in Seq(Token) /\ Len(t) = BodyOf(r, 0) + Len(r.body)
         /\ Layout(t, r, 0)
<1>1. PICK a, p, b, f, c, e :
        /\ a = <<r.method, SP, "/">> /\ p = r.path /\ b = <<SP, "HTTP", "/", r.version, CR, LF>>
        /\ f = SX!FlattenSeq(Lines(r)) /\ c = <<CR, LF>> /\ e = r.body
  OBVIOUS
<1>2. PICK P \in Nat, n \in Nat : Len(r.path) = P /\ Len(r.headers) = n
  BY DEF WellFormed
<1>3. /\ a \in Seq(Token) /\ p \in Seq(Token) /\ b \in Seq(Token) /\ f \in Seq(Token)
      /\ c \in Seq(Token) /\ e \in Seq(Token)
  <2>1. r.method \in Token /\ r.version \in Token
    BY Tokens DEF WellFormed
  <2>2. SP \in Token
    BY Tokens DEF SP
  <2>3. a \in Seq(Token) /\ b \in Seq(Token) /\ c \in Seq(Token)
    <3>1. "/" \in Token /\ "HTTP" \in Token /\ CR \in Token /\ LF \in Token
      BY Tokens
    <3> QED
      BY <1>1, <2>1, <2>2, <3>1, Tuples
  <2>4. f \in Seq(Token)
    BY <1>1, LinesAt
  <2> QED
    BY <1>1, <2>3, <2>4 DEF WellFormed
<1>4. PICK L \in Nat : Len(r.body) = L
  BY DEF WellFormed
<1>5. Len(a) = 3 /\ Len(b) = 6 /\ Len(c) = 2
  BY <1>1, TupleElements
<1>6. Len(f) = 6 * n /\ 6 * n \in Nat
  BY <1>1, <1>2, LinesAt
<1>7. Len(p) = P /\ Len(e) = L
  BY <1>1, <1>2, <1>4
<1>8. PICK u, v, w, x : u = Cat(a, p) /\ v = Cat(u, b) /\ w = Cat(v, f) /\ x = Cat(w, c)
  OBVIOUS
<1>9. t = Cat(x, e)
  BY <1>1, <1>8 DEF Text, Lines, Cat, SP
<1>10. /\ u \in Seq(Token) /\ Len(u) = 3 + P
       /\ \A i \in 1..3 : u[i] = a[i]
       /\ \A i \in (3 + 1)..(3 + P) : u[i] = p[i - 3]
  <2>1. u \in Seq(Token) /\ Joins(a, p, u)
    BY <1>3, <1>8, CatPlaces
  <2> QED
    BY <1>5, <1>7, <2>1 DEF Joins
<1>11. /\ v \in Seq(Token) /\ Len(v) = 3 + P + 6
       /\ \A i \in 1..(3 + P) : v[i] = u[i]
       /\ \A i \in (3 + P + 1)..(3 + P + 6) : v[i] = b[i - (3 + P)]
  <2>1. v \in Seq(Token) /\ Joins(u, b, v)
    BY <1>3, <1>8, <1>10, CatPlaces
  <2> QED
    BY <1>5, <1>10, <2>1 DEF Joins
<1>12. /\ w \in Seq(Token) /\ Len(w) = 3 + P + 6 + 6 * n
       /\ \A i \in 1..(3 + P + 6) : w[i] = v[i]
       /\ \A i \in (3 + P + 6 + 1)..(3 + P + 6 + 6 * n) : w[i] = f[i - (3 + P + 6)]
  <2>1. w \in Seq(Token) /\ Joins(v, f, w)
    BY <1>3, <1>8, <1>11, CatPlaces
  <2> QED
    BY <1>6, <1>11, <2>1 DEF Joins
<1>13. /\ x \in Seq(Token) /\ Len(x) = 3 + P + 6 + 6 * n + 2
       /\ \A i \in 1..(3 + P + 6 + 6 * n) : x[i] = w[i]
       /\ \A i \in (3 + P + 6 + 6 * n + 1)..(3 + P + 6 + 6 * n + 2) :
            x[i] = c[i - (3 + P + 6 + 6 * n)]
  <2>1. x \in Seq(Token) /\ Joins(w, c, x)
    BY <1>3, <1>8, <1>12, CatPlaces
  <2> QED
    BY <1>5, <1>12, <2>1 DEF Joins
<1>14. /\ t \in Seq(Token) /\ Len(t) = 3 + P + 6 + 6 * n + 2 + L
       /\ \A i \in 1..(3 + P + 6 + 6 * n + 2) : t[i] = x[i]
  <2>1. t \in Seq(Token) /\ Joins(x, e, t)
    BY <1>3, <1>9, <1>13, CatPlaces
  <2> QED
    BY <1>7, <1>13, <2>1 DEF Joins
<1>15. Len(t) = BodyOf(r, 0) + Len(r.body) /\ BodyOf(r, 0) <= Len(t)
  BY <1>2, <1>4, <1>14 DEF BodyOf, HeadersOf
<1>16. \A i \in 1..(3 + P + 6) : t[i] = v[i]
  BY <1>12, <1>13, <1>14
<1>17. \A i \in 1..(3 + P) : t[i] = u[i]
  BY <1>11, <1>16
<1>18. LineAt(t, r, 0)
  <2>1. t[1] = r.method /\ t[2] = SP /\ t[3] = "/"
    <3>1. a[1] = r.method /\ a[2] = SP /\ a[3] = "/"
      BY <1>1, TupleElements
    <3>2. t[1] = a[1] /\ t[2] = a[2] /\ t[3] = a[3]
      BY <1>10, <1>17
    <3> QED
      BY <3>1, <3>2
  <2>2. \A i \in 1..P : t[3 + i] = r.path[i]
    <3> SUFFICES ASSUME NEW i \in 1..P PROVE t[3 + i] = r.path[i]
      OBVIOUS
    <3>1. PICK k \in 4..(3 + P) : k = 3 + i
      OBVIOUS
    <3>2. t[k] = p[k - 3]
      BY <1>10, <1>17, <3>1
    <3> QED
      BY <1>1, <3>1, <3>2
  <2>3. /\ t[3 + P + 1] = SP /\ t[3 + P + 2] = "HTTP" /\ t[3 + P + 3] = "/"
        /\ t[3 + P + 4] = r.version /\ t[3 + P + 5] = CR /\ t[3 + P + 6] = LF
    <3>1. b[1] = SP /\ b[2] = "HTTP" /\ b[3] = "/" /\ b[4] = r.version /\ b[5] = CR /\ b[6] = LF
      BY <1>1, TupleElements
    <3>2. \A i \in (3 + P + 1)..(3 + P + 6) : t[i] = b[i - (3 + P)]
      BY <1>11, <1>16
    <3> QED
      BY <3>1, <3>2
  <2>4. PICK K \in Nat : K = HeadersOf(r, 0) /\ K = 9 + P
    BY <1>2 DEF HeadersOf
  <2>5. Tok(t, 0) = r.method /\ Tok(t, 0 + 1) = SP /\ Tok(t, 0 + 2) = "/"
    BY <2>1 DEF Tok
  <2>6. \A i \in 1..Len(r.path) : Tok(t, 0 + 2 + i) = r.path[i]
    BY <1>2, <2>2 DEF Tok
  <2>7. /\ Tok(t, K - 6) = SP /\ Tok(t, K - 5) = "HTTP" /\ Tok(t, K - 4) = "/"
        /\ Tok(t, K - 3) = r.version /\ Tok(t, K - 2) = CR /\ Tok(t, K - 1) = LF
    BY <2>3, <2>4 DEF Tok
  <2> QED
    BY <2>4, <2>5, <2>6, <2>7 DEF LineAt
<1>19. HeadersAt(t, r, 0)
  <2> SUFFICES ASSUME NEW j \in 1..n PROVE LineOf(t, Key(HeadersOf(r, 0), j), r.headers[j])
    BY <1>2 DEF HeadersAt
  <2>1. PICK k : k = Key(HeadersOf(r, 0), j)
    OBVIOUS
  <2>2. k \in Nat /\ k = 9 + P + 6 * (j - 1)
    BY <1>2, <2>1 DEF Key, HeadersOf
  <2>3. PICK g : g = HeaderLine(r.headers[j])
    OBVIOUS
  <2>4. \A m \in 1..6 : t[k + m] = g[m]
    <3> SUFFICES ASSUME NEW m \in 1..6 PROVE t[k + m] = g[m]
      OBVIOUS
    <3>1. PICK i \in 1..(6 * n) : i = 6 * (j - 1) + m
      OBVIOUS
    <3>2. PICK z \in (3 + P + 6 + 1)..(3 + P + 6 + 6 * n) : z = 9 + P + i
      BY <3>1
    <3>3. k + m = z /\ z - (3 + P + 6) = i
      BY <2>2, <3>1, <3>2
    <3>4. t[z] = f[i]
      <4>1. t[z] = w[z]
        BY <1>13, <1>14
      <4> QED
        BY <1>12, <3>3, <4>1
    <3>5. f[i] = g[m]
      BY <1>1, <1>2, <2>3, <3>1, LinesAt
    <3> QED
      BY <3>3, <3>4, <3>5
  <2>5. PICK h : h = r.headers[j]
    OBVIOUS
  <2>6. g[1] = h.key /\ g[2] = ":" /\ g[3] = SP /\ g[4] = h.value /\ g[5] = CR /\ g[6] = LF
    <3>1. g = <<h.key, ":", SP, h.value, CR, LF>>
      BY <2>3, <2>5 DEF HeaderLine, SP
    <3> QED
      BY <3>1, TupleElements
  <2>7. /\ t[k + 1] = h.key /\ t[k + 2] = ":" /\ t[k + 3] = SP
        /\ t[k + 4] = h.value /\ t[k + 5] = CR /\ t[k + 6] = LF
    BY <2>4, <2>6
  <2>8. LineOf(t, k, h)
    <3>1. k + 1 + 1 = k + 2 /\ k + 2 + 1 = k + 3 /\ k + 3 + 1 = k + 4 /\ k + 4 + 1 = k + 5
          /\ k + 5 + 1 = k + 6
      BY <2>2
    <3> QED
      BY <2>7, <3>1 DEF LineOf, Tok
  <2> QED
    BY <2>1, <2>5, <2>8
<1>20. Tok(t, BodyOf(r, 0) - 2) = CR /\ Tok(t, BodyOf(r, 0) - 1) = LF
  <2>1. c[1] = CR /\ c[2] = LF
    BY <1>1, TupleElements
  <2>2. t[9 + P + 6 * n + 1] = CR /\ t[9 + P + 6 * n + 2] = LF
    <3>1. \A i \in (3 + P + 6 + 6 * n + 1)..(3 + P + 6 + 6 * n + 2) :
            t[i] = c[i - (3 + P + 6 + 6 * n)]
      BY <1>13, <1>14
    <3> QED
      BY <2>1, <3>1
  <2>3. BodyOf(r, 0) - 2 + 1 = 9 + P + 6 * n + 1 /\ BodyOf(r, 0) - 1 + 1 = 9 + P + 6 * n + 2
    BY <1>2 DEF BodyOf, HeadersOf
  <2> QED
    BY <2>2, <2>3 DEF Tok
<1> QED
  BY <1>14, <1>15, <1>18, <1>19, <1>20 DEF Layout

\* A request that is written down further on is laid out there.
LEMMA LayoutShifts ==
  ASSUME NEW r, WellFormed(r), NEW t, Len(t) \in Nat, Layout(t, r, 0),
         NEW S, Len(S) \in Nat, NEW A \in Nat, A + Len(t) <= Len(S),
         \A m \in 1..Len(t) : S[A + m] = t[m]
  PROVE  Layout(S, r, A)
<1>1. PICK P \in Nat, n \in Nat : Len(r.path) = P /\ Len(r.headers) = n
  BY DEF WellFormed
<1>2. PICK K \in Nat, B \in Nat : K = 9 + P /\ B = K + 6 * n + 2
  OBVIOUS
<1>3. /\ HeadersOf(r, 0) = K /\ HeadersOf(r, A) = A + K
      /\ BodyOf(r, 0) = B /\ BodyOf(r, A) = A + B
  BY <1>1, <1>2 DEF HeadersOf, BodyOf
<1>4. B <= Len(t)
  BY <1>3 DEF Layout
<1>5. ASSUME NEW z \in 0..(B - 1) PROVE Tok(S, A + z) = Tok(t, z)
  <2>1. PICK m \in 1..Len(t) : m = z + 1
    BY <1>4
  <2>2. S[A + m] = t[m] /\ A + z + 1 = A + m
    BY <2>1
  <2> QED
    BY <2>1, <2>2 DEF Tok
<1>6. LineAt(S, r, A)
  <2>1. LineAt(t, r, 0)
    BY DEF Layout
  <2>2. /\ Tok(S, A + 0) = Tok(t, 0) /\ Tok(S, A + 1) = Tok(t, 1) /\ Tok(S, A + 2) = Tok(t, 2)
        /\ Tok(S, A + (K - 6)) = Tok(t, K - 6) /\ Tok(S, A + (K - 5)) = Tok(t, K - 5)
        /\ Tok(S, A + (K - 4)) = Tok(t, K - 4) /\ Tok(S, A + (K - 3)) = Tok(t, K - 3)
        /\ Tok(S, A + (K - 2)) = Tok(t, K - 2) /\ Tok(S, A + (K - 1)) = Tok(t, K - 1)
    <3>1. /\ 0 \in 0..(B - 1) /\ 1 \in 0..(B - 1) /\ 2 \in 0..(B - 1)
          /\ K - 6 \in 0..(B - 1) /\ K - 5 \in 0..(B - 1) /\ K - 4 \in 0..(B - 1)
          /\ K - 3 \in 0..(B - 1) /\ K - 2 \in 0..(B - 1) /\ K - 1 \in 0..(B - 1)
      BY <1>2
    <3> QED
      BY <1>5, <3>1
  <2>3. \A i \in 1..P : Tok(S, A + (2 + i)) = Tok(t, 2 + i)
    <3>1. \A i \in 1..P : 2 + i \in 0..(B - 1)
      BY <1>2
    <3> QED
      BY <1>5, <3>1
  <2>4. PICK H \in Nat : H = A + K
    OBVIOUS
  <2>5. /\ A + 0 = A /\ A + (K - 6) = H - 6 /\ A + (K - 5) = H - 5 /\ A + (K - 4) = H - 4
        /\ A + (K - 3) = H - 3 /\ A + (K - 2) = H - 2 /\ A + (K - 1) = H - 1
    BY <2>4
  <2>6. Tok(S, A) = r.method /\ Tok(S, A + 1) = SP /\ Tok(S, A + 2) = "/"
    <3>1. Tok(t, 0) = r.method /\ Tok(t, 0 + 1) = SP /\ Tok(t, 0 + 2) = "/"
      BY <2>1 DEF LineAt
    <3> QED
      BY <2>2, <2>5, <3>1
  <2>7. \A i \in 1..P : Tok(S, A + 2 + i) = r.path[i]
    <3> SUFFICES ASSUME NEW i \in 1..P PROVE Tok(S, A + 2 + i) = r.path[i]
      OBVIOUS
    <3>1. Tok(t, 0 + 2 + i) = r.path[i]
      BY <1>1, <2>1 DEF LineAt
    <3>2. 0 + 2 + i = 2 + i /\ A + 2 + i = A + (2 + i)
      OBVIOUS
    <3> QED
      BY <2>3, <3>1, <3>2
  <2>8. /\ Tok(S, H - 6) = SP /\ Tok(S, H - 5) = "HTTP" /\ Tok(S, H - 4) = "/"
        /\ Tok(S, H - 3) = r.version /\ Tok(S, H - 2) = CR /\ Tok(S, H - 1) = LF
    <3>1. /\ Tok(t, K - 6) = SP /\ Tok(t, K - 5) = "HTTP" /\ Tok(t, K - 4) = "/"
          /\ Tok(t, K - 3) = r.version /\ Tok(t, K - 2) = CR /\ Tok(t, K - 1) = LF
      BY <1>3, <2>1 DEF LineAt
    <3> QED
      BY <2>2, <2>5, <3>1
  <2> QED
    BY <1>1, <1>3, <2>4, <2>6, <2>7, <2>8 DEF LineAt
<1>7. HeadersAt(S, r, A)
  <2> SUFFICES ASSUME NEW j \in 1..n PROVE LineOf(S, Key(A + K, j), r.headers[j])
    BY <1>1, <1>3 DEF HeadersAt
  <2>1. PICK k \in Nat : k = Key(K, j) /\ k + 6 <= B
    BY <1>2 DEF Key
  <2>2. Key(A + K, j) = A + k
    BY <2>1 DEF Key
  <2>3. LineOf(t, k, r.headers[j])
    BY <1>1, <1>3, <2>1 DEF Layout, HeadersAt
  <2>4. /\ Tok(S, A + k) = Tok(t, k) /\ Tok(S, A + (k + 1)) = Tok(t, k + 1)
        /\ Tok(S, A + (k + 2)) = Tok(t, k + 2) /\ Tok(S, A + (k + 3)) = Tok(t, k + 3)
        /\ Tok(S, A + (k + 4)) = Tok(t, k + 4) /\ Tok(S, A + (k + 5)) = Tok(t, k + 5)
    <3>1. /\ k \in 0..(B - 1) /\ k + 1 \in 0..(B - 1) /\ k + 2 \in 0..(B - 1)
          /\ k + 3 \in 0..(B - 1) /\ k + 4 \in 0..(B - 1) /\ k + 5 \in 0..(B - 1)
      <4>1. k + 6 <= B
        BY <2>1
      <4> QED
        BY ONLY <4>1, k \in Nat, B \in Nat
    <3> QED
      BY <1>5, <3>1
  <2>5. /\ A + (k + 1) = A + k + 1 /\ A + (k + 2) = A + k + 2 /\ A + (k + 3) = A + k + 3
        /\ A + (k + 4) = A + k + 4 /\ A + (k + 5) = A + k + 5
    OBVIOUS
  <2> QED
    BY <2>2, <2>3, <2>4, <2>5 DEF LineOf
<1>8. Tok(S, A + B - 2) = CR /\ Tok(S, A + B - 1) = LF
  <2>1. Tok(t, B - 2) = CR /\ Tok(t, B - 1) = LF
    BY <1>3 DEF Layout
  <2>2. B - 2 \in 0..(B - 1) /\ B - 1 \in 0..(B - 1)
    BY <1>2
  <2>3. A + (B - 2) = A + B - 2 /\ A + (B - 1) = A + B - 1
    OBVIOUS
  <2> QED
    BY <1>5, <2>1, <2>2, <2>3
<1>9. A + B <= Len(S)
  BY <1>4
<1> QED
  BY <1>3, <1>6, <1>7, <1>8, <1>9 DEF Layout

\* The stream is the requests, one behind the other.
LEMMA StreamLayout ==
  ASSUME NEW N \in Nat, reqs \in [1..N -> Request]
  PROVE  /\ Stream \in Seq(Token) /\ Len(reqs) = N /\ EndOf(0) = 0 /\ EndOf(N) = Len(Stream)
         /\ \A k \in 0..N : EndOf(k) \in Nat /\ EndOf(k) <= Len(Stream)
         /\ \A k \in 1..N :
              /\ WellFormed(reqs[k]) /\ Layout(Stream, reqs[k], EndOf(k - 1))
              /\ EndOf(k) = BodyOf(reqs[k], EndOf(k - 1)) + Len(reqs[k].body)
              /\ EndOf(k) = EndOf(k - 1) + Len(Text(reqs[k]))
<1>1. PICK q : q = [i \in 1..N |-> Text(reqs[i])]
  OBVIOUS
<1>2. \A i \in 1..N : reqs[i] \in Request /\ Text(reqs[i]) \in Seq(Token)
  BY TextType
<1>3. q \in Seq(Seq(Token)) /\ Len(q) = N /\ \A i \in 1..N : q[i] = Text(reqs[i])
  BY <1>1, <1>2
<1>4. DOMAIN reqs = 1..N /\ Len(reqs) = N
  <2>1. reqs \in Seq(Request)
    OBVIOUS
  <2> QED
    BY <2>1
<1>5. Stream = SX!FlattenSeq(q) /\ Stream \in Seq(Token)
  <2>1. Stream = SX!FlattenSeq(q)
    BY <1>1, <1>4 DEF Stream
  <2> QED
    BY <1>3, <2>1, FlattenType
<1>6. \A k \in 0..N : EndOf(k) = Ends(q, k)
  <2> SUFFICES ASSUME NEW k \in 0..N PROVE EndOf(k) = Ends(q, k)
    OBVIOUS
  <2>1. [i \in 1..k |-> Text(reqs[i])] = First(q, k)
    BY <1>3 DEF First
  <2> QED
    BY <2>1 DEF EndOf, Ends
<1>7. /\ Ends(q, 0) = 0
      /\ \A k \in 1..N : Ends(q, k) = Ends(q, k - 1) + Len(q[k])
      /\ \A k \in 0..N : Ends(q, k) \in Nat
      /\ Ends(q, N) = Len(Stream)
  BY <1>3, <1>5, EndsAre
<1>8. \A k \in 0..N : Ends(q, k) <= Len(Stream)
  <2> SUFFICES ASSUME NEW k \in 0..N PROVE Ends(q, k) <= Len(Stream)
    OBVIOUS
  <2> DEFINE T == {j \in Nat : k + j <= N => Ends(q, k) <= Ends(q, k + j)}
  <2>1. 0 \in T
    BY <1>7
  <2>2. \A j \in Nat : j \in T => j + 1 \in T
    <3> SUFFICES ASSUME NEW j \in Nat, k + (j + 1) <= N, Ends(q, k) <= Ends(q, k + j)
                 PROVE  Ends(q, k) <= Ends(q, k + (j + 1))
      OBVIOUS
    <3>1. PICK l \in 1..N : l = k + (j + 1) /\ l - 1 = k + j
      OBVIOUS
    <3>2. Ends(q, l) = Ends(q, l - 1) + Len(q[l]) /\ Len(q[l]) \in Nat
      BY <1>3, <1>7, <1>2
    <3>3. Ends(q, l - 1) \in Nat /\ Ends(q, k) \in Nat
      BY <1>7, <3>1
    <3> QED
      BY <3>1, <3>2, <3>3
  <2> HIDE DEF T
  <2>3. N - k \in T
    BY <2>1, <2>2, SetInduction
  <2>4. k + (N - k) = N
    OBVIOUS
  <2> QED
    BY <1>7, <2>3, <2>4 DEF T
<1>9. ASSUME NEW k \in 1..N
      PROVE  /\ WellFormed(reqs[k]) /\ Layout(Stream, reqs[k], EndOf(k - 1))
             /\ EndOf(k) = BodyOf(reqs[k], EndOf(k - 1)) + Len(reqs[k].body)
             /\ EndOf(k) = EndOf(k - 1) + Len(Text(reqs[k]))
  <2>1. PICK r, t, A : r = reqs[k] /\ t = Text(r) /\ A = EndOf(k - 1)
    OBVIOUS
  <2>2. WellFormed(r)
    BY <1>2, <2>1, RequestWellFormed
  <2>3. t \in Seq(Token) /\ Len(t) = BodyOf(r, 0) + Len(r.body) /\ Layout(t, r, 0)
    BY <2>1, <2>2, TextLayout
  <2>4. A \in Nat /\ A = Ends(q, k - 1) /\ q[k] = t /\ EndOf(k) = A + Len(t)
    <3>1. k - 1 \in 0..N /\ k \in 0..N
      OBVIOUS
    <3> QED
      BY <1>3, <1>6, <1>7, <2>1, <3>1
  <2>5. Len(t) \in Nat /\ Len(Stream) \in Nat /\ A + Len(t) <= Len(Stream)
    BY <1>5, <1>6, <1>8, <2>3, <2>4
  <2>6. \A m \in 1..Len(t) : Stream[A + m] = t[m]
    <3> SUFFICES ASSUME NEW m \in 1..Len(t) PROVE Stream[A + m] = t[m]
      OBVIOUS
    <3>1. k \in 1..Len(q) /\ m \in 1..Len(q[k])
      BY <1>3, <2>4
    <3>2. SX!FlattenSeq(q)[Ends(q, k - 1) + m] = q[k][m]
      BY <1>3, <3>1, FlattenAt
    <3> QED
      BY <1>5, <2>4, <3>2
  <2>7. Layout(Stream, r, A)
    BY <2>2, <2>3, <2>4, <2>5, <2>6, LayoutShifts
  <2>8. BodyOf(r, A) = A + BodyOf(r, 0) /\ BodyOf(r, 0) \in Nat /\ Len(r.body) \in Nat
    <3>1. PICK P \in Nat, n \in Nat, L \in Nat :
             P = Len(r.path) /\ n = Len(r.headers) /\ L = Len(r.body)
      BY <2>2 DEF WellFormed
    <3>2. BodyOf(r, A) = A + 9 + P + 6 * n + 2 /\ BodyOf(r, 0) = 0 + 9 + P + 6 * n + 2
      BY <3>1 DEF BodyOf, HeadersOf
    <3>3. A \in Nat
      BY <2>4
    <3>4. A + 9 + P + 6 * n + 2 = A + (0 + 9 + P + 6 * n + 2) /\ 0 + 9 + P + 6 * n + 2 \in Nat
      BY <3>3
    <3> QED
      BY <3>1, <3>2, <3>4
  <2>9. EndOf(k) = BodyOf(r, A) + Len(r.body)
    BY <2>3, <2>4, <2>8
  <2> QED
    BY <2>1, <2>2, <2>4, <2>7, <2>9
<1>10. \A k \in 0..N : EndOf(k) \in Nat /\ EndOf(k) <= Len(Stream)
  BY <1>6, <1>7, <1>8
<1>11. EndOf(0) = 0 /\ EndOf(N) = Len(Stream)
  <2>1. 0 \in 0..N /\ N \in 0..N
    OBVIOUS
  <2> QED
    BY <1>6, <1>7, <2>1
<1> QED
  BY <1>4, <1>5, <1>9, <1>10, <1>11

\* No word, method or other token of a request line is what the parsers look for.
LEMMA Words ==
  /\ \A w \in Word : w \notin {CR, LF, ":", SP, "/", "?"} /\ w \notin Method
  /\ \A m \in Method : m \notin {CR, LF, ":", SP, "/", "?"}
<1>1. Word \cap (Method \cup {CR, LF, SP, "/", ":", "?"}) = {}
  BY Assumed DEF SP
<1>2. ASSUME NEW w \in Word
      PROVE  w \notin {CR, LF, ":", SP, "/", "?"} /\ w \notin Method
  BY <1>1
<1>3. SP \notin {"GET", "POST", "HEAD"}
  BY DEF SP
<1>4. ASSUME NEW m \in Method
      PROVE  m \notin {CR, LF, ":", SP, "/", "?"}
  BY <1>3 DEF Method, CR, LF
<1> QED
  BY <1>2, <1>4

\* The places of a request as numbers.
LEMMA RequestLengths ==
  ASSUME NEW r, WellFormed(r), NEW A \in Nat
  PROVE  \E P \in Nat, n \in Nat, K \in Nat :
           /\ P = Len(r.path) /\ n = Len(r.headers)
           /\ K = HeadersOf(r, A) /\ K = A + 9 + P /\ BodyOf(r, A) = K + 6 * n + 2
<1>1. Len(r.path) \in Nat /\ Len(r.headers) \in Nat
  BY DEF WellFormed
<1>2. HeadersOf(r, A) = A + 9 + Len(r.path)
  BY DEF HeadersOf
<1>3. BodyOf(r, A) = HeadersOf(r, A) + 6 * Len(r.headers) + 2
  BY DEF BodyOf
<1>4. HeadersOf(r, A) \in Nat
  <2>1. \A P \in Nat : A + 9 + P \in Nat
    OBVIOUS
  <2> QED
    BY <1>1, <1>2, <2>1
<1> WITNESS Len(r.path) \in Nat, Len(r.headers) \in Nat, HeadersOf(r, A) \in Nat
<1> QED
  BY <1>2, <1>3

\* The bounds are numbers.
LEMMA Bounds == MaxRequests \in Nat \ {0} /\ SizeT \in Nat \ {0} /\ MaxValue \in Nat
BY HttpDataAssumption

\* Up to its CR, a request line has no CR, LF or colon.
LEMMA LineClear ==
  ASSUME NEW r, WellFormed(r), NEW A \in Nat, NEW S, LineAt(S, r, A),
         NEW z \in A..(HeadersOf(r, A) - 3)
  PROVE  Tok(S, z) \notin {CR, LF, ":"}
<1>1. PICK P \in Nat, n \in Nat, K \in Nat :
        P = Len(r.path) /\ K = HeadersOf(r, A) /\ K = A + 9 + P
  BY RequestLengths
<1>2. r.method \notin {CR, LF, ":"} /\ r.version \notin {CR, LF, ":"}
  BY Words DEF WellFormed
<1>3. SP \notin {CR, LF, ":"} /\ "/" \notin {CR, LF, ":"} /\ "HTTP" \notin {CR, LF, ":"}
  BY DEF CR, LF, SP
<1>4. CASE z \in {A, A + 1, A + 2}
  <2>1. Tok(S, A) = r.method /\ Tok(S, A + 1) = SP /\ Tok(S, A + 2) = "/"
    BY DEF LineAt
  <2> QED
    BY <1>2, <1>3, <1>4, <2>1
<1>5. ASSUME NEW i \in 1..P, z = A + 2 + i PROVE Tok(S, z) \notin {CR, LF, ":"}
  <2>1. Tok(S, z) = r.path[i] /\ r.path[i] \in Word \cup {"?"}
    BY <1>1, <1>5 DEF LineAt, WellFormed
  <2>2. "?" \notin {CR, LF, ":"}
    BY DEF CR, LF
  <2> QED
    BY <2>1, <2>2, Words
<1>6. CASE z \in {K - 6, K - 5, K - 4, K - 3}
  <2>1. /\ Tok(S, K - 6) = SP /\ Tok(S, K - 5) = "HTTP" /\ Tok(S, K - 4) = "/"
        /\ Tok(S, K - 3) = r.version
    BY <1>1 DEF LineAt
  <2> QED
    BY <1>2, <1>3, <1>6, <2>1
<1>7. \/ z \in {A, A + 1, A + 2} \/ z \in {K - 6, K - 5, K - 4, K - 3}
      \/ \E i \in 1..P : z = A + 2 + i
  <2>1. z \in A..(A + 6 + P) /\ A \in Nat /\ P \in Nat
    <3>1. z \in A..(K - 3) /\ K = A + 9 + P /\ A \in Nat /\ P \in Nat
      BY <1>1
    <3> QED
      BY ONLY <3>1
  <2>2. z > A + 2 /\ z < A + 3 + P => z - A - 2 \in 1..P /\ z = A + 2 + (z - A - 2)
    BY ONLY <2>1
  <2>3. z >= A + 3 + P => z \in {K - 6, K - 5, K - 4, K - 3}
    <3>1. K = A + 9 + P /\ A \in Nat /\ P \in Nat
      BY <1>1
    <3> QED
      BY ONLY <2>1, <3>1
  <2>4. z <= A + 2 => z \in {A, A + 1, A + 2}
    BY ONLY <2>1
  <2> QED
    BY <2>1, <2>2, <2>3, <2>4
<1> QED
  BY <1>4, <1>5, <1>6, <1>7

\* What follows a request without headers: nothing, or the method of the next,
\* and no header in its line.
Follows(S, B) ==
  \/ B >= Len(S)
  \/ Tok(S, B) \notin {CR, LF} /\ NoColon(S, B) /\ NoColon(S, B + 1)

\* Another request can follow.
LEMMA RequestFollows ==
  ASSUME NEW r, WellFormed(r), NEW A \in Nat, NEW S, Len(S) \in Nat, Layout(S, r, A)
  PROVE  Follows(S, A)
<1>1. PICK P \in Nat, n \in Nat, K \in Nat :
        /\ P = Len(r.path) /\ n = Len(r.headers)
        /\ K = HeadersOf(r, A) /\ K = A + 9 + P /\ BodyOf(r, A) = K + 6 * n + 2
  BY RequestLengths
<1>2. PICK w \in Nat : w = K - 2
  <2>1. K - 2 \in Nat
    <3>1. K = A + 9 + P
      BY <1>1
    <3> QED
      BY ONLY <3>1, A \in Nat, P \in Nat
  <2> QED
    BY <2>1
<1>3. A + 1 <= w /\ w < Len(S) /\ Tok(S, w) = CR
  <2>1. BodyOf(r, A) <= Len(S) /\ BodyOf(r, A) = K + 6 * n + 2
    BY <1>1 DEF Layout, BodyOf
  <2>2. Tok(S, w) = CR
    BY <1>1, <1>2 DEF Layout, LineAt
  <2>3. K + 6 * n + 2 <= Len(S) /\ K = A + 9 + P /\ w = K - 2
    BY <1>1, <1>2, <2>1
  <2>4. A + 1 <= w /\ w < Len(S)
    BY ONLY <2>3, A \in Nat, P \in Nat, n \in Nat, K \in Nat, Len(S) \in Nat
  <2> QED
    BY <2>2, <2>4
<1>4. \A z \in A..(K - 3) : Tok(S, z) \notin {CR, LF, ":"}
  BY <1>1, LineClear DEF Layout
<1>5. \A z \in A..w : Tok(S, z) # ":"
  <2>1. CR # ":"
    BY DEF CR
  <2> QED
    BY <1>2, <1>3, <1>4, <2>1
<1>6. A + 1 \in Nat /\ A <= w /\ \A z \in (A + 1)..w : Tok(S, z) # ":"
  BY <1>3, <1>5
<1>7. NoColon(S, A) /\ NoColon(S, A + 1)
  BY <1>3, <1>5, <1>6, LineEnds
<1>8. Tok(S, A) \notin {CR, LF}
  <2>1. A \in A..(K - 3)
    <3>1. K = A + 9 + P
      BY <1>1
    <3> QED
      BY ONLY <3>1, A \in Nat, P \in Nat
  <2> QED
    BY <1>4, <2>1
<1> QED
  BY <1>7, <1>8 DEF Follows

\* What parseHeaders is to find in a request.
LEMMA LayoutGrid ==
  ASSUME NEW r, WellFormed(r), NEW A \in Nat, NEW S, Len(S) \in Nat, Layout(S, r, A),
         Len(r.headers) = 0 => Follows(S, BodyOf(r, A)),
         NEW K, K = HeadersOf(r, A), NEW n, n = Len(r.headers)
  PROVE  K \in Nat /\ n \in Nat /\ A + 9 <= K /\ Grid(S, A, K, n)
<1>1. PICK P \in Nat, m \in Nat, H \in Nat :
        /\ P = Len(r.path) /\ m = Len(r.headers)
        /\ H = HeadersOf(r, A) /\ H = A + 9 + P
        /\ BodyOf(r, A) = H + 6 * m + 2
  BY RequestLengths
<1>2. K \in Nat /\ n \in Nat /\ A + 9 <= K
  <2>1. H = A + 9 + P => A + 9 <= H
    BY ONLY A \in Nat, P \in Nat
  <2> QED
    BY <1>1, <2>1
<1>3. \A z \in A..(K - 3) : Tok(S, z) \notin {CR, LF, ":"}
  BY LineClear DEF Layout
<1>4. Tok(S, K - 2) = CR /\ Tok(S, K - 1) = LF
  BY DEF Layout, LineAt
<1>5. ASSUME NEW j \in 1..n PROVE HeaderAt(S, Key(K, j))
  <2>1. LineOf(S, Key(K, j), r.headers[j])
    BY DEF Layout, HeadersAt
  <2>2. r.headers[j].key \in Word /\ r.headers[j].value \in Word
    BY DEF WellFormed
  <2> QED
    BY <2>1, <2>2, Words DEF LineOf, HeaderAt
<1>6. BodyOf(r, A) = K + 6 * n + 2
  BY <1>1
<1>7. Tok(S, K + 6 * n) = CR /\ Tok(S, K + 6 * n + 1) = LF /\ K + 6 * n + 2 <= Len(S)
  <2>1. PICK B : B = BodyOf(r, A)
    OBVIOUS
  <2>2. Tok(S, B - 2) = CR /\ Tok(S, B - 1) = LF /\ B <= Len(S)
    BY <2>1 DEF Layout
  <2>3. B = K + 6 * n + 2
    BY <1>6, <2>1
  <2>4. B - 2 = K + 6 * n /\ B - 1 = K + 6 * n + 1
    BY <1>2, <2>3
  <2> QED
    BY <2>2, <2>3, <2>4
<1>8. n = 0 => \/ K + 2 >= Len(S)
               \/ Tok(S, K + 2) \notin {CR, LF} /\ NoColon(S, K + 2) /\ NoColon(S, K + 3)
  <2> SUFFICES ASSUME n = 0
               PROVE  \/ K + 2 >= Len(S)
                      \/ Tok(S, K + 2) \notin {CR, LF} /\ NoColon(S, K + 2) /\ NoColon(S, K + 3)
    OBVIOUS
  <2>1. BodyOf(r, A) = K + 2 /\ K + 2 + 1 = K + 3
    BY <1>2, <1>6
  <2> QED
    BY <2>1 DEF Follows
<1> QED
  BY <1>2, <1>3, <1>4, <1>5, <1>7, <1>8 DEF Grid

\* The same of each request of the stream.
LEMMA StreamGrid ==
  ASSUME NEW N \in Nat, reqs \in [1..N -> Request], NEW k \in 1..N,
         NEW A, A = EndOf(k - 1), NEW K, K = HeadersOf(reqs[k], A),
         NEW n, n = Len(reqs[k].headers)
  PROVE  A \in Nat /\ K \in Nat /\ n \in Nat /\ A + 9 <= K /\ Grid(Stream, A, K, n)
<1>1. PICK r : r = reqs[k]
  OBVIOUS
<1>2. /\ WellFormed(r) /\ Layout(Stream, r, A) /\ Len(Stream) \in Nat /\ A \in Nat
      /\ EndOf(k) = BodyOf(r, A) + Len(r.body)
  <2>1. k - 1 \in 0..N
    OBVIOUS
  <2>2. Stream \in Seq(Token) /\ EndOf(k - 1) \in Nat
    BY <2>1, StreamLayout
  <2>3. Len(Stream) \in Nat
    BY <2>2
  <2> QED
    BY <1>1, <2>2, <2>3, StreamLayout
<1>3. Len(r.headers) = 0 => Follows(Stream, BodyOf(r, A))
  <2> SUFFICES ASSUME Len(r.headers) = 0 PROVE Follows(Stream, BodyOf(r, A))
    OBVIOUS
  <2>1. Len(r.body) = 0
    <3>1. r.headers = <<>>
      BY <1>2 DEF WellFormed
    <3>2. r.body = <<>>
      BY <1>2, <3>1 DEF WellFormed
    <3> QED
      BY <3>2
  <2>2. EndOf(k) = BodyOf(r, A) /\ EndOf(k) \in Nat
    <3>1. EndOf(k) \in Nat
      BY StreamLayout
    <3>2. BodyOf(r, A) \in Nat
      <4>0. WellFormed(r) /\ A \in Nat
        BY <1>2
      <4>1. PICK P \in Nat, m \in Nat, H \in Nat :
              /\ P = Len(r.path) /\ m = Len(r.headers)
              /\ H = HeadersOf(r, A) /\ H = A + 9 + P /\ BodyOf(r, A) = H + 6 * m + 2
        BY ONLY <4>0, RequestLengths
      <4> QED
        BY <4>1
    <3> QED
      BY <1>2, <2>1, <3>1, <3>2
  <2>3. CASE k = N
    <3>1. EndOf(k) = Len(Stream)
      BY <2>3, StreamLayout
    <3> QED
      BY <2>2, <3>1 DEF Follows
  <2>4. CASE k # N
    <3>1. PICK l \in 1..N : l - 1 = k
      <4>1. k + 1 \in 1..N /\ k + 1 - 1 = k
        BY <2>4
      <4> QED
        BY <4>1
    <3>2. WellFormed(reqs[l]) /\ Layout(Stream, reqs[l], EndOf(k))
      BY <3>1, StreamLayout
    <3>3. Follows(Stream, EndOf(k))
      BY <1>2, <2>2, <3>2, RequestFollows
    <3> QED
      BY <2>2, <3>3
  <2> QED
    BY <2>3, <2>4
<1> QED
  BY <1>1, <1>2, <1>3, LayoutGrid

\* No stream is as long as npos.
LEMMA StreamFits ==
  ASSUME NEW N \in 1..MaxRequests, reqs \in [1..N -> Request]
  PROVE  Len(Stream) \in Nat /\ Len(Stream) < npos
<1>1. MaxRequests \in Nat \ {0} /\ SizeT \in Nat /\ N \in Nat
  BY Bounds
<1>2. PICK M \in Nat, Z \in Int : M = MaxRequests /\ Z = SizeT - 2 /\ M >= 1 /\ N <= M /\ N >= 1
  BY <1>1
<1>3. \A k \in 1..N : Len(Text(reqs[k])) \in Nat /\ M * Len(Text(reqs[k])) <= Z
  <2> SUFFICES ASSUME NEW k \in 1..N
               PROVE  Len(Text(reqs[k])) \in Nat /\ M * Len(Text(reqs[k])) <= Z
    OBVIOUS
  <2>1. PICK L : L = Len(Text(reqs[k]))
    OBVIOUS
  <2>2. reqs[k] \in Request
    BY <1>1
  <2>3. L \in Nat
    BY <2>1, <2>2, TextType
  <2>4. M * L + 1 < SizeT
    BY <1>2, <2>1, <2>2, Assumed
  <2>5. M * L \in Nat
    BY <2>3
  <2>6. M * L <= Z
    BY <1>1, <1>2, <2>4, <2>5
  <2> QED
    BY <2>1, <2>3, <2>6
<1> DEFINE T == {k \in Nat : k <= N => M * EndOf(k) <= k * Z}
<1>4. 0 \in T
  <2>1. EndOf(0) = 0
    BY <1>1, StreamLayout
  <2> QED
    BY <1>2, <2>1
<1>5. \A k \in Nat : k \in T => k + 1 \in T
  <2> SUFFICES ASSUME NEW k \in Nat, k + 1 <= N, M * EndOf(k) <= k * Z
               PROVE  M * EndOf(k + 1) <= (k + 1) * Z
    OBVIOUS
  <2>1. PICK l \in 1..N : l = k + 1 /\ l - 1 = k
    OBVIOUS
  <2>2. PICK e, f, L : e = EndOf(k) /\ f = EndOf(l) /\ L = Len(Text(reqs[l]))
    OBVIOUS
  <2>3. e \in Nat /\ L \in Nat /\ f = e + L
    <3>1. EndOf(l) = EndOf(l - 1) + Len(Text(reqs[l]))
      BY <1>1, StreamLayout
    <3>2. k \in 0..N
      BY <2>1
    <3>3. EndOf(k) \in Nat
      BY <1>1, <3>2, StreamLayout
    <3> QED
      BY <1>3, <2>1, <2>2, <3>1, <3>3
  <2>4. M * e <= k * Z /\ M * L <= Z
    BY <1>3, <2>2
  <2>5. M * (e + L) = M * e + M * L /\ (k + 1) * Z = k * Z + Z
    BY <2>3
  <2>6. M * e \in Nat /\ M * L \in Nat /\ k * Z \in Int
    BY <2>3
  <2>7. \A a, b, c \in Int : a <= b /\ c <= Z => a + c <= b + Z
    OBVIOUS
  <2>8. M * (e + L) <= (k + 1) * Z
    <3>1. M * e + M * L <= k * Z + Z
      BY <2>4, <2>6, <2>7
    <3> QED
      BY <2>5, <3>1
  <2> QED
    BY <2>1, <2>2, <2>3, <2>8
<1> HIDE DEF T
<1>6. N \in T
  BY <1>1, <1>4, <1>5, SetInduction
<1>7. PICK L : L = Len(Stream)
  OBVIOUS
<1>8. L \in Nat /\ M * L <= N * Z
  <2>1. EndOf(N) = Len(Stream) /\ Stream \in Seq(Token)
    BY <1>1, StreamLayout
  <2> QED
    BY <1>6, <1>7, <2>1 DEF T
<1>9. Z >= 0
  <2>1. 1 \in 1..N
    BY <1>1
  <2>2. Len(Text(reqs[1])) \in Nat /\ M * Len(Text(reqs[1])) <= Z
    BY <1>3, <2>1
  <2>3. \A l \in Nat : M * l \in Nat
    OBVIOUS
  <2> QED
    BY <2>2, <2>3
<1>10. L <= Z
  <2> SUFFICES ASSUME L >= Z + 1 PROVE FALSE
    BY <1>8
  <2>1. M * L >= M * (Z + 1)
    BY <1>2, <1>8, <1>9, SMTT(40)
  <2>2. M * (Z + 1) = M * Z + M
    OBVIOUS
  <2>3. N * Z <= M * Z
    BY <1>1, <1>2, <1>9
  <2>4. M * L \in Int /\ M * Z \in Int /\ N * Z \in Int
    BY <1>1, <1>8
  <2> QED
    BY <1>2, <1>8, <2>1, <2>2, <2>3, <2>4, SMTT(40)
<1> QED
  BY <1>1, <1>2, <1>7, <1>8, <1>10 DEF npos

-----------------------------------------------------------------------------
(* What the loop leaves for the next call, and for the other parsers.      *)

\* The positions of a call do not outlive it, the state does: the next call
\* begins where the line began that the last one was in, and may find more.
LEMMA PlaceRestarts ==
  ASSUME NEW S, Len(S) \in Nat, NEW A, NEW K \in Nat, NEW n \in Nat, Grid(S, A, K, n),
         NEW h \in HeaderStates \ {"end_lf"}, NEW x, NEW y, NEW t, Place(S, A, K, n, h, x, y, t)
  PROVE  Place(S, A, K, n, h, y, y, t)
<1>1. Begins(K, n, y) => \/ y = K /\ 1 \in 1..n /\ Key(K, 1) = K
                         \/ \E j \in 1..n : y = Key(K, j) + 5 /\ NoColon(S, y)
  <2> SUFFICES ASSUME Begins(K, n, y), ~(n >= 1 /\ y = K)
               PROVE  \E j \in 1..n : y = Key(K, j) + 5 /\ NoColon(S, y)
    BY DEF Begins, Key
  <2>1. PICK j \in 1..(n - 1) : y = Key(K, j) + 5
    BY DEF Begins
  <2>2. j \in 1..n
    BY <2>1
  <2> QED
    BY <2>1, <2>2, HeaderTokens
<1>2. Begins(K, n, y) => /\ y \in Nat /\ n >= 1 /\ K <= y /\ y <= K + 6 * n - 6
                         /\ Tok(S, y) # SP /\ (y = K => Tok(S, y) # LF)
  BY BeginsAt
<1>3. Begins(K, n, y) => y \in K..(K + 6 * n - 3) /\ y \in K..(K + 6 * n - 2)
  BY <1>2
<1>4. CASE h = "start"
  BY <1>4 DEF Place
<1>5. CASE h = "key"
  <2>1. KeyPlace(S, K, n, x, y)
    BY <1>5 DEF Place
  <2>2. KeyPlace(S, K, n, y, y)
    <3>1. CASE Begins(K, n, y)
      BY <1>1, <3>1 DEF KeyPlace
    <3>2. CASE ~Begins(K, n, y)
      BY <2>1, <3>2 DEF KeyPlace
    <3> QED
      BY <3>1, <3>2
  <2> QED
    BY <1>5, <2>2 DEF Place
<1>6. CASE h = "colon"
  <2>1. ColonPlace(S, K, n, y, y)
    BY <1>2, <1>6 DEF Place, ColonPlace
  <2> QED
    BY <1>6, <2>1 DEF Place
<1>7. CASE h = "spaces"
  <2>1. SpacesPlace(K, n, y, y)
    BY <1>3, <1>7 DEF Place, SpacesPlace
  <2> QED
    BY <1>7, <2>1 DEF Place
<1>8. CASE h = "value"
  <2>1. ValuePlace(K, n, y, y)
    BY <1>3, <1>8 DEF Place, ValuePlace
  <2> QED
    BY <1>8, <2>1 DEF Place
<1>9. CASE h = "cr"
  <2>1. CrPlace(S, K, n, y, y)
    BY <1>1, <1>2, <1>9 DEF Place, CrPlace
  <2> QED
    BY <1>9, <2>1 DEF Place
<1>10. CASE h = "lf"
  <2>1. LfPlace(K, n, y, y)
    BY <1>10 DEF Place, LfPlace
  <2> QED
    BY <1>10, <2>1 DEF Place
<1>11. CASE h = "end_cr"
  <2>1. EndCrPlace(K, n, y, y, t)
    BY <1>11 DEF Place, EndCrPlace
  <2> QED
    BY <1>11, <2>1 DEF Place
<1> QED
  BY <1>4, <1>5, <1>6, <1>7, <1>8, <1>9, <1>10, <1>11 DEF HeaderStates

\* What has been read stays read.
LEMMA PlaceStays ==
  ASSUME NEW S, NEW A, NEW K \in Nat, NEW n \in Nat, NEW h, NEW x, NEW y,
         NEW t \in Nat, NEW u \in Nat, t <= u, Place(S, A, K, n, h, x, y, t)
  PROVE  Place(S, A, K, n, h, x, y, u)
<1>1. t >= K + 6 * n + 1 => u >= K + 6 * n + 1
  OBVIOUS
<1>2. EndCrPlace(K, n, x, y, t) => EndCrPlace(K, n, x, y, u)
  BY <1>1 DEF EndCrPlace
<1>3. EndLfPlace(K, n, x, t) => EndLfPlace(K, n, x, u)
  BY <1>1 DEF EndLfPlace
<1> QED
  BY <1>2, <1>3 DEF Place

\* str is what the stream S has from F up to t.
Holds(S, F, t, str) ==
  /\ S \in Seq(Token) /\ str \in Seq(Token) /\ Len(S) \in Nat /\ Len(str) \in Nat
  /\ F \in Nat /\ t \in Nat /\ t <= Len(S) /\ F + Len(str) = t
  /\ \A i \in 0..(Len(str) - 1) : str[i + 1] = Tok(S, F + i)

\* What is buffered of a request is held of the stream.
LEMMA BuffersHold ==
  ASSUME NEW S, NEW A, NEW K, NEW n, NEW F, NEW t, NEW str
  PROVE  Buffers(S, A, K, n, F, t, str)
           <=> Holds(S, F, t, str) /\ A \in Nat /\ K \in Nat /\ n \in Nat /\ A + 9 <= K
BY DEF Buffers, Holds

\* A part of it is what the stream has there.
LEMMA HoldsPart ==
  ASSUME NEW S, NEW F, NEW t, NEW str, Holds(S, F, t, str),
         NEW a \in 0..Len(str), NEW b \in a..Len(str), NEW part, part = SubSeq(str, a + 1, b)
  PROVE  Holds(S, F + a, F + b, part) /\ Len(part) = b - a
<1>1. /\ S \in Seq(Token) /\ str \in Seq(Token) /\ Len(S) \in Nat /\ Len(str) \in Nat
      /\ F \in Nat /\ t \in Nat /\ t <= Len(S) /\ F + Len(str) = t
  BY DEF Holds
<1>2. PICK L \in Nat : L = Len(str)
  BY <1>1
<1>3. a \in Nat /\ b \in Nat /\ a <= b /\ b <= L
  BY <1>2
<1>4. part \in Seq(Token) /\ Len(part) = b - a /\ \A i \in 1..(b - a) : part[i] = str[a + i]
  BY <1>1, <1>2, <1>3
<1>5. ASSUME NEW i \in 0..(b - a - 1) PROVE part[i + 1] = Tok(S, F + a + i)
  <2>1. PICK j : j = a + i
    OBVIOUS
  <2>2. i + 1 \in 1..(b - a) /\ a + (i + 1) = j + 1 /\ j \in 0..(L - 1) /\ F + a + i = F + j
    BY <1>1, <1>3, <2>1
  <2>3. str[j + 1] = Tok(S, F + j)
    BY <1>2, <2>2 DEF Holds
  <2> QED
    BY <1>4, <2>2, <2>3
<1>6. b - a \in Nat /\ F + a \in Nat /\ F + b \in Nat /\ F + b <= Len(S) /\ F + a + (b - a) = F + b
  BY <1>1, <1>2, <1>3
<1> QED
  BY <1>1, <1>4, <1>5, <1>6 DEF Holds

\* A read adds what has arrived.
LEMMA HoldsMore ==
  ASSUME NEW S, NEW F, NEW t, NEW str, Holds(S, F, t, str), NEW u \in t..Len(S),
         NEW more, more = str \o SubSeq(S, t + 1, u)
  PROVE  Holds(S, F, u, more)
<1>1. /\ S \in Seq(Token) /\ str \in Seq(Token) /\ Len(S) \in Nat /\ Len(str) \in Nat
      /\ F \in Nat /\ t \in Nat /\ t <= Len(S) /\ F + Len(str) = t
  BY DEF Holds
<1>2. PICK L \in Nat : L = Len(str) /\ F + L = t
  BY <1>1
<1>3. u \in Nat /\ t <= u /\ u <= Len(S)
  BY <1>1
<1>4. PICK e : e = SubSeq(S, t + 1, u)
  OBVIOUS
<1>5. e \in Seq(Token) /\ Len(e) = u - t /\ \A i \in 1..(u - t) : e[i] = S[t + i]
  BY <1>1, <1>3, <1>4
<1>6. PICK m \in Nat : m = u - t
  BY <1>1, <1>3
<1>7. /\ more \in Seq(Token) /\ Len(more) = L + m
      /\ \A i \in 1..L : more[i] = str[i]
      /\ \A i \in (L + 1)..(L + m) : more[i] = e[i - L]
  <2>1. more = Cat(str, e)
    BY <1>4 DEF Cat
  <2>2. more \in Seq(Token) /\ Joins(str, e, more)
    BY <1>1, <1>5, <2>1, CatPlaces
  <2> QED
    BY <1>2, <1>5, <1>6, <2>2 DEF Joins
<1>8. ASSUME NEW i \in 0..(L + m - 1) PROVE more[i + 1] = Tok(S, F + i)
  <2>1. CASE i < L
    <3>1. i + 1 \in 1..L /\ i \in 0..(L - 1)
      BY <2>1
    <3> QED
      BY <1>2, <1>7, <3>1 DEF Holds
  <2>2. CASE i >= L
    <3>1. i \in Nat /\ i < L + m /\ i + 1 \in Nat /\ i + 1 - L \in Nat
      BY <2>2
    <3>2. PICK k \in Nat, j \in Nat : k = i + 1 /\ j = i + 1 - L
      BY ONLY <3>1
    <3>3. k \in (L + 1)..(L + m) /\ j \in 1..m /\ j = k - L
      BY ONLY <2>2, <3>1, <3>2, L \in Nat, m \in Nat
    <3>4. F \in Nat
      BY <1>1
    <3>5. F + L + j = F + k
      BY ONLY <3>3, <3>4, k \in Nat, j \in Nat, L \in Nat
    <3>6. t + j = F + k
      BY <1>2, <3>5
    <3>7. more[k] = e[j]
      BY <1>7, <3>3
    <3>8. e[j] = S[t + j]
      BY <1>5, <1>6, <3>3
    <3>9. F + k = F + i + 1
      BY <3>1, <3>2, <3>4
    <3> QED
      BY <3>2, <3>6, <3>7, <3>8, <3>9 DEF Tok
  <2>3. i < L \/ i >= L
    BY ONLY i \in 0..(L + m - 1), L \in Nat, m \in Nat
  <2> QED
    BY <2>1, <2>2, <2>3
<1>9. F + (L + m) = u
  <2>1. F + L = t /\ m = u - t /\ F \in Nat /\ t \in Nat /\ u \in Nat
    BY <1>1, <1>2, <1>3, <1>6
  <2> QED
    BY ONLY <2>1, L \in Nat, m \in Nat
<1>10. PICK M : M = L + m /\ Len(more) = M
  BY <1>7
<1>11. M \in Nat /\ F + M = u /\ \A i \in 0..(M - 1) : more[i + 1] = Tok(S, F + i)
  <2>1. M \in Nat
    BY ONLY <1>10, L \in Nat, m \in Nat
  <2>2. F + M = u
    BY ONLY <1>9, <1>10
  <2>3. \A i \in 0..(M - 1) : more[i + 1] = Tok(S, F + i)
    BY ONLY <1>8, <1>10
  <2> QED
    BY <2>1, <2>2, <2>3
<1> QED
  BY <1>1, <1>3, <1>7, <1>10, <1>11 DEF Holds

\* From cuts tokens off: no text is as long as npos.
LEMMA HoldsFrom ==
  ASSUME NEW S, NEW F, NEW t, NEW str, Holds(S, F, t, str), Len(S) < npos,
         NEW pos \in 0..Len(str)
  PROVE  Holds(S, F + pos, t, From(str, pos))
<1>1. Len(S) \in Nat /\ Len(str) \in Nat /\ F \in Nat /\ t \in Nat /\ t <= Len(S) /\ F + Len(str) = t
  BY DEF Holds
<1>2. PICK L \in Nat : L = Len(str) /\ F + L = t
  BY <1>1
<1>3. npos \in Nat
  BY SizeTType
<1>4. pos + npos > L \/ pos + npos = L
  BY <1>1, <1>2, <1>3
<1>5. PICK part : part = From(str, pos) /\ part = SubSeq(str, pos + 1, L)
  BY <1>2, <1>4 DEF From, Substr
<1>6. L \in pos..Len(str)
  BY <1>2
<1>7. PICK b \in pos..Len(str) : b = L
  BY <1>6
<1>8. part = SubSeq(str, pos + 1, b)
  BY <1>5, <1>7
<1>9. Holds(S, F + pos, F + b, part)
  BY ONLY <1>8, HoldsPart, Holds(S, F, t, str), pos \in 0..Len(str), b \in pos..Len(str)
<1> QED
  BY <1>2, <1>5, <1>7, <1>9

\* What parseHeaders leaves, when it returns without an error: where the line
\* begins that it is in, or the end of the blank line.
LEMMA ParseHeadersPlace ==
  ASSUME NEW S, NEW A, NEW K, NEW n, NEW F, NEW t, NEW str, Buffers(S, A, K, n, F, t, str),
         Grid(S, A, K, n), Len(S) < npos,
         NEW h \in HeaderStates, NEW headers \in SUBSET Header,
         Place(S, A, K, n, h, F, F, t), Taken(S, K, n, headers),
         NEW p, p = ParseHeaders(str, h, headers)
  PROVE  /\ p.flag # "error" => Taken(S, K, n, p.headers)
         /\ p.flag = "again" =>
              \E G \in Nat : Holds(S, G, t, p.rest) /\ Place(S, A, K, n, p.h, G, G, t)
         /\ p.flag = "success" =>
              \E G \in Nat : /\ Holds(S, G, t, p.rest)
                             /\ G \in {K + 6 * n + 1, K + 6 * n + 2, K + 6 * n + 3}
                             /\ t >= K + 6 * n + 1
<1>1. PICK p0 : p0 = [i |-> 0, h |-> h, headers |-> headers, ks |-> -1, ke |-> -1,
                      vs |-> -1, ve |-> -1, begin |-> 0, flag |-> "go"]
  OBVIOUS
<1>2. PICK q : q = HeaderLoop(str, p0)
  OBVIOUS
<1>3. TurnOK(p0, 0)
  BY <1>1 DEF TurnOK, Turn
<1>4. /\ Holds(S, F, t, str) /\ K \in Nat /\ n \in Nat /\ F \in Nat /\ t \in Nat
      /\ Len(S) \in Nat /\ Len(str) \in Nat /\ F + Len(str) = t
  BY DEF Buffers, Holds
<1>5. Going(S, A, K, n, F, t, p0)
  <2>1. /\ p0.ks = -1 /\ p0.h = h /\ p0.i = 0 /\ p0.begin = 0 /\ p0.headers = headers
    BY <1>1
  <2>2. F + p0.i = F /\ F + p0.begin = F
    BY <1>4, <2>1
  <2> QED
    BY <2>1, <2>2, Zenon DEF Going
<1>6. /\ TurnOK(q, Len(str)) /\ Turning(S, A, K, n, F, t, q)
      /\ q.flag = "go" => q.i = Len(str)
  <2>1. p0.flag = "go"
    BY <1>1
  <2> QED
    BY <1>2, <1>3, <1>5, <2>1, LoopKeepsPlace
<1>7. /\ q \in Turn /\ q.i \in Nat /\ q.begin \in Nat /\ q.begin <= q.i /\ q.i <= Len(str)
      /\ q.flag \in {"go", "error", "stop"} /\ q.h \in HeaderStates
  BY <1>6 DEF TurnOK, Turn
<1>8. PICK i \in Nat, b \in Nat : i = q.i /\ b = q.begin
  BY <1>7
<1>9. i \in 0..Len(str) /\ b \in 0..Len(str)
  BY <1>4, <1>7, <1>8
<1>10. Holds(S, F + i, t, From(str, i)) /\ Holds(S, F + b, t, From(str, b))
  BY <1>4, <1>9, HoldsFrom
<1>11. F + i \in Nat /\ F + b \in Nat
  BY <1>4
<1>12. /\ p.headers = q.headers /\ p.h = q.h
       /\ q.flag = "error" => p.flag = "error"
       /\ q.flag # "error" /\ q.h = "end_lf" => p.flag = "success" /\ p.rest = From(str, i)
       /\ q.flag # "error" /\ q.h # "end_lf" => p.flag = "again" /\ p.rest = From(str, b)
  BY <1>1, <1>2, <1>8 DEF ParseHeaders
<1>13. CASE q.flag = "error"
  BY <1>12, <1>13
<1>14. CASE q.flag = "go"
  <2>1. Place(S, A, K, n, q.h, F + i, F + b, t) /\ Taken(S, K, n, q.headers)
    BY <1>6, <1>8, <1>14 DEF Turning, Going
  <2>2. CASE q.h = "end_lf"
    <3>1. EndLfPlace(K, n, F + i, t)
      BY <2>1, <2>2 DEF Place
    <3>2. F + i = t
      BY <1>4, <1>6, <1>8, <1>14
    <3>3. t \in {K + 6 * n, K + 6 * n + 2} /\ t >= K + 6 * n + 1
      BY <3>1, <3>2 DEF EndLfPlace
    <3>4. F + i = K + 6 * n + 2
      BY <1>4, <3>2, <3>3
    <3> QED
      BY <1>10, <1>11, <1>12, <1>14, <2>1, <2>2, <3>3, <3>4
  <2>3. CASE q.h # "end_lf"
    <3>1. Place(S, A, K, n, q.h, F + b, F + b, t)
      <4>1. q.h \in HeaderStates \ {"end_lf"}
        BY <1>7, <2>3
      <4> QED
        BY <1>4, <2>1, <4>1, PlaceRestarts
    <3> QED
      BY <1>10, <1>11, <1>12, <1>14, <2>1, <2>3, <3>1
  <2> QED
    BY <2>2, <2>3
<1>15. CASE q.flag = "stop"
  <2>1. q.h = "end_lf" /\ EndLfPlace(K, n, F + i - 1, t) /\ Taken(S, K, n, q.headers)
    BY <1>6, <1>8, <1>15 DEF Turning, Stopped
  <2>2. F + i - 1 \in {K + 6 * n, K + 6 * n + 2} /\ t >= K + 6 * n + 1
    BY <2>1 DEF EndLfPlace
  <2>3. F + i \in {K + 6 * n + 1, K + 6 * n + 2, K + 6 * n + 3}
    BY <1>4, <1>11, <2>2
  <2> QED
    BY <1>10, <1>11, <1>12, <1>15, <2>1, <2>2, <2>3
<1> QED
  BY <1>7, <1>13, <1>14, <1>15

-----------------------------------------------------------------------------
(* The request line: what find finds, and what parseURI accepts of it.     *)

\* find returns the place of the first such token.
LEMMA FindPlace ==
  ASSUME NEW S, NEW F, NEW E, NEW line, Holds(S, F, E, line), NEW tk, NEW from \in Nat,
         NEW x \in (F + from)..(E - 1), Tok(S, x) = tk,
         \A z \in (F + from)..(x - 1) : Tok(S, z) # tk, Len(S) < npos
  PROVE  Find(line, tk, from) = x - F /\ x - F # npos /\ x - F \in 0..(Len(line) - 1)
<1>1. /\ F \in Nat /\ E \in Nat /\ Len(line) \in Nat /\ Len(S) \in Nat /\ F + Len(line) = E
      /\ E <= Len(S) /\ \A i \in 0..(Len(line) - 1) : line[i + 1] = Tok(S, F + i)
  BY DEF Holds
<1>2. PICK L \in Nat : L = Len(line) /\ F + L = E
  BY <1>1
<1>3. x \in Int /\ F + from <= x /\ x < E
  BY <1>1
<1>4. PICK m \in Nat : m = x - F
  BY <1>1, <1>3
<1>5. m \in from..(L - 1) /\ F + m = x /\ m # npos
  <2>1. npos \in Nat
    BY SizeTType
  <2> QED
    BY <1>1, <1>2, <1>3, <1>4, <2>1
<1>6. PICK f : f = Find(line, tk, from)
  OBVIOUS
<1>7. \/ f = npos /\ \A i \in from..(L - 1) : line[i + 1] # tk
      \/ /\ f \in from..(L - 1) /\ line[f + 1] = tk
         /\ \A i \in from..(L - 1) : line[i + 1] = tk => f <= i
  BY <1>1, <1>2, <1>6, FindFirst, SMTT(40)
<1>8. line[m + 1] = tk /\ m \in 0..(L - 1)
  <2>1. m \in 0..(Len(line) - 1)
    BY <1>2, <1>5
  <2>2. line[m + 1] = Tok(S, F + m)
    BY <1>1, <2>1
  <2> QED
    BY <1>2, <1>5, <2>1, <2>2
<1>9. f \in from..(L - 1) /\ line[f + 1] = tk /\ f <= m
  BY <1>5, <1>7, <1>8
<1>10. ~(f < m)
  <2> SUFFICES ASSUME f < m PROVE FALSE
    OBVIOUS
  <2>1. f \in 0..(Len(line) - 1) /\ F + f \in (F + from)..(x - 1)
    BY <1>1, <1>2, <1>5, <1>9
  <2>2. line[f + 1] = Tok(S, F + f)
    BY <1>1, <2>1
  <2> QED
    BY <1>9, <2>1, <2>2
<1> QED
  BY <1>2, <1>4, <1>5, <1>6, <1>8, <1>9, <1>10

\* And npos if there is none.
LEMMA FindNoPlace ==
  ASSUME NEW S, NEW F, NEW E, NEW line, Holds(S, F, E, line), NEW tk, NEW from \in Nat,
         \A z \in (F + from)..(E - 1) : Tok(S, z) # tk
  PROVE  Find(line, tk, from) = npos
<1>1. /\ F \in Nat /\ E \in Nat /\ Len(line) \in Nat /\ F + Len(line) = E
      /\ \A i \in 0..(Len(line) - 1) : line[i + 1] = Tok(S, F + i)
  BY DEF Holds
<1>2. ASSUME NEW i \in from..(Len(line) - 1) PROVE line[i + 1] # tk
  <2>1. i \in 0..(Len(line) - 1) /\ F + i \in (F + from)..(E - 1)
    BY <1>1
  <2> QED
    BY <1>1, <2>1
<1>3. PICK f : f = Find(line, tk, from)
  OBVIOUS
<1> QED
  BY <1>1, <1>2, <1>3, FindFirst

\* The tokens of a request line that parseURI looks for.
LEMMA LineTokens ==
  ASSUME NEW r, WellFormed(r), NEW A \in Nat, NEW S, LineAt(S, r, A),
         NEW K, K = HeadersOf(r, A)
  PROVE  /\ K \in Nat /\ A + 9 <= K
         /\ Tok(S, A) = r.method /\ r.method \in Method
         /\ \A z \in (A + 1)..(K - 3) : Tok(S, z) \notin Method
         /\ \A z \in A..(A + 1) : Tok(S, z) # "/"
         /\ Tok(S, A + 2) = "/"
         /\ \A z \in (A + 2)..(K - 7) : Tok(S, z) # SP
         /\ Tok(S, K - 6) = SP
         /\ \A z \in (K - 6)..(K - 5) : Tok(S, z) # "/"
         /\ Tok(S, K - 4) = "/"
         /\ \A z \in A..(K - 3) : Tok(S, z) # CR
         /\ Tok(S, K - 2) = CR /\ Tok(S, K - 1) = LF
<1>1. PICK P \in Nat, n \in Nat, H \in Nat :
        /\ P = Len(r.path) /\ n = Len(r.headers)
        /\ H = HeadersOf(r, A) /\ H = A + 9 + P /\ BodyOf(r, A) = H + 6 * n + 2
  BY RequestLengths
<1>2. K = H /\ K = A + 9 + P
  BY <1>1
<1>3. K \in Nat /\ A + 9 <= K
  <2>1. A + 9 <= A + 9 + P
    BY ONLY A \in Nat, P \in Nat
  <2> QED
    BY <1>2, <2>1
<1>4. /\ Tok(S, A) = r.method /\ Tok(S, A + 1) = SP /\ Tok(S, A + 2) = "/"
      /\ \A i \in 1..P : Tok(S, A + 2 + i) = r.path[i]
      /\ Tok(S, K - 6) = SP /\ Tok(S, K - 5) = "HTTP" /\ Tok(S, K - 4) = "/"
      /\ Tok(S, K - 3) = r.version /\ Tok(S, K - 2) = CR /\ Tok(S, K - 1) = LF
  BY <1>1 DEF LineAt
<1>5. r.method \in Method /\ r.version \in Word
  BY DEF WellFormed
<1>6. /\ r.method \notin {CR, LF, ":", SP, "/", "?"}
      /\ r.version \notin {CR, LF, ":", SP, "/", "?"} /\ r.version \notin Method
  BY <1>5, Words
<1>7. /\ SP # "/" /\ SP # CR /\ "HTTP" # "/" /\ "HTTP" # CR /\ "HTTP" \notin Method
      /\ SP \notin Method
  BY DEF SP, CR, Method
<1>8. "/" # CR /\ "/" \notin Method /\ "/" # SP
  BY DEF SP, CR, Method
<1>9. ASSUME NEW i \in 1..P
      PROVE  r.path[i] \notin Method /\ r.path[i] # SP /\ r.path[i] # CR
  <2>1. r.path[i] \in Word \/ r.path[i] = "?"
    BY <1>1 DEF WellFormed
  <2>2. "?" \notin Method /\ "?" # SP /\ "?" # CR
    BY DEF Method, SP, CR
  <2> QED
    BY <2>1, <2>2, Words
<1>10. \A z \in (A + 1)..(K - 3) :
          \/ z = A + 1 \/ z = A + 2 \/ z \in {K - 6, K - 5, K - 4, K - 3}
          \/ z \in (A + 3)..(K - 7) /\ \E i \in 1..P : z = A + 2 + i
  <2> SUFFICES ASSUME NEW z \in (A + 1)..(A + 9 + P - 3), z # A + 1, z # A + 2,
                      z \notin {A + 9 + P - 6, A + 9 + P - 5, A + 9 + P - 4, A + 9 + P - 3}
               PROVE  z \in (A + 3)..(A + 9 + P - 7) /\ \E i \in 1..P : z = A + 2 + i
    BY <1>2
  <2>1. z \in (A + 3)..(A + 9 + P - 7) /\ z - A - 2 \in 1..P /\ z = A + 2 + (z - A - 2)
    BY ONLY z \in (A + 1)..(A + 9 + P - 3), z # A + 1, z # A + 2, A \in Nat, P \in Nat,
            z \notin {A + 9 + P - 6, A + 9 + P - 5, A + 9 + P - 4, A + 9 + P - 3}
  <2> QED
    BY <2>1
<1>11. ASSUME NEW z \in (A + 1)..(K - 3) PROVE Tok(S, z) \notin Method /\ Tok(S, z) # CR
  <2>1. CASE z = A + 1 \/ z = A + 2 \/ z \in {K - 6, K - 5, K - 4, K - 3}
    BY <1>4, <1>6, <1>7, <1>8, <2>1
  <2>2. CASE \E i \in 1..P : z = A + 2 + i
    BY <1>4, <1>9, <2>2
  <2> QED
    BY <1>10, <2>1, <2>2
<1>12. \A z \in A..(A + 1) : Tok(S, z) # "/"
  <2>1. \A z \in A..(A + 1) : z = A \/ z = A + 1
    OBVIOUS
  <2> QED
    BY <1>4, <1>6, <1>7, <2>1
<1>13. ASSUME NEW z \in (A + 2)..(K - 7) PROVE Tok(S, z) # SP
  <2>1. z \in (A + 1)..(K - 3) /\ z # A + 1 /\ z \notin {K - 6, K - 5, K - 4, K - 3}
    BY <1>3
  <2>2. z = A + 2 \/ \E i \in 1..P : z = A + 2 + i
    BY <1>10, <2>1
  <2> QED
    BY <1>4, <1>8, <1>9, <2>2
<1>14. \A z \in (K - 6)..(K - 5) : Tok(S, z) # "/"
  <2>1. \A z \in (K - 6)..(K - 5) : z = K - 6 \/ z = K - 5
    BY <1>3
  <2> QED
    BY <1>4, <1>7, <2>1
<1>15. \A z \in A..(K - 3) : Tok(S, z) # CR
  <2>1. \A z \in A..(K - 3) : z = A \/ z \in (A + 1)..(K - 3)
    BY <1>3
  <2> QED
    BY <1>4, <1>6, <1>11, <2>1
<1> QED
  BY <1>3, <1>4, <1>5, <1>11, <1>12, <1>13, <1>14, <1>15

\* Nothing is what a stream has between a place and itself.
LEMMA HoldsNothing ==
  ASSUME NEW S \in Seq(Token), NEW t \in 0..Len(S)
  PROVE  Holds(S, t, t, <<>>)
<1>1. <<>> \in Seq(Token) /\ Len(<<>>) = 0 /\ t + 0 = t /\ t \in Nat /\ t <= Len(S)
      /\ Len(S) \in Nat
  OBVIOUS
<1> QED
  BY <1>1 DEF Holds

\* The line that parseURI cuts off, and what it leaves: with no CR in the
\* buffer the line is the whole buffer, and stays in it.
LEMMA LineCut ==
  ASSUME NEW r, WellFormed(r), NEW A \in Nat, NEW S, LineAt(S, r, A),
         NEW K, K = HeadersOf(r, A), NEW F, NEW t, NEW str, Holds(S, F, t, str),
         Len(S) < npos, F \in {A, A + 1} \/ (F = A - 1 /\ Tok(S, F) = LF),
         NEW pos, pos = Find(str, CR, 0), NEW line, line = Substr(str, 0, pos)
  PROVE  \E E \in Nat, G \in {F, K - 1} :
           /\ E <= K - 2 /\ F <= E /\ Holds(S, F, E, line) /\ Holds(S, G, t, CutLine(str, pos))
<1>1. /\ F \in Nat /\ t \in Nat /\ Len(str) \in Nat /\ Len(S) \in Nat /\ F + Len(str) = t
      /\ t <= Len(S) /\ str \in Seq(Token)
  BY DEF Holds
<1>2. PICK L \in Nat : L = Len(str) /\ F + L = t
  BY <1>1
<1>3. /\ K \in Nat /\ A + 9 <= K /\ Tok(S, K - 2) = CR
      /\ \A z \in A..(K - 3) : Tok(S, z) # CR
  BY LineTokens, SMTT(40)
<1>4. F \in Nat /\ F <= K - 3 /\ (F >= A \/ (F = A - 1 /\ Tok(S, F) = LF))
  BY <1>1, <1>3
<1>5. \A z \in F..(K - 3) : Tok(S, z) # CR
  <2> SUFFICES ASSUME NEW z \in F..(K - 3) PROVE Tok(S, z) # CR
    OBVIOUS
  <2>1. z \in A..(K - 3) \/ (z = F /\ F = A - 1)
    BY <1>3, <1>4
  <2>2. LF # CR
    BY DEF LF, CR
  <2> QED
    BY <1>3, <1>4, <2>1, <2>2
<1>6. npos \in Nat /\ npos + 1 = SizeT /\ SizeT \in Nat \ {0}
  <2>1. SizeT \in Nat \ {0}
    BY Bounds
  <2> QED
    BY <2>1 DEF npos
<1>7. S \in Seq(Token) /\ t \in 0..Len(S)
  BY <1>1 DEF Holds
<1>8. CASE K - 2 < t
  <2>1. PICK x \in Nat : x = K - 2
    BY <1>3
  <2>2. x \in (F + 0)..(t - 1) /\ x - 1 = K - 3 /\ F + 0 = F
    BY <1>1, <1>3, <1>4, <1>8, <2>1
  <2>3. Tok(S, x) = CR /\ \A z \in (F + 0)..(x - 1) : Tok(S, z) # CR
    BY <1>3, <1>5, <2>1, <2>2
  <2>4. pos = x - F /\ pos # npos /\ pos \in 0..(Len(str) - 1)
    BY <2>2, <2>3, FindPlace
  <2>5. pos \in Nat /\ pos < L /\ 0 \in 0..Len(str) /\ pos \in 0..Len(str) /\ L <= Len(S)
    BY <1>1, <1>2, <2>4
  <2>6. line = SubSeq(str, 0 + 1, pos)
    <3>1. 0 + pos = pos /\ ~(pos > L)
      BY <2>5
    <3> QED
      BY <1>2, <3>1 DEF Substr
  <2>7. Holds(S, F + 0, F + pos, line)
    BY <2>5, <2>6, HoldsPart
  <2>8. Plus(pos, 1) = pos + 1
    <3>1. pos + 1 \in Nat /\ pos + 1 < SizeT
      BY <1>1, <1>6, <2>5
    <3>2. (pos + 1) % SizeT = pos + 1
      BY <1>6, <3>1
    <3> QED
      BY <3>2 DEF Plus
  <2>9. Holds(S, F + (pos + 1), t, CutLine(str, pos))
    <3>1. pos + 1 \in 0..Len(str)
      BY <1>2, <2>5
    <3>2. Holds(S, F + (pos + 1), t, From(str, pos + 1))
      BY <3>1, HoldsFrom
    <3>3. CASE L > pos + 1
      <4>1. CutLine(str, pos) = From(str, pos + 1)
        BY <1>2, <2>8, <3>3 DEF CutLine
      <4> QED
        BY <3>2, <4>1
    <3>4. CASE ~(L > pos + 1)
      <4>1. CutLine(str, pos) = <<>>
        BY <1>2, <2>8, <3>4 DEF CutLine
      <4>2. F + (pos + 1) = t
        BY <1>1, <1>2, <2>5, <3>4
      <4>3. Holds(S, t, t, <<>>)
        BY <1>7, HoldsNothing
      <4> QED
        BY <4>1, <4>2, <4>3
    <3> QED
      BY <3>3, <3>4
  <2>10. F + 0 = F /\ F + pos = x /\ F + (pos + 1) = K - 1 /\ F <= x /\ x <= K - 2
    <3>1. PICK f \in Nat, k \in Nat, q \in Nat : f = F /\ k = K /\ q = pos
      BY <1>1, <1>3, <2>5
    <3>2. x = k - 2 /\ q = x - f
      BY <2>1, <2>4, <3>1
    <3>3. f + 0 = f /\ f + q = x /\ f + (q + 1) = k - 1 /\ f <= x /\ x <= k - 2
      BY ONLY <3>2, x \in Nat, f \in Nat, k \in Nat, q \in Nat
    <3> QED
      BY <3>1, <3>3
  <2>11. Holds(S, F, x, line) /\ Holds(S, K - 1, t, CutLine(str, pos))
    BY <2>7, <2>9, <2>10
  <2> QED
    BY <2>10, <2>11
<1>9. CASE ~(K - 2 < t)
  <2>1. \A z \in (F + 0)..(t - 1) : Tok(S, z) # CR
    <3>1. \A z \in (F + 0)..(t - 1) : z \in F..(K - 3)
      BY <1>1, <1>3, <1>9
    <3> QED
      BY <1>5, <3>1
  <2>2. pos = npos
    BY <2>1, FindNoPlace
  <2>3. line = SubSeq(str, 0 + 1, L)
    <3>1. 0 + npos > L
      BY <1>1, <1>2, <1>6
    <3> QED
      BY <1>2, <2>2, <3>1 DEF Substr
  <2>4. 0 \in 0..Len(str) /\ L \in 0..Len(str)
    BY <1>2
  <2>5. Holds(S, F + 0, F + L, line)
    BY <2>3, <2>4, HoldsPart
  <2>6. Plus(pos, 1) = 0
    <3>1. Plus(pos, 1) = SizeT % SizeT
      BY <1>6, <2>2 DEF Plus
    <3> QED
      BY <1>6, <3>1
  <2>7. Holds(S, F + 0, t, CutLine(str, pos))
    <3>1. CASE L > 0
      <4>1. CutLine(str, pos) = From(str, 0)
        BY <1>2, <2>6, <3>1 DEF CutLine
      <4> QED
        BY <2>4, <4>1, HoldsFrom
    <3>2. CASE ~(L > 0)
      <4>1. CutLine(str, pos) = <<>> /\ F + 0 = t
        BY <1>1, <1>2, <2>6, <3>2 DEF CutLine
      <4>2. Holds(S, t, t, <<>>)
        BY <1>7, HoldsNothing
      <4> QED
        BY <4>1, <4>2
    <3> QED
      BY <3>1, <3>2
  <2>8. F + 0 = F /\ F + L = t /\ F <= t /\ t <= K - 2
    BY <1>1, <1>2, <1>3, <1>9
  <2>9. Holds(S, F, t, line) /\ Holds(S, F, t, CutLine(str, pos))
    BY <2>5, <2>7, <2>8
  <2> QED
    BY <1>1, <2>8, <2>9
<1> QED
  BY <1>8, <1>9

\* A line without a method has none.
LEMMA NoMethod ==
  ASSUME NEW S, NEW F, NEW E, NEW line, Holds(S, F, E, line),
         \A z \in F..(E - 1) : Tok(S, z) \notin Method
  PROVE  MethodOf(line) = "none"
<1>1. F \in Nat /\ F + 0 = F
  BY DEF Holds
<1>2. ASSUME NEW m \in Method PROVE Find(line, m, 0) = npos
  BY <1>1, FindNoPlace
<1> QED
  BY <1>2 DEF MethodOf, Method

\* The method of a line that begins with one is that one.
LEMMA OneMethod ==
  ASSUME NEW S, NEW F, NEW E, NEW line, Holds(S, F, E, line), Len(S) < npos,
         NEW x \in F..(E - 1), Tok(S, x) \in Method,
         \A z \in F..(E - 1) : z # x => Tok(S, z) \notin Method
  PROVE  MethodOf(line) = Tok(S, x) /\ Find(line, Tok(S, x), 0) = x - F
<1>1. F \in Nat /\ F + 0 = F /\ E \in Nat
  BY DEF Holds
<1>2. ASSUME NEW m \in Method, m # Tok(S, x) PROVE Find(line, m, 0) = npos
  <2>1. \A z \in (F + 0)..(E - 1) : Tok(S, z) # m
    BY <1>1, <1>2
  <2> QED
    BY <2>1, FindNoPlace
<1>3. PICK m \in Method : m = Tok(S, x)
  OBVIOUS
<1>4. Find(line, m, 0) = x - F /\ Find(line, m, 0) # npos
  <2>1. x \in (F + 0)..(E - 1) /\ \A z \in (F + 0)..(x - 1) : Tok(S, z) # m
    BY <1>1, <1>3
  <2> QED
    BY <1>3, <2>1, FindPlace
<1> QED
  BY <1>2, <1>3, <1>4 DEF MethodOf, Method

\* The first token of a text by itself.
LEMMA FirstToken ==
  ASSUME NEW s \in Seq(Token), Len(s) > 0
  PROVE  SubSeq(s, 1, 1) = <<s[1]>>
<1>1. PICK q : q = SubSeq(s, 1, 1)
  OBVIOUS
<1>2. q \in Seq(Token) /\ Len(q) = 1 /\ q[1] = s[1]
  BY <1>1
<1>3. q = <<s[1]>>
  BY ONLY <1>2
<1> QED
  BY <1>1, <1>3

\* A size_t that does not wrap.
LEMMA SizeFits ==
  ASSUME NEW a \in Nat, NEW b \in Nat, a + b <= npos
  PROVE  Plus(a, b) = a + b /\ Minus(a + b, a) = b
<1>1. SizeT \in Nat \ {0}
  BY Bounds
<1>2. a + b < SizeT /\ a + b \in Nat /\ b < SizeT /\ (a + b) - a = b
  BY <1>1 DEF npos
<1>3. (a + b) % SizeT = a + b /\ b % SizeT = b
  BY <1>1, <1>2
<1> QED
  BY <1>2, <1>3 DEF Plus, Minus

\* fileName_ is what the request names.
LEMMA FileIsNamed ==
  ASSUME NEW r, WellFormed(r), NEW A \in Nat, NEW S, LineAt(S, r, A),
         NEW K, K = HeadersOf(r, A), NEW F \in 0..A, NEW E, NEW line, Holds(S, F, E, line),
         Len(S) < npos, K - 6 < E,
         NEW slash, slash = A + 2 - F, NEW space, space = K - 6 - F
  PROVE  FileOf(line, slash, space) = Named(r)
<1>1. PICK P \in Nat : P = Len(r.path) /\ K = A + 9 + P
  BY DEF WellFormed, HeadersOf
<1>2. r.path \in Seq(Token) /\ \A i \in 1..P : r.path[i] = "?" <=> i = 2
  BY <1>1 DEF WellFormed
<1>3. PICK L \in Nat : /\ L = Len(line) /\ F + L = E /\ E <= Len(S) /\ Len(S) \in Nat /\ E \in Nat
                       /\ line \in Seq(Token)
  BY DEF Holds
<1>4. PICK a \in Nat : a = A + 2 - F
  OBVIOUS
<1>5. /\ slash = a /\ space = a + (P + 1) /\ space = (a + 1) + P /\ space < L
      /\ F + (a + 1) = A + 3
  <2>1. F \in Nat /\ F <= A
    OBVIOUS
  <2>2. K = A + 9 + P /\ slash = A + 2 - F /\ space = K - 6 - F /\ K - 6 < E
    BY <1>1
  <2>3. A + 9 + P - 6 < E /\ space = A + 9 + P - 6 - F
    BY ONLY <2>2
  <2>4. A + 9 + P - 6 < F + L /\ F \in Nat /\ F <= A
    BY ONLY <1>3, <2>3, <2>1
  <2>5. A + 3 + P < F + L /\ A + 9 + P - 6 - F = a + (P + 1)
    BY ONLY <1>4, <2>4, A \in Nat, P \in Nat, a \in Nat, L \in Nat
  <2>6. a + (P + 1) = (a + 1) + P /\ a + (P + 1) < L /\ F + (a + 1) = A + 3
    BY ONLY <1>4, <2>4, <2>5, A \in Nat, P \in Nat, a \in Nat, L \in Nat
  <2> QED
    BY ONLY <1>4, <2>5, <2>6, <2>2, <2>3
<1>6. L < npos /\ npos \in Nat
  <2>1. npos \in Nat
    BY SizeTType
  <2>2. L <= E
    BY ONLY <1>3, F \in 0..A, A \in Nat
  <2> QED
    BY <1>3, <2>1, <2>2
<1>7. Plus(slash, 1) = a + 1 /\ Minus(space, slash) = P + 1 /\ Minus(space, a + 1) = P
  <2>1. a + 1 <= npos /\ a + (P + 1) <= npos /\ (a + 1) + P <= npos
    BY ONLY <1>5, <1>6, a \in Nat, P \in Nat, L \in Nat
  <2>2. Plus(a, 1) = a + 1 /\ Minus(a + (P + 1), a) = P + 1 /\ Minus((a + 1) + P, a + 1) = P
    <3>1. 1 \in Nat /\ P + 1 \in Nat /\ a + 1 \in Nat
      OBVIOUS
    <3> QED
      BY <2>1, <3>1, SizeFits
  <2> QED
    BY <1>5, <2>2
<1>8. CASE P = 0
  <2>1. FileOf(line, slash, space) = Index
    BY <1>7, <1>8 DEF FileOf
  <2>2. r.path = <<>>
    <3>1. Len(r.path) = 0
      BY ONLY <1>1, <1>8
    <3> QED
      BY ONLY <1>2, <3>1
  <2> QED
    BY <2>1, <2>2 DEF Named
<1>9. CASE P # 0
  <2>1. PICK name : name = Substr(line, a + 1, P)
    OBVIOUS
  <2>2. FileOf(line, slash, space) = Substr(name, 0, Find(name, "?", 0))
    <3>1. Minus(space, slash) > 1
      BY <1>7, <1>9
    <3> QED
      BY <1>7, <2>1, <3>1 DEF FileOf
  <2>3. name = SubSeq(line, (a + 1) + 1, (a + 1) + P)
    <3>1. ~((a + 1) + P > L)
      BY <1>5
    <3> QED
      BY <1>3, <2>1, <3>1 DEF Substr
  <2>4. Holds(S, A + 3, (A + 3) + P, name) /\ Len(name) = P
    <3>1. PICK b \in Nat, c \in Nat : b = a + 1 /\ c = (a + 1) + P
      OBVIOUS
    <3>2. b \in 0..Len(line) /\ c \in b..Len(line) /\ c - b = P
      BY <1>3, <1>5, <3>1
    <3>3. Holds(S, F + b, F + c, name) /\ Len(name) = c - b
      <4>1. name = SubSeq(line, b + 1, c)
        BY <2>3, <3>1
      <4>2. c \in b..Len(line) /\ b \in 0..Len(line)
        BY <3>2
      <4>3. PICK v \in 0..Len(line) : v = b
        BY <4>2
      <4>4. PICK w \in v..Len(line) : w = c
        BY <4>2, <4>3
      <4>5. name = SubSeq(line, v + 1, w)
        BY <4>1, <4>3, <4>4
      <4>6. Holds(S, F + v, F + w, name)
        BY ONLY <4>5, HoldsPart, Holds(S, F, E, line), v \in 0..Len(line), w \in v..Len(line)
      <4>7. Len(name) = w - v
        BY ONLY <4>5, HoldsPart, Holds(S, F, E, line), v \in 0..Len(line), w \in v..Len(line)
      <4> QED
        BY <4>3, <4>4, <4>6, <4>7
    <3>4. F + b = A + 3 /\ F + c = (A + 3) + P
      BY <1>5, <3>1
    <3> QED
      BY <3>2, <3>3, <3>4
  <2>5. \A i \in 0..(P - 1) : Tok(S, (A + 3) + i) = r.path[i + 1] /\ name[i + 1] = Tok(S, (A + 3) + i)
    <3> SUFFICES ASSUME NEW i \in 0..(P - 1)
                 PROVE  Tok(S, (A + 3) + i) = r.path[i + 1] /\ name[i + 1] = Tok(S, (A + 3) + i)
      OBVIOUS
    <3>1. i + 1 \in 1..P /\ A + 2 + (i + 1) = (A + 3) + i
      OBVIOUS
    <3>2. Tok(S, A + 2 + (i + 1)) = r.path[i + 1]
      BY <1>1, <3>1 DEF LineAt
    <3>3. name[i + 1] = Tok(S, (A + 3) + i)
      BY <2>4 DEF Holds
    <3> QED
      BY <3>1, <3>2, <3>3
  <2>6. name \in Seq(Token) /\ name[1] = r.path[1] /\ Len(name) > 0
    <3>1. 0 \in 0..(P - 1)
      BY <1>9
    <3>2. name \in Seq(Token)
      BY <2>4 DEF Holds
    <3>3. Tok(S, (A + 3) + 0) = r.path[0 + 1] /\ name[0 + 1] = Tok(S, (A + 3) + 0)
      BY <2>5, <3>1
    <3>4. name[1] = r.path[1]
      BY ONLY <3>3
    <3>5. P > 0
      BY <1>9
    <3> QED
      BY <2>4, <3>2, <3>4, <3>5
  <2>7. Substr(name, 0, Find(name, "?", 0)) = SubSeq(name, 1, 1)
    <3>1. CASE P = 1
      <4>1. \A z \in ((A + 3) + 0)..((A + 3) + P - 1) : Tok(S, z) # "?"
        <5>1. \A z \in ((A + 3) + 0)..((A + 3) + P - 1) : z = (A + 3) + 0
          BY <3>1
        <5>2. 0 \in 0..(P - 1) /\ 1 \in 1..P
          BY <3>1
        <5>3. Tok(S, (A + 3) + 0) # "?"
          <6>1. Tok(S, (A + 3) + 0) = r.path[0 + 1]
            BY <2>5, <5>2
          <6>2. r.path[1] # "?"
            BY <1>2, <5>2
          <6> QED
            BY ONLY <6>1, <6>2
        <5> QED
          BY <5>1, <5>3
      <4>2. Find(name, "?", 0) = npos
        BY <2>4, <4>1, FindNoPlace
      <4>3. 0 + npos > 1
        BY <1>5, <1>6, <3>1
      <4>4. Len(name) = 1
        BY <2>4, <3>1
      <4> QED
        BY <4>2, <4>3, <4>4 DEF Substr
    <3>2. CASE P # 1
      <4>1. 0 \in 0..(P - 1) /\ 1 \in 0..(P - 1) /\ 1 \in 1..P /\ 2 \in 1..P
        BY <1>9, <3>2
      <4>2. PICK y \in Nat : y = (A + 3) + 1
        OBVIOUS
      <4>3. /\ y \in ((A + 3) + 0)..((A + 3) + P - 1)
            /\ \A z \in ((A + 3) + 0)..(y - 1) : z = (A + 3) + 0
        BY <1>9, <3>2, <4>2
      <4>4. Tok(S, y) = "?" /\ Tok(S, (A + 3) + 0) # "?"
        <5>1. Tok(S, (A + 3) + 1) = r.path[1 + 1] /\ Tok(S, (A + 3) + 0) = r.path[0 + 1]
          BY <2>5, <4>1
        <5>2. r.path[2] = "?" /\ r.path[1] # "?"
          BY <1>2, <4>1
        <5>3. 1 + 1 = 2 /\ 0 + 1 = 1
          OBVIOUS
        <5> QED
          BY <4>2, <5>1, <5>2, <5>3
      <4>5. Find(name, "?", 0) = y - (A + 3)
        <5>1. \A z \in ((A + 3) + 0)..(y - 1) : Tok(S, z) # "?"
          BY <4>3, <4>4
        <5>2. y \in ((A + 3) + 0)..((A + 3) + P - 1) /\ Tok(S, y) = "?" /\ 0 \in Nat
          BY <4>3, <4>4
        <5>3. Holds(S, A + 3, (A + 3) + P, name) /\ Len(S) < npos
          BY <2>4
        <5> QED
          BY ONLY <5>1, <5>2, <5>3, FindPlace
      <4>6. Find(name, "?", 0) = 1 /\ ~(0 + 1 > P)
        BY <1>9, <3>2, <4>2, <4>5
      <4> QED
        BY <2>4, <4>6 DEF Substr
    <3> QED
      BY <3>1, <3>2
  <2>8. FileOf(line, slash, space) = <<r.path[1]>>
    BY <2>2, <2>6, <2>7, FirstToken
  <2>9. r.path # <<>>
    BY <1>1, <1>9
  <2> QED
    BY <2>8, <2>9 DEF Named
<1> QED
  BY <1>8, <1>9

\* What parseURI does, with its intermediate results named.
LEMMA ParseURIIs ==
  ASSUME NEW str, NEW u, u = ParseURI(str), NEW pos, pos = Find(str, CR, 0),
         NEW line, line = Substr(str, 0, pos), NEW method, method = MethodOf(line),
         NEW first, first = Find(line, method, 0), NEW slash, slash = Find(line, "/", first),
         NEW space, space = Find(line, SP, slash), NEW last, last = Find(line, "/", space)
  PROVE  /\ u.rest = CutLine(str, pos) /\ u.method = method
         /\ ~(slash < 0) => u.file = FileOf(line, slash, space)
         /\ u.flag = "success" =>
              method # "none"
         /\ u.flag = "success" /\ ~(slash < 0) =>
              Substr(line, Plus(last, 1), 1) \in {<<"1.0">>, <<"1.1">>}
<1>1. space = Find(line, " ", slash)
  BY DEF SP
<1>2. /\ u.rest = CutLine(str, pos) /\ u.method = method
      /\ ~(slash < 0) => u.file = FileOf(line, slash, space)
  BY <1>1 DEF ParseURI
<1>3. u.flag = "success" => method # "none"
  BY <1>1 DEF ParseURI
<1>4. u.flag = "success" /\ ~(slash < 0) =>
        Substr(line, Plus(last, 1), 1) \in {<<"1.0">>, <<"1.1">>}
  BY <1>1 DEF ParseURI
<1> QED
  BY <1>2, <1>3, <1>4

\* Without a second slash, parseURI takes the first token of the line for the
\* version: npos + 1 is 0.
LEMMA NoVersion ==
  ASSUME NEW S, NEW F, NEW E, NEW line, Holds(S, F, E, line), F < E, Len(S) < npos,
         Tok(S, F) \in Method \cup {LF}
  PROVE  Substr(line, Plus(npos, 1), 1) \notin {<<"1.0">>, <<"1.1">>}
<1>1. /\ F \in Nat /\ E \in Nat /\ Len(line) \in Nat /\ F + Len(line) = E
      /\ line \in Seq(Token) /\ Len(line) > 0
  BY DEF Holds
<1>2. Plus(npos, 1) = 0
  <2>1. SizeT \in Nat \ {0}
    BY Bounds
  <2>2. npos + 1 = SizeT /\ SizeT % SizeT = 0
    BY <2>1 DEF npos
  <2> QED
    BY <2>2 DEF Plus
<1>3. Substr(line, 0, 1) = SubSeq(line, 1, 1)
  <2>1. ~(0 + 1 > Len(line)) /\ 0 + 1 = 1
    BY <1>1
  <2> QED
    BY <2>1 DEF Substr
<1>4. line[1] = Tok(S, F)
  <2>1. 0 \in 0..(Len(line) - 1) /\ F + 0 = F /\ 0 + 1 = 1
    BY <1>1
  <2>2. line[0 + 1] = Tok(S, F + 0)
    BY <2>1 DEF Holds
  <2> QED
    BY <2>1, <2>2
<1>5. Tok(S, F) \notin {"1.0", "1.1"}
  BY DEF Method, LF
<1>6. SubSeq(line, 1, 1) = <<Tok(S, F)>>
  BY <1>1, <1>4, FirstToken
<1>7. \A a, b : <<a>> = <<b>> => a = b
  OBVIOUS
<1> QED
  BY <1>2, <1>3, <1>5, <1>6, <1>7

\* parseURI has accepted the line of r, and parseHeaders can begin.
Accepted(S, r, A, K, n, t, u) ==
  /\ u.method = r.method /\ u.file = Named(r)
  /\ \E G \in Nat : Holds(S, G, t, u.rest) /\ StartPlace(S, A, K, n, G)

\* Whatever part of a request has arrived when parseURI accepts its line, the
\* method and the file are those of the request, and parseHeaders begins in it.
LEMMA ParseURIPlace ==
  ASSUME NEW r, WellFormed(r), NEW A \in Nat, NEW S, LineAt(S, r, A),
         NEW K, K = HeadersOf(r, A), NEW n, NEW F, NEW t, NEW str, Holds(S, F, t, str),
         Len(S) < npos, F \in {A, A + 1} \/ (F = A - 1 /\ Tok(S, F) = LF),
         NEW u, u = ParseURI(str), u.flag = "success"
  PROVE  Accepted(S, r, A, K, n, t, u)
<1>1. PICK pos, line, method :
        pos = Find(str, CR, 0) /\ line = Substr(str, 0, pos) /\ method = MethodOf(line)
  OBVIOUS
<1>2. PICK first, slash :
        first = Find(line, method, 0) /\ slash = Find(line, "/", first)
  OBVIOUS
<1>3. PICK space, last : space = Find(line, SP, slash) /\ last = Find(line, "/", space)
  OBVIOUS
<1>4. /\ u.rest = CutLine(str, pos) /\ u.method = method
      /\ ~(slash < 0) => u.file = FileOf(line, slash, space)
      /\ method # "none"
      /\ ~(slash < 0) => Substr(line, Plus(last, 1), 1) \in {<<"1.0">>, <<"1.1">>}
  BY <1>1, <1>2, <1>3, ParseURIIs
<1>5. PICK E \in Nat, G \in {F, K - 1} :
        E <= K - 2 /\ F <= E /\ Holds(S, F, E, line) /\ Holds(S, G, t, CutLine(str, pos))
  BY <1>1, LineCut
<1>6. /\ K \in Nat /\ A + 9 <= K
      /\ Tok(S, A) = r.method /\ r.method \in Method
      /\ \A z \in (A + 1)..(K - 3) : Tok(S, z) \notin Method
      /\ \A z \in A..(A + 1) : Tok(S, z) # "/"
      /\ Tok(S, A + 2) = "/"
      /\ \A z \in (A + 2)..(K - 7) : Tok(S, z) # SP
      /\ Tok(S, K - 6) = SP
      /\ \A z \in (K - 6)..(K - 5) : Tok(S, z) # "/"
      /\ Tok(S, K - 4) = "/"
  BY LineTokens, SMTT(40)
<1>7. F \in Nat /\ npos \in Nat /\ Len(S) \in Nat /\ E <= Len(S)
  <2>1. npos \in Nat
    BY SizeTType
  <2> QED
    BY <1>5, <2>1 DEF Holds
<1>8. LF \notin Method
  BY DEF LF, Method
<1>9. \E z \in F..(E - 1) : Tok(S, z) \in Method
  <2> SUFFICES ASSUME \A z \in F..(E - 1) : Tok(S, z) \notin Method PROVE FALSE
    OBVIOUS
  <2>1. MethodOf(line) = "none"
    BY <1>5, NoMethod
  <2> QED
    BY <1>1, <1>4, <2>1
<1>10. F <= A /\ A < E /\ (F = A \/ (F = A - 1 /\ Tok(S, F) = LF))
  <2>1. PICK z \in F..(E - 1) : Tok(S, z) \in Method
    BY <1>9
  <2>2. z \in Int /\ F <= z /\ z < E /\ E <= K - 2
    BY <1>5, <1>7
  <2>3. z \notin (A + 1)..(K - 3)
    BY <1>6, <2>1
  <2>4. z <= A
    BY <1>6, <2>2, <2>3
  <2>5. z # A - 1 \/ F # A - 1 \/ Tok(S, F) # LF
    BY <1>8, <2>1
  <2>6. F # A + 1
    BY <1>7, <2>2, <2>4
  <2> QED
    BY <1>7, <2>2, <2>4, <2>5, <2>6
<1>11. F \in 0..A /\ A \in F..(E - 1)
  BY <1>7, <1>10
<1>12. method = r.method /\ first = A - F
  <2>1. \A z \in F..(E - 1) : z # A => Tok(S, z) \notin Method
    <3> SUFFICES ASSUME NEW z \in F..(E - 1), z # A PROVE Tok(S, z) \notin Method
      OBVIOUS
    <3>1. z \in (A + 1)..(K - 3) \/ (z = F /\ Tok(S, F) = LF)
      <4>1. PICK k \in Nat, f \in Nat : k = K /\ f = F
        BY <1>6, <1>7
      <4>2. z \in f..(E - 1) /\ E <= k - 2 /\ (f = A \/ f = A - 1)
        BY <1>5, <1>10, <4>1
      <4>3. z \in (A + 1)..(k - 3) \/ (z = f /\ f # A)
        BY ONLY <4>2, z # A, A \in Nat, k \in Nat, f \in Nat, E \in Nat
      <4> QED
        BY <1>10, <4>1, <4>3
    <3> QED
      BY <1>6, <1>8, <3>1
  <2>2. MethodOf(line) = Tok(S, A) /\ Find(line, Tok(S, A), 0) = A - F
    <3>1. Holds(S, F, E, line) /\ Len(S) < npos /\ A \in F..(E - 1) /\ Tok(S, A) \in Method
      BY <1>5, <1>6, <1>11
    <3> QED
      BY ONLY <2>1, <3>1, OneMethod
  <2> QED
    BY <1>1, <1>2, <1>6, <2>2
<1>13. first \in Nat /\ F + first = A
  BY <1>7, <1>10, <1>12
<1>14. Tok(S, F) \in Method \cup {LF} /\ F < E
  BY <1>6, <1>7, <1>10, SMTT(40)
<1>15. ~(slash < 0) => last # npos
  BY <1>4, <1>5, <1>14, NoVersion
<1>16. ASSUME NEW from \in Nat, from = npos, NEW tk PROVE Find(line, tk, from) = npos
  <2>1. \A z \in (F + from)..(E - 1) : Tok(S, z) # tk
    BY <1>7, <1>16
  <2> QED
    BY <1>5, <2>1, FindNoPlace
<1>17. A + 2 < E /\ slash = A + 2 - F
  <2>1. CASE A + 2 < E
    <3>1. A + 2 \in (F + first)..(E - 1) /\ \A z \in (F + first)..(A + 2 - 1) : z \in A..(A + 1)
      BY <1>13, <2>1
    <3>2. \A z \in (F + first)..(A + 2 - 1) : Tok(S, z) # "/"
      BY <1>6, <3>1
    <3>3. Holds(S, F, E, line) /\ Len(S) < npos /\ first \in Nat /\ Tok(S, A + 2) = "/"
      BY <1>5, <1>6, <1>13
    <3>4. PICK x : x = A + 2
      OBVIOUS
    <3>5. /\ x \in (F + first)..(E - 1) /\ Tok(S, x) = "/"
          /\ \A z \in (F + first)..(x - 1) : Tok(S, z) # "/"
      BY <3>1, <3>2, <3>3, <3>4
    <3>6. Find(line, "/", first) = x - F
      BY ONLY <3>3, <3>5, FindPlace
    <3> QED
      BY <1>2, <2>1, <3>4, <3>6
  <2>2. CASE ~(A + 2 < E)
    <3>1. \A z \in (F + first)..(E - 1) : z \in A..(A + 1)
      BY <1>13, <2>2
    <3>2. \A z \in (F + first)..(E - 1) : Tok(S, z) # "/"
      BY <1>6, <3>1
    <3>3. slash = npos
      BY <1>2, <1>5, <1>13, <3>2, FindNoPlace
    <3>4. space = npos
      BY <1>3, <1>7, <1>16, <3>3
    <3>5. last = npos
      BY <1>3, <1>7, <1>16, <3>4
    <3>6. ~(slash < 0)
      BY <1>7, <3>3
    <3> QED
      BY <1>15, <3>5, <3>6
  <2> QED
    BY <2>1, <2>2
<1>18. slash \in Nat /\ F + slash = A + 2 /\ ~(slash < 0)
  BY <1>7, <1>10, <1>17
<1>19. K - 6 < E /\ space = K - 6 - F
  <2>1. CASE K - 6 < E
    <3>1. /\ K - 6 \in (F + slash)..(E - 1)
          /\ \A z \in (F + slash)..(K - 6 - 1) : z \in (A + 2)..(K - 7)
      <4>1. PICK k \in Nat, m \in Nat : k = K /\ m = A + 2 /\ F + slash = m
        BY <1>6, <1>18
      <4>2. A + 9 <= k /\ k - 6 < E
        BY <1>6, <2>1, <4>1
      <4>3. k - 6 \in m..(E - 1) /\ \A z \in m..(k - 6 - 1) : z \in m..(k - 7)
        BY ONLY <4>1, <4>2, A \in Nat, k \in Nat, m \in Nat, E \in Nat
      <4> QED
        BY <4>1, <4>3
    <3>2. \A z \in (F + slash)..(K - 6 - 1) : Tok(S, z) # SP
      BY <1>6, <3>1
    <3>3. Holds(S, F, E, line) /\ Len(S) < npos /\ slash \in Nat /\ Tok(S, K - 6) = SP
      BY <1>5, <1>6, <1>18
    <3>4. Find(line, SP, slash) = K - 6 - F
      BY ONLY <3>1, <3>2, <3>3, FindPlace
    <3> QED
      BY <1>3, <2>1, <3>4
  <2>2. CASE ~(K - 6 < E)
    <3>1. \A z \in (F + slash)..(E - 1) : z \in (A + 2)..(K - 7)
      BY <1>6, <1>18, <2>2, SMTT(40)
    <3>2. \A z \in (F + slash)..(E - 1) : Tok(S, z) # SP
      BY <1>6, <3>1
    <3>3. space = npos
      BY <1>3, <1>5, <1>18, <3>2, FindNoPlace
    <3>4. last = npos
      BY <1>3, <1>7, <1>16, <3>3
    <3> QED
      BY <1>15, <1>18, <3>4
  <2> QED
    BY <2>1, <2>2
<1>20. u.method = r.method /\ u.file = Named(r)
  BY <1>4, <1>5, <1>11, <1>12, <1>17, <1>18, <1>19, FileIsNamed
<1>21. G \in Nat /\ StartPlace(S, A, K, n, G)
  <2>1. G = K - 1 => G \in Nat /\ G >= 0
    BY <1>6
  <2> QED
    BY <1>5, <1>7, <1>10, <2>1 DEF StartPlace
<1> QED
  BY <1>4, <1>5, <1>20, <1>21 DEF Accepted

\* When every request has been read, there is nothing that parseURI accepts.
LEMMA ParseURINothing ==
  ASSUME NEW S, NEW F, NEW t, NEW str, Holds(S, F, t, str), Len(S) < npos,
         F \in {Len(S), Len(S) + 1} \/ (F = Len(S) - 1 /\ Tok(S, F) = LF),
         NEW u, u = ParseURI(str)
  PROVE  u.flag # "success"
<1>1. PICK pos, line, method :
        pos = Find(str, CR, 0) /\ line = Substr(str, 0, pos) /\ method = MethodOf(line)
  OBVIOUS
<1>2. /\ F \in Nat /\ t \in Nat /\ Len(str) \in Nat /\ Len(S) \in Nat /\ t <= Len(S)
      /\ F + Len(str) = t
  BY DEF Holds
<1>3. ASSUME NEW z \in F..(t - 1) PROVE z = F /\ Tok(S, F) = LF
  BY <1>2
<1>4. LF # CR /\ LF \notin Method
  BY DEF LF, CR, Method
<1>5. pos = npos
  <2>1. F + 0 = F /\ \A z \in (F + 0)..(t - 1) : Tok(S, z) # CR
    BY <1>2, <1>3, <1>4
  <2> QED
    BY <1>1, <2>1, FindNoPlace
<1>6. line = SubSeq(str, 0 + 1, Len(str))
  <2>1. npos \in Nat
    BY SizeTType
  <2>2. 0 + npos > Len(str)
    BY <1>2, <2>1
  <2> QED
    BY <1>1, <1>5, <2>2 DEF Substr
<1>7. Holds(S, F + 0, F + Len(str), line)
  <2>1. 0 \in 0..Len(str) /\ Len(str) \in 0..Len(str)
    BY <1>2
  <2> QED
    BY <1>6, <2>1, HoldsPart
<1>8. Holds(S, F, t, line)
  BY <1>2, <1>7
<1>9. method = "none"
  <2>1. \A z \in F..(t - 1) : Tok(S, z) \notin Method
    BY <1>3, <1>4
  <2> QED
    BY <1>1, <1>8, <2>1, NoMethod
<1>10. u.flag = "success" => method # "none"
  BY <1>1 DEF ParseURI
<1> QED
  BY <1>9, <1>10

-----------------------------------------------------------------------------
(* Where the phases of handleRead are in the stream.                       *)

\* r is a request of the stream S, and begins at A.
There(S, r, A) ==
  /\ WellFormed(r) /\ A \in Nat /\ Len(S) \in Nat /\ Len(S) < npos /\ Layout(S, r, A)
  /\ HeadersOf(r, A) \in Nat /\ Len(r.headers) \in Nat /\ A + 9 <= HeadersOf(r, A)
  /\ Grid(S, A, HeadersOf(r, A), Len(r.headers))

\* Where the buffer may begin while a request line is awaited that begins at A.
UriPlace(S, A, F) == F \in {A, A + 1} \/ (F = A - 1 /\ Tok(S, F) = LF)

\* The request line of r has been parsed, and its headers are being parsed.
InHeaders(S, r, A, F, t, s) ==
  /\ s.method = r.method /\ s.file = Named(r)
  /\ Place(S, A, HeadersOf(r, A), Len(r.headers), s.hState, F, F, t)
  /\ Taken(S, HeadersOf(r, A), Len(r.headers), s.headers)

\* So have its headers, but not necessarily the last token of the blank line.
PastHeaders(S, r, A, F, t, s) ==
  /\ s.method = r.method /\ s.file = Named(r)
  /\ Taken(S, HeadersOf(r, A), Len(r.headers), s.headers)
  /\ F \in {BodyOf(r, A) - 1, BodyOf(r, A), BodyOf(r, A) + 1}
  /\ t >= BodyOf(r, A) - 1

\* After the request line.
LEMMA UriPhasePlace ==
  ASSUME NEW S, NEW r, NEW A, There(S, r, A), NEW s \in Data, ~s.error, s.state = "uri",
         s.hState = "start", s.headers = {},
         NEW F, NEW t, Holds(S, F, t, s.inBuffer), UriPlace(S, A, F), NEW q, q = UriPhase(s)
  PROVE  \/ q.error
         \/ /\ ~q.error /\ q.state = "headers"
            /\ \E G \in Nat : Holds(S, G, t, q.inBuffer) /\ InHeaders(S, r, A, G, t, q)
<1>1. PICK u : u = ParseURI(s.inBuffer)
  OBVIOUS
<1>2. s.inBuffer \in Seq(Token)
  BY DEF Data
<1>3. u.flag \in {"error", "success"} /\ u.rest \in Seq(Token)
  BY <1>1, <1>2, ParseURIType
<1>4. CASE u.flag = "error"
  <2>1. q = [Fail(s, "400") EXCEPT !.inBuffer = <<>>]
    BY <1>1, <1>4 DEF UriPhase
  <2> QED
    BY <2>1 DEF Fail, Data
<1>5. CASE u.flag = "success"
  <2>1. q = [s EXCEPT !.state = "headers", !.inBuffer = u.rest,
                      !.method = u.method, !.file = u.file]
    BY <1>1, <1>5 DEF UriPhase
  <2>2. /\ ~q.error /\ q.state = "headers" /\ q.inBuffer = u.rest /\ q.method = u.method
        /\ q.file = u.file /\ q.hState = "start" /\ q.headers = {}
    BY <2>1 DEF Data
  <2>3. PICK K, n : K = HeadersOf(r, A) /\ n = Len(r.headers)
    OBVIOUS
  <2>4. /\ u.method = r.method /\ u.file = Named(r)
        /\ \E G \in Nat : Holds(S, G, t, u.rest) /\ StartPlace(S, A, K, n, G)
    <3>1. WellFormed(r) /\ A \in Nat /\ LineAt(S, r, A) /\ Len(S) < npos
      BY DEF There, Layout
    <3>2. F \in {A, A + 1} \/ (F = A - 1 /\ Tok(S, F) = LF)
      BY DEF UriPlace
    <3>3. Holds(S, F, t, s.inBuffer)
      OBVIOUS
    <3>4. Accepted(S, r, A, K, n, t, u)
      BY ONLY <1>1, <1>5, <2>3, <3>1, <3>2, <3>3, ParseURIPlace
    <3> QED
      BY <3>4 DEF Accepted
  <2>5. PICK G \in Nat : Holds(S, G, t, u.rest) /\ StartPlace(S, A, K, n, G)
    BY <2>4
  <2>6. Place(S, A, K, n, "start", G, G, t)
    BY <2>5 DEF Place
  <2>7. Taken(S, K, n, {})
    BY DEF Taken
  <2>8. InHeaders(S, r, A, G, t, q)
    BY <2>2, <2>3, <2>4, <2>6, <2>7 DEF InHeaders
  <2> QED
    BY <2>2, <2>5, <2>8
<1> QED
  BY <1>3, <1>4, <1>5

\* After the last request, there is no request line.
LEMMA UriPhaseNothing ==
  ASSUME NEW S, Len(S) < npos, NEW s \in Data, ~s.error, s.state = "uri",
         NEW F, NEW t, Holds(S, F, t, s.inBuffer), UriPlace(S, Len(S), F), NEW q, q = UriPhase(s)
  PROVE  q.error
<1>1. PICK u : u = ParseURI(s.inBuffer)
  OBVIOUS
<1>2. s.inBuffer \in Seq(Token)
  BY DEF Data
<1>3. u.flag \in {"error", "success"} /\ u.flag # "success"
  <2>1. u.flag \in {"error", "success"}
    BY <1>1, <1>2, ParseURIType
  <2>2. u.flag # "success"
    BY <1>1, ParseURINothing DEF UriPlace
  <2> QED
    BY <2>1, <2>2
<1>4. q = [Fail(s, "400") EXCEPT !.inBuffer = <<>>]
  BY <1>1, <1>3 DEF UriPhase
<1> QED
  BY <1>4 DEF Fail, Data

\* After the headers.
LEMMA HeaderPhasePlace ==
  ASSUME NEW S, NEW r, NEW A, There(S, r, A), NEW s \in Data, ~s.error, s.state = "headers",
         NEW F, NEW t, Holds(S, F, t, s.inBuffer), InHeaders(S, r, A, F, t, s),
         NEW q, q = HeaderPhase(s)
  PROVE  \/ q.error
         \/ /\ ~q.error /\ q.state = "headers"
            /\ \E G \in Nat : Holds(S, G, t, q.inBuffer) /\ InHeaders(S, r, A, G, t, q)
         \/ /\ ~q.error /\ q.state = IF r.method = "POST" THEN "body" ELSE "analysis"
            /\ \E G \in Nat : Holds(S, G, t, q.inBuffer) /\ PastHeaders(S, r, A, G, t, q)
<1>1. PICK p : p = ParseHeaders(s.inBuffer, s.hState, s.headers)
  OBVIOUS
<1>2. s.inBuffer \in Seq(Token) /\ s.hState \in HeaderStates /\ s.headers \in SUBSET Header
  BY DEF Data
<1>3. p.flag \in {"again", "error", "success"}
  BY <1>1, <1>2, ParseHeadersType
<1>4. PICK left : left = [s EXCEPT !.inBuffer = p.rest, !.hState = p.h, !.headers = p.headers]
  OBVIOUS
<1>5. /\ left.inBuffer = p.rest /\ left.hState = p.h /\ left.headers = p.headers
      /\ left.method = s.method /\ left.file = s.file /\ left.state = "headers" /\ ~left.error
  BY <1>4 DEF Data
<1>6. PICK K \in Nat, n \in Nat, B \in Nat :
        K = HeadersOf(r, A) /\ n = Len(r.headers) /\ B = K + 6 * n + 2 /\ B = BodyOf(r, A)
  <2>1. HeadersOf(r, A) \in Nat /\ Len(r.headers) \in Nat
    BY DEF There
  <2>2. HeadersOf(r, A) + 6 * Len(r.headers) + 2 \in Nat
    BY <2>1
  <2> QED
    BY <2>1, <2>2 DEF BodyOf
<1>7. Buffers(S, A, K, n, F, t, s.inBuffer) /\ Grid(S, A, K, n) /\ Len(S) < npos
  BY <1>6, BuffersHold DEF There
<1>8. Place(S, A, K, n, s.hState, F, F, t) /\ Taken(S, K, n, s.headers)
  BY <1>6 DEF InHeaders
<1>9. s.method = r.method /\ s.file = Named(r)
  BY DEF InHeaders
<1>10. /\ p.flag # "error" => Taken(S, K, n, p.headers)
       /\ p.flag = "again" =>
            \E G \in Nat : Holds(S, G, t, p.rest) /\ Place(S, A, K, n, p.h, G, G, t)
       /\ p.flag = "success" =>
            \E G \in Nat : /\ Holds(S, G, t, p.rest)
                           /\ G \in {K + 6 * n + 1, K + 6 * n + 2, K + 6 * n + 3}
                           /\ t >= K + 6 * n + 1
  BY <1>1, <1>2, <1>7, <1>8, ParseHeadersPlace
<1>11. CASE p.flag = "error"
  <2>1. q = Fail(left, "400")
    BY <1>1, <1>4, <1>11 DEF HeaderPhase
  <2> QED
    BY <1>4, <2>1 DEF Fail, Data
<1>12. CASE p.flag = "again"
  <2>1. q = left
    BY <1>1, <1>4, <1>12 DEF HeaderPhase
  <2>2. PICK G \in Nat : Holds(S, G, t, p.rest) /\ Place(S, A, K, n, p.h, G, G, t)
    BY <1>10, <1>12
  <2>3. InHeaders(S, r, A, G, t, q)
    BY <1>5, <1>6, <1>9, <1>10, <1>12, <2>1, <2>2 DEF InHeaders
  <2> QED
    BY <1>5, <2>1, <2>2, <2>3
<1>13. CASE p.flag = "success"
  <2>1. q = [left EXCEPT !.state = IF s.method = "POST" THEN "body" ELSE "analysis"]
    BY <1>1, <1>4, <1>13 DEF HeaderPhase
  <2>2. /\ ~q.error /\ q.state = IF r.method = "POST" THEN "body" ELSE "analysis"
        /\ q.inBuffer = p.rest /\ q.headers = p.headers /\ q.method = s.method /\ q.file = s.file
    BY <1>4, <1>5, <1>9, <2>1 DEF Data
  <2>3. PICK G \in Nat : /\ Holds(S, G, t, p.rest)
                         /\ G \in {K + 6 * n + 1, K + 6 * n + 2, K + 6 * n + 3}
                         /\ t >= K + 6 * n + 1
    BY <1>10, <1>13
  <2>4. /\ K + 6 * n + 1 = BodyOf(r, A) - 1 /\ K + 6 * n + 2 = BodyOf(r, A)
        /\ K + 6 * n + 3 = BodyOf(r, A) + 1
    <3>1. B = K + 6 * n + 2 => /\ K + 6 * n + 1 = B - 1 /\ K + 6 * n + 2 = B
                               /\ K + 6 * n + 3 = B + 1
      OBVIOUS
    <3> QED
      BY <1>6, <3>1
  <2>5. G \in {BodyOf(r, A) - 1, BodyOf(r, A), BodyOf(r, A) + 1} /\ t >= BodyOf(r, A) - 1
    BY <2>3, <2>4
  <2>6. PastHeaders(S, r, A, G, t, q)
    BY <1>6, <1>9, <1>10, <1>13, <2>2, <2>5 DEF PastHeaders
  <2> QED
    BY <2>2, <2>3, <2>6
<1> QED
  BY <1>3, <1>11, <1>12, <1>13

\* After the body, which only a POST has.
LEMMA BodyPhasePlace ==
  ASSUME NEW s \in Data, ~s.error, NEW q, q = BodyPhase(s)
  PROVE  \/ s.state # "body" /\ q = s
         \/ s.state = "body" /\ q.error
         \/ /\ s.state = "body" /\ ~q.error /\ q.state \in {"body", "analysis"}
            /\ q.method = s.method /\ q.inBuffer = s.inBuffer
<1>1. CASE s.state # "body"
  BY <1>1 DEF BodyPhase
<1>2. CASE s.state = "body"
  <2>1. q \in {s, Fail(s, "400"), [s EXCEPT !.state = "analysis"]}
    BY DEF BodyPhase
  <2>2. CASE q = s
    BY <1>2, <2>2
  <2>3. CASE q = Fail(s, "400")
    BY <1>2, <2>3 DEF Fail, Data
  <2>4. CASE q = [s EXCEPT !.state = "analysis"]
    BY <1>2, <2>4 DEF Data
  <2> QED
    BY <2>1, <2>2, <2>3, <2>4
<1> QED
  BY <1>1, <1>2

\* A POST is not answered; an answer is to what has been parsed.
LEMMA AnalysisPhasePlace ==
  ASSUME NEW s \in Data, ~s.error, NEW q, q = AnalysisPhase(s)
  PROVE  \/ s.state # "analysis" /\ q = s
         \/ s.state = "analysis" /\ q.error
         \/ /\ s.state = "analysis" /\ s.method # "POST" /\ ~q.error /\ q.state = "finish"
            /\ q.method = s.method /\ q.file = s.file /\ q.headers = s.headers
            /\ q.inBuffer = s.inBuffer
<1>1. PICK asked : asked = Asked(s.headers)
  OBVIOUS
<1>2. PICK kept : kept = [s EXCEPT !.keepAlive = @ \/ asked]
  OBVIOUS
<1>3. PICK reply : reply = Reply(s.method, s.file, asked)
  OBVIOUS
<1>4. PICK all : all = s.out \o reply
  OBVIOUS
<1>5. CASE s.state # "analysis"
  BY <1>5 DEF AnalysisPhase
<1>6. CASE s.state = "analysis"
  <2>1. /\ kept.out = s.out /\ kept.method = s.method /\ kept.file = s.file
        /\ kept.headers = s.headers /\ kept.inBuffer = s.inBuffer /\ kept.error = s.error
    BY <1>2 DEF Data
  <2>2. \/ q \in {Fail(s, "none"), Fail(kept, "404"), [Fail(kept, "404") EXCEPT !.out = <<>>]}
        \/ /\ s.method # "POST"
           /\ q \in {[kept EXCEPT !.state = "finish", !.out = reply],
                     [kept EXCEPT !.state = "finish", !.out = @ \o reply]}
    BY <1>1, <1>2, <1>3, <1>6 DEF AnalysisPhase
  <2>3. CASE q \in {Fail(s, "none"), Fail(kept, "404"), [Fail(kept, "404") EXCEPT !.out = <<>>]}
    <3>1. Fail(s, "none").error
      BY DEF Fail, Data
    <3>2. PICK f : f = Fail(kept, "404")
      OBVIOUS
    <3>3. f.error /\ [f EXCEPT !.out = <<>>].error
      BY <1>2, <3>2 DEF Fail, Data
    <3> QED
      BY <1>6, <2>3, <3>1, <3>2, <3>3
  <2>4. CASE /\ s.method # "POST"
             /\ q \in {[kept EXCEPT !.state = "finish", !.out = reply],
                       [kept EXCEPT !.state = "finish", !.out = @ \o reply]}
    <3>1. q = [kept EXCEPT !.state = "finish", !.out = reply]
            \/ q = [kept EXCEPT !.state = "finish", !.out = all]
      BY <1>4, <2>1, <2>4
    <3>2. /\ ~q.error /\ q.state = "finish" /\ q.method = kept.method /\ q.file = kept.file
          /\ q.headers = kept.headers /\ q.inBuffer = kept.inBuffer
      BY <1>2, <2>1, <3>1 DEF Data
    <3> QED
      BY <1>6, <2>1, <2>4, <3>2
  <2> QED
    BY <2>2, <2>3, <2>4
<1> QED
  BY <1>5, <1>6

-----------------------------------------------------------------------------
(* The parser between the answers, in place in the stream.                 *)

\* After k answers, with t tokens read: the parser has come to a place in the
\* request that is next.
Reading(rs, S, A, k, t, s) ==
  \E F \in Nat :
    /\ Holds(S, F, t, s.inBuffer)
    /\ s.state \in {"uri", "headers", "body"}
    /\ s.state = "uri" => UriPlace(S, A, F)
    /\ s.state = "headers" => k < Len(rs) /\ InHeaders(S, rs[k + 1], A, F, t, s)
    /\ s.state = "body" => s.method = "POST"

\* handleRead has more to read before it can answer.
Unfinished(rs, S, A, k, t, s) ==
  ~s.error /\ s.state \in {"headers", "body"} /\ Reading(rs, S, A, k, t, s)

\* Or it can answer.
Understood(rs, S, A, k, t, s) ==
  /\ ~s.error /\ k < Len(rs) /\ rs[k + 1].method # "POST"
  /\ \E G \in Nat : Holds(S, G, t, s.inBuffer) /\ PastHeaders(S, rs[k + 1], A, G, t, s)

\* The phases, one after the other, keep to the request that is next.
LEMMA ParsedPlace ==
  ASSUME NEW rs, NEW S, NEW A, NEW k, Len(rs) \in Nat, k \in 0..Len(rs), Len(S) < npos,
         k < Len(rs) => There(S, rs[k + 1], A), k = Len(rs) => A = Len(S),
         NEW s \in Data, ~s.error, FreshData(s), NEW t, Reading(rs, S, A, k, t, s),
         NEW q, q = Parsed(s)
  PROVE  \/ q.error \/ Unfinished(rs, S, A, k, t, q)
         \/ q.state = "finish" /\ Understood(rs, S, A, k, t, q)
<1>1. PICK u : u = UriPhase(s)
  OBVIOUS
<1>2. PICK h : h = HeaderPhase(u)
  OBVIOUS
<1>3. PICK b : b = BodyPhase(h)
  OBVIOUS
<1>4. q = AnalysisPhase(b)
  BY <1>1, <1>2, <1>3 DEF Parsed
<1>5. u \in Data
  BY <1>1, UriPhaseType
<1>6. h \in Data
  BY <1>2, <1>5, HeaderPhaseType
<1>7. b \in Data
  BY <1>3, <1>6, BodyPhaseType
<1>8. k \in Nat /\ (k < Len(rs) \/ k = Len(rs))
  OBVIOUS
<1>9. u.error \/ Unfinished(rs, S, A, k, t, u)
  <2>1. PICK F \in Nat :
          /\ Holds(S, F, t, s.inBuffer)
          /\ s.state \in {"uri", "headers", "body"}
          /\ s.state = "uri" => UriPlace(S, A, F)
    BY DEF Reading
  <2>2. CASE s.state = "uri"
    <3>1. s.hState = "start" /\ s.headers = {} /\ UriPlace(S, A, F)
      BY <2>1, <2>2 DEF FreshData
    <3>2. CASE k < Len(rs)
      <4>1. \/ u.error
            \/ /\ ~u.error /\ u.state = "headers"
               /\ \E G \in Nat : Holds(S, G, t, u.inBuffer) /\ InHeaders(S, rs[k + 1], A, G, t, u)
        BY <1>1, <2>1, <2>2, <3>1, <3>2, UriPhasePlace
      <4> QED
        BY <3>2, <4>1 DEF Unfinished, Reading
    <3>3. CASE k = Len(rs)
      BY <1>1, <2>1, <2>2, <3>1, <3>3, UriPhaseNothing
    <3> QED
      BY <1>8, <3>2, <3>3
  <2>3. CASE s.state # "uri"
    <3>1. u = s
      BY <1>1, <2>3 DEF UriPhase
    <3> QED
      BY <2>1, <2>3, <3>1 DEF Unfinished
  <2> QED
    BY <2>2, <2>3
<1>10. CASE u.error
  BY <1>2, <1>3, <1>4, <1>10, ErrorStays
<1>11. CASE ~u.error
  <2>1. PICK F \in Nat :
          /\ Holds(S, F, t, u.inBuffer)
          /\ u.state \in {"headers", "body"}
          /\ u.state = "headers" => k < Len(rs) /\ InHeaders(S, rs[k + 1], A, F, t, u)
          /\ u.state = "body" => u.method = "POST"
    BY <1>9, <1>11 DEF Unfinished, Reading
  <2>2. \/ h.error \/ Unfinished(rs, S, A, k, t, h)
        \/ h.state = "analysis" /\ Understood(rs, S, A, k, t, h)
    <3>1. CASE u.state = "body"
      <4>1. h = u
        BY <1>2, <3>1 DEF HeaderPhase
      <4> QED
        BY <1>9, <1>11, <4>1
    <3>2. CASE u.state = "headers"
      <4>1. PICK r : r = rs[k + 1]
        OBVIOUS
      <4>2. k < Len(rs) /\ InHeaders(S, r, A, F, t, u) /\ There(S, r, A)
        BY <2>1, <3>2, <4>1
      <4>3. \/ h.error
            \/ /\ ~h.error /\ h.state = "headers"
               /\ \E G \in Nat : Holds(S, G, t, h.inBuffer) /\ InHeaders(S, r, A, G, t, h)
            \/ /\ ~h.error /\ h.state = IF r.method = "POST" THEN "body" ELSE "analysis"
               /\ \E G \in Nat : Holds(S, G, t, h.inBuffer) /\ PastHeaders(S, r, A, G, t, h)
        BY <1>2, <1>5, <1>11, <2>1, <3>2, <4>2, HeaderPhasePlace
      <4>4. CASE /\ ~h.error /\ h.state = "headers"
                 /\ \E G \in Nat : Holds(S, G, t, h.inBuffer) /\ InHeaders(S, r, A, G, t, h)
        BY <4>1, <4>2, <4>4 DEF Unfinished, Reading
      <4>5. CASE /\ ~h.error /\ h.state = IF r.method = "POST" THEN "body" ELSE "analysis"
                 /\ \E G \in Nat : Holds(S, G, t, h.inBuffer) /\ PastHeaders(S, r, A, G, t, h)
        <5>1. PICK G \in Nat : Holds(S, G, t, h.inBuffer) /\ PastHeaders(S, r, A, G, t, h)
          BY <4>5
        <5>2. CASE r.method = "POST"
          <6>1. h.state = "body" /\ h.method = "POST"
            BY <4>5, <5>1, <5>2 DEF PastHeaders
          <6> QED
            BY <4>5, <5>1, <6>1 DEF Unfinished, Reading
        <5>3. CASE r.method # "POST"
          <6>1. h.state = "analysis"
            BY <4>5, <5>3
          <6> QED
            BY <4>1, <4>2, <4>5, <5>1, <5>3, <6>1 DEF Understood
        <5> QED
          BY <5>2, <5>3
      <4> QED
        BY <4>3, <4>4, <4>5
    <3> QED
      BY <2>1, <3>1, <3>2
  <2>3. CASE h.error
    BY <1>3, <1>4, <2>3, ErrorStays
  <2>4. CASE ~h.error /\ Unfinished(rs, S, A, k, t, h)
    <3>1. CASE h.state = "headers"
      <4>1. b = h
        BY <1>3, <1>6, <2>4, <3>1, BodyPhasePlace
      <4>2. q = b
        BY <1>4, <3>1, <4>1 DEF AnalysisPhase
      <4> QED
        BY <2>4, <4>1, <4>2
    <3>2. CASE h.state = "body"
      <4>1. PICK G \in Nat : Holds(S, G, t, h.inBuffer) /\ h.method = "POST"
        BY <2>4, <3>2 DEF Unfinished, Reading
      <4>2. \/ b.error
            \/ /\ ~b.error /\ b.state \in {"body", "analysis"}
               /\ b.method = h.method /\ b.inBuffer = h.inBuffer
        BY <1>3, <1>6, <2>4, <3>2, BodyPhasePlace
      <4>3. CASE b.error
        BY <1>4, <4>3, ErrorStays
      <4>4. CASE ~b.error /\ b.state = "body" /\ b.method = h.method /\ b.inBuffer = h.inBuffer
        <5>1. q = b
          BY <1>4, <4>4 DEF AnalysisPhase
        <5> QED
          BY <4>1, <4>4, <5>1 DEF Unfinished, Reading
      <4>5. CASE ~b.error /\ b.state = "analysis" /\ b.method = h.method
        BY <1>4, <1>7, <4>1, <4>5, AnalysisPhasePlace
      <4> QED
        BY <4>2, <4>3, <4>4, <4>5
    <3> QED
      BY <2>4, <3>1, <3>2 DEF Unfinished
  <2>5. CASE ~h.error /\ h.state = "analysis" /\ Understood(rs, S, A, k, t, h)
    <3>1. b = h
      BY <1>3, <1>6, <2>5, BodyPhasePlace
    <3>2. \/ q.error
          \/ /\ ~q.error /\ q.state = "finish" /\ q.method = h.method /\ q.file = h.file
             /\ q.headers = h.headers /\ q.inBuffer = h.inBuffer
      BY <1>4, <1>7, <2>5, <3>1, AnalysisPhasePlace
    <3> QED
      BY <2>5, <3>2 DEF Understood, PastHeaders
  <2> QED
    BY <2>2, <2>3, <2>4, <2>5
<1> QED
  BY <1>10, <1>11

\* The requests of the client are in its stream, one after the other.
LEMMA StreamThere ==
  ASSUME Typed
  PROVE  /\ Len(reqs) \in Nat /\ Len(Stream) \in Nat /\ Len(Stream) < npos
         /\ \A k \in 0..Len(reqs) :
              /\ EndOf(k) \in Nat
              /\ k < Len(reqs) =>
                   /\ There(Stream, reqs[k + 1], EndOf(k))
                   /\ EndOf(k + 1) = BodyOf(reqs[k + 1], EndOf(k)) + Len(reqs[k + 1].body)
              /\ k = Len(reqs) => EndOf(k) = Len(Stream)
<1>1. PICK N \in 1..MaxRequests : reqs \in [1..N -> Request]
  BY DEF Typed
<1>2. N \in Nat
  BY <1>1, Bounds
<1>3. /\ Len(reqs) = N /\ EndOf(N) = Len(Stream)
      /\ \A k \in 0..N : EndOf(k) \in Nat
      /\ \A l \in 1..N :
           /\ WellFormed(reqs[l]) /\ Layout(Stream, reqs[l], EndOf(l - 1))
           /\ EndOf(l) = BodyOf(reqs[l], EndOf(l - 1)) + Len(reqs[l].body)
  BY <1>1, <1>2, StreamLayout
<1>4. Len(Stream) \in Nat /\ Len(Stream) < npos
  BY <1>1, StreamFits
<1>5. ASSUME NEW k \in 0..N, k < N
      PROVE  /\ There(Stream, reqs[k + 1], EndOf(k))
             /\ EndOf(k + 1) = BodyOf(reqs[k + 1], EndOf(k)) + Len(reqs[k + 1].body)
  <2>1. PICK l \in 1..N : l = k + 1 /\ l - 1 = k
    <3>1. k + 1 \in 1..N /\ k + 1 - 1 = k
      BY <1>2, <1>5
    <3> QED
      BY <3>1
  <2>2. /\ EndOf(k) \in Nat /\ HeadersOf(reqs[l], EndOf(k)) \in Nat /\ Len(reqs[l].headers) \in Nat
        /\ EndOf(k) + 9 <= HeadersOf(reqs[l], EndOf(k))
        /\ Grid(Stream, EndOf(k), HeadersOf(reqs[l], EndOf(k)), Len(reqs[l].headers))
    BY <1>1, <1>2, <2>1, StreamGrid
  <2>3. /\ WellFormed(reqs[l]) /\ Layout(Stream, reqs[l], EndOf(k))
        /\ EndOf(l) = BodyOf(reqs[l], EndOf(k)) + Len(reqs[l].body)
    BY <1>3, <2>1
  <2>4. There(Stream, reqs[l], EndOf(k))
    BY <1>4, <2>2, <2>3 DEF There
  <2> QED
    BY <2>1, <2>3, <2>4
<1> QED
  BY <1>2, <1>3, <1>4, <1>5

\* The history of an answer.
AnswerRecord == [method : Method, file : Seq(Token), keep : BOOLEAN, at : Nat]

\* The answer a is to the request r, which ends at e.
AnswerTo(a, r, e) ==
  /\ a.method = r.method /\ a.file = Named(r) /\ a.at >= e - Len(r.body) - 1
  /\ a.keep => \E i \in DOMAIN r.headers :
                 /\ r.headers[i].key = "Connection"
                 /\ r.headers[i].value \in {"keep-alive", "Keep-Alive"}

\* The answers so far are to the requests so far, and the parser has come to a
\* place in the next.
Conversing ==
  /\ answers \in Seq(AnswerRecord) /\ Len(answers) <= Len(reqs)
  /\ \A k \in 1..Len(answers) : AnswerTo(answers[k], reqs[k], EndOf(k))
  /\ pc # "closed" => Reading(reqs, Stream, EndOf(Len(answers)), Len(answers), taken, d)

\* Who is promised to be kept has asked for it.
LEMMA KeepIsAsked ==
  ASSUME NEW S, NEW r, NEW A, There(S, r, A), NEW headers,
         Taken(S, HeadersOf(r, A), Len(r.headers), headers), Asked(headers)
  PROVE  \E i \in DOMAIN r.headers : /\ r.headers[i].key = "Connection"
                                     /\ r.headers[i].value \in {"keep-alive", "Keep-Alive"}
<1>1. PICK K, n : K = HeadersOf(r, A) /\ n = Len(r.headers)
  OBVIOUS
<1>2. PICK h \in headers : h.key = <<"Connection">>
                             /\ h.value \in {<<"keep-alive">>, <<"Keep-Alive">>}
  BY DEF Asked
<1>3. PICK j \in 1..n : Tok(S, Key(K, j)) = "Connection" /\ h.value = <<Tok(S, Key(K, j) + 3)>>
  BY <1>1, <1>2 DEF Taken
<1>4. r.headers[j].key = "Connection" /\ h.value = <<r.headers[j].value>>
  BY <1>1, <1>3 DEF There, Layout, HeadersAt, LineOf
<1>5. \A a, b : <<a>> = <<b>> => a = b
  OBVIOUS
<1>6. r.headers[j].value \in {"keep-alive", "Keep-Alive"}
  BY <1>2, <1>4, <1>5
<1>7. j \in DOMAIN r.headers
  BY <1>1 DEF There, WellFormed
<1> QED
  BY <1>4, <1>6, <1>7

\* Reading depends on the parser only.
LEMMA SameReading ==
  ASSUME NEW rs, NEW S, NEW A, NEW k, NEW t, NEW s, Reading(rs, S, A, k, t, s), NEW q,
         q.inBuffer = s.inBuffer, q.state = s.state, q.hState = s.hState, q.method = s.method,
         q.file = s.file, q.headers = s.headers
  PROVE  Reading(rs, S, A, k, t, q)
BY DEF Reading, InHeaders

\* Writing leaves the parser alone.
LEMMA WriteSomeReads ==
  ASSUME NEW s \in Data, NEW n, WriteSome(s, n)
  PROVE  /\ d'.inBuffer = s.inBuffer /\ d'.state = s.state /\ d'.hState = s.hState
         /\ d'.method = s.method /\ d'.file = s.file /\ d'.headers = s.headers
<1>1. PICK out : d' = [s EXCEPT !.out = out]
  <2>1. PICK out : out = SubSeq(s.out, n + 1, Len(s.out))
    OBVIOUS
  <2> QED
    BY <2>1 DEF WriteSome
<1> QED
  BY <1>1 DEF Data

\* A request that is not complete.
LEMMA AwaitReads ==
  ASSUME NEW rs, NEW S, NEW A, NEW k, NEW t, NEW s \in Data, Reading(rs, S, A, k, t, s), Await(s)
  PROVE  answers' = answers /\ (pc' # "closed" => Reading(rs, S, A, k, t, d'))
<1>1. answers' = answers
  BY DEF Await
<1>2. pc' # "closed" => \E n \in 0..Len(s.out) : WriteSome(s, n)
  BY DEF Await, WriteFails
<1>3. ASSUME NEW n, WriteSome(s, n) PROVE Reading(rs, S, A, k, t, d')
  BY <1>3, WriteSomeReads, SameReading
<1> QED
  BY <1>1, <1>2, <1>3

\* A request that is answered.
LEMMA AnswerReads ==
  ASSUME NEW rs, NEW S, NEW A, NEW k \in Nat, NEW t \in Nat, NEW s \in Data,
         NEW r, r = rs[k + 1], There(S, r, A), Understood(rs, S, A, k, t, s), Answer(s), taken' = t,
         NEW e, e = BodyOf(r, A) + Len(r.body)
  PROVE  \E a \in AnswerRecord :
           /\ answers' = Append(answers, a) /\ AnswerTo(a, r, e)
           /\ pc' # "closed" => Reading(rs, S, e, k + 1, t, d')
<1>1. PICK a : a = [method |-> s.method, file |-> s.file, keep |-> Asked(s.headers), at |-> t]
  OBVIOUS
<1>2. answers' = Append(answers, a)
  BY <1>1 DEF Answer
<1>3. a \in AnswerRecord
  BY <1>1 DEF AnswerRecord, Data, Asked
<1>4. r.method # "POST"
  BY DEF Understood
<1>5. PICK G \in Nat : Holds(S, G, t, s.inBuffer) /\ PastHeaders(S, r, A, G, t, s)
  BY DEF Understood
<1>6. PICK K \in Nat, n \in Nat, B \in Nat :
        K = HeadersOf(r, A) /\ n = Len(r.headers) /\ B = K + 6 * n + 2 /\ B = BodyOf(r, A)
  <2>1. HeadersOf(r, A) \in Nat /\ Len(r.headers) \in Nat
    BY DEF There
  <2>2. HeadersOf(r, A) + 6 * Len(r.headers) + 2 \in Nat
    BY <2>1
  <2> QED
    BY <2>1, <2>2 DEF BodyOf
<1>7. e = B /\ Len(r.body) = 0
  <2>1. WellFormed(r)
    BY DEF There
  <2>2. r.body = <<>>
    BY <1>4, <2>1 DEF WellFormed
  <2>3. Len(r.body) = 0
    BY <2>2
  <2> QED
    BY <1>6, <2>3
<1>8. /\ s.method = r.method /\ s.file = Named(r) /\ Taken(S, K, n, s.headers)
      /\ G \in {B - 1, B, B + 1} /\ t >= B - 1
  BY <1>5, <1>6 DEF PastHeaders
<1>9. AnswerTo(a, r, e)
  <2>1. a.keep => \E i \in DOMAIN r.headers :
                     /\ r.headers[i].key = "Connection"
                     /\ r.headers[i].value \in {"keep-alive", "Keep-Alive"}
    <3> SUFFICES ASSUME a.keep
                 PROVE  \E i \in DOMAIN r.headers :
                          /\ r.headers[i].key = "Connection"
                          /\ r.headers[i].value \in {"keep-alive", "Keep-Alive"}
      OBVIOUS
    <3>1. Asked(s.headers)
      BY <1>1
    <3>2. Taken(S, HeadersOf(r, A), Len(r.headers), s.headers)
      BY <1>6, <1>8
    <3> QED
      BY <3>1, <3>2, KeepIsAsked
  <2>2. a.at >= e - Len(r.body) - 1
    BY <1>1, <1>7, <1>8
  <2>3. a.method = r.method /\ a.file = Named(r)
    BY <1>1, <1>8
  <2> QED
    BY <2>1, <2>2, <2>3 DEF AnswerTo
<1>10. UriPlace(S, e, G)
  <2>1. G = B - 1 => Tok(S, G) = LF
    <3>1. Tok(S, K + 6 * n + 1) = LF
      BY <1>6 DEF There, Grid
    <3>2. B - 1 = K + 6 * n + 1
      BY <1>6, SMTT(40)
    <3> QED
      BY <3>1, <3>2
  <2> QED
    BY <1>7, <1>8, <2>1 DEF UriPlace
<1>11. ASSUME NEW m, WriteSome(Cleared(s), m) PROVE Reading(rs, S, e, k + 1, t, d')
  <2>1. PICK c : c = Cleared(s)
    OBVIOUS
  <2>2. c \in Data /\ c.state = "uri" /\ c.inBuffer = s.inBuffer
    BY <2>1, ClearedType
  <2>3. Reading(rs, S, e, k + 1, t, c)
    BY <1>5, <1>10, <2>2 DEF Reading
  <2> QED
    BY <1>11, <2>1, <2>2, <2>3, WriteSomeReads, SameReading
<1>12. pc' # "closed" => \E m \in 0..Len(s.out) : WriteSome(Cleared(s), m)
  BY DEF Answer, WriteFails
<1> QED
  BY <1>2, <1>3, <1>9, <1>11, <1>12

-----------------------------------------------------------------------------
(* The answers, step by step.                                              *)

\* The client does not change its mind.
LEMMA SameEnds ==
  ASSUME reqs' = reqs
  PROVE  Stream' = Stream /\ \A k : EndOf(k)' = EndOf(k)
<1>1. Stream' = Stream
  BY DEF Stream
<1>2. ASSUME NEW k PROVE EndOf(k)' = EndOf(k)
  BY DEF EndOf
<1> QED
  BY <1>1, <1>2

\* Nor do the ends of the requests move.
LEMMA SameEnd ==
  ASSUME reqs' = reqs, NEW m, Len(answers') = m
  PROVE  EndOf(Len(answers))' = EndOf(m)
BY DEF EndOf

\* What a step keeps that adds no answer.
LEMMA NoAnswer ==
  ASSUME Conversing, reqs' = reqs, answers' = answers,
         NEW k, k = Len(answers), NEW A, A = EndOf(k),
         pc' # "closed" => Reading(reqs, Stream, A, k, taken', d')
  PROVE  Conversing'
<1>1. Stream' = Stream /\ \A i : EndOf(i)' = EndOf(i)
  BY SameEnds
<1>2. Len(answers') = k /\ EndOf(Len(answers))' = A
  <2>1. Len(answers') = k
    OBVIOUS
  <2> QED
    BY <2>1, SameEnd
<1>3. answers' \in Seq(AnswerRecord) /\ Len(answers') <= Len(reqs')
  BY DEF Conversing
<1>4. \A i \in 1..Len(answers') : AnswerTo(answers'[i], reqs'[i], EndOf(i)')
  BY <1>1 DEF Conversing
<1>5. pc' # "closed" => Reading(reqs', Stream', EndOf(Len(answers))', Len(answers'), taken', d')
  BY <1>1, <1>2
<1> QED
  BY <1>3, <1>4, <1>5 DEF Conversing

\* And one that adds an answer.
LEMMA OneAnswer ==
  ASSUME Conversing, reqs' = reqs, NEW a \in AnswerRecord, answers' = Append(answers, a),
         NEW k, k = Len(answers), k + 1 <= Len(reqs),
         NEW e, e = EndOf(k + 1), AnswerTo(a, reqs[k + 1], e),
         pc' # "closed" => Reading(reqs, Stream, e, k + 1, taken', d')
  PROVE  Conversing'
<1>1. Stream' = Stream /\ \A i : EndOf(i)' = EndOf(i)
  BY SameEnds
<1>2. answers \in Seq(AnswerRecord) /\ k \in Nat
  BY DEF Conversing
<1>3. PICK m \in Nat : m = k + 1
  BY <1>2
<1>4. /\ answers' \in Seq(AnswerRecord) /\ Len(answers') = m /\ answers'[m] = a
      /\ \A i \in 1..k : answers'[i] = answers[i]
  BY <1>2, <1>3
<1>5. EndOf(Len(answers))' = EndOf(m)
  BY <1>4, SameEnd
<1>6. ASSUME NEW i \in 1..m PROVE AnswerTo(answers'[i], reqs'[i], EndOf(i)')
  <2>1. CASE i = m
    BY <1>1, <1>3, <1>4, <2>1
  <2>2. CASE i # m
    <3>1. i \in 1..k
      BY <1>2, <1>3, <2>2
    <3>2. AnswerTo(answers[i], reqs[i], EndOf(i))
      BY <3>1 DEF Conversing
    <3> QED
      BY <1>1, <1>4, <3>1, <3>2
  <2> QED
    BY <2>1, <2>2
<1>7. pc' # "closed" => Reading(reqs', Stream', EndOf(Len(answers))', Len(answers'), taken', d')
  BY <1>1, <1>3, <1>4, <1>5
<1>8. Len(answers') <= Len(reqs')
  BY <1>3, <1>4
<1> QED
  BY <1>4, <1>6, <1>7, <1>8 DEF Conversing

\* A new connection.
LEMMA InitConversing == Init => Conversing
<1> SUFFICES ASSUME Init PROVE Conversing
  OBVIOUS
<1>1. Typed
  BY InitTyped
<1>2. /\ Len(reqs) \in Nat /\ Len(Stream) \in Nat /\ EndOf(0) \in Nat
  <2>1. Len(reqs) \in Nat /\ Len(Stream) \in Nat
    BY <1>1, StreamThere
  <2>2. 0 \in 0..Len(reqs)
    BY <2>1
  <2> QED
    BY <1>1, <2>1, <2>2, StreamThere
<1>3. EndOf(0) = 0
  <2>1. PICK N \in 1..MaxRequests : reqs \in [1..N -> Request]
    BY DEF Init
  <2>2. N \in Nat
    BY <2>1, Bounds
  <2> QED
    BY <2>1, <2>2, StreamLayout
<1>4. answers = <<>> /\ taken = 0 /\ d.inBuffer = <<>> /\ d.state = "uri"
  BY DEF Init
<1>5. answers \in Seq(AnswerRecord) /\ Len(answers) = 0
  BY <1>4
<1>6. Holds(Stream, 0, 0, <<>>)
  <2>1. Stream \in Seq(Token) /\ 0 \in 0..Len(Stream)
    BY <1>1, <1>2, StreamKnown
  <2> QED
    BY <2>1, HoldsNothing
<1>7. UriPlace(Stream, 0, 0)
  BY DEF UriPlace
<1>8. Reading(reqs, Stream, 0, 0, 0, d)
  BY <1>4, <1>6, <1>7 DEF Reading
<1>9. Reading(reqs, Stream, EndOf(Len(answers)), Len(answers), taken, d)
  BY <1>3, <1>4, <1>5, <1>8
<1> QED
  BY <1>2, <1>5, <1>9 DEF Conversing

\* A read keeps the parser in the request that is next, or ends with an answer
\* to that one.
LEMMA HandleReadConverses ==
  ASSUME Typed, Fresh, Conversing, pc # "closed", NEW upto \in Available, NEW fin \in BOOLEAN,
         HandleRead(upto, fin)
  PROVE  Conversing'
<1>1. /\ Stream \in Seq(Token) /\ Len(Stream) \in Nat /\ taken \in 0..Len(Stream)
      /\ d \in Data /\ ~d.error
  BY StreamKnown DEF Typed
<1>2. upto \in taken..Len(Stream) /\ upto \in Nat
  BY <1>1 DEF Available
<1>3. PICK s : s = [d EXCEPT !.inBuffer = @ \o SubSeq(Stream, taken + 1, upto), !.fin = fin]
  OBVIOUS
<1>4. PICK buf : buf = d.inBuffer \o SubSeq(Stream, taken + 1, upto)
  OBVIOUS
<1>5. /\ s \in Data /\ s.error = d.error /\ s.state = d.state /\ s.hState = d.hState
      /\ s.headers = d.headers /\ s.file = d.file /\ s.method = d.method /\ s.inBuffer = buf
  <2>1. SubSeq(Stream, taken + 1, upto) \in Seq(Token)
    BY <1>1, <1>2
  <2>2. d.inBuffer \in Seq(Token)
    BY <1>1 DEF Data
  <2>3. buf \in Seq(Token)
    BY <1>4, <2>1, <2>2
  <2>4. s = [d EXCEPT !.inBuffer = buf, !.fin = fin]
    BY <1>3, <1>4
  <2> QED
    BY <1>1, <2>3, <2>4 DEF Data
<1>6. PICK k, A : k = Len(answers) /\ A = EndOf(k)
  OBVIOUS
<1>7. /\ Len(reqs) \in Nat /\ Len(Stream) < npos /\ k \in Nat /\ k \in 0..Len(reqs)
      /\ k < Len(reqs) =>
           There(Stream, reqs[k + 1], A)
             /\ EndOf(k + 1) = BodyOf(reqs[k + 1], A) + Len(reqs[k + 1].body)
      /\ k = Len(reqs) => A = Len(Stream)
  <2>1. Len(reqs) \in Nat /\ Len(Stream) < npos
    BY StreamThere
  <2>2. k \in Nat /\ k \in 0..Len(reqs)
    BY <1>6, <2>1 DEF Conversing
  <2> QED
    BY <1>6, <2>1, <2>2, StreamThere
<1>8. Reading(reqs, Stream, A, k, upto, s)
  <2>1. Reading(reqs, Stream, A, k, taken, d)
    BY <1>6 DEF Conversing
  <2>2. PICK F \in Nat :
          /\ Holds(Stream, F, taken, d.inBuffer)
          /\ d.state \in {"uri", "headers", "body"}
          /\ d.state = "uri" => UriPlace(Stream, A, F)
          /\ d.state = "headers" =>
               k < Len(reqs) /\ InHeaders(Stream, reqs[k + 1], A, F, taken, d)
          /\ d.state = "body" => d.method = "POST"
    BY <2>1 DEF Reading
  <2>3. Holds(Stream, F, upto, s.inBuffer)
    BY <1>2, <1>4, <1>5, <2>2, HoldsMore
  <2>4. s.state = "headers" => InHeaders(Stream, reqs[k + 1], A, F, upto, s)
    <3> SUFFICES ASSUME s.state = "headers"
                 PROVE  InHeaders(Stream, reqs[k + 1], A, F, upto, s)
      OBVIOUS
    <3>1. PICK r : r = reqs[k + 1]
      OBVIOUS
    <3>2. k < Len(reqs) /\ InHeaders(Stream, r, A, F, taken, d) /\ There(Stream, r, A)
      BY <1>5, <1>7, <2>2, <3>1
    <3>3. PICK K, n : K = HeadersOf(r, A) /\ n = Len(r.headers)
      OBVIOUS
    <3>4. K \in Nat /\ n \in Nat /\ taken \in Nat /\ taken <= upto
      BY <1>1, <1>2, <3>2, <3>3 DEF There
    <3>5. Place(Stream, A, K, n, d.hState, F, F, upto)
      <4>1. Place(Stream, A, K, n, d.hState, F, F, taken)
        BY <3>2, <3>3 DEF InHeaders
      <4> QED
        BY <1>2, <3>4, <4>1, PlaceStays
    <3> QED
      BY <1>5, <3>1, <3>2, <3>3, <3>5 DEF InHeaders
  <2> QED
    BY <1>5, <2>2, <2>3, <2>4 DEF Reading
<1>9. PICK p : p = IF fin /\ upto = taken THEN s ELSE Parsed(s)
  OBVIOUS
<1>10. /\ p \in Data
       /\ \/ p.error
          \/ p.state # "finish" /\ Reading(reqs, Stream, A, k, upto, p)
          \/ p.state = "finish" /\ Understood(reqs, Stream, A, k, upto, p)
  <2>1. CASE fin /\ upto = taken
    <3>1. s.state # "finish"
      BY <1>8 DEF Reading
    <3> QED
      BY <1>5, <1>8, <1>9, <2>1, <3>1
  <2>2. CASE ~(fin /\ upto = taken)
    <3>1. p = Parsed(s) /\ ~s.error
      BY <1>1, <1>5, <1>9, <2>2
    <3>2. FreshData(s)
      BY <1>5 DEF Fresh, FreshData
    <3>3. p \in Data
      BY <1>5, <3>1, ParsedType
    <3>4. \/ p.error \/ Unfinished(reqs, Stream, A, k, upto, p)
          \/ p.state = "finish" /\ Understood(reqs, Stream, A, k, upto, p)
      BY <1>5, <1>7, <1>8, <3>1, <3>2, ParsedPlace
    <3>5. Unfinished(reqs, Stream, A, k, upto, p) =>
            p.state # "finish" /\ Reading(reqs, Stream, A, k, upto, p)
      BY DEF Unfinished
    <3> QED
      BY <3>3, <3>4, <3>5
  <2> QED
    BY <2>1, <2>2
<1>11. taken' = upto /\ reqs' = reqs
  BY DEF HandleRead
<1>12. Refuse(p) \/ Await(p) \/ Answer(p)
  BY <1>3, <1>9 DEF HandleRead
<1>13. CASE Refuse(p)
  <2>1. answers' = answers /\ pc' = "closed"
    BY <1>13 DEF Refuse
  <2> QED
    BY <1>6, <1>11, <2>1, NoAnswer
<1>14. CASE Await(p)
  <2>1. ~p.error /\ p.state # "finish"
    BY <1>14 DEF Await
  <2>2. Reading(reqs, Stream, A, k, upto, p)
    BY <1>10, <2>1
  <2>3. answers' = answers /\ (pc' # "closed" => Reading(reqs, Stream, A, k, upto, d'))
    BY <1>10, <1>14, <2>2, AwaitReads
  <2> QED
    BY <1>6, <1>11, <2>3, NoAnswer
<1>15. CASE Answer(p)
  <2>1. ~p.error /\ p.state = "finish"
    BY <1>15 DEF Answer
  <2>2. Understood(reqs, Stream, A, k, upto, p)
    BY <1>10, <2>1
  <2>3. PICK r, e : r = reqs[k + 1] /\ e = BodyOf(r, A) + Len(r.body)
    OBVIOUS
  <2>4. k < Len(reqs) /\ There(Stream, r, A) /\ e = EndOf(k + 1)
    <3>1. k < Len(reqs)
      BY <2>2 DEF Understood
    <3> QED
      BY <1>7, <2>3, <3>1
  <2>5. PICK a \in AnswerRecord :
          /\ answers' = Append(answers, a) /\ AnswerTo(a, r, e)
          /\ pc' # "closed" => Reading(reqs, Stream, e, k + 1, upto, d')
    BY <1>2, <1>7, <1>10, <1>11, <1>15, <2>2, <2>3, <2>4, AnswerReads
  <2>6. k + 1 <= Len(reqs)
    BY <1>7, <2>4
  <2> QED
    BY <1>6, <1>11, <2>3, <2>4, <2>5, <2>6, OneAnswer
<1> QED
  BY <1>12, <1>13, <1>14, <1>15

\* Every step keeps the answers in line with the requests.
LEMMA ConversingStep == Typed /\ Fresh /\ Conversing /\ [Next]_vars => Conversing'
<1> SUFFICES ASSUME Typed, Fresh, Conversing, [Next]_vars PROVE Conversing'
  OBVIOUS
<1>1. CASE ReadEvent
  <2>1. PICK upto \in Available, fin \in BOOLEAN : HandleRead(upto, fin)
    BY <1>1 DEF ReadEvent
  <2>2. pc # "closed"
    BY <1>1 DEF ReadEvent
  <2> QED
    BY <2>1, <2>2, HandleReadConverses
<1>2. CASE ReadAgain
  <2>1. PICK upto \in Available, fin \in BOOLEAN : HandleRead(upto, fin)
    BY <1>2 DEF ReadAgain
  <2>2. pc # "closed"
    BY <1>2 DEF ReadAgain
  <2> QED
    BY <2>1, <2>2, HandleReadConverses
<1>3. PICK k, A : k = Len(answers) /\ A = EndOf(k)
  OBVIOUS
<1>4. pc # "closed" => Reading(reqs, Stream, A, k, taken, d)
  BY <1>3 DEF Conversing
<1>5. CASE WriteEvent
  <2>1. reqs' = reqs /\ taken' = taken /\ answers' = answers /\ pc = "wait"
    BY <1>5 DEF WriteEvent
  <2>2. pc' # "closed" => \E n \in 1..Len(d.out) : WriteSome(d, n)
    BY <1>5 DEF WriteEvent, WriteFails
  <2>3. d \in Data
    BY DEF Typed
  <2>4. ASSUME NEW n, WriteSome(d, n) PROVE Reading(reqs, Stream, A, k, taken, d')
    BY <1>4, <2>1, <2>3, <2>4, WriteSomeReads, SameReading
  <2>5. pc' # "closed" => Reading(reqs, Stream, A, k, taken', d')
    BY <2>1, <2>2, <2>4
  <2> QED
    BY <1>3, <2>1, <2>5, NoAnswer
<1>6. CASE UNCHANGED vars
  <2>1. reqs' = reqs /\ answers' = answers /\ taken' = taken /\ d' = d /\ pc' = pc
    BY <1>6 DEF vars
  <2>2. pc' # "closed" => Reading(reqs, Stream, A, k, taken', d')
    BY <1>4, <2>1
  <2> QED
    BY <1>3, <2>1, <2>2, NoAnswer
<1>7. Done => UNCHANGED vars
  BY DEF Done
<1> QED
  BY <1>1, <1>2, <1>5, <1>6, <1>7 DEF Next

\* However the stream is cut into reads, and whatever the socket takes, the
\* answers are answers to the client's requests, one each and in their order,
\* with the method and the file of the request, none before its blank line
\* began to arrive (HttpData.cpp:439-529).
THEOREM AnswersAreToRequests == Spec => []AnswersRequests
<1>1. Typed /\ Conversing => AnswersRequests
  <2> SUFFICES ASSUME Typed, Conversing, NEW k \in DOMAIN answers
               PROVE  LET a == answers[k]
                          r == reqs[k]
                      IN /\ k <= Len(reqs)
                         /\ a.method = r.method
                         /\ a.file = (IF r.path = <<>> THEN Index ELSE <<r.path[1]>>)
                         /\ a.at >= EndOf(k) - Len(r.body) - 1
                         /\ a.keep => \E i \in DOMAIN r.headers :
                              /\ r.headers[i].key = "Connection"
                              /\ r.headers[i].value \in {"keep-alive", "Keep-Alive"}
    BY DEF AnswersRequests
  <2>1. Len(reqs) \in Nat
    BY StreamThere
  <2>2. k \in 1..Len(answers) /\ k <= Len(reqs)
    BY <2>1 DEF Conversing
  <2>3. AnswerTo(answers[k], reqs[k], EndOf(k))
    BY <2>2 DEF Conversing
  <2> QED
    BY <2>2, <2>3 DEF AnswerTo, Named
<1> QED
  BY <1>1, InitTyped, TypedStep, InitConversing, ConversingStep, PTL DEF Spec

-----------------------------------------------------------------------------
(* A request line that has arrived whole.                                  *)

\* The line that parseURI cuts off when its CR has arrived.
LEMMA WholeLineCut ==
  ASSUME NEW r, WellFormed(r), NEW A \in Nat, NEW S, LineAt(S, r, A),
         NEW K, K = HeadersOf(r, A), NEW F, NEW t, NEW str, Holds(S, F, t, str),
         Len(S) < npos, F \in {A, A + 1} \/ (F = A - 1 /\ Tok(S, F) = LF),
         NEW pos, pos = Find(str, CR, 0), NEW line, line = Substr(str, 0, pos), K - 2 < t
  PROVE  /\ pos \in Nat /\ F <= K - 2
         /\ Holds(S, F, K - 2, line) /\ Holds(S, K - 1, t, CutLine(str, pos))
<1>1. /\ F \in Nat /\ t \in Nat /\ Len(str) \in Nat /\ Len(S) \in Nat /\ F + Len(str) = t
      /\ t <= Len(S) /\ str \in Seq(Token)
  BY DEF Holds
<1>2. PICK L \in Nat : L = Len(str) /\ F + L = t
  BY <1>1
<1>3. /\ K \in Nat /\ A + 9 <= K /\ Tok(S, K - 2) = CR
      /\ \A z \in A..(K - 3) : Tok(S, z) # CR
  BY LineTokens
<1>4. F \in Nat /\ F <= K - 3 /\ (F >= A \/ (F = A - 1 /\ Tok(S, F) = LF))
  BY <1>1, <1>3
<1>5. \A z \in F..(K - 3) : Tok(S, z) # CR
  <2> SUFFICES ASSUME NEW z \in F..(K - 3) PROVE Tok(S, z) # CR
    OBVIOUS
  <2>1. z \in A..(K - 3) \/ (z = F /\ F = A - 1)
    BY <1>3, <1>4
  <2>2. LF # CR
    BY DEF LF, CR
  <2> QED
    BY <1>3, <1>4, <2>1, <2>2
<1>6. npos \in Nat /\ npos + 1 = SizeT /\ SizeT \in Nat \ {0}
  <2>1. SizeT \in Nat \ {0}
    BY Bounds
  <2> QED
    BY <2>1 DEF npos
<1>7. S \in Seq(Token) /\ t \in 0..Len(S)
  BY <1>1 DEF Holds
<1>8. PICK x \in Nat : x = K - 2
  BY <1>3
<1>9. x \in (F + 0)..(t - 1) /\ x - 1 = K - 3 /\ F + 0 = F
  BY <1>1, <1>3, <1>4, <1>8
<1>10. Tok(S, x) = CR /\ \A z \in (F + 0)..(x - 1) : Tok(S, z) # CR
  BY <1>3, <1>5, <1>8, <1>9
<1>11. pos = x - F /\ pos # npos /\ pos \in 0..(Len(str) - 1)
  BY <1>9, <1>10, FindPlace
<1>12. pos \in Nat /\ pos < L /\ 0 \in 0..Len(str) /\ pos \in 0..Len(str) /\ L <= Len(S)
  BY <1>1, <1>2, <1>11
<1>13. line = SubSeq(str, 0 + 1, pos)
  <2>1. 0 + pos = pos /\ ~(pos > L)
    BY <1>12
  <2> QED
    BY <1>2, <2>1 DEF Substr
<1>14. Holds(S, F + 0, F + pos, line)
  <2>1. Holds(S, F, t, str) /\ 0 \in 0..Len(str) /\ pos \in 0..Len(str)
    BY <1>12
  <2> QED
    BY ONLY <1>13, <2>1, HoldsPart
<1>15. Plus(pos, 1) = pos + 1
  <2>1. pos + 1 \in Nat /\ pos + 1 < SizeT
    BY <1>1, <1>6, <1>12
  <2>2. (pos + 1) % SizeT = pos + 1
    BY <1>6, <2>1
  <2> QED
    BY <2>2 DEF Plus
<1>16. Holds(S, F + (pos + 1), t, CutLine(str, pos))
  <2>1. pos + 1 \in 0..Len(str)
    BY <1>2, <1>12
  <2>2. Holds(S, F + (pos + 1), t, From(str, pos + 1))
    BY <2>1, HoldsFrom
  <2>3. CASE L > pos + 1
    <3>1. CutLine(str, pos) = From(str, pos + 1)
      BY <1>2, <1>15, <2>3 DEF CutLine
    <3> QED
      BY <2>2, <3>1
  <2>4. CASE ~(L > pos + 1)
    <3>1. CutLine(str, pos) = <<>>
      BY <1>2, <1>15, <2>4 DEF CutLine
    <3>2. F + (pos + 1) = t
      BY <1>1, <1>2, <1>12, <2>4
    <3>3. Holds(S, t, t, <<>>)
      BY <1>7, HoldsNothing
    <3> QED
      BY <3>1, <3>2, <3>3
  <2> QED
    BY <2>3, <2>4
<1>17. F + 0 = F /\ F + pos = x /\ F + (pos + 1) = K - 1 /\ F <= x /\ x <= K - 2
  <2>1. PICK f \in Nat, k \in Nat, q \in Nat : f = F /\ k = K /\ q = pos
    BY <1>1, <1>3, <1>12
  <2>2. x = k - 2 /\ q = x - f
    BY <1>8, <1>11, <2>1
  <2>3. f + 0 = f /\ f + q = x /\ f + (q + 1) = k - 1 /\ f <= x /\ x <= k - 2
    BY ONLY <2>2, x \in Nat, f \in Nat, k \in Nat, q \in Nat
  <2> QED
    BY <2>1, <2>3
<1>18. Holds(S, F, K - 2, line)
  BY <1>8, <1>14, <1>17
<1>19. Holds(S, K - 1, t, CutLine(str, pos))
  BY <1>16, <1>17
<1> QED
  BY <1>8, <1>12, <1>17, <1>18, <1>19

\* Whether parseURI accepts a line, with its intermediate results named.
LEMMA ParseURIFlag ==
  ASSUME NEW str, NEW u, u = ParseURI(str), NEW pos, pos = Find(str, CR, 0),
         NEW line, line = Substr(str, 0, pos), NEW method, method = MethodOf(line),
         NEW first, first = Find(line, method, 0), NEW slash, slash = Find(line, "/", first),
         NEW space, space = Find(line, SP, slash), NEW last, last = Find(line, "/", space),
         NEW version, version = Substr(line, Plus(last, 1), 1),
         ~(pos < 0), method # "none", ~(slash < 0), ~(space < 0), ~(last < 0),
         ~(Minus(Len(line), last) <= 1)
  PROVE  u.flag = IF version \in {<<"1.0">>, <<"1.1">>} THEN "success" ELSE "error"
<1>1. space = Find(line, " ", slash)
  BY DEF SP
<1> QED
  BY <1>1 DEF ParseURI

\* The places parseURI looks for, in a line that has arrived.
LEMMA WholeLineMarks ==
  ASSUME NEW r, WellFormed(r), NEW A \in Nat, NEW S, LineAt(S, r, A),
         NEW K, K = HeadersOf(r, A), Len(S) < npos,
         NEW line, Holds(S, A, K - 2, line),
         NEW method, method = MethodOf(line),
         NEW first, first = Find(line, method, 0), NEW slash, slash = Find(line, "/", first),
         NEW space, space = Find(line, SP, slash), NEW last, last = Find(line, "/", space)
  PROVE  /\ method = r.method /\ slash = A + 2 - A /\ space = K - 6 - A /\ last = K - 4 - A
         /\ K \in Nat /\ A + 9 <= K
<1>1. /\ K \in Nat /\ A + 9 <= K
      /\ Tok(S, A) = r.method /\ r.method \in Method
      /\ \A z \in (A + 1)..(K - 3) : Tok(S, z) \notin Method
      /\ \A z \in A..(A + 1) : Tok(S, z) # "/"
      /\ Tok(S, A + 2) = "/"
      /\ \A z \in (A + 2)..(K - 7) : Tok(S, z) # SP
      /\ Tok(S, K - 6) = SP
      /\ \A z \in (K - 6)..(K - 5) : Tok(S, z) # "/"
      /\ Tok(S, K - 4) = "/"
  BY LineTokens, SMTT(40)
<1>2. PICK k \in Nat : k = K /\ A + 9 <= k
  BY <1>1
<1>3. method = r.method /\ first = 0
  <2>1. A \in A..(K - 2 - 1) /\ \A z \in A..(K - 2 - 1) : z # A => z \in (A + 1)..(K - 3)
    <3>1. A \in A..(k - 2 - 1) /\ \A z \in A..(k - 2 - 1) : z # A => z \in (A + 1)..(k - 3)
      BY ONLY A \in Nat, k \in Nat, <1>2
    <3> QED
      BY <1>2, <3>1
  <2>2. \A z \in A..(K - 2 - 1) : z # A => Tok(S, z) \notin Method
    BY <1>1, <2>1
  <2>3. Tok(S, A) \in Method /\ Holds(S, A, K - 2, line) /\ Len(S) < npos
    BY <1>1
  <2>4. MethodOf(line) = Tok(S, A) /\ Find(line, Tok(S, A), 0) = A - A
    BY ONLY <2>1, <2>2, <2>3, OneMethod
  <2>5. A - A = 0
    OBVIOUS
  <2> QED
    BY <1>1, <2>4, <2>5
<1>4. slash = A + 2 - A
  <2>1. A + 2 \in (A + 0)..(K - 2 - 1) /\ \A z \in (A + 0)..(A + 2 - 1) : z \in A..(A + 1)
    <3>1. A + 2 \in (A + 0)..(k - 2 - 1) /\ \A z \in (A + 0)..(A + 2 - 1) : z \in A..(A + 1)
      BY ONLY A \in Nat, k \in Nat, <1>2
    <3> QED
      BY <1>2, <3>1
  <2>2. \A z \in (A + 0)..(A + 2 - 1) : Tok(S, z) # "/"
    BY <1>1, <2>1
  <2>3. Holds(S, A, K - 2, line) /\ Len(S) < npos /\ Tok(S, A + 2) = "/" /\ 0 \in Nat
    BY <1>1
  <2>4. Find(line, "/", 0) = A + 2 - A
    BY ONLY <2>1, <2>2, <2>3, FindPlace
  <2> QED
    BY <1>3, <2>4
<1>5. slash = 2 /\ A + 2 - A = 2
  BY <1>4
<1>6. space = K - 6 - A
  <2>1. /\ K - 6 \in (A + 2)..(K - 2 - 1)
        /\ \A z \in (A + 2)..(K - 6 - 1) : z \in (A + 2)..(K - 7)
    <3>1. /\ k - 6 \in (A + 2)..(k - 2 - 1)
          /\ \A z \in (A + 2)..(k - 6 - 1) : z \in (A + 2)..(k - 7)
      BY ONLY A \in Nat, k \in Nat, <1>2
    <3> QED
      BY <1>2, <3>1
  <2>2. \A z \in (A + 2)..(K - 6 - 1) : Tok(S, z) # SP
    BY <1>1, <2>1
  <2>3. Holds(S, A, K - 2, line) /\ Len(S) < npos /\ Tok(S, K - 6) = SP /\ 2 \in Nat
    BY <1>1
  <2>4. Find(line, SP, 2) = K - 6 - A
    BY ONLY <2>1, <2>2, <2>3, FindPlace
  <2> QED
    BY <1>5, <2>4
<1>7. PICK b \in Nat : b = space /\ b = k - 6 - A
  <2>1. k - 6 - A \in Nat
    BY ONLY A \in Nat, k \in Nat, <1>2
  <2> QED
    BY <1>2, <1>6, <2>1
<1>8. last = K - 4 - A
  <2>1. /\ K - 4 \in (A + b)..(K - 2 - 1)
        /\ \A z \in (A + b)..(K - 4 - 1) : z \in (K - 6)..(K - 5)
    <3>1. /\ k - 4 \in (A + b)..(k - 2 - 1)
          /\ \A z \in (A + b)..(k - 4 - 1) : z \in (k - 6)..(k - 5)
      BY ONLY A \in Nat, k \in Nat, b \in Nat, <1>2, <1>7
    <3> QED
      BY <1>2, <3>1
  <2>2. \A z \in (A + b)..(K - 4 - 1) : Tok(S, z) # "/"
    BY <1>1, <2>1
  <2>3. Holds(S, A, K - 2, line) /\ Len(S) < npos /\ Tok(S, K - 4) = "/"
    BY <1>1
  <2>4. Find(line, "/", b) = K - 4 - A
    BY ONLY <2>1, <2>2, <2>3, FindPlace
  <2> QED
    BY <1>7, <2>4
<1> QED
  BY <1>1, <1>3, <1>4, <1>6, <1>8

\* parseURI of a request line that has arrived: it is refused for its version
\* only, and otherwise taken for what it is.
LEMMA WholeURI ==
  ASSUME NEW S, NEW r, NEW A, There(S, r, A), NEW K, K = HeadersOf(r, A),
         NEW t, NEW str, Holds(S, A, t, str), K - 2 < t, NEW u, u = ParseURI(str)
  PROVE  /\ u.flag = IF r.version \in {"1.0", "1.1"} THEN "success" ELSE "error"
         /\ u.method = r.method /\ u.file = Named(r) /\ Holds(S, K - 1, t, u.rest)
<1>1. WellFormed(r) /\ A \in Nat /\ LineAt(S, r, A) /\ Len(S) < npos
  BY DEF There, Layout
<1>2. PICK pos, line, method :
        pos = Find(str, CR, 0) /\ line = Substr(str, 0, pos) /\ method = MethodOf(line)
  OBVIOUS
<1>3. PICK first, slash :
        first = Find(line, method, 0) /\ slash = Find(line, "/", first)
  OBVIOUS
<1>4. PICK space, last : space = Find(line, SP, slash) /\ last = Find(line, "/", space)
  OBVIOUS
<1>5. PICK version : version = Substr(line, Plus(last, 1), 1)
  OBVIOUS
<1>6. Holds(S, A, K - 2, line) /\ Holds(S, K - 1, t, CutLine(str, pos)) /\ pos \in Nat
  <2>1. A \in {A, A + 1}
    OBVIOUS
  <2> QED
    BY <1>1, <1>2, <2>1, WholeLineCut
<1>7. /\ method = r.method /\ slash = A + 2 - A /\ space = K - 6 - A /\ last = K - 4 - A
      /\ K \in Nat /\ A + 9 <= K
  BY <1>1, <1>2, <1>3, <1>4, <1>6, WholeLineMarks
<1>8. PICK a \in Nat : a = A
  BY <1>1
<1>9. PICK k \in Nat : k = K /\ a + 9 <= k
  BY <1>7, <1>8
<1>10. slash \in Nat /\ space \in Nat /\ last \in Nat
  <2>1. a + 9 <= k
    BY <1>9
  <2>2. a + 2 - a \in Nat /\ k - 6 - a \in Nat /\ k - 4 - a \in Nat
    BY ONLY a \in Nat, k \in Nat, <2>1
  <2> QED
    BY <1>7, <1>8, <1>9, <2>2
<1>11. u.rest = CutLine(str, pos) /\ u.method = method /\ u.file = FileOf(line, slash, space)
  <2>1. ~(slash < 0)
    BY <1>10
  <2> QED
    BY <1>2, <1>3, <1>4, <2>1, ParseURIIs
<1>12. u.file = Named(r)
  <2>1. A \in 0..A /\ K - 6 < K - 2
    BY <1>1, <1>7
  <2>2. WellFormed(r) /\ A \in Nat /\ LineAt(S, r, A) /\ Len(S) < npos
        /\ Holds(S, A, K - 2, line) /\ A \in 0..A /\ K - 6 < K - 2 /\ K = HeadersOf(r, A)
        /\ slash = A + 2 - A /\ space = K - 6 - A
    BY <1>1, <1>6, <1>7, <2>1
  <2>3. FileOf(line, slash, space) = Named(r)
    BY ONLY <2>2, FileIsNamed
  <2> QED
    BY <1>11, <2>3
<1>13. PICK L \in Nat, l \in Nat :
         /\ L = Len(line) /\ l = last /\ L = l + 2 /\ A + (l + 1) = k - 3
         /\ L <= npos /\ npos \in Nat
  <2>1. PICK L \in Nat : L = Len(line) /\ A + L = K - 2 /\ K - 2 <= Len(S) /\ Len(S) \in Nat
    BY <1>6 DEF Holds
  <2>2. PICK l \in Nat : l = last
    BY <1>10
  <2>3. l = k - 4 - a /\ a + L = k - 2
    BY <1>7, <1>8, <1>9, <2>1, <2>2
  <2>4. L = l + 2 /\ a + (l + 1) = k - 3
    BY ONLY <2>3, a \in Nat, k \in Nat, L \in Nat, l \in Nat
  <2>5. npos \in Nat
    BY SizeTType
  <2>6. L <= npos
    BY <1>1, <2>1, <2>5
  <2> QED
    BY <1>8, <2>1, <2>2, <2>4, <2>5, <2>6
<1>14. Plus(last, 1) = l + 1 /\ Minus(Len(line), last) = 2
  <2>1. l + 1 <= npos /\ l + 2 <= npos /\ 1 \in Nat /\ 2 \in Nat
    BY <1>13
  <2>2. Plus(l, 1) = l + 1 /\ Minus(l + 2, l) = 2
    BY <2>1, SizeFits
  <2> QED
    BY <1>13, <2>2
<1>15. version = <<r.version>>
  <2>1. version = SubSeq(line, (l + 1) + 1, (l + 1) + 1)
    <3>1. ~((l + 1) + 1 > Len(line))
      BY <1>13
    <3> QED
      BY <1>5, <1>14, <3>1 DEF Substr
  <2>2. /\ line \in Seq(Token) /\ Len(line) = l + 2 /\ l + 1 \in 0..(Len(line) - 1)
        /\ line[(l + 1) + 1] = Tok(S, A + (l + 1))
    <3>1. l + 1 \in 0..(Len(line) - 1)
      BY <1>13
    <3>2. line[(l + 1) + 1] = Tok(S, A + (l + 1)) /\ line \in Seq(Token)
      BY <1>6, <3>1 DEF Holds
    <3> QED
      BY <1>13, <3>1, <3>2
  <2>3. PICK v : v = SubSeq(line, l + 2, l + 2)
    OBVIOUS
  <2>4. (l + 1) + 1 = l + 2
    OBVIOUS
  <2>5. v \in Seq(Token) /\ Len(v) = 1 /\ v[1] = line[l + 2]
    <3>1. line \in Seq(Token) /\ Len(line) = l + 2
      BY <2>2
    <3> QED
      BY ONLY <2>3, <3>1, l \in Nat
  <2>6. line[l + 2] = r.version
    <3>1. Tok(S, K - 3) = r.version
      BY <1>1 DEF LineAt
    <3>2. A + (l + 1) = K - 3
      BY <1>13, <1>9
    <3> QED
      BY <2>2, <2>4, <3>1, <3>2
  <2>7. v = <<line[l + 2]>>
    BY <2>5, OneElement
  <2> QED
    BY <2>1, <2>3, <2>4, <2>6, <2>7
<1>16. u.flag = IF version \in {<<"1.0">>, <<"1.1">>} THEN "success" ELSE "error"
  <2>1. ~(pos < 0) /\ ~(slash < 0) /\ ~(space < 0) /\ ~(last < 0)
    BY <1>6, <1>10
  <2>2. ~(Minus(Len(line), last) <= 1)
    BY <1>14
  <2>3. method # "none"
    BY <1>1, <1>7 DEF WellFormed, Method
  <2> QED
    BY <1>2, <1>3, <1>4, <1>5, <2>1, <2>2, <2>3, ParseURIFlag
<1>17. version \in {<<"1.0">>, <<"1.1">>} <=> r.version \in {"1.0", "1.1"}
  <2>1. \A x, y : <<x>> = <<y>> <=> x = y
    OBVIOUS
  <2> QED
    BY <1>15, <2>1
<1> QED
  BY <1>6, <1>7, <1>11, <1>12, <1>16, <1>17

-----------------------------------------------------------------------------
(* The loop over headers that have arrived whole.                          *)

\* The first token of a header's name.
LEMMA NameBegins ==
  ASSUME NEW str, NEW p \in Turn, p.flag = "go", p.h \in {"start", "lf"},
         str[p.i + 1] \notin {CR, LF}, NEW q, q = HeaderStep(str, p)
  PROVE  q.flag = "go" /\ q.i = p.i + 1 /\ q.h = "key" /\ q.ks = p.i /\ q.headers = p.headers
<1>1. CASE p.h = "start"
  BY <1>1, StepStart
<1>2. CASE p.h = "lf"
  BY <1>2, StepLf
<1> QED
  BY <1>1, <1>2

\* The colon behind a name of one token.
LEMMA NameEnds ==
  ASSUME NEW str, NEW p \in Turn, p.flag = "go", p.h = "key", p.i = p.ks + 1,
         str[p.i + 1] = ":", NEW q, q = HeaderStep(str, p)
  PROVE  /\ q.flag = "go" /\ q.i = p.i + 1 /\ q.h = "colon" /\ q.ks = p.ks /\ q.ke = p.i
         /\ q.headers = p.headers
<1>1. ~(p.i - p.ks <= 0)
  BY DEF Turn
<1> QED
  BY <1>1 DEF HeaderStep, Turn

\* The blank behind the colon.
LEMMA BlankPassed ==
  ASSUME NEW str, NEW p \in Turn, p.flag = "go", p.h = "colon", str[p.i + 1] = SP,
         NEW q, q = HeaderStep(str, p)
  PROVE  /\ q.flag = "go" /\ q.i = p.i + 1 /\ q.h = "spaces" /\ q.ks = p.ks /\ q.ke = p.ke
         /\ q.headers = p.headers
<1>1. q = [p EXCEPT !.i = p.i + 1, !.h = "spaces"]
  BY DEF HeaderStep, SP
<1> QED
  BY <1>1 DEF Turn

\* The CR behind a value of one token.
LEMMA ValueEnds ==
  ASSUME NEW str, NEW p \in Turn, p.flag = "go", p.h = "value", p.i = p.vs + 1,
         str[p.i + 1] = CR, NEW q, q = HeaderStep(str, p)
  PROVE  /\ q.flag = "go" /\ q.i = p.i + 1 /\ q.h = "cr" /\ q.ks = p.ks /\ q.ke = p.ke
         /\ q.vs = p.vs /\ q.ve = p.i /\ q.headers = p.headers
<1>1. ~(p.i - p.vs <= 0)
  BY DEF Turn
<1> QED
  BY <1>1 DEF HeaderStep, Turn

\* The LF behind it.
LEMMA LineEnters ==
  ASSUME NEW str, NEW p \in Turn, p.flag = "go", p.h = "cr", str[p.i + 1] = LF,
         NEW q, q = HeaderStep(str, p)
  PROVE  /\ q.flag = "go" /\ q.i = p.i + 1 /\ q.h = "lf"
         /\ q.headers = SetHeader(p.headers, Slice(str, p.ks, p.ke), Slice(str, p.vs, p.ve))
<1>1. PICK new : new = SetHeader(p.headers, Slice(str, p.ks, p.ke), Slice(str, p.vs, p.ve))
  OBVIOUS
<1>2. q = [p EXCEPT !.i = p.i + 1, !.h = "lf", !.begin = p.i, !.headers = new]
  BY <1>1 DEF HeaderStep
<1> QED
  BY <1>1, <1>2 DEF Turn

\* The blank line.
LEMMA BlankLineEnds ==
  ASSUME NEW str, NEW p \in Turn, p.flag = "go", p.h = "end_cr", str[p.i + 1] = LF,
         NEW q, q = HeaderStep(str, p)
  PROVE  q.flag = "go" /\ q.i = p.i + 1 /\ q.h = "end_lf" /\ q.headers = p.headers
BY DEF HeaderStep, Turn

\* The header whose name is at place i of the buffer.
LineIn(str, i) ==
  /\ i \in Nat /\ i + 6 <= Len(str)
  /\ str[i + 1] \notin {CR, LF} /\ str[i + 2] = ":" /\ str[i + 3] = SP
  /\ str[i + 5] = CR /\ str[i + 6] = LF

\* Six turns enter a header.
LEMMA LineTurns ==
  ASSUME NEW str \in Seq(Token), NEW i, LineIn(str, i),
         NEW p, TurnOK(p, i), p.flag = "go", p.i = i, p.h \in {"start", "lf"},
         NEW p1, p1 = HeaderStep(str, p), NEW p2, p2 = HeaderStep(str, p1),
         NEW p3, p3 = HeaderStep(str, p2), NEW p4, p4 = HeaderStep(str, p3),
         NEW p5, p5 = HeaderStep(str, p4), NEW p6, p6 = HeaderStep(str, p5)
  PROVE  /\ p1.flag = "go" /\ p2.flag = "go" /\ p3.flag = "go" /\ p4.flag = "go"
         /\ p5.flag = "go" /\ p6.flag = "go"
         /\ TurnOK(p6, i + 6) /\ p6.i = i + 6 /\ p6.h = "lf"
         /\ p6.headers = SetHeader(p.headers, <<str[i + 1]>>, <<str[i + 4]>>)
<1>1. i \in Nat /\ Len(str) \in Nat /\ i + 6 <= Len(str)
  BY DEF LineIn
<1>2. /\ i \in 0..(Len(str) - 1) /\ i + 1 \in 0..(Len(str) - 1) /\ i + 2 \in 0..(Len(str) - 1)
      /\ i + 3 \in 0..(Len(str) - 1) /\ i + 4 \in 0..(Len(str) - 1)
      /\ i + 5 \in 0..(Len(str) - 1)
      /\ (i + 1) + 1 = i + 2 /\ (i + 2) + 1 = i + 3 /\ (i + 3) + 1 = i + 4
      /\ (i + 4) + 1 = i + 5 /\ (i + 5) + 1 = i + 6
  BY <1>1
<1>3. /\ TurnOK(p1, i + 1) /\ p1.flag = "go" /\ p1.i = i + 1 /\ p1.h = "key" /\ p1.ks = i
      /\ p1.headers = p.headers
  <2>1. TurnOK(p1, i + 1)
    BY <1>2, HeaderStepType
  <2>2. p \in Turn /\ str[p.i + 1] \notin {CR, LF}
    BY DEF TurnOK, LineIn
  <2> QED
    BY <2>1, <2>2, NameBegins
<1>4. /\ TurnOK(p2, i + 2) /\ p2.flag = "go" /\ p2.i = i + 2 /\ p2.h = "colon" /\ p2.ks = i
      /\ p2.ke = i + 1 /\ p2.headers = p.headers
  <2>1. TurnOK(p2, (i + 1) + 1)
    BY <1>2, <1>3, HeaderStepType
  <2>2. p1 \in Turn /\ str[p1.i + 1] = ":" /\ p1.i = p1.ks + 1
    BY <1>2, <1>3 DEF TurnOK, LineIn
  <2> QED
    BY <1>2, <1>3, <2>1, <2>2, NameEnds
<1>5. /\ TurnOK(p3, i + 3) /\ p3.flag = "go" /\ p3.i = i + 3 /\ p3.h = "spaces" /\ p3.ks = i
      /\ p3.ke = i + 1 /\ p3.headers = p.headers
  <2>1. TurnOK(p3, (i + 2) + 1)
    BY <1>2, <1>4, HeaderStepType
  <2>2. p2 \in Turn /\ str[p2.i + 1] = SP
    BY <1>2, <1>4 DEF TurnOK, LineIn
  <2> QED
    BY <1>2, <1>4, <2>1, <2>2, BlankPassed
<1>6. /\ TurnOK(p4, i + 4) /\ p4.flag = "go" /\ p4.i = i + 4 /\ p4.h = "value" /\ p4.ks = i
      /\ p4.ke = i + 1 /\ p4.vs = i + 3 /\ p4.headers = p.headers
  <2>1. TurnOK(p4, (i + 3) + 1)
    BY <1>2, <1>5, HeaderStepType
  <2>2. p3 \in Turn
    BY <1>5 DEF TurnOK
  <2> QED
    BY <1>2, <1>5, <2>1, <2>2, StepSpaces
<1>7. /\ TurnOK(p5, i + 5) /\ p5.flag = "go" /\ p5.i = i + 5 /\ p5.h = "cr" /\ p5.ks = i
      /\ p5.ke = i + 1 /\ p5.vs = i + 3 /\ p5.ve = i + 4 /\ p5.headers = p.headers
  <2>1. TurnOK(p5, (i + 4) + 1)
    BY <1>2, <1>6, HeaderStepType
  <2>2. p4 \in Turn /\ str[p4.i + 1] = CR /\ p4.i = p4.vs + 1
    BY <1>2, <1>6 DEF TurnOK, LineIn
  <2> QED
    BY <1>2, <1>6, <2>1, <2>2, ValueEnds
<1>8. /\ TurnOK(p6, i + 6) /\ p6.flag = "go" /\ p6.i = i + 6 /\ p6.h = "lf"
      /\ p6.headers = SetHeader(p.headers, Slice(str, i, i + 1), Slice(str, i + 3, i + 4))
  <2>1. TurnOK(p6, (i + 5) + 1)
    BY <1>2, <1>7, HeaderStepType
  <2>2. p5 \in Turn /\ str[p5.i + 1] = LF
    BY <1>2, <1>7 DEF TurnOK, LineIn
  <2> QED
    BY <1>2, <1>7, <2>1, <2>2, LineEnters
<1>9. Slice(str, i, i + 1) = <<str[i + 1]>> /\ Slice(str, i + 3, i + 4) = <<str[i + 4]>>
  <2>1. i < Len(str) /\ i + 3 \in Nat /\ i + 3 < Len(str)
    BY <1>1
  <2>2. Slice(str, i + 3, (i + 3) + 1) = <<str[(i + 3) + 1]>>
    BY <2>1, SliceOfOne
  <2> QED
    BY <1>1, <1>2, <2>1, <2>2, SliceOfOne
<1> QED
  BY <1>3, <1>4, <1>5, <1>6, <1>7, <1>8, <1>9

\* The first j headers of hs as parseHeaders enters them: of those with the same
\* name the last.
Entered(hs, j) ==
  {[key |-> <<hs[i].key>>, value |-> <<hs[i].value>>] :
     i \in {l \in 1..j : \A m \in (l + 1)..j : hs[m].key # hs[l].key}}

\* One more is entered with SetHeader.
LEMMA EnteredOneMore ==
  ASSUME NEW hs, NEW j \in Nat
  PROVE  Entered(hs, j + 1) = SetHeader(Entered(hs, j), <<hs[j + 1].key>>, <<hs[j + 1].value>>)
<1> DEFINE Last(l, k) == \A m \in (l + 1)..k : hs[m].key # hs[l].key
           H(i) == [key |-> <<hs[i].key>>, value |-> <<hs[i].value>>]
<1>1. \A h, k : h \in Entered(hs, k) <=> \E l \in 1..k : Last(l, k) /\ h = H(l)
  BY DEF Entered
<1>2. \A h : h \in SetHeader(Entered(hs, j), <<hs[j + 1].key>>, <<hs[j + 1].value>>)
               <=> (h \in Entered(hs, j) /\ h.key # <<hs[j + 1].key>>) \/ h = H(j + 1)
  BY DEF SetHeader
<1>3. \A a, b : <<a>> = <<b>> <=> a = b
  OBVIOUS
<1>4. \A l \in 1..j : Last(l, j + 1) <=> Last(l, j) /\ hs[j + 1].key # hs[l].key
  <2> SUFFICES ASSUME NEW l \in 1..j
               PROVE  Last(l, j + 1) <=> Last(l, j) /\ hs[j + 1].key # hs[l].key
    OBVIOUS
  <2>1. \A m : m \in (l + 1)..(j + 1) <=> m \in (l + 1)..j \/ m = j + 1
    OBVIOUS
  <2> QED
    BY <2>1
<1>5. Last(j + 1, j + 1)
  OBVIOUS
<1>6. \A l : l \in 1..(j + 1) <=> l \in 1..j \/ l = j + 1
  OBVIOUS
<1>7. \A l : H(l).key = <<hs[l].key>>
  OBVIOUS
<1> HIDE DEF H, Last
<1>8. ASSUME NEW h
      PROVE  h \in Entered(hs, j + 1)
               <=> (h \in Entered(hs, j) /\ h.key # <<hs[j + 1].key>>) \/ h = H(j + 1)
  <2>1. h \in Entered(hs, j + 1) <=> (\E l \in 1..j : Last(l, j + 1) /\ h = H(l)) \/ h = H(j + 1)
    BY <1>1, <1>5, <1>6
  <2>2. (\E l \in 1..j : Last(l, j + 1) /\ h = H(l))
          <=> h \in Entered(hs, j) /\ h.key # <<hs[j + 1].key>>
    BY <1>1, <1>3, <1>4, <1>7
  <2> QED
    BY <2>1, <2>2
<1> QED
  BY <1>2, <1>8

\* The buffer holds n header lines, those of hs, and a blank one.
LinesIn(str, hs, n) ==
  /\ str \in Seq(Token) /\ Len(str) \in Nat /\ 6 * n + 3 <= Len(str)
  /\ str[1] = LF /\ str[6 * n + 2] = CR /\ str[6 * n + 3] = LF
  /\ \A j \in 1..n : /\ LineIn(str, 6 * j - 5)
                     /\ str[6 * j - 4] = hs[j].key
                     /\ str[6 * j - 1] = hs[j].value

\* The buffer holds all of a request but its line.
HoldsHeaders(S, r, A, str) ==
  Holds(S, HeadersOf(r, A) - 1, BodyOf(r, A) + Len(r.body), str)

\* That is its headers, a blank line and its body.
LEMMA WholeBuffer ==
  ASSUME NEW S, NEW r, NEW A, There(S, r, A), NEW str, HoldsHeaders(S, r, A, str)
  PROVE  /\ LinesIn(str, r.headers, Len(r.headers))
         /\ Len(str) = 6 * Len(r.headers) + 3 + Len(r.body)
<1> DEFINE n == Len(r.headers)
           b == Len(r.body)
           K == HeadersOf(r, A)
           t == BodyOf(r, A) + b
<1>0. Holds(S, K - 1, t, str)
  BY DEF HoldsHeaders
<1> HIDE DEF n, b, K, t
<1>1. PICK k \in Nat, m \in Nat, c \in Nat : k = K /\ m = n /\ c = b
  BY DEF There, WellFormed, n, b, K
<1>2. k >= 9
  <2>1. A \in Nat /\ A + 9 <= K
    BY DEF There, K
  <2> QED
    BY <1>1, <2>1
<1>3. t = k + 6 * m + 2 + c
  BY <1>1 DEF BodyOf, t, K, n, b
<1>4. PICK L \in Nat : L = Len(str) /\ str \in Seq(Token) /\ K - 1 + L = t
  BY <1>0 DEF Holds
<1>5. L = 6 * m + 3 + c
  <2>1. k - 1 + L = k + 6 * m + 2 + c
    BY <1>1, <1>3, <1>4
  <2> QED
    BY <2>1
<1>6. \A i \in 0..(L - 1) : str[i + 1] = Tok(S, k - 1 + i)
  BY <1>0, <1>1, <1>4 DEF Holds
<1>7. str[1] = LF
  <2>1. 0 \in 0..(L - 1) /\ k - 1 + 0 = k - 1 /\ 0 + 1 = 1
    BY <1>5
  <2>2. Tok(S, K - 1) = LF
    BY DEF There, Grid, K, n
  <2> QED
    BY <1>1, <1>6, <2>1, <2>2
<1>8. str[6 * m + 2] = CR /\ str[6 * m + 3] = LF
  <2>1. Tok(S, k + 6 * m) = CR /\ Tok(S, k + 6 * m + 1) = LF
    BY <1>1 DEF There, Grid, K, n
  <2>2. /\ 6 * m + 1 \in 0..(L - 1) /\ 6 * m + 2 \in 0..(L - 1)
        /\ k - 1 + (6 * m + 1) = k + 6 * m /\ k - 1 + (6 * m + 2) = k + 6 * m + 1
        /\ (6 * m + 1) + 1 = 6 * m + 2 /\ (6 * m + 2) + 1 = 6 * m + 3
    BY <1>5
  <2>3. str[(6 * m + 1) + 1] = Tok(S, k - 1 + (6 * m + 1))
        /\ str[(6 * m + 2) + 1] = Tok(S, k - 1 + (6 * m + 2))
    BY <1>6, <2>2
  <2> QED
    BY <2>1, <2>2, <2>3
<1>9. ASSUME NEW j \in 1..m
      PROVE  /\ LineIn(str, 6 * j - 5)
             /\ str[6 * j - 4] = r.headers[j].key
             /\ str[6 * j - 1] = r.headers[j].value
  <2>1. PICK x \in Nat, i \in Nat : x = Key(k, j) /\ i = 6 * j - 5 /\ x = k - 1 + i
    <3>1. Key(k, j) = k + 6 * (j - 1) /\ k + 6 * (j - 1) \in Nat /\ 6 * j - 5 \in Nat
          /\ k + 6 * (j - 1) = k - 1 + (6 * j - 5)
      BY DEF Key
    <3> QED
      BY <3>1
  <2>2. HeaderAt(S, x)
    BY <1>1, <2>1 DEF There, Grid, K, n
  <2>3. LineOf(S, x, r.headers[j])
    BY <1>1, <2>1 DEF There, Layout, HeadersAt, K, n
  <2>4. i + 6 <= L
    BY <1>5, <2>1
  <2>5. ASSUME NEW o \in 0..5 PROVE str[i + o + 1] = Tok(S, x + o)
    <3>1. i + o \in 0..(L - 1) /\ k - 1 + (i + o) = x + o
      BY <2>1, <2>4
    <3> QED
      BY <1>6, <3>1
  <2>6. /\ str[i + 1] = Tok(S, x) /\ str[i + 2] = Tok(S, x + 1) /\ str[i + 3] = Tok(S, x + 2)
        /\ str[i + 4] = Tok(S, x + 3) /\ str[i + 5] = Tok(S, x + 4) /\ str[i + 6] = Tok(S, x + 5)
    <3>1. /\ i + 0 + 1 = i + 1 /\ i + 1 + 1 = i + 2 /\ i + 2 + 1 = i + 3 /\ i + 3 + 1 = i + 4
          /\ i + 4 + 1 = i + 5 /\ i + 5 + 1 = i + 6 /\ x + 0 = x
      OBVIOUS
    <3>2. /\ str[i + 0 + 1] = Tok(S, x + 0) /\ str[i + 1 + 1] = Tok(S, x + 1)
          /\ str[i + 2 + 1] = Tok(S, x + 2) /\ str[i + 3 + 1] = Tok(S, x + 3)
          /\ str[i + 4 + 1] = Tok(S, x + 4) /\ str[i + 5 + 1] = Tok(S, x + 5)
      BY <2>5
    <3> QED
      BY <3>1, <3>2
  <2>7. LineIn(str, i)
    BY <1>4, <2>2, <2>4, <2>6 DEF LineIn, HeaderAt
  <2>8. str[i + 1] = r.headers[j].key /\ str[i + 4] = r.headers[j].value
    BY <2>3, <2>6 DEF LineOf
  <2>9. 6 * j - 5 = i /\ 6 * j - 4 = i + 1 /\ 6 * j - 1 = i + 4
    BY <2>1
  <2> QED
    BY <2>7, <2>8, <2>9
<1>10. str \in Seq(Token) /\ Len(str) \in Nat /\ 6 * m + 3 <= Len(str)
  <2>1. 6 * m + 3 <= 6 * m + 3 + c
    OBVIOUS
  <2> QED
    BY <1>4, <1>5, <2>1
<1>11. LinesIn(str, r.headers, m)
  BY <1>7, <1>8, <1>9, <1>10 DEF LinesIn
<1> QED
  BY <1>1, <1>4, <1>5, <1>11 DEF n, b

\* The loop has entered j headers, and comes to the next line.
EnteredAt(p, hs, j) ==
  /\ TurnOK(p, 6 * j + 1) /\ p.flag = "go" /\ p.i = 6 * j + 1
  /\ p.h = (IF j = 0 THEN "start" ELSE "lf") /\ p.headers = Entered(hs, j)

\* Where the loop begins a call on a new request.
BeginsLoop(p) ==
  TurnOK(p, 0) /\ p.flag = "go" /\ p.i = 0 /\ p.h = "start" /\ p.headers = {}

\* A turn of a loop that goes on.
LEMMA NextTurn ==
  ASSUME NEW G, NEW str, Len(str) \in Nat, NEW p0, Turns(G, str, p0, Len(str)),
         NEW m \in Nat, m < Len(str), G[m].flag = "go"
  PROVE  G[m + 1] = HeaderStep(str, G[m])
<1>1. PICK k \in Nat : k = m + 1
  OBVIOUS
<1>2. k \in 0..Len(str) /\ k # 0 /\ k - 1 = m
  BY <1>1
<1>3. G[k] = LoopTurn(str, G[k - 1])
  BY <1>2 DEF Turns
<1> QED
  BY <1>1, <1>2, <1>3 DEF LoopTurn

\* The next header.
LEMMA NextEntered ==
  ASSUME NEW str, NEW hs, NEW n \in Nat, LinesIn(str, hs, n), NEW p0,
         NEW G, Turns(G, str, p0, Len(str)), NEW j \in Nat, j < n, EnteredAt(G[6 * j + 1], hs, j)
  PROVE  EnteredAt(G[6 * (j + 1) + 1], hs, j + 1)
<1>1. PICK i \in Nat, l \in 1..n : i = 6 * j + 1 /\ l = j + 1
  <2>1. 6 * j + 1 \in Nat /\ j + 1 \in 1..n
    OBVIOUS
  <2> QED
    BY <2>1
<1>2. i = 6 * l - 5 /\ i + 1 = 6 * l - 4 /\ i + 4 = 6 * l - 1 /\ i + 6 = 6 * (j + 1) + 1
  BY <1>1
<1>3. LineIn(str, i) /\ str[i + 1] = hs[l].key /\ str[i + 4] = hs[l].value
  BY <1>2 DEF LinesIn
<1>4. str \in Seq(Token) /\ Len(str) \in Nat /\ i + 6 <= Len(str)
  BY <1>3 DEF LinesIn, LineIn
<1>5. PICK p : p = G[i]
  OBVIOUS
<1>6. /\ TurnOK(p, i) /\ p.flag = "go" /\ p.i = i /\ p.h \in {"start", "lf"}
      /\ p.headers = Entered(hs, j)
  BY <1>1, <1>5 DEF EnteredAt
<1>7. PICK p1, p2, p3 :
        p1 = HeaderStep(str, p) /\ p2 = HeaderStep(str, p1) /\ p3 = HeaderStep(str, p2)
  OBVIOUS
<1>8. PICK p4, p5, p6 :
        p4 = HeaderStep(str, p3) /\ p5 = HeaderStep(str, p4) /\ p6 = HeaderStep(str, p5)
  OBVIOUS
<1>9. /\ p1.flag = "go" /\ p2.flag = "go" /\ p3.flag = "go" /\ p4.flag = "go"
      /\ p5.flag = "go" /\ p6.flag = "go"
      /\ TurnOK(p6, i + 6) /\ p6.i = i + 6 /\ p6.h = "lf"
      /\ p6.headers = SetHeader(p.headers, <<str[i + 1]>>, <<str[i + 4]>>)
  BY <1>3, <1>4, <1>6, <1>7, <1>8, LineTurns
<1>10. G[i + 6] = p6
  <2>1. PICK a, b, c, e, f \in Nat :
          a = i + 1 /\ b = i + 2 /\ c = i + 3 /\ e = i + 4 /\ f = i + 5
    OBVIOUS
  <2>2. /\ b = a + 1 /\ c = b + 1 /\ e = c + 1 /\ f = e + 1 /\ i + 6 = f + 1
        /\ i < Len(str) /\ a < Len(str) /\ b < Len(str)
        /\ c < Len(str) /\ e < Len(str) /\ f < Len(str)
    BY ONLY i \in Nat, <1>4, <2>1
  <2>3. G[a] = p1
    BY <1>4, <1>5, <1>6, <1>7, <2>1, <2>2, NextTurn
  <2>4. G[b] = p2
    BY <1>4, <1>7, <1>9, <2>2, <2>3, NextTurn
  <2>5. G[c] = p3
    BY <1>4, <1>7, <1>9, <2>2, <2>4, NextTurn
  <2>6. G[e] = p4
    BY <1>4, <1>8, <1>9, <2>2, <2>5, NextTurn
  <2>7. G[f] = p5
    BY <1>4, <1>8, <1>9, <2>2, <2>6, NextTurn
  <2> QED
    BY <1>4, <1>8, <1>9, <2>2, <2>7, NextTurn
<1>11. p6.headers = Entered(hs, j + 1)
  BY <1>1, <1>3, <1>6, <1>9, EnteredOneMore
<1>12. j + 1 # 0
  OBVIOUS
<1> QED
  BY <1>2, <1>9, <1>10, <1>11, <1>12 DEF EnteredAt

\* So all headers are entered.
LEMMA AllEntered ==
  ASSUME NEW str, NEW hs, NEW n \in Nat, LinesIn(str, hs, n), NEW p0, BeginsLoop(p0),
         NEW G, Turns(G, str, p0, Len(str))
  PROVE  EnteredAt(G[6 * n + 1], hs, n)
<1>1. str \in Seq(Token) /\ Len(str) \in Nat /\ 3 <= Len(str) /\ str[1] = LF
  BY DEF LinesIn
<1> DEFINE T == {j \in Nat : j <= n => EnteredAt(G[6 * j + 1], hs, j)}
<1>2. 0 \in T
  <2>1. G[0] = p0
    BY <1>1 DEF Turns
  <2>2. G[0 + 1] = HeaderStep(str, p0)
    BY <1>1, <2>1, NextTurn DEF BeginsLoop
  <2>3. PICK p : p = HeaderStep(str, p0)
    OBVIOUS
  <2>4. TurnOK(p, 0 + 1)
    <3>1. 0 \in 0..(Len(str) - 1)
      BY <1>1
    <3> QED
      BY <1>1, <2>3, <3>1, HeaderStepType DEF BeginsLoop
  <2>5. p.flag = "go" /\ p.i = 1 /\ p.h = "start" /\ p.headers = {}
    <3>1. p0 \in Turn /\ p0.i = 0 /\ str[p0.i + 1] \in {CR, LF}
      BY <1>1 DEF BeginsLoop, TurnOK
    <3> QED
      BY <2>3, <3>1, StepStart DEF BeginsLoop
  <2>6. Entered(hs, 0) = {}
    BY DEF Entered
  <2>7. 6 * 0 + 1 = 1 /\ 0 + 1 = 1
    OBVIOUS
  <2>8. p = G[1]
    BY <2>2, <2>3, <2>7
  <2>9. EnteredAt(p, hs, 0)
    BY <2>4, <2>5, <2>6, <2>7 DEF EnteredAt
  <2> QED
    BY <2>7, <2>8, <2>9
<1>3. \A j \in Nat : j \in T => j + 1 \in T
  <2> SUFFICES ASSUME NEW j \in Nat, j + 1 <= n, EnteredAt(G[6 * j + 1], hs, j)
               PROVE  EnteredAt(G[6 * (j + 1) + 1], hs, j + 1)
    OBVIOUS
  <2>1. j < n
    OBVIOUS
  <2> QED
    BY <2>1, NextEntered
<1> HIDE DEF T
<1>4. n \in T
  BY <1>2, <1>3, SetInduction
<1> QED
  BY <1>4 DEF T

\* A loop that has broken off stays as it is.
LEMMA LoopStays ==
  ASSUME NEW str, Len(str) \in Nat, NEW p0, NEW G, Turns(G, str, p0, Len(str)),
         NEW m \in 0..Len(str), G[m].flag # "go"
  PROVE  G[Len(str)] = G[m]
<1> DEFINE T == {l \in Nat : m + l <= Len(str) => G[m + l] = G[m]}
<1>1. 0 \in T
  OBVIOUS
<1>2. \A l \in Nat : l \in T => l + 1 \in T
  <2> SUFFICES ASSUME NEW l \in Nat, m + (l + 1) <= Len(str), G[m + l] = G[m]
               PROVE  G[m + (l + 1)] = G[m]
    OBVIOUS
  <2>1. PICK k : k = m + (l + 1)
    OBVIOUS
  <2>2. k \in 0..Len(str) /\ k # 0 /\ k - 1 = m + l
    BY <2>1
  <2>3. G[k] = LoopTurn(str, G[k - 1])
    BY <2>2 DEF Turns
  <2> QED
    BY <2>1, <2>2, <2>3 DEF LoopTurn
<1>3. PICK l \in Nat : m + l = Len(str)
  <2>1. Len(str) - m \in Nat /\ m + (Len(str) - m) = Len(str)
    OBVIOUS
  <2> QED
    BY <2>1
<1> HIDE DEF T
<1>4. l \in T
  BY <1>1, <1>2, SetInduction
<1> QED
  BY <1>3, <1>4 DEF T

\* A sequence of no length is the empty one.
LEMMA EmptyHasNoLength ==
  ASSUME NEW X, NEW s \in Seq(X)
  PROVE  s = <<>> <=> Len(s) = 0
OBVIOUS

\* Behind the last header the blank line ends the loop, and if the request has a
\* body the token after it breaks the loop off.
LEMMA LoopEnds ==
  ASSUME NEW str, NEW hs, NEW n \in Nat, n # 0, LinesIn(str, hs, n), NEW p0, BeginsLoop(p0),
         NEW G, Turns(G, str, p0, Len(str)), NEW q, q = G[Len(str)]
  PROVE  /\ q.flag \in {"go", "stop"} /\ q.h = "end_lf" /\ q.headers = Entered(hs, n)
         /\ Len(str) = 6 * n + 3 => q.i = Len(str)
<1>1. EnteredAt(G[6 * n + 1], hs, n)
  BY AllEntered
<1>2. PICK a, b, c, L \in Nat :
        a = 6 * n + 1 /\ b = 6 * n + 2 /\ c = 6 * n + 3 /\ L = Len(str)
  <2>1. 6 * n + 1 \in Nat /\ 6 * n + 2 \in Nat /\ 6 * n + 3 \in Nat
    OBVIOUS
  <2> QED
    BY <2>1 DEF LinesIn
<1>3. b = a + 1 /\ c = b + 1 /\ a < L /\ b < L /\ c <= L
  BY <1>2 DEF LinesIn
<1>4. str[a + 1] = CR /\ str[b + 1] = LF
  BY <1>2, <1>3 DEF LinesIn
<1>5. PICK p : p = G[a]
  OBVIOUS
<1>6. p \in Turn /\ p.flag = "go" /\ p.i = a /\ p.h = "lf" /\ p.headers = Entered(hs, n)
  BY <1>1, <1>2, <1>5 DEF EnteredAt, TurnOK
<1>7. PICK p1, p2 : p1 = HeaderStep(str, p) /\ p2 = HeaderStep(str, p1)
  OBVIOUS
<1>8. /\ TurnOK(p1, b) /\ p1.flag = "go" /\ p1.i = b /\ p1.h = "end_cr"
      /\ p1.headers = Entered(hs, n)
  <2>1. TurnOK(p, a) /\ str \in Seq(Token) /\ a \in 0..(Len(str) - 1)
    BY <1>1, <1>2, <1>3, <1>5 DEF EnteredAt, LinesIn
  <2>2. TurnOK(p1, a + 1)
    BY <1>7, <2>1, HeaderStepType
  <2> QED
    BY <1>3, <1>4, <1>6, <1>7, <2>2, StepLf
<1>9. /\ TurnOK(p2, c) /\ p2.flag = "go" /\ p2.i = c /\ p2.h = "end_lf"
      /\ p2.headers = Entered(hs, n)
  <2>1. str \in Seq(Token) /\ b \in 0..(Len(str) - 1)
    BY <1>2, <1>3 DEF LinesIn
  <2>2. TurnOK(p2, b + 1)
    BY <1>7, <1>8, <2>1, HeaderStepType
  <2>3. p1 \in Turn /\ str[p1.i + 1] = LF
    BY <1>4, <1>8 DEF TurnOK
  <2> QED
    BY <1>3, <1>7, <1>8, <2>2, <2>3, BlankLineEnds
<1>10. G[c] = p2
  <2>1. G[b] = p1
    BY <1>2, <1>3, <1>5, <1>6, <1>7, NextTurn
  <2> QED
    BY <1>2, <1>3, <1>7, <1>8, <2>1, NextTurn
<1>11. CASE c = L
  BY <1>2, <1>9, <1>10, <1>11
<1>12. CASE c # L
  <2>1. c < L /\ c + 1 \in 0..Len(str) /\ c + 1 <= L
    BY <1>2, <1>3, <1>12
  <2>2. PICK p3 : p3 = HeaderStep(str, p2)
    OBVIOUS
  <2>3. p3.flag = "stop" /\ p3.h = "end_lf" /\ p3.headers = Entered(hs, n)
    <3>1. p2 \in Turn
      BY <1>9 DEF TurnOK
    <3> QED
      BY <1>9, <2>2, <3>1, StepEndLf
  <2>4. G[c + 1] = p3
    BY <1>2, <1>9, <1>10, <2>1, <2>2, NextTurn
  <2>5. G[Len(str)] = G[c + 1]
    BY <1>2, <2>1, <2>3, <2>4, LoopStays
  <2> QED
    BY <1>2, <1>12, <2>3, <2>4, <2>5
<1> QED
  BY <1>11, <1>12

\* Without headers the loop passes over the blank line in its first state.
LEMMA LoopWaits ==
  ASSUME NEW str, NEW hs, LinesIn(str, hs, 0), Len(str) = 3, NEW p0, BeginsLoop(p0),
         NEW G, Turns(G, str, p0, Len(str)), NEW q, q = G[Len(str)]
  PROVE  q.flag = "go" /\ q.h = "start"
<1>1. G[6 * 0 + 1] = G[1] /\ 6 * 0 + 2 = 2 /\ 6 * 0 + 3 = 3 /\ 0 \in Nat
  OBVIOUS
<1>2. EnteredAt(G[6 * 0 + 1], hs, 0)
  BY <1>1, AllEntered
<1>3. PICK p : p = G[1]
  OBVIOUS
<1>4. TurnOK(p, 1) /\ p.flag = "go" /\ p.i = 1 /\ p.h = "start"
  <2>1. EnteredAt(p, hs, 0) /\ 6 * 0 + 1 = 1
    BY <1>1, <1>2, <1>3
  <2> QED
    BY <2>1 DEF EnteredAt
<1>5. str \in Seq(Token) /\ str[1 + 1] = CR /\ str[2 + 1] = LF
  BY <1>1 DEF LinesIn
<1>6. PICK p1, p2 : p1 = HeaderStep(str, p) /\ p2 = HeaderStep(str, p1)
  OBVIOUS
<1>7. TurnOK(p1, 2) /\ p1.flag = "go" /\ p1.i = 2 /\ p1.h = "start"
  <2>1. 1 \in 0..(Len(str) - 1) /\ 1 + 1 = 2
    OBVIOUS
  <2>2. TurnOK(p1, 1 + 1)
    BY <1>4, <1>5, <1>6, <2>1, HeaderStepType
  <2>3. p \in Turn /\ str[p.i + 1] \in {CR, LF}
    BY <1>4, <1>5 DEF TurnOK
  <2> QED
    BY <1>4, <1>6, <2>1, <2>2, <2>3, StepStart
<1>8. p2.flag = "go" /\ p2.h = "start"
  <2>1. p1 \in Turn /\ str[p1.i + 1] \in {CR, LF}
    BY <1>5, <1>7 DEF TurnOK
  <2> QED
    BY <1>6, <1>7, <2>1, StepStart
<1>9. G[3] = p2
  <2>1. PICK a, b, c \in Nat : a = 1 /\ b = 2 /\ c = 3
    OBVIOUS
  <2>2. b = a + 1 /\ c = b + 1 /\ a < Len(str) /\ b < Len(str) /\ Len(str) \in Nat
    BY <2>1
  <2>3. G[b] = p1
    BY <1>3, <1>4, <1>6, <2>1, <2>2, NextTurn, ZenonT(40)
  <2>4. G[c] = p2
    <3>1. /\ Len(str) \in Nat /\ Turns(G, str, p0, Len(str)) /\ b < Len(str)
          /\ G[b].flag = "go"
      BY <1>7, <2>2, <2>3
    <3>2. G[b + 1] = HeaderStep(str, G[b])
      BY ONLY <3>1, b \in Nat, NextTurn
    <3> QED
      BY <1>6, <2>2, <2>3, <3>2
  <2> QED
    BY <2>1, <2>4
<1> QED
  BY <1>8, <1>9

\* parseHeaders of headers that have all arrived: they are entered as they should
\* be, and without a body nothing is left.  Without headers it waits for more.
LEMMA WholeHeaders ==
  ASSUME NEW S, NEW r, NEW A, There(S, r, A), NEW str, HoldsHeaders(S, r, A, str),
         NEW p, p = ParseHeaders(str, "start", {})
  PROVE  /\ r.headers = <<>> => p.flag = "again"
         /\ r.headers # <<>> => /\ p.flag = "success"
                                /\ p.headers = Entered(r.headers, Len(r.headers))
                                /\ r.body = <<>> => p.rest = <<>>
<1>1. PICK p0 : p0 = [i |-> 0, h |-> "start", headers |-> {}, ks |-> -1, ke |-> -1,
                      vs |-> -1, ve |-> -1, begin |-> 0, flag |-> "go"]
  OBVIOUS
<1>2. PICK q : q = HeaderLoop(str, p0)
  OBVIOUS
<1>3. /\ p.flag = IF q.flag = "error" THEN "error"
                  ELSE IF q.h = "end_lf" THEN "success" ELSE "again"
      /\ p.flag = "success" => p.rest = From(str, q.i)
      /\ p.headers = q.headers
  BY <1>1, <1>2 DEF ParseHeaders
<1>4. BeginsLoop(p0)
  <2>1. p0 \in Turn
    BY <1>1 DEF Turn, HeaderStates
  <2> QED
    BY <1>1, <2>1 DEF BeginsLoop, TurnOK
<1>5. PICK n \in Nat, b \in Nat : n = Len(r.headers) /\ b = Len(r.body)
  BY DEF There, WellFormed
<1>6. /\ LinesIn(str, r.headers, n) /\ Len(str) = 6 * n + 3 + b /\ Len(str) \in Nat
  <2>1. /\ LinesIn(str, r.headers, Len(r.headers))
        /\ Len(str) = 6 * Len(r.headers) + 3 + Len(r.body)
    BY WholeBuffer
  <2>2. Len(str) \in Nat
    BY <2>1 DEF LinesIn
  <2> QED
    BY <1>5, <2>1, <2>2
<1>7. PICK G : Turns(G, str, p0, Len(str)) /\ q = G[Len(str)]
  BY <1>2, <1>6, LoopIs
<1>8. r.headers = <<>> <=> n = 0
  <2>1. r.headers \in Seq([key : Word, value : Word])
    BY DEF There, WellFormed
  <2> QED
    BY <1>5, <2>1, EmptyHasNoLength
<1>9. r.body = <<>> <=> b = 0
  <2>1. r.body \in Seq(Token)
    BY DEF There, WellFormed
  <2> QED
    BY <1>5, <2>1, EmptyHasNoLength
<1>10. CASE n = 0
  <2>1. b = 0
    BY <1>8, <1>9, <1>10 DEF There, WellFormed
  <2>2. LinesIn(str, r.headers, 0) /\ Len(str) = 3
    BY <1>6, <1>10, <2>1
  <2>3. q.flag = "go" /\ q.h = "start"
    BY <1>4, <1>7, <2>2, LoopWaits
  <2> QED
    BY <1>3, <1>8, <1>10, <2>3
<1>11. CASE n # 0
  <2>1. /\ q.flag \in {"go", "stop"} /\ q.h = "end_lf" /\ q.headers = Entered(r.headers, n)
        /\ Len(str) = 6 * n + 3 => q.i = Len(str)
    BY <1>4, <1>6, <1>7, <1>11, LoopEnds
  <2>2. p.flag = "success" /\ p.headers = Entered(r.headers, n) /\ p.rest = From(str, q.i)
    BY <1>3, <2>1
  <2>3. ASSUME b = 0 PROVE p.rest = <<>>
    <3>1. q.i = Len(str) /\ Len(str) \in 0..Len(str)
      BY <1>6, <2>1, <2>3
    <3>2. Len(S) < npos
      BY DEF There
    <3>3. PICK F, t : F = HeadersOf(r, A) - 1 /\ t = BodyOf(r, A) + Len(r.body)
      OBVIOUS
    <3>4. Holds(S, F, t, str)
      BY <3>3 DEF HoldsHeaders
    <3>5. PICK y \in 0..Len(str) : y = Len(str)
      BY <3>1
    <3>6. PICK x : x = p.rest
      OBVIOUS
    <3>7. Holds(S, F + y, t, x)
      BY <2>2, <3>1, <3>2, <3>4, <3>5, <3>6, HoldsFrom
    <3>8. F + y = t /\ F \in Nat /\ t \in Nat
      BY <3>4, <3>5 DEF Holds
    <3>9. x \in Seq(Token) /\ Len(x) = 0
      BY <3>7, <3>8 DEF Holds
    <3> QED
      BY <3>9, <3>6, EmptyHasNoLength
  <2> QED
    BY <1>5, <1>8, <1>9, <1>11, <2>2, <2>3
<1> QED
  BY <1>10, <1>11

-----------------------------------------------------------------------------
(* What the phases make of a request that has arrived whole.               *)

\* The first n names are entered.
NamesIn(hs, n) == \A l \in 1..n : \E h \in Entered(hs, n) : h.key = <<hs[l].key>>

\* No name is lost.
LEMMA EveryNameEntered ==
  ASSUME NEW hs, NEW n \in Nat
  PROVE  NamesIn(hs, n)
<1> DEFINE T == {k \in Nat : NamesIn(hs, k)}
<1>1. 0 \in T
  BY DEF NamesIn
<1>2. ASSUME NEW k \in Nat, NamesIn(hs, k) PROVE NamesIn(hs, k + 1)
  <2>1. PICK x, v, E : x = <<hs[k + 1].key>> /\ v = <<hs[k + 1].value>> /\ E = Entered(hs, k)
    OBVIOUS
  <2>2. Entered(hs, k + 1) = {h \in E : h.key # x} \cup {[key |-> x, value |-> v]}
    BY <2>1, EnteredOneMore DEF SetHeader
  <2> SUFFICES ASSUME NEW l \in 1..(k + 1)
               PROVE  \E h \in Entered(hs, k + 1) : h.key = <<hs[l].key>>
    BY DEF NamesIn
  <2>3. CASE <<hs[l].key>> = x
    <3>1. PICK h : h = [key |-> x, value |-> v]
      OBVIOUS
    <3>2. h \in Entered(hs, k + 1) /\ h.key = x
      BY <2>2, <3>1
    <3> QED
      BY <2>3, <3>2
  <2>4. CASE <<hs[l].key>> # x
    <3>1. l \in 1..k
      BY <2>1, <2>4
    <3>2. PICK h \in E : h.key = <<hs[l].key>>
      BY <1>2, <2>1, <3>1 DEF NamesIn
    <3> QED
      BY <2>2, <2>4, <3>2
  <2> QED
    BY <2>3, <2>4
<1>3. \A k \in Nat : k \in T => k + 1 \in T
  BY <1>2
<1> HIDE DEF T
<1>4. n \in T
  BY <1>1, <1>3, SetInduction
<1> QED
  BY <1>4 DEF T

\* Whether a request has a header of this name.
HasHeader(r, name) == \E i \in DOMAIN r.headers : r.headers[i].key = name

\* The length of a body is known if its header was sent.
LEMMA LengthEntered ==
  ASSUME NEW r, WellFormed(r), NEW s, s.headers = Entered(r.headers, Len(r.headers))
  PROVE  Lengths(s) = {} <=> ~HasHeader(r, "Content-length")
<1>1. PICK n \in Nat : n = Len(r.headers) /\ DOMAIN r.headers = 1..n
  BY DEF WellFormed
<1>2. \A a, b : <<a>> = <<b>> <=> a = b
  OBVIOUS
<1>3. ASSUME NEW h \in s.headers, h.key = <<"Content-length">>
      PROVE  HasHeader(r, "Content-length")
  <2>1. PICK l \in 1..n : h.key = <<r.headers[l].key>>
    BY <1>1 DEF Entered
  <2>2. r.headers[l].key = "Content-length"
    BY <1>2, <1>3, <2>1
  <2> QED
    BY <1>1, <2>2 DEF HasHeader
<1>4. ASSUME NEW i \in 1..n, r.headers[i].key = "Content-length"
      PROVE  \E h \in s.headers : h.key = <<"Content-length">>
  <2>1. \E h \in Entered(r.headers, n) : h.key = <<r.headers[i].key>>
    BY <1>1, EveryNameEntered DEF NamesIn
  <2> QED
    BY <1>1, <1>4, <2>1
<1> QED
  BY <1>1, <1>3, <1>4 DEF Lengths, HasHeader

\* Keep-alive is granted to whom asks for it, the last Connection header deciding.
LEMMA AskedEntered ==
  ASSUME NEW r, WellFormed(r)
  PROVE  Asked(Entered(r.headers, Len(r.headers))) <=> AsksToKeep(r)
<1>1. PICK n \in Nat : n = Len(r.headers) /\ DOMAIN r.headers = 1..n
  BY DEF WellFormed
<1>2. \A a, b : <<a>> = <<b>> <=> a = b
  OBVIOUS
<1>3. PICK hs, E : hs = r.headers /\ E = Entered(hs, n)
  OBVIOUS
<1> DEFINE Keeps(l) == hs[l].key = "Connection" /\ hs[l].value \in {"keep-alive", "Keep-Alive"}
           Last(l) == \A m \in (l + 1)..n : hs[m].key # hs[l].key
<1>4. Asked(E) <=> \E l \in 1..n : Last(l) /\ Keeps(l)
  <2>1. \A h : h \in E <=> \E l \in 1..n :
                             Last(l) /\ h = [key |-> <<hs[l].key>>, value |-> <<hs[l].value>>]
    BY <1>3 DEF Entered
  <2>2. \A l : Keeps(l) <=> /\ <<hs[l].key>> = <<"Connection">>
                            /\ <<hs[l].value>> \in {<<"keep-alive">>, <<"Keep-Alive">>}
    BY <1>2
  <2>3. ASSUME NEW h \in E, h.key = <<"Connection">>,
               h.value \in {<<"keep-alive">>, <<"Keep-Alive">>}
        PROVE  \E l \in 1..n : Last(l) /\ Keeps(l)
    <3>1. PICK l \in 1..n : Last(l) /\ h = [key |-> <<hs[l].key>>, value |-> <<hs[l].value>>]
      BY <2>1
    <3>2. h.key = <<hs[l].key>> /\ h.value = <<hs[l].value>>
      BY <3>1
    <3>3. Keeps(l)
      BY <2>2, <2>3, <3>2
    <3> QED
      BY <3>1, <3>3
  <2>4. ASSUME NEW l \in 1..n, Last(l), Keeps(l) PROVE Asked(E)
    <3>1. PICK h : h = [key |-> <<hs[l].key>>, value |-> <<hs[l].value>>]
      OBVIOUS
    <3>2. h \in E /\ h.key = <<hs[l].key>> /\ h.value = <<hs[l].value>>
      BY <2>1, <2>4, <3>1
    <3> QED
      BY <2>2, <2>4, <3>2 DEF Asked
  <2> HIDE DEF Keeps, Last
  <2> QED
    BY <2>3, <2>4 DEF Asked
<1>5. AsksToKeep(r) <=> \E l \in 1..n : Last(l) /\ Keeps(l)
  <2>1. AsksToKeep(r) <=> \E l \in 1..n : /\ Keeps(l)
                                          /\ \A j \in 1..n : hs[j].key = "Connection" => j <= l
    BY <1>1, <1>3 DEF AsksToKeep
  <2>2. ASSUME NEW l \in 1..n, Keeps(l)
        PROVE  Last(l) <=> \A j \in 1..n : hs[j].key = "Connection" => j <= l
    <3>1. \A j \in 1..n : j \in (l + 1)..n <=> ~(j <= l)
      OBVIOUS
    <3>2. \A j \in (l + 1)..n : j \in 1..n
      OBVIOUS
    <3>3. Last(l) <=> \A j \in (l + 1)..n : hs[j].key # "Connection"
      BY <2>2
    <3> QED
      BY <3>1, <3>2, <3>3
  <2> HIDE DEF Keeps, Last
  <2> QED
    BY <2>1, <2>2
<1> QED
  BY <1>1, <1>3, <1>4, <1>5

\* What an error writes past outBuffer_.
Page(p) == IF p.reply = "none" THEN <<>> ELSE <<ErrorPage(p.reply)>>

\* What becomes of a request that has arrived whole: it is refused or answered as
\* it should be, or still waited for.
Outcome(p, r) ==
  \/ p.error /\ Page(p) = Expected(r)
  \/ ~p.error /\ p.state \in {"headers", "body"} /\ p.out = <<>>
  \/ ~p.error /\ p.state = "finish" /\ p.inBuffer = <<>> /\ p.out = Expected(r)

\* parseURI takes nothing but a version it does not know for an error.
LEMMA WholeUriPhase ==
  ASSUME NEW S, NEW r, NEW A, There(S, r, A), NEW s \in Data, ~s.error, s.state = "uri",
         s.hState = "start", s.headers = {},
         Holds(S, A, BodyOf(r, A) + Len(r.body), s.inBuffer), NEW q, q = UriPhase(s)
  PROVE  IF r.version \in {"1.0", "1.1"}
         THEN /\ ~q.error /\ q.state = "headers" /\ q.method = r.method /\ q.file = Named(r)
              /\ q.hState = "start" /\ q.headers = {} /\ q.out = s.out
              /\ HoldsHeaders(S, r, A, q.inBuffer)
         ELSE q.error /\ q.reply = "400"
<1>1. PICK u : u = ParseURI(s.inBuffer)
  OBVIOUS
<1>2. PICK K \in Nat, n \in Nat, b \in Nat, t \in Int :
        /\ K = HeadersOf(r, A) /\ n = Len(r.headers) /\ b = Len(r.body)
        /\ t = BodyOf(r, A) + b
  <2>1. PICK K \in Nat, n \in Nat, b \in Nat :
          K = HeadersOf(r, A) /\ n = Len(r.headers) /\ b = Len(r.body)
    BY DEF There, WellFormed
  <2>2. BodyOf(r, A) + b \in Int
    BY <2>1 DEF BodyOf
  <2> QED
    BY <2>1, <2>2
<1>3. K - 2 < t
  <2>1. PICK k \in Nat : k = K /\ t = k + 6 * n + 2 + b
    BY <1>2 DEF There, BodyOf
  <2>2. k - 2 < k + 6 * n + 2 + b
    OBVIOUS
  <2> QED
    BY <2>1, <2>2
<1>4. /\ u.flag = IF r.version \in {"1.0", "1.1"} THEN "success" ELSE "error"
      /\ u.method = r.method /\ u.file = Named(r) /\ Holds(S, K - 1, t, u.rest)
  <2>1. There(S, r, A) /\ K = HeadersOf(r, A) /\ Holds(S, A, t, s.inBuffer) /\ K - 2 < t
    BY <1>2, <1>3
  <2> QED
    BY ONLY <1>1, <2>1, WholeURI
<1>5. CASE r.version \in {"1.0", "1.1"}
  <2>1. q = [s EXCEPT !.state = "headers", !.inBuffer = u.rest,
                      !.method = u.method, !.file = u.file]
    BY <1>1, <1>4, <1>5 DEF UriPhase
  <2>2. /\ ~q.error /\ q.state = "headers" /\ q.inBuffer = u.rest /\ q.method = u.method
        /\ q.file = u.file /\ q.hState = "start" /\ q.headers = {} /\ q.out = s.out
    BY <2>1 DEF Data
  <2>3. HoldsHeaders(S, r, A, q.inBuffer)
    BY <1>2, <1>4, <2>2 DEF HoldsHeaders
  <2> QED
    BY <1>4, <1>5, <2>2, <2>3
<1>6. CASE r.version \notin {"1.0", "1.1"}
  <2>1. q = [Fail(s, "400") EXCEPT !.inBuffer = <<>>]
    BY <1>1, <1>4, <1>6 DEF UriPhase
  <2> QED
    BY <1>6, <2>1 DEF Fail, Data
<1> QED
  BY <1>5, <1>6

\* The headers of a request that has any are all entered.
LEMMA WholeHeaderPhase ==
  ASSUME NEW S, NEW r, NEW A, There(S, r, A), NEW s \in Data, ~s.error, s.state = "headers",
         s.hState = "start", s.headers = {}, HoldsHeaders(S, r, A, s.inBuffer),
         NEW q, q = HeaderPhase(s)
  PROVE  /\ ~q.error /\ q.out = s.out /\ q.method = s.method /\ q.file = s.file
         /\ IF r.headers = <<>> THEN q.state = "headers"
            ELSE /\ q.state = IF s.method = "POST" THEN "body" ELSE "analysis"
                 /\ q.headers = Entered(r.headers, Len(r.headers))
                 /\ r.body = <<>> => q.inBuffer = <<>>
<1>1. PICK p : p = ParseHeaders(s.inBuffer, "start", {})
  OBVIOUS
<1>2. PICK left : left = [s EXCEPT !.inBuffer = p.rest, !.hState = p.h, !.headers = p.headers]
  OBVIOUS
<1>3. /\ r.headers = <<>> => p.flag = "again"
      /\ r.headers # <<>> => /\ p.flag = "success"
                             /\ p.headers = Entered(r.headers, Len(r.headers))
                             /\ r.body = <<>> => p.rest = <<>>
  BY <1>1, WholeHeaders
<1>4. /\ ~left.error /\ left.out = s.out /\ left.method = s.method /\ left.file = s.file
      /\ left.state = "headers" /\ left.headers = p.headers /\ left.inBuffer = p.rest
  BY <1>2 DEF Data
<1>5. CASE r.headers = <<>>
  <2>1. q = left
    BY <1>1, <1>2, <1>3, <1>5 DEF HeaderPhase
  <2> QED
    BY <1>4, <1>5, <2>1
<1>6. CASE r.headers # <<>>
  <2>1. q = [left EXCEPT !.state = IF s.method = "POST" THEN "body" ELSE "analysis"]
    BY <1>1, <1>2, <1>3, <1>6 DEF HeaderPhase
  <2>2. /\ ~q.error /\ q.out = s.out /\ q.method = s.method /\ q.file = s.file
        /\ q.state = IF s.method = "POST" THEN "body" ELSE "analysis"
        /\ q.headers = p.headers /\ q.inBuffer = p.rest
    BY <1>2, <2>1 DEF Data
  <2> QED
    BY <1>3, <1>6, <2>2
<1> QED
  BY <1>5, <1>6

\* A POST with no length of its body is refused, any other waited for or given up
\* without a word.
LEMMA WholeBodyPhase ==
  ASSUME NEW r, WellFormed(r), r.version \in {"1.0", "1.1"}, r.method = "POST",
         NEW s \in Data, ~s.error, s.state = "body", s.method = "POST", s.out = <<>>,
         s.headers = Entered(r.headers, Len(r.headers)),
         NEW b, b = BodyPhase(s), NEW q, q = AnalysisPhase(b)
  PROVE  Outcome(q, r)
<1>1. Expected(r) = IF HasHeader(r, "Content-length") THEN <<>> ELSE <<ErrorPage("400")>>
  BY DEF Expected, HasHeader
<1>2. Lengths(s) = {} <=> ~HasHeader(r, "Content-length")
  BY LengthEntered
<1>3. CASE Lengths(s) = {}
  <2>1. b = Fail(s, "400")
    BY <1>3 DEF BodyPhase
  <2>2. b.error /\ b.reply = "400"
    BY <2>1 DEF Fail, Data
  <2>3. q = b
    BY <2>2, ErrorStays
  <2> QED
    BY <1>1, <1>2, <1>3, <2>2, <2>3 DEF Outcome, Page
<1>4. CASE Lengths(s) # {}
  <2>1. Expected(r) = <<>>
    BY <1>1, <1>2, <1>4
  <2>2. b = s \/ b = [s EXCEPT !.state = "analysis"]
    BY <1>4 DEF BodyPhase
  <2>3. CASE b = s
    <3>1. q = s
      BY <2>3 DEF AnalysisPhase
    <3> QED
      BY <3>1 DEF Outcome
  <2>4. CASE b = [s EXCEPT !.state = "analysis"]
    <3>1. b.state = "analysis" /\ b.method = "POST" /\ ~b.error /\ b \in Data
      BY <2>4 DEF Data
    <3>2. q = Fail(b, "none")
      BY <3>1 DEF AnalysisPhase
    <3>3. q.error /\ q.reply = "none"
      BY <3>1, <3>2 DEF Fail, Data
    <3> QED
      BY <2>1, <3>3 DEF Outcome, Page
  <2> QED
    BY <2>2, <2>3, <2>4
<1> QED
  BY <1>3, <1>4

\* A GET or a HEAD is answered as it should be.
LEMMA WholeAnalysis ==
  ASSUME NEW r, r.version \in {"1.0", "1.1"}, r.method \in {"GET", "HEAD"},
         NEW s \in Data, ~s.error, s.state = "analysis", s.method = r.method,
         s.file = Named(r), s.out = <<>>, s.inBuffer = <<>>,
         Asked(s.headers) = AsksToKeep(r), NEW q, q = AnalysisPhase(s)
  PROVE  Outcome(q, r)
<1>1. PICK asked : asked = Asked(s.headers)
  OBVIOUS
<1>2. PICK kept : kept = [s EXCEPT !.keepAlive = @ \/ asked]
  OBVIOUS
<1>3. PICK reply : reply = Reply(s.method, s.file, asked)
  OBVIOUS
<1>4. /\ kept.out = <<>> /\ kept.method = s.method /\ kept.file = s.file
      /\ kept.inBuffer = <<>> /\ kept.error = s.error
  BY <1>2 DEF Data
<1>5. s.method # "POST"
  OBVIOUS
<1>6. CASE s.file = <<"hello">>
  <2>1. q = [kept EXCEPT !.state = "finish", !.out = reply]
    BY <1>1, <1>2, <1>3, <1>5, <1>6 DEF AnalysisPhase
  <2>2. reply = Expected(r)
    BY <1>3, <1>5, <1>6 DEF Reply, Expected
  <2>3. ~q.error /\ q.state = "finish" /\ q.inBuffer = <<>> /\ q.out = reply
    BY <1>2, <1>4, <2>1 DEF Data
  <2> QED
    BY <2>2, <2>3 DEF Outcome
<1>7. CASE s.file # <<"hello">> /\ s.file \in Missing
  <2>1. q = Fail(kept, "404")
    BY <1>1, <1>2, <1>5, <1>7 DEF AnalysisPhase
  <2>2. q.error /\ q.reply = "404"
    BY <1>2, <2>1 DEF Fail, Data
  <2>3. Expected(r) = <<ErrorPage("404")>>
    BY <1>5, <1>7 DEF Expected
  <2> QED
    BY <2>2, <2>3 DEF Outcome, Page
<1>8. CASE /\ s.file # <<"hello">> /\ s.file \notin Missing
           /\ s.method = "GET" /\ s.file \in Unmappable
  <2>1. PICK f : f = Fail(kept, "404")
    OBVIOUS
  <2>2. q = [f EXCEPT !.out = <<>>]
    BY <1>1, <1>2, <1>5, <1>8, <2>1 DEF AnalysisPhase
  <2>3. q.error /\ q.reply = "404"
    BY <1>2, <2>1, <2>2 DEF Fail, Data
  <2>4. Expected(r) = <<ErrorPage("404")>>
    BY <1>5, <1>8 DEF Expected
  <2> QED
    BY <2>3, <2>4 DEF Outcome, Page
<1>9. CASE /\ s.file # <<"hello">> /\ s.file \notin Missing
           /\ ~(s.method = "GET" /\ s.file \in Unmappable)
  <2>1. PICK all : all = kept.out \o reply
    OBVIOUS
  <2>2. q = [kept EXCEPT !.state = "finish", !.out = all]
    BY <1>1, <1>2, <1>3, <1>5, <1>9, <2>1 DEF AnalysisPhase
  <2>3. ~q.error /\ q.state = "finish" /\ q.inBuffer = <<>> /\ q.out = all
    BY <1>2, <1>4, <2>2 DEF Data
  <2>4. reply = Expected(r)
    BY <1>1, <1>3, <1>5, <1>9 DEF Reply, Expected
  <2>5. reply \in Seq(Piece)
    <3>1. asked \in BOOLEAN
      BY <1>1 DEF Asked
    <3>2. s.file \in Seq(Token)
      BY DEF Data
    <3> QED
      BY <1>3, <3>1, <3>2, ReplyType
  <2>6. all = reply
    BY <1>4, <2>1, <2>5
  <2> QED
    BY <2>3, <2>4, <2>6 DEF Outcome
<1> QED
  BY <1>6, <1>7, <1>8, <1>9

\* What becomes of a request that is parsed by itself.
LEMMA WholeParsed ==
  ASSUME NEW S, NEW r, NEW A, There(S, r, A), NEW s \in Data, ~s.error, s.state = "uri",
         s.hState = "start", s.headers = {}, s.out = <<>>,
         Holds(S, A, BodyOf(r, A) + Len(r.body), s.inBuffer), NEW q, q = Parsed(s)
  PROVE  Outcome(q, r)
<1>1. PICK u : u = UriPhase(s)
  OBVIOUS
<1>2. PICK h : h = HeaderPhase(u)
  OBVIOUS
<1>3. PICK b : b = BodyPhase(h)
  OBVIOUS
<1>4. q = AnalysisPhase(b)
  BY <1>1, <1>2, <1>3 DEF Parsed
<1>5. u \in Data
  BY <1>1, UriPhaseType
<1>6. h \in Data
  BY <1>2, <1>5, HeaderPhaseType
<1>7. WellFormed(r)
  BY DEF There
<1>8. CASE r.version \notin {"1.0", "1.1"}
  <2>1. u.error /\ u.reply = "400"
    BY <1>1, <1>8, WholeUriPhase
  <2>2. q = u
    BY <1>2, <1>3, <1>4, <2>1, ErrorStays
  <2>3. Expected(r) = <<ErrorPage("400")>>
    BY <1>8 DEF Expected
  <2> QED
    BY <2>1, <2>2, <2>3 DEF Outcome, Page
<1>9. CASE r.version \in {"1.0", "1.1"}
  <2>1. /\ ~u.error /\ u.state = "headers" /\ u.method = r.method /\ u.file = Named(r)
        /\ u.hState = "start" /\ u.headers = {} /\ u.out = <<>>
        /\ HoldsHeaders(S, r, A, u.inBuffer)
    BY <1>1, <1>9, WholeUriPhase
  <2>2. /\ ~h.error /\ h.out = <<>> /\ h.method = r.method /\ h.file = Named(r)
        /\ IF r.headers = <<>> THEN h.state = "headers"
           ELSE /\ h.state = IF u.method = "POST" THEN "body" ELSE "analysis"
                /\ h.headers = Entered(r.headers, Len(r.headers))
                /\ r.body = <<>> => h.inBuffer = <<>>
    BY <1>2, <1>5, <2>1, WholeHeaderPhase
  <2>3. CASE r.headers = <<>>
    <3>1. b = h
      BY <1>3, <2>2, <2>3 DEF BodyPhase
    <3>2. q = h
      BY <1>4, <2>2, <2>3, <3>1 DEF AnalysisPhase
    <3> QED
      BY <2>2, <2>3, <3>2 DEF Outcome
  <2>4. CASE r.headers # <<>> /\ r.method = "POST"
    BY <1>3, <1>4, <1>6, <1>7, <1>9, <2>1, <2>2, <2>4, WholeBodyPhase
  <2>5. CASE r.headers # <<>> /\ r.method # "POST"
    <3>1. h.state = "analysis" /\ h.inBuffer = <<>>
      BY <1>7, <2>1, <2>2, <2>5 DEF WellFormed
    <3>2. b = h
      BY <1>3, <3>1 DEF BodyPhase
    <3>3. r.method \in {"GET", "HEAD"}
      BY <1>7, <2>5 DEF WellFormed, Method
    <3>4. Asked(h.headers) = AsksToKeep(r)
      BY <1>7, <2>2, <2>5, AskedEntered DEF Asked, AsksToKeep
    <3> QED
      BY <1>4, <1>6, <1>9, <2>2, <3>1, <3>2, <3>3, <3>4, WholeAnalysis
  <2> QED
    BY <2>3, <2>4, <2>5
<1> QED
  BY <1>8, <1>9

-----------------------------------------------------------------------------
(* What should be on the wire.                                             *)

\* The file a request is about is a name.
LEMMA NamedType ==
  ASSUME NEW r, WellFormed(r)
  PROVE  Named(r) \in Seq(Token)
<1>1. CASE r.path = <<>>
  <2>1. Index \in Seq(Token)
    BY Tokens, Singleton DEF Index
  <2> QED
    BY <1>1, <2>1 DEF Named
<1>2. CASE r.path # <<>>
  <2>1. r.path \in Seq(Token) /\ Len(r.path) \in Nat
    BY DEF WellFormed
  <2>2. Len(r.path) # 0
    BY <1>2, <2>1, EmptyHasNoLength
  <2>3. r.path[1] \in Token
    BY <2>1, <2>2
  <2>4. <<r.path[1]>> \in Seq(Token)
    BY <2>3, Singleton
  <2> QED
    BY <1>2, <2>4 DEF Named
<1> QED
  BY <1>1, <1>2

\* A request is answered with pieces.
LEMMA ExpectedType ==
  ASSUME NEW r, WellFormed(r)
  PROVE  Expected(r) \in Seq(Piece)
<1>1. Named(r) \in Seq(Token)
  BY NamedType
<1>2. ErrorPage("400") \in Piece /\ ErrorPage("404") \in Piece
  BY DEF ErrorPage, Piece, Kind
<1>3. <<ErrorPage("400")>> \in Seq(Piece) /\ <<ErrorPage("404")>> \in Seq(Piece)
  BY <1>2
<1>4. PICK keep \in BOOLEAN : keep = AsksToKeep(r)
  BY DEF AsksToKeep
<1>5. Hello \in Piece /\ OkHead(Named(r), keep) \in Piece /\ Body(Named(r)) \in Piece
  <2>1. <<"hello">> \in Seq(Token)
    BY Tokens, Singleton
  <2> QED
    BY <1>1, <2>1 DEF Hello, OkHead, Body, Piece, Kind
<1>6. /\ <<Hello>> \in Seq(Piece) /\ <<OkHead(Named(r), keep)>> \in Seq(Piece)
      /\ <<OkHead(Named(r), keep), Body(Named(r))>> \in Seq(Piece)
  BY <1>5
<1>7. <<>> \in Seq(Piece)
  OBVIOUS
<1> QED
  BY <1>3, <1>4, <1>6, <1>7 DEF Expected

\* One request more is expected to be answered after the others.
LEMMA OneMoreExpected ==
  ASSUME Typed, NEW k \in Nat, k + 1 <= Len(reqs)
  PROVE  /\ AllExpected(k) \in Seq(Piece) /\ AllExpected(k + 1) \in Seq(Piece)
         /\ AllExpected(k + 1) = AllExpected(k) \o Expected(reqs[k + 1])
<1>1. PICK N \in Nat : N = Len(reqs)
  BY StreamThere
<1>2. \A i \in 1..N : Expected(reqs[i]) \in Seq(Piece)
  <2> SUFFICES ASSUME NEW i \in 1..N PROVE Expected(reqs[i]) \in Seq(Piece)
    OBVIOUS
  <2>1. PICK j \in Nat : j + 1 = i /\ j \in 0..N /\ j < N
    <3>1. i - 1 \in Nat /\ (i - 1) + 1 = i /\ i - 1 \in 0..N /\ i - 1 < N
      OBVIOUS
    <3> QED
      BY <3>1
  <2>2. There(Stream, reqs[j + 1], EndOf(j))
    BY <1>1, <2>1, StreamThere
  <2>3. WellFormed(reqs[i])
    BY <2>1, <2>2 DEF There
  <2> QED
    BY <2>3, ExpectedType
<1> DEFINE Q(n) == [i \in 1..n |-> Expected(reqs[i])]
<1>3. ASSUME NEW n \in 0..N PROVE Q(n) \in Seq(Seq(Piece)) /\ Len(Q(n)) = n
  BY <1>2, <1>3
<1>4. PICK m \in 0..N : m = k + 1 /\ k \in 0..N
  BY <1>1
<1>5. PICK e \in Seq(Piece) : e = Expected(reqs[m])
  <2>1. m \in 1..N
    BY <1>4
  <2> QED
    BY <1>2, <2>1
<1>6. Q(m) = Append(Q(k), e)
  <2>1. PICK a, b, q : a = Q(m) /\ q = Q(k) /\ b = Append(q, e)
    OBVIOUS
  <2>2. q \in Seq(Seq(Piece)) /\ Len(q) = k
    BY <1>3, <1>4, <2>1
  <2>3. /\ a \in Seq(Seq(Piece)) /\ Len(a) = m
        /\ b \in Seq(Seq(Piece)) /\ Len(b) = m
    <3>1. a \in Seq(Seq(Piece)) /\ Len(a) = m
      BY <1>3, <2>1
    <3>2. b \in Seq(Seq(Piece)) /\ Len(b) = m
      BY ONLY <1>4, <2>1, <2>2, k \in Nat, e \in Seq(Piece)
    <3> QED
      BY <3>1, <3>2
  <2>4. ASSUME NEW i \in 1..m PROVE a[i] = b[i]
    <3>1. a[i] = Expected(reqs[i])
      BY <2>1
    <3>2. CASE i = m
      <4>1. b[k + 1] = e
        BY ONLY <2>1, <2>2, k \in Nat, e \in Seq(Piece)
      <4> QED
        BY <1>4, <1>5, <3>1, <3>2, <4>1
    <3>3. CASE i # m
      <4>1. i \in 1..k
        BY <1>4, <3>3
      <4>2. q[i] = Expected(reqs[i])
        BY <2>1, <4>1
      <4>3. b[i] = q[i]
        BY ONLY <2>1, <2>2, <4>1, <1>4, k \in Nat, e \in Seq(Piece)
      <4> QED
        BY <3>1, <4>2, <4>3
    <3> QED
      BY <3>2, <3>3
  <2>5. a = b
    BY <2>3, <2>4
  <2> QED
    BY <2>1, <2>5
<1>7. AllExpected(k) = SX!FlattenSeq(Q(k)) /\ AllExpected(m) = SX!FlattenSeq(Q(m))
  BY DEF AllExpected
<1>8. Q(k) \in Seq(Seq(Piece)) /\ Q(m) \in Seq(Seq(Piece))
  BY <1>3, <1>4
<1> HIDE DEF Q
<1>9. SX!FlattenSeq(Q(m)) = SX!FlattenSeq(Q(k)) \o e
  BY <1>6, <1>8, FlattenAppend
<1>10. SX!FlattenSeq(Q(k)) \in Seq(Piece) /\ SX!FlattenSeq(Q(m)) \in Seq(Piece)
  BY <1>8, FlattenType
<1> QED
  BY <1>4, <1>5, <1>7, <1>9, <1>10

\* Before the first request nothing is expected.
LEMMA NothingExpected == AllExpected(0) = <<>>
<1>1. [i \in 1..0 |-> Expected(reqs[i])] = <<>>
  OBVIOUS
<1> QED
  BY <1>1, FlattenEmpty DEF AllExpected

\* No request is empty.
LEMMA EndsRise ==
  ASSUME Typed, NEW k \in Nat, k + 1 <= Len(reqs)
  PROVE  EndOf(k) \in Nat /\ EndOf(k + 1) \in Nat /\ EndOf(k) < EndOf(k + 1)
<1>1. PICK N \in Nat : N = Len(reqs)
  BY StreamThere
<1>2. PICK m \in 0..N : m = k + 1 /\ k \in 0..N /\ k < N
  BY <1>1
<1>3. PICK r, A, e : r = reqs[m] /\ A = EndOf(k) /\ e = EndOf(m)
  OBVIOUS
<1>4. A \in Nat /\ e \in Nat /\ There(Stream, r, A) /\ e = BodyOf(r, A) + Len(r.body)
  BY <1>1, <1>2, <1>3, StreamThere
<1>5. PICK K \in Nat, n \in Nat, b \in Nat :
        K = HeadersOf(r, A) /\ n = Len(r.headers) /\ b = Len(r.body) /\ A + 9 <= K
  BY <1>4 DEF There, WellFormed
<1>6. e = K + 6 * n + 2 + b
  BY <1>4, <1>5 DEF BodyOf
<1>7. A < e
  BY <1>4, <1>5, <1>6, SMTT(40)
<1> QED
  BY <1>2, <1>3, <1>4, <1>7

\* So the requests end one after the other.
LEMMA EndsOrdered ==
  ASSUME Typed, NEW i \in Nat, NEW j \in Nat, i <= j, j <= Len(reqs)
  PROVE  EndOf(i) \in Nat /\ EndOf(j) \in Nat /\ EndOf(i) <= EndOf(j)
<1>1. PICK N \in Nat : N = Len(reqs)
  BY StreamThere
<1>2. \A k \in 0..N : EndOf(k) \in Nat
  BY <1>1, StreamThere
<1> DEFINE T == {l \in Nat : i + l <= N => EndOf(i) <= EndOf(i + l)}
<1>3. 0 \in T
  <2>1. i \in 0..N /\ i + 0 = i
    BY <1>1
  <2> QED
    BY <1>2, <2>1
<1>4. \A l \in Nat : l \in T => l + 1 \in T
  <2> SUFFICES ASSUME NEW l \in Nat, i + (l + 1) <= N, EndOf(i) <= EndOf(i + l)
               PROVE  EndOf(i) <= EndOf(i + (l + 1))
    OBVIOUS
  <2>1. PICK k \in Nat : k = i + l
    OBVIOUS
  <2>2. k + 1 = i + (l + 1) /\ k + 1 <= Len(reqs)
    BY <1>1, <2>1
  <2>3. EndOf(k) \in Nat /\ EndOf(k + 1) \in Nat /\ EndOf(k) < EndOf(k + 1)
    BY <2>2, EndsRise
  <2>4. EndOf(i) \in Nat
    <3>1. i \in 0..N
      BY <1>1
    <3> QED
      BY <1>2, <3>1
  <2>5. EndOf(i) <= EndOf(k + 1)
    BY <2>1, <2>3, <2>4
  <2> QED
    BY <2>2, <2>5
<1>5. PICK l \in Nat : i + l = j
  <2>1. j - i \in Nat /\ i + (j - i) = j
    OBVIOUS
  <2> QED
    BY <2>1
<1> HIDE DEF T
<1>6. l \in T
  BY <1>3, <1>4, SetInduction
<1>7. i \in 0..N /\ j \in 0..N
  BY <1>1
<1> QED
  BY <1>1, <1>2, <1>5, <1>6, <1>7 DEF T

\* What is followed by something is a beginning.
LEMMA BeginsWith ==
  ASSUME NEW X, NEW s \in Seq(X), NEW u \in Seq(X), NEW t, t = s \o u
  PROVE  SX!IsPrefix(s, t)
<1>1. PICK m \in Nat, l \in Nat : m = Len(s) /\ l = Len(t) /\ m <= l
  OBVIOUS
<1>2. t \in Seq(X) /\ \A i \in 1..m : t[i] = s[i]
  BY <1>1
<1>3. PICK a, b : a = SubSeq(s, 1, m) /\ b = SubSeq(t, 1, m)
  OBVIOUS
<1>4. a \in Seq(X) /\ b \in Seq(X) /\ Len(a) = m /\ Len(b) = m
  BY <1>1, <1>2, <1>3
<1>5. \A i \in 1..m : a[i] = b[i]
  BY <1>1, <1>2, <1>3
<1>6. a = b
  BY <1>4, <1>5
<1> QED
  BY <1>1, <1>3, <1>6 DEF SX!IsPrefix

\* A sequence cut in two is its two parts.
LEMMA CutInTwo ==
  ASSUME NEW X, NEW s \in Seq(X), NEW n \in 0..Len(s)
  PROVE  /\ SubSeq(s, 1, n) \in Seq(X) /\ SubSeq(s, n + 1, Len(s)) \in Seq(X)
         /\ SubSeq(s, 1, n) \o SubSeq(s, n + 1, Len(s)) = s
<1>1. /\ 1 \in 1..(Len(s) + 1) /\ n \in (1 - 1)..Len(s) /\ Len(s) \in n..Len(s)
      /\ SubSeq(s, 1, n) \in Seq(X) /\ SubSeq(s, n + 1, Len(s)) \in Seq(X)
  OBVIOUS
<1>2. SubSeq(s, 1, n) \o SubSeq(s, n + 1, Len(s)) = SubSeq(s, 1, Len(s))
  BY <1>1, ConcatAdjacentSubSeq
<1>3. SubSeq(s, 1, Len(s)) = s
  BY SubSeqFull
<1> QED
  BY <1>1, <1>2, <1>3

\* What a write takes from outBuffer_ it puts behind what is on the wire.
LEMMA WriteSomeKeeps ==
  ASSUME NEW s \in Data, wire \in Seq(Piece), NEW n \in 0..Len(s.out), WriteSome(s, n)
  PROVE  /\ wire' \in Seq(Piece) /\ d'.out \in Seq(Piece) /\ wire' \o d'.out = wire \o s.out
         /\ d'.error = s.error /\ d'.fin = s.fin /\ d'.state = s.state
         /\ d'.inBuffer = s.inBuffer
<1>1. PICK out \in Seq(Piece) : out = s.out /\ n \in 0..Len(out)
  BY DEF Data
<1>2. PICK a, b : a = SubSeq(out, 1, n) /\ b = SubSeq(out, n + 1, Len(out))
  OBVIOUS
<1>3. wire' = wire \o a /\ d' = [s EXCEPT !.out = b]
  BY <1>1, <1>2 DEF WriteSome
<1>4. a \in Seq(Piece) /\ b \in Seq(Piece)
  BY <1>1, <1>2
<1>5. a \o b = out
  BY <1>1, <1>2, CutInTwo
<1>6. (wire \o a) \o b = wire \o (a \o b) /\ wire \o a \in Seq(Piece)
  <2>1. wire \in Seq(Piece)
    OBVIOUS
  <2>2. (wire \o a) \o b = wire \o (a \o b)
    <3>1. PICK w \in Seq(Piece) : w = wire
      BY <2>1
    <3>2. PICK x \in Seq(Piece) : x = a
      BY <1>4
    <3>3. PICK y \in Seq(Piece) : y = b
      BY <1>4
    <3>4. (w \o x) \o y = w \o (x \o y)
      BY ONLY w \in Seq(Piece), x \in Seq(Piece), y \in Seq(Piece), ConcatAssociative
    <3> QED
      BY <3>1, <3>2, <3>3, <3>4
  <2> QED
    BY <1>4, <1>5, <2>1, <2>2
<1>7. /\ d'.out = b /\ d'.error = s.error /\ d'.fin = s.fin /\ d'.state = s.state
      /\ d'.inBuffer = s.inBuffer
  BY <1>3 DEF Data
<1> QED
  BY <1>1, <1>3, <1>4, <1>6, <1>7, <1>5

-----------------------------------------------------------------------------
(* Requests that arrive whole and one by one, step by step.                *)

\* After k answers the parser waits for a request, and all that is expected so
\* far is on the wire or in outBuffer_.
WaitsFor(k, t, s, w) ==
  s.state = "uri" /\ s.inBuffer = <<>> /\ t = EndOf(k) /\ w \o s.out = AllExpected(k)

\* It has read all of the next request and still waits for more of it.
AwaitsRest(k, t, s, w) ==
  /\ s.state \in {"headers", "body"} /\ k + 1 <= Len(reqs) /\ t = EndOf(k + 1)
  /\ s.out = <<>> /\ w = AllExpected(k)

\* What is on the wire while requests arrive whole and one by one.
InOrder ==
  calm => /\ wire \in Seq(Piece) /\ pc # "again"
          /\ \E n \in Delivered : SX!IsPrefix(wire, AllExpected(n))
          /\ pc # "closed" => \/ WaitsFor(Len(answers), taken, d, wire)
                              \/ AwaitsRest(Len(answers), taken, d, wire)

\* The client does not change its mind.
LEMMA SameExpected ==
  ASSUME reqs' = reqs
  PROVE  \A n : AllExpected(n)' = AllExpected(n)
<1>1. ASSUME NEW n PROVE AllExpected(n)' = AllExpected(n)
  BY DEF AllExpected
<1> QED
  BY <1>1

\* What a step has to show.
LEMMA StaysInOrder ==
  ASSUME Typed, reqs' = reqs, NEW t \in Nat, taken' = t, wire' \in Seq(Piece),
         pc' # "again", NEW n \in 0..Len(reqs), EndOf(n) <= t,
         SX!IsPrefix(wire', AllExpected(n)), NEW k, k = Len(answers'),
         pc' # "closed" => WaitsFor(k, t, d', wire') \/ AwaitsRest(k, t, d', wire')
  PROVE  InOrder'
<1>1. Stream' = Stream /\ \A i : EndOf(i)' = EndOf(i)
  BY SameEnds
<1>2. \A i : AllExpected(i)' = AllExpected(i)
  BY SameExpected
<1>3. n \in Delivered'
  <2>1. Delivered' = {i \in 0..Len(reqs') : EndOf(i)' <= taken'}
    BY DEF Delivered
  <2> QED
    BY <1>1, <2>1
<1>4. SX!IsPrefix(wire', AllExpected(n)')
  BY <1>2
<1>5. PICK e, f, x : e = EndOf(k) /\ f = EndOf(k + 1) /\ x = AllExpected(k)
  OBVIOUS
<1>6. /\ EndOf(Len(answers))' = e /\ EndOf(Len(answers) + 1)' = f
      /\ AllExpected(Len(answers))' = x
  <2>1. EndOf(Len(answers))' = EndOf(k) /\ EndOf(Len(answers) + 1)' = EndOf(k + 1)
    BY DEF EndOf
  <2>2. AllExpected(Len(answers))' = AllExpected(k)
    BY DEF AllExpected
  <2> QED
    BY <1>5, <2>1, <2>2
<1>7. pc' # "closed" => \/ WaitsFor(Len(answers), taken, d, wire)'
                        \/ AwaitsRest(Len(answers), taken, d, wire)'
  BY <1>5, <1>6 DEF WaitsFor, AwaitsRest
<1>8. (\E i \in Delivered : SX!IsPrefix(wire, AllExpected(i)))'
  BY <1>3, <1>4
<1> QED
  BY <1>7, <1>8 DEF InOrder

\* A sequence is a beginning of itself, and nothing added to it leaves it as it is.
LEMMA NothingAdded ==
  ASSUME NEW X, NEW s \in Seq(X)
  PROVE  s \o <<>> = s /\ SX!IsPrefix(s, s)
<1>1. s \o <<>> = s
  OBVIOUS
<1>2. Len(s) \in Nat
  OBVIOUS
<1> QED
  BY <1>1, <1>2 DEF SX!IsPrefix

\* What has been counted: the answers, and what is expected of them.
LEMMA Counted ==
  ASSUME Typed, Conversing, NEW k, k = Len(answers)
  PROVE  /\ k \in Nat /\ k \in 0..Len(reqs) /\ Len(reqs) \in Nat
         /\ EndOf(k) \in Nat /\ AllExpected(k) \in Seq(Piece)
<1>1. Len(reqs) \in Nat /\ k \in Nat /\ k \in 0..Len(reqs)
  BY StreamThere DEF Conversing
<1>2. EndOf(k) \in Nat
  BY <1>1, StreamThere
<1>3. CASE k = 0
  BY <1>1, <1>2, <1>3, NothingExpected, EmptySeq
<1>4. CASE k # 0
  <2>1. PICK j \in Nat : k = j + 1
    <3>1. k - 1 \in Nat /\ k = (k - 1) + 1
      BY <1>1, <1>4
    <3> QED
      BY <3>1
  <2>2. AllExpected(j + 1) \in Seq(Piece)
    <3>1. Typed /\ j + 1 <= Len(reqs)
      BY <1>1, <2>1
    <3> QED
      BY ONLY <3>1, j \in Nat, OneMoreExpected
  <2> QED
    BY <1>1, <1>2, <2>1, <2>2
<1> QED
  BY <1>3, <1>4

\* A read that keeps to the rule takes nothing, or the next request.
LEMMA ReadsOne ==
  ASSUME Typed, NEW k \in Nat, k = Len(answers), k <= Len(reqs),
         taken = EndOf(k) \/ (k + 1 <= Len(reqs) /\ taken = EndOf(k + 1)),
         NEW upto \in taken..Len(Stream), Whole(upto), InTurn(upto)
  PROVE  \/ upto = taken
         \/ k + 1 <= Len(reqs) /\ taken = EndOf(k) /\ upto = EndOf(k + 1)
<1>1. PICK N \in Nat : N = Len(reqs)
  BY StreamThere
<1>2. PICK t \in Nat, u \in Nat : t = taken /\ u = upto /\ t <= u
  BY StreamKnown DEF Typed
<1> SUFFICES ASSUME u # t
             PROVE  k + 1 <= N /\ t = EndOf(k) /\ u = EndOf(k + 1)
  BY <1>1, <1>2
<1>3. PICK n \in 1..N : u = EndOf(n)
  BY <1>1, <1>2 DEF Whole
<1>4. n \in Nat /\ n <= N /\ k <= N
  BY <1>1
<1>5. EndOf(k) \in Nat /\ EndOf(n) \in Nat
  BY <1>1, <1>4, EndsOrdered
<1>6. EndOf(k) <= t
  <2>1. k + 1 <= N => EndOf(k + 1) \in Nat /\ EndOf(k) < EndOf(k + 1)
    BY <1>1, EndsRise
  <2> QED
    BY <1>1, <1>2, <1>5, <2>1
<1>7. k < n
  <2> SUFFICES ASSUME n <= k PROVE FALSE
    BY <1>4
  <2>1. EndOf(n) <= EndOf(k)
    BY <1>1, <1>4, EndsOrdered
  <2> QED
    BY <1>2, <1>3, <1>5, <1>6, <2>1
<1>8. k + 1 <= N /\ k + 1 <= n /\ k + 1 \in Nat
  BY <1>4, <1>7
<1>9. u <= EndOf(k + 1)
  BY <1>1, <1>2, <1>8 DEF InTurn
<1>10. EndOf(k + 1) \in Nat /\ EndOf(k + 1) <= EndOf(n)
  BY <1>1, <1>4, <1>8, EndsOrdered
<1>11. u = EndOf(k + 1)
  BY <1>3, <1>5, <1>9, <1>10
<1>12. t = EndOf(k)
  BY <1>2, <1>11
<1> QED
  BY <1>8, <1>11, <1>12

\* A write of nothing.
LEMMA NothingWritten ==
  ASSUME NEW s \in Data, s.out = <<>>, wire \in Seq(Piece), NEW n \in 0..Len(s.out),
         WriteSome(s, n)
  PROVE  /\ wire' = wire /\ d'.out = <<>> /\ d'.state = s.state /\ d'.inBuffer = s.inBuffer
<1>1. n = 0
  OBVIOUS
<1>2. wire' \in Seq(Piece) /\ d'.out \in Seq(Piece) /\ wire' \o d'.out = wire \o s.out
      /\ d'.state = s.state /\ d'.inBuffer = s.inBuffer
  BY WriteSomeKeeps
<1>3. d'.out = <<>>
  <2>1. d' = [s EXCEPT !.out = SubSeq(@, n + 1, Len(@))]
    BY DEF WriteSome
  <2>2. d' = [s EXCEPT !.out = SubSeq(s.out, n + 1, Len(s.out))]
    BY <2>1
  <2>3. SubSeq(s.out, n + 1, Len(s.out)) = <<>>
    BY <1>1
  <2> QED
    BY <2>2, <2>3 DEF Data
<1>4. wire' = wire
  <2>1. wire' \o <<>> = wire' /\ wire \o <<>> = wire
    BY <1>2, NothingAdded
  <2> QED
    BY <1>2, <1>3, <2>1
<1> QED
  BY <1>2, <1>3, <1>4

\* Whatever is left of outBuffer_, what is on the wire is a beginning.
LEMMA PartSent ==
  ASSUME NEW s \in Data, wire \in Seq(Piece), NEW n \in 0..Len(s.out), WriteSome(s, n),
         NEW x, x = wire \o s.out
  PROVE  wire' \in Seq(Piece) /\ SX!IsPrefix(wire', x) /\ wire' \o d'.out = x
<1>1. wire' \in Seq(Piece) /\ d'.out \in Seq(Piece) /\ wire' \o d'.out = x
  BY WriteSomeKeeps
<1> QED
  BY <1>1, BeginsWith

\* handleRead refuses the request it was given.
LEMMA RefuseInOrder ==
  ASSUME Typed, Conversing, reqs' = reqs, NEW k, k = Len(answers), k + 1 <= Len(reqs),
         wire = AllExpected(k), taken' = EndOf(k + 1),
         NEW p \in Data, Outcome(p, reqs[k + 1]), Refuse(p)
  PROVE  InOrder'
<1>1. /\ k \in Nat /\ Len(reqs) \in Nat /\ wire \in Seq(Piece)
  BY Counted
<1>2. PICK m \in 0..Len(reqs) : m = k + 1
  BY <1>1
<1>3. PICK r, e : m = k + 1 /\ r = reqs[k + 1] /\ e = EndOf(k + 1)
  BY <1>2
<1>4. /\ e \in Nat /\ EndOf(k) \in Nat /\ EndOf(k) <= e /\ EndOf(m) <= e
  BY <1>1, <1>3, EndsRise
<1>5. /\ AllExpected(m) \in Seq(Piece) /\ AllExpected(m) = wire \o Expected(r)
  BY <1>1, <1>3, OneMoreExpected
<1>6. p.error /\ Page(p) = Expected(r)
  BY <1>3 DEF Outcome, Refuse
<1>7. pc' = "closed" /\ answers' = answers /\ wire' \in {wire, wire \o Page(p)}
  BY DEF Refuse, Page
<1>8. CASE wire' = wire
  <2>1. SX!IsPrefix(wire', AllExpected(k))
    BY <1>1, <1>8, NothingAdded
  <2>2. k \in 0..Len(reqs)
    BY <1>1
  <2> QED
    BY <1>1, <1>3, <1>4, <1>7, <1>8, <2>1, <2>2, StaysInOrder
<1>9. CASE wire' = wire \o Page(p)
  <2>1. wire' = AllExpected(m)
    BY <1>5, <1>6, <1>9
  <2>2. SX!IsPrefix(wire', AllExpected(m)) /\ wire' \in Seq(Piece)
    BY <1>5, <2>1, NothingAdded
  <2> QED
    BY <1>1, <1>3, <1>4, <1>7, <2>2, StaysInOrder
<1> QED
  BY <1>7, <1>8, <1>9

\* handleRead waits for the rest of it, or for the next one; the client may have
\* said all it had to say.
LEMMA AwaitInOrder ==
  ASSUME Typed, Conversing, reqs' = reqs, NEW k, k = Len(answers),
         wire = AllExpected(k), NEW t \in Nat, taken' = t, EndOf(k) <= t,
         NEW p \in Data, p.out = <<>>, Await(p),
         WaitsFor(k, t, p, wire) \/ AwaitsRest(k, t, p, wire)
  PROVE  InOrder'
<1>1. k \in Nat /\ k \in 0..Len(reqs) /\ wire \in Seq(Piece)
  BY Counted
<1>2. answers' = answers
  BY DEF Await
<1>3. PICK n \in 0..Len(p.out) : WriteSome(p, n) /\ pc' = Settled(d')
  BY DEF Await, WriteFails
<1>4. wire' = wire /\ d'.out = <<>> /\ d'.state = p.state /\ d'.inBuffer = p.inBuffer
  BY <1>1, <1>3, NothingWritten
<1>5. pc' # "again"
  BY <1>3 DEF Settled
<1>6. WaitsFor(k, t, d', wire') \/ AwaitsRest(k, t, d', wire')
  BY <1>4 DEF WaitsFor, AwaitsRest
<1>7. SX!IsPrefix(wire', AllExpected(k)) /\ wire' \in Seq(Piece)
  BY <1>1, <1>4, NothingAdded
<1> QED
  BY <1>1, <1>2, <1>5, <1>6, <1>7, StaysInOrder

\* handleRead answers it: the answer is behind the others.
LEMMA AnswerInOrder ==
  ASSUME Typed, Conversing, reqs' = reqs, NEW k, k = Len(answers), k + 1 <= Len(reqs),
         wire = AllExpected(k), taken' = EndOf(k + 1),
         NEW p \in Data, Outcome(p, reqs[k + 1]), Answer(p)
  PROVE  InOrder'
<1>1. /\ k \in Nat /\ Len(reqs) \in Nat /\ wire \in Seq(Piece)
  BY Counted
<1>2. PICK m \in 0..Len(reqs) : m = k + 1
  BY <1>1
<1>3. PICK r, e : m = k + 1 /\ r = reqs[k + 1] /\ e = EndOf(k + 1)
  BY <1>2
<1>4. /\ e \in Nat /\ EndOf(k) \in Nat /\ EndOf(k) <= e /\ EndOf(m) <= e
  BY <1>1, <1>3, EndsRise
<1>5. /\ AllExpected(m) \in Seq(Piece) /\ AllExpected(m) = wire \o Expected(r)
  BY <1>1, <1>3, OneMoreExpected
<1>6. ~p.error /\ p.inBuffer = <<>> /\ p.out = Expected(r)
  BY <1>3 DEF Outcome, Answer
<1>7. Len(answers') = m
  <2>1. PICK a : answers' = Append(answers, a)
    BY DEF Answer
  <2>2. answers \in Seq(AnswerRecord)
    BY DEF Conversing
  <2> QED
    BY <1>1, <1>3, <2>1, <2>2
<1>8. PICK c \in Data : c = Cleared(p) /\ c.state = "uri" /\ c.inBuffer = <<>> /\ c.out = p.out
  <2>1. PICK c : c = Cleared(p)
    OBVIOUS
  <2>2. c \in Data /\ c.state = "uri" /\ c.inBuffer = <<>>
    BY <1>6, <2>1, ClearedType
  <2>3. c.out = p.out
    BY <2>1 DEF Cleared, Data
  <2> QED
    BY <2>1, <2>2, <2>3
<1>9. \/ \E n \in 0..Len(c.out) : WriteSome(c, n) /\ pc' = Settled(d')
      \/ pc' = "closed" /\ wire' = wire
  BY <1>6, <1>8 DEF Answer, WriteFails
<1>10. CASE pc' = "closed" /\ wire' = wire
  <2>1. SX!IsPrefix(wire', AllExpected(m))
    <3>1. Expected(r) \in Seq(Piece)
      BY <1>6 DEF Data
    <3> QED
      BY <1>1, <1>5, <1>10, <3>1, BeginsWith
  <2> QED
    BY <1>1, <1>3, <1>4, <1>7, <1>10, <2>1, StaysInOrder
<1>11. CASE \E n \in 0..Len(c.out) : WriteSome(c, n) /\ pc' = Settled(d')
  <2>1. PICK n \in 0..Len(c.out) : WriteSome(c, n) /\ pc' = Settled(d')
    BY <1>11
  <2>2. wire \o c.out = AllExpected(m)
    BY <1>5, <1>6, <1>8
  <2>3. /\ wire' \in Seq(Piece) /\ SX!IsPrefix(wire', AllExpected(m))
        /\ wire' \o d'.out = AllExpected(m)
    BY <1>1, <2>1, <2>2, PartSent
  <2>4. d'.state = "uri" /\ d'.inBuffer = <<>>
    BY <1>1, <1>8, <2>1, WriteSomeKeeps
  <2>5. WaitsFor(m, e, d', wire')
    BY <1>3, <2>3, <2>4 DEF WaitsFor
  <2>6. pc' # "again"
    BY <2>1 DEF Settled
  <2> QED
    BY <1>3, <1>4, <1>7, <2>3, <2>5, <2>6, StaysInOrder
<1> QED
  BY <1>9, <1>10, <1>11

\* handleRead, when all that was expected is on the wire.
LEMMA ReadInOrder ==
  ASSUME Typed, Fresh, Conversing, InOrder, calm, pc = "wait", d.out = <<>>,
         NEW upto \in Available, NEW fin \in BOOLEAN, upto > taken \/ fin,
         HandleRead(upto, fin), Whole(upto), InTurn(upto)
  PROVE  InOrder'
<1>1. /\ Stream \in Seq(Token) /\ Len(Stream) \in Nat /\ taken \in 0..Len(Stream)
      /\ d \in Data /\ ~d.error /\ taken \in Nat
  BY StreamKnown DEF Typed
<1>2. upto \in taken..Len(Stream) /\ upto \in Nat
  BY <1>1 DEF Available
<1>3. PICK k : k = Len(answers)
  OBVIOUS
<1>4. /\ k \in Nat /\ k \in 0..Len(reqs) /\ Len(reqs) \in Nat
      /\ EndOf(k) \in Nat /\ AllExpected(k) \in Seq(Piece)
  BY <1>3, Counted
<1>5. WaitsFor(k, taken, d, wire) \/ AwaitsRest(k, taken, d, wire)
  BY <1>3 DEF InOrder
<1>6. wire = AllExpected(k)
  <2>1. wire \o <<>> = wire
    BY NothingAdded DEF InOrder
  <2> QED
    BY <1>5, <2>1 DEF WaitsFor, AwaitsRest
<1>7. PICK buf : buf = d.inBuffer \o SubSeq(Stream, taken + 1, upto)
  OBVIOUS
<1>8. PICK s : s = [d EXCEPT !.inBuffer = buf, !.fin = fin]
  OBVIOUS
<1>9. s = [d EXCEPT !.inBuffer = @ \o SubSeq(Stream, taken + 1, upto), !.fin = fin]
  BY <1>7, <1>8
<1>10. /\ s \in Data /\ ~s.error /\ s.state = d.state /\ s.hState = d.hState
       /\ s.headers = d.headers /\ s.out = <<>> /\ s.inBuffer = buf
  <2>1. SubSeq(Stream, taken + 1, upto) \in Seq(Token)
    BY <1>1, <1>2
  <2>2. d.inBuffer \in Seq(Token)
    BY <1>1 DEF Data
  <2>3. buf \in Seq(Token)
    BY <1>7, <2>1, <2>2
  <2> QED
    BY <1>1, <1>8, <2>3 DEF Data
<1>11. PICK p : p = IF fin /\ upto = taken THEN s ELSE Parsed(s)
  OBVIOUS
<1>12. taken' = upto /\ reqs' = reqs /\ (Refuse(p) \/ Await(p) \/ Answer(p))
  BY <1>9, <1>11 DEF HandleRead
<1>13. CASE upto = taken
  <2>1. p = s
    BY <1>1, <1>11, <1>13
  <2>2. s.state \in {"uri", "headers", "body"}
    BY <1>5, <1>10 DEF WaitsFor, AwaitsRest
  <2>3. Await(p)
    BY <1>10, <1>12, <2>1, <2>2 DEF Refuse, Answer
  <2>4. d.inBuffer = <<>> => s.inBuffer = <<>>
    BY <1>1, <1>7, <1>10, <1>13
  <2>5. WaitsFor(k, upto, s, wire) \/ AwaitsRest(k, upto, s, wire)
    BY <1>5, <1>10, <1>13, <2>4 DEF WaitsFor, AwaitsRest
  <2>6. EndOf(k) <= upto
    <3>1. k + 1 <= Len(reqs) => EndOf(k + 1) \in Nat /\ EndOf(k) < EndOf(k + 1)
      BY <1>4, EndsRise
    <3> QED
      BY <1>2, <1>4, <2>5, <3>1 DEF WaitsFor, AwaitsRest
  <2> QED
    BY <1>2, <1>3, <1>6, <1>10, <1>12, <2>1, <2>3, <2>5, <2>6, AwaitInOrder
<1>14. CASE upto # taken
  <2>1. k + 1 <= Len(reqs) /\ taken = EndOf(k) /\ upto = EndOf(k + 1)
    <3>1. taken = EndOf(k) \/ (k + 1 <= Len(reqs) /\ taken = EndOf(k + 1))
      BY <1>5 DEF WaitsFor, AwaitsRest
    <3>2. k <= Len(reqs)
      BY <1>4
    <3> QED
      BY <1>2, <1>3, <1>4, <1>14, <3>1, <3>2, ReadsOne
  <2>2. d.state = "uri" /\ d.inBuffer = <<>>
    <3>1. EndOf(k + 1) \in Nat /\ EndOf(k) < EndOf(k + 1)
      BY <1>4, <2>1, EndsRise
    <3> QED
      BY <1>4, <1>5, <2>1, <3>1 DEF WaitsFor, AwaitsRest
  <2>3. PICK r, A : r = reqs[k + 1] /\ A = EndOf(k)
    OBVIOUS
  <2>4. There(Stream, r, A) /\ upto = BodyOf(r, A) + Len(r.body)
    <3>1. k < Len(reqs)
      BY <1>4, <2>1
    <3> QED
      BY <1>4, <2>1, <2>3, <3>1, StreamThere
  <2>5. Holds(Stream, A, upto, s.inBuffer)
    <3>1. Holds(Stream, A, taken, d.inBuffer)
      BY <1>1, <2>1, <2>2, <2>3, HoldsNothing
    <3> QED
      BY <1>2, <1>7, <1>10, <3>1, HoldsMore
  <2>6. s.hState = "start" /\ s.headers = {}
    BY <1>10, <2>2 DEF Fresh, FreshData
  <2>7. p = Parsed(s)
    BY <1>11, <1>14
  <2>8. p \in Data
    BY <1>10, <2>7, ParsedType
  <2>9. Outcome(p, r)
    BY <1>10, <2>2, <2>4, <2>5, <2>6, <2>7, WholeParsed
  <2>10. CASE Refuse(p)
    BY <1>3, <1>6, <1>12, <2>1, <2>3, <2>8, <2>9, <2>10, RefuseInOrder
  <2>11. CASE Await(p)
    <3>1. p.state \in {"headers", "body"} /\ p.out = <<>>
      BY <2>9, <2>11 DEF Outcome, Await
    <3>2. AwaitsRest(k, upto, p, wire)
      BY <1>6, <2>1, <3>1 DEF AwaitsRest
    <3>3. EndOf(k) <= upto
      BY <1>2, <2>1
    <3> QED
      BY <1>2, <1>3, <1>6, <1>12, <2>8, <2>11, <3>1, <3>2, <3>3, AwaitInOrder
  <2>12. CASE Answer(p)
    BY <1>3, <1>6, <1>12, <2>1, <2>3, <2>8, <2>9, <2>12, AnswerInOrder
  <2> QED
    BY <1>12, <2>10, <2>11, <2>12
<1> QED
  BY <1>13, <1>14

\* handleWrite, and what is left of outBuffer_.
LEMMA WriteInOrder ==
  ASSUME Typed, Conversing, InOrder, WriteEvent
  PROVE  InOrder'
<1> SUFFICES ASSUME calm PROVE InOrder'
  <2>1. calm' = calm
    BY DEF WriteEvent
  <2> QED
    BY <2>1 DEF InOrder
<1>1. /\ reqs' = reqs /\ taken' = taken /\ answers' = answers /\ pc = "wait" /\ d.out # <<>>
  BY DEF WriteEvent
<1>2. PICK k : k = Len(answers)
  OBVIOUS
<1>3. /\ k \in 0..Len(reqs) /\ EndOf(k) \in Nat /\ AllExpected(k) \in Seq(Piece)
  BY <1>2, Counted
<1>4. WaitsFor(k, taken, d, wire) /\ wire \in Seq(Piece)
  BY <1>1, <1>2 DEF InOrder, AwaitsRest
<1>5. /\ d \in Data /\ d.out \in Seq(Piece) /\ taken = EndOf(k) /\ wire \o d.out = AllExpected(k)
      /\ d.state = "uri" /\ d.inBuffer = <<>>
  BY <1>4 DEF Typed, Data, WaitsFor
<1>6. CASE WriteFails(d)
  <2>1. pc' = "closed" /\ wire' = wire
    BY <1>6 DEF WriteFails
  <2>2. SX!IsPrefix(wire', AllExpected(k))
    BY <1>4, <1>5, <2>1, BeginsWith
  <2> QED
    BY <1>1, <1>2, <1>3, <1>4, <1>5, <2>1, <2>2, StaysInOrder
<1>7. CASE \E n \in 1..Len(d.out) : WriteSome(d, n) /\ pc' = Settled(d')
  <2>1. PICK n \in 0..Len(d.out) : WriteSome(d, n) /\ pc' = Settled(d')
    BY <1>7
  <2>2. /\ wire' \in Seq(Piece) /\ SX!IsPrefix(wire', AllExpected(k))
        /\ wire' \o d'.out = AllExpected(k)
    BY <1>4, <1>5, <2>1, PartSent
  <2>3. d'.state = "uri" /\ d'.inBuffer = <<>>
    BY <1>4, <1>5, <2>1, WriteSomeKeeps
  <2>4. WaitsFor(k, taken, d', wire')
    BY <1>5, <2>2, <2>3 DEF WaitsFor
  <2>5. pc' # "again"
    BY <2>1 DEF Settled
  <2>6. PICK t \in Nat : t = taken /\ taken' = t /\ EndOf(k) <= t
    BY <1>1, <1>3, <1>5
  <2>7. WaitsFor(k, t, d', wire') /\ k = Len(answers')
    BY <1>1, <1>2, <2>4, <2>6
  <2> QED
    BY <1>1, <1>3, <2>2, <2>5, <2>6, <2>7, StaysInOrder
<1> QED
  BY <1>6, <1>7 DEF WriteEvent

\* A new connection.
LEMMA InitInOrder == Init => InOrder
<1> SUFFICES ASSUME Init PROVE InOrder
  OBVIOUS
<1>1. Typed /\ Conversing
  BY InitTyped, InitConversing
<1>2. /\ answers = <<>> /\ taken = 0 /\ d.inBuffer = <<>> /\ d.state = "uri" /\ d.out = <<>>
      /\ wire = <<>> /\ pc = "wait"
  BY DEF Init
<1>3. Len(answers) = 0 /\ <<>> \in Seq(Piece)
  BY <1>2
<1>4. EndOf(0) = 0 /\ 0 \in 0..Len(reqs)
  <2>1. PICK N \in 1..MaxRequests : reqs \in [1..N -> Request]
    BY DEF Init
  <2>2. N \in Nat
    BY <2>1, Bounds
  <2>3. EndOf(0) = 0
    BY <2>1, <2>2, StreamLayout
  <2>4. Len(reqs) \in Nat
    BY <1>1, StreamThere
  <2> QED
    BY <2>3, <2>4
<1>5. wire \o d.out = AllExpected(0) /\ SX!IsPrefix(wire, AllExpected(0))
  BY <1>2, <1>3, NothingExpected, NothingAdded
<1>6. WaitsFor(0, taken, d, wire)
  BY <1>2, <1>4, <1>5 DEF WaitsFor
<1>7. 0 \in Delivered
  BY <1>2, <1>4 DEF Delivered
<1> QED
  BY <1>2, <1>3, <1>5, <1>6, <1>7 DEF InOrder

\* Every step keeps the wire in order.
LEMMA InOrderStep == Typed /\ Fresh /\ Conversing /\ InOrder /\ [Next]_vars => InOrder'
<1> SUFFICES ASSUME Typed, Fresh, Conversing, InOrder, [Next]_vars PROVE InOrder'
  OBVIOUS
<1>1. CASE ReadEvent
  <2> SUFFICES ASSUME calm' PROVE InOrder'
    BY DEF InOrder
  <2>1. PICK upto \in Available, fin \in BOOLEAN : (upto > taken \/ fin) /\ HandleRead(upto, fin)
    BY <1>1 DEF ReadEvent
  <2>2. calm /\ Whole(upto) /\ InTurn(upto)
    BY <2>1 DEF HandleRead
  <2>3. pc = "wait" /\ d.out = <<>>
    BY <1>1 DEF ReadEvent
  <2> QED
    BY <2>1, <2>2, <2>3, ReadInOrder
<1>2. CASE ReadAgain
  <2> SUFFICES ASSUME calm' PROVE FALSE
    BY DEF InOrder
  <2>1. PICK upto \in Available, fin \in BOOLEAN : HandleRead(upto, fin)
    BY <1>2 DEF ReadAgain
  <2>2. calm
    BY <2>1 DEF HandleRead
  <2> QED
    BY <1>2, <2>2 DEF InOrder, ReadAgain
<1>3. CASE WriteEvent
  BY <1>3, WriteInOrder
<1>4. CASE UNCHANGED vars
  BY <1>4 DEF vars, InOrder, WaitsFor, AwaitsRest, Delivered, EndOf, AllExpected
<1>5. Done => UNCHANGED vars
  BY DEF Done
<1> QED
  BY <1>1, <1>2, <1>3, <1>4, <1>5 DEF Next

\* Requests that arrive whole and one by one are answered as they should be: the
\* responses follow each other on the wire, none is cut by another, and a
\* connection that waits for the next request has sent the one before
\* (HttpData.cpp:209-220, 439-529).
THEOREM AnsweredInOrder == Spec => []WireInOrder
<1>1. Typed /\ Conversing /\ InOrder => WireInOrder
  <2> SUFFICES ASSUME Typed, Conversing, InOrder, calm PROVE Ordered
    BY DEF WireInOrder
  <2>1. ASSUME pc = "wait", d.state = "uri", d.out = <<>>
        PROVE  \E n \in Delivered : EndOf(n) = taken /\ wire = AllExpected(n)
    <3>1. PICK k : k = Len(answers)
      OBVIOUS
    <3>2. WaitsFor(k, taken, d, wire) /\ wire \in Seq(Piece)
      BY <2>1, <3>1 DEF InOrder, AwaitsRest
    <3>3. wire \o <<>> = wire
      BY <3>2, NothingAdded
    <3>4. EndOf(k) = taken /\ wire = AllExpected(k)
      BY <2>1, <3>2, <3>3 DEF WaitsFor
    <3>5. k \in Delivered
      BY <3>1, <3>4, Counted DEF Delivered
    <3> QED
      BY <3>4, <3>5
  <2> QED
    BY <2>1 DEF InOrder, Ordered
<1> QED
  BY <1>1, InitTyped, TypedStep, InitConversing, ConversingStep, InitInOrder, InOrderStep,
     PTL DEF Spec
=============================================================================
