--------------------------- MODULE FastCgiProofs ---------------------------
(***************************************************************************)
(* Proofs about FastCgi for any parameters, body and answer, any limits of *)
(* the lengths, and connections that break anywhere: php-fpm finds the     *)
(* records of the request and the body in them; the client is given the    *)
(* answer, the whole answer, once php-fpm has ended it, unless it holds a  *)
(* body that RecvRecord does not skip.                                     *)
(***************************************************************************)
EXTENDS FastCgi, SequenceTheorems, FiniteSetTheorems, NaturalsInduction,
        WellFoundedInduction, TLAPS

-----------------------------------------------------------------------------
(* What is written to php-fpm: records of a header and units of data.      *)

Mark == {"responder", "length", "name", "value", Junk}

Leader == [type : {"BEGIN", "PARAMS", "STDIN"}, length : Nat, padding : Nat]

Written == Leader \cup [type : {"data"}, unit : Nat \cup Mark]

\* u is s and the first n units of rec.
Appends(u, s, rec, n) ==
  /\ u \in Seq(Written)
  /\ Len(u) = Len(s) + n
  /\ \A i \in 1..Len(s) : u[i] = s[i]
  /\ \A i \in (Len(s) + 1)..(Len(s) + n) : u[i] = rec[i - Len(s)]

\* A header, and nothing but data behind it.
Shaped(rec) ==
  /\ rec \in Seq(Written)
  /\ Len(rec) >= 1
  /\ rec[1] \in Leader
  /\ \A j \in 2..Len(rec) : rec[j].type = "data"

\* As much data as the header announces.
Full(rec) == Len(rec) = 1 + rec[1].length + rec[1].padding

\* Part of a record is appended to a sequence of records.
LEMMA AppendsPart ==
  ASSUME NEW s \in Seq(Written), NEW rec \in Seq(Written), NEW n \in 0..Len(rec)
  PROVE  Appends(s \o SubSeq(rec, 1, n), s, rec, n)
<1>1. /\ SubSeq(rec, 1, n) \in Seq(Written)
      /\ Len(SubSeq(rec, 1, n)) = n
      /\ \A i \in 1..n : SubSeq(rec, 1, n)[i] = rec[i]
  OBVIOUS
<1> QED
  BY <1>1 DEF Appends

\* rio_writen appends the whole record, or a part of it and fails.
LEMMA WritenAppends ==
  ASSUME NEW rec \in Seq(Written), NEW next, sent \in Seq(Written),
         Writen(rec, next)
  PROVE  \E n \in 0..Len(rec) :
            /\ Appends(sent', sent, rec, n)
            /\ (n = Len(rec) /\ phase' = next) \/ phase' = "failed"
<1>1. CASE sent' = sent \o rec /\ phase' = next
  <2>1. Len(rec) \in 0..Len(rec)
    OBVIOUS
  <2>2. Appends(sent', sent, rec, Len(rec))
    BY <1>1 DEF Appends
  <2> QED
    BY <1>1, <2>1, <2>2
<1>2. CASE (\E n \in 0..(Len(rec) - 1) : sent' = sent \o SubSeq(rec, 1, n))
             /\ phase' = "failed"
  <2>1. PICK n \in 0..(Len(rec) - 1) : sent' = sent \o SubSeq(rec, 1, n)
    BY <1>2
  <2>2. n \in 0..Len(rec)
    OBVIOUS
  <2>3. Appends(sent', sent, rec, n)
    BY <2>1, <2>2, AppendsPart
  <2> QED
    BY <1>2, <2>2, <2>3
<1> QED
  BY <1>1, <1>2 DEF Writen

\* A record is a header and the data behind it.
LEMMA RecordShaped ==
  ASSUME NEW h \in Leader, NEW d \in Seq(Nat \cup Mark)
  PROVE  /\ Shaped(<<h>> \o Data(d))
         /\ (<<h>> \o Data(d))[1] = h
         /\ Len(<<h>> \o Data(d)) = 1 + Len(d)
         /\ \A j \in 1..Len(d) : (<<h>> \o Data(d))[j + 1].unit = d[j]
<1>1. /\ Data(d) \in Seq(Written) /\ Len(Data(d)) = Len(d)
      /\ \A j \in 1..Len(d) : Data(d)[j] = [type |-> "data", unit |-> d[j]]
  BY DEF Data, Written
<1>2. <<h>> \in Seq(Written) /\ Len(<<h>>) = 1 /\ <<h>>[1] = h
  BY DEF Written
<1>3. PICK rec : rec = <<h>> \o Data(d)
  OBVIOUS
<1>4. /\ rec \in Seq(Written)
      /\ Len(rec) = 1 + Len(d)
      /\ rec[1] = h
      /\ \A j \in 2..(1 + Len(d)) : rec[j] = Data(d)[j - 1]
  BY <1>1, <1>2, <1>3
<1>5. ASSUME NEW j \in 1..Len(d)
      PROVE  rec[j + 1].type = "data" /\ rec[j + 1].unit = d[j]
  <2>1. PICK m \in 2..(1 + Len(d)) : m = j + 1 /\ m - 1 = j
    OBVIOUS
  <2>2. rec[m] = Data(d)[j]
    BY <1>4, <2>1
  <2>3. rec[m] = [type |-> "data", unit |-> d[j]]
    BY <1>1, <2>2
  <2> QED
    BY <2>1, <2>3
<1>6. ASSUME NEW j \in 2..Len(rec) PROVE rec[j].type = "data"
  <2>1. PICK m \in 1..Len(d) : j = m + 1
    BY <1>4
  <2> QED
    BY <1>5, <2>1
<1>7. Shaped(rec)
  BY <1>4, <1>6 DEF Shaped
<1> QED
  BY <1>3, <1>4, <1>5, <1>7

-----------------------------------------------------------------------------
(* The headers announce one another.                                       *)

\* Where the headers are in s, and where the one at i announces the next.
Heads(s) == {i \in DOMAIN s : s[i].type # "data"}

Behind(s, i) == i + 1 + s[i].length + s[i].padding

\* RequestFramed says it of what was sent; only the last record may be cut.
Framed(s, cut) ==
  /\ s # <<>> => 1 \in Heads(s)
  /\ \A i \in Heads(s) :
       /\ \A j \in Heads(s) : j > i => j >= Behind(s, i)
       /\ \/ Behind(s, i) \in Heads(s) \cup {Len(s) + 1}
          \/ cut /\ Behind(s, i) > Len(s)

\* The headers of a sequence that part of a record was appended to.
LEMMA HeadsAppend ==
  ASSUME NEW s \in Seq(Written), NEW rec, Shaped(rec), NEW n \in 0..Len(rec),
         NEW u, Appends(u, s, rec, n)
  PROVE  /\ Heads(u) = IF n = 0 THEN Heads(s) ELSE Heads(s) \cup {Len(s) + 1}
         /\ \A i \in Heads(s) : i \in 1..Len(s) /\ u[i] = s[i]
         /\ n > 0 => u[Len(s) + 1] = rec[1]
<1>1. /\ DOMAIN u = 1..(Len(s) + n) /\ DOMAIN s = 1..Len(s) /\ Len(s) \in Nat
      /\ \A i \in 1..Len(s) : u[i] = s[i]
  BY DEF Appends
<1>2. n > 0 => u[Len(s) + 1] = rec[1] /\ rec[1].type # "data"
  <2>1. rec[1].type # "data"
    BY DEF Shaped, Leader
  <2>2. n > 0 => /\ Len(s) + 1 \in (Len(s) + 1)..(Len(s) + n)
                 /\ (Len(s) + 1) - Len(s) = 1
    BY <1>1 DEF Shaped
  <2>3. ASSUME n > 0 PROVE u[Len(s) + 1] = rec[1]
    <3>1. PICK m \in (Len(s) + 1)..(Len(s) + n) : m = Len(s) + 1 /\ m - Len(s) = 1
      BY <2>2, <2>3
    <3>2. u[m] = rec[m - Len(s)]
      BY DEF Appends
    <3> QED
      BY <3>1, <3>2
  <2> QED
    BY <2>1, <2>3
<1>3. \A i \in (Len(s) + 2)..(Len(s) + n) : u[i].type = "data"
  <2> SUFFICES ASSUME NEW i \in (Len(s) + 2)..(Len(s) + n)
               PROVE  u[i].type = "data"
    OBVIOUS
  <2>1. u[i] = rec[i - Len(s)] /\ i - Len(s) \in 2..Len(rec)
    BY <1>1 DEF Appends, Shaped
  <2> QED
    BY <2>1 DEF Shaped
<1>4. ASSUME NEW i \in DOMAIN u
      PROVE  i \in Heads(u) <=> (i \in Heads(s) \/ (n > 0 /\ i = Len(s) + 1))
  <2>1. n \in Nat
    BY DEF Shaped
  <2>2. CASE i \in 1..Len(s)
    BY <1>1, <2>1, <2>2 DEF Heads
  <2>3. CASE n > 0 /\ i = Len(s) + 1
    BY <1>1, <1>2, <2>1, <2>3 DEF Heads
  <2>4. CASE i \in (Len(s) + 2)..(Len(s) + n)
    BY <1>1, <1>3, <2>1, <2>4 DEF Heads
  <2> QED
    BY <1>1, <2>1, <2>2, <2>3, <2>4
<1>5. Heads(u) \subseteq DOMAIN u /\ Heads(s) \subseteq 1..Len(s)
  BY <1>1 DEF Heads
<1>6. Heads(u) = IF n = 0 THEN Heads(s) ELSE Heads(s) \cup {Len(s) + 1}
  <2>1. n \in Nat /\ (n > 0 => Len(s) + 1 \in DOMAIN u) /\ 1..Len(s) \subseteq DOMAIN u
    BY <1>1 DEF Shaped
  <2>2. CASE n = 0
    <3>1. Heads(u) \subseteq Heads(s)
      BY <1>4, <1>5, <2>2
    <3>2. Heads(s) \subseteq Heads(u)
      BY <1>4, <1>5, <2>1
    <3> QED
      BY <2>2, <3>1, <3>2
  <2>3. CASE n > 0
    <3>1. Heads(u) \subseteq Heads(s) \cup {Len(s) + 1}
      BY <1>4, <1>5, <2>3
    <3>2. Heads(s) \cup {Len(s) + 1} \subseteq Heads(u)
      BY <1>4, <1>5, <2>1, <2>3
    <3> QED
      BY <2>3, <3>1, <3>2
  <2> QED
    BY <2>1, <2>2, <2>3
<1> QED
  BY <1>1, <1>2, <1>5, <1>6

\* A record, whole or cut, behind records that announce one another.
LEMMA FramedAppend ==
  ASSUME NEW s \in Seq(Written), NEW rec, Shaped(rec), Full(rec),
         NEW n \in 0..Len(rec), NEW u, Appends(u, s, rec, n),
         Framed(s, FALSE)
  PROVE  Framed(u, n < Len(rec))
<1>1. /\ Len(s) \in Nat /\ Len(u) = Len(s) + n
      /\ Heads(s) \subseteq 1..Len(s)
      /\ \A i \in Heads(s) : Behind(u, i) = Behind(s, i)
  BY HeadsAppend DEF Appends, Behind, Heads
<1>2. \A i \in Heads(s) : Behind(s, i) \in Nat /\ Behind(s, i) <= Len(s) + 1
  <2> SUFFICES ASSUME NEW i \in Heads(s)
               PROVE  Behind(s, i) \in Nat /\ Behind(s, i) <= Len(s) + 1
    OBVIOUS
  <2>1. Behind(s, i) \in Heads(s) \cup {Len(s) + 1}
    BY DEF Framed
  <2> QED
    BY <1>1, <2>1
<1>3. CASE n = 0
  <2>1. Heads(u) = Heads(s) /\ Len(u) = Len(s)
    BY <1>1, <1>3, HeadsAppend
  <2>2. u # <<>> => s # <<>>
    BY <2>1 DEF Appends
  <2> QED
    BY <1>1, <1>2, <2>1, <2>2 DEF Framed
<1>4. CASE n > 0
  <2>1. Heads(u) = Heads(s) \cup {Len(s) + 1}
    BY <1>4, HeadsAppend
  <2>2. /\ Behind(u, Len(s) + 1) = Len(s) + 1 + Len(rec)
    <3>1. u[Len(s) + 1] = rec[1] /\ rec[1].length \in Nat /\ rec[1].padding \in Nat
      BY <1>4, HeadsAppend DEF Shaped, Leader
    <3>2. Behind(u, Len(s) + 1) = Len(s) + 1 + Len(rec)
      <4>1. PICK k \in Nat, a \in Nat, b \in Nat :
              k = Len(s) + 1 /\ a = rec[1].length /\ b = rec[1].padding
        BY <1>1, <3>1
      <4>2. Behind(u, k) = k + 1 + a + b
        BY <3>1, <4>1 DEF Behind
      <4>3. Len(rec) = 1 + a + b
        BY <4>1 DEF Full
      <4>4. k + 1 + a + b = k + (1 + a + b)
        OBVIOUS
      <4>5. Behind(u, k) = k + Len(rec)
        BY ONLY <4>2, <4>3, <4>4
      <4> QED
        BY <4>1, <4>5
    <3> QED
      BY <3>2
  <2>3. Len(rec) \in Nat
    BY DEF Shaped
  <2>4. 1 \in Heads(u)
    <3>1. CASE s = <<>>
      BY <2>1, <3>1
    <3>2. CASE s # <<>>
      BY <2>1, <3>2 DEF Framed
    <3> QED
      BY <3>1, <3>2
  <2>5. \A i \in Heads(u) : \A j \in Heads(u) : j > i => j >= Behind(u, i)
    <3> SUFFICES ASSUME NEW i \in Heads(u), NEW j \in Heads(u), j > i
                 PROVE  j >= Behind(u, i)
      OBVIOUS
    <3>1. i \in Heads(s)
      BY <1>1, <2>1
    <3>2. CASE j \in Heads(s)
      BY <1>1, <3>1, <3>2 DEF Framed
    <3>3. CASE j = Len(s) + 1
      BY <1>1, <1>2, <3>1, <3>3
    <3> QED
      BY <2>1, <3>2, <3>3
  <2>6. \A i \in Heads(u) :
          \/ Behind(u, i) \in Heads(u) \cup {Len(u) + 1}
          \/ n < Len(rec) /\ Behind(u, i) > Len(u)
    <3>1. ASSUME NEW i \in Heads(s) PROVE Behind(u, i) \in Heads(u)
      BY <1>1, <2>1, <3>1 DEF Framed
    <3>2. n = Len(rec) \/ n < Len(rec)
      BY <2>3
    <3>3. \/ Behind(u, Len(s) + 1) = Len(u) + 1
          \/ n < Len(rec) /\ Behind(u, Len(s) + 1) > Len(u)
      BY <1>1, <2>2, <2>3, <3>2
    <3> QED
      BY <2>1, <3>1, <3>3
  <2> QED
    BY <2>4, <2>5, <2>6 DEF Framed
<1> QED
  BY <1>3, <1>4

-----------------------------------------------------------------------------
(* The records the senders write.                                          *)

\* What is assumed of the numbers.
LEMMA Limits ==
  /\ MaxLength \in Nat /\ MaxLength > 0
  /\ Align \in Nat /\ Align > 0
  /\ Short \in Nat /\ Short > 0
  /\ \A p \in Pair : p.name \in Nat /\ p.value \in Nat
BY FastCgiAssumption

\* Padding is shorter than what it aligns to.
LEMMA PaddingSmall ==
  ASSUME NEW n \in Nat
  PROVE  PaddingOf(n) \in Nat /\ PaddingOf(n) < Align
<1>1. n % Align \in 0..(Align - 1)
  BY Limits
<1> QED
  BY <1>1, Limits DEF PaddingOf

\* A header with a length that fits announces it; one with any length is one.
LEMMA HeaderMade ==
  ASSUME NEW type \in {"BEGIN", "PARAMS", "STDIN"}, NEW n \in Nat, NEW m \in Nat
  PROVE  /\ MakeHeader(type, n, m) \in Leader
         /\ MakeHeader(type, n, m).type = type
         /\ MakeHeader(type, n, m).padding = m
         /\ n <= MaxLength => MakeHeader(type, n, m).length = n
<1>1. n % (MaxLength + 1) \in Nat
  BY Limits
<1>2. n <= MaxLength => n % (MaxLength + 1) = n
  BY Limits
<1> QED
  BY <1>1, <1>2 DEF MakeHeader, Leader

\* The length a pair is given is not beyond its text, which has at least one
\* unit for each length.
LEMMA PairFits ==
  ASSUME NEW p \in Pair
  PROVE  /\ PairLength(p) \in Nat
         /\ PairText(p) \in Seq(Mark)
         /\ PairLength(p) <= Len(PairText(p))
<1>1. PICK a \in Nat, b \in Nat : a = p.name /\ b = p.value
  BY Limits
<1>2. PairLength(p) \in Nat /\ PairLength(p) <= a + b + 2
  <2>1. PICK k \in Nat : /\ k = IF a + b = One(a < Short) THEN a + b + 1 ELSE a + b
                         /\ k <= a + b + 1
    <3>1. CASE a + b = One(a < Short)
      BY <3>1
    <3>2. CASE a + b # One(a < Short)
      BY <3>2
    <3> QED
      BY <3>1, <3>2
  <2>2. PairLength(p) = IF k = One(b < Short) THEN k + 1 ELSE k
    BY <1>1, <2>1 DEF PairLength
  <2> QED
    BY <2>1, <2>2
<1>3. ASSUME NEW n \in Nat
      PROVE  /\ LengthField(n) \in Seq(Mark)
             /\ Len(LengthField(n)) \in Nat /\ Len(LengthField(n)) >= 1
  BY DEF LengthField, Fill, Mark
<1>4. /\ Fill(a, "name") \in Seq(Mark) /\ Len(Fill(a, "name")) = a
      /\ Fill(b, "value") \in Seq(Mark) /\ Len(Fill(b, "value")) = b
  BY DEF Fill, Mark
<1>5. PICK x \in Seq(Mark), y \in Seq(Mark), v \in Seq(Mark), w \in Seq(Mark) :
        /\ x = LengthField(a) /\ y = LengthField(b)
        /\ v = Fill(a, "name") /\ w = Fill(b, "value")
  BY <1>3, <1>4
<1>6. PairText(p) = x \o y \o v \o w
  BY <1>1, <1>5 DEF PairText
<1>7. /\ x \o y \o v \o w \in Seq(Mark)
      /\ Len(x \o y \o v \o w) = Len(x) + Len(y) + Len(v) + Len(w)
  OBVIOUS
<1>8. Len(x) \in Nat /\ Len(y) \in Nat /\ Len(x) >= 1 /\ Len(y) >= 1 /\ Len(v) = a /\ Len(w) = b
  BY <1>3, <1>4, <1>5
<1> QED
  BY <1>2, <1>6, <1>7, <1>8

\* The record of a pair, and when its header says how long it is.
LEMMA ParamShaped ==
  ASSUME NEW p \in Pair
  PROVE  /\ Shaped(ParamRecord(p)) /\ ParamRecord(p)[1].type = "PARAMS"
         /\ PairLength(p) <= MaxLength => Full(ParamRecord(p))
<1>1. PICK cl \in Nat, t \in Seq(Mark) : cl = PairLength(p) /\ t = PairText(p)
  BY PairFits
<1>2. cl <= Len(t)
  BY <1>1, PairFits
<1>3. PICK pl \in Nat : pl = PaddingOf(cl) /\ pl < Align
  BY PaddingSmall
<1>4. Fill(Align, Junk) \in Seq(Mark) /\ Len(Fill(Align, Junk)) = Align
  BY Limits DEF Fill, Mark
<1>5. PICK w \in Seq(Mark) : w = t \o Fill(Align, Junk) /\ Len(w) = Len(t) + Align
  <2>1. PICK f \in Seq(Mark) : f = Fill(Align, Junk) /\ Len(f) = Align
    BY <1>4
  <2>2. t \o f \in Seq(Mark) /\ Len(t \o f) = Len(t) + Len(f)
    OBVIOUS
  <2> QED
    BY <2>1, <2>2
<1>6. PICK d \in Seq(Nat \cup Mark) : d = SubSeq(w, 1, cl + pl) /\ Len(d) = cl + pl
  <2>1. 1 \in Int /\ cl + pl \in 0..Len(w)
    BY <1>2, <1>3, <1>5, Limits
  <2>2. SubSeq(w, 1, cl + pl) \in Seq(Mark) /\ Len(SubSeq(w, 1, cl + pl)) = cl + pl
    BY <2>1
  <2>3. SubSeq(w, 1, cl + pl) \in Seq(Nat \cup Mark)
    BY <2>2
  <2> QED
    BY <2>2, <2>3
<1>7. PICK h \in Leader : /\ h = MakeHeader("PARAMS", cl, pl)
                          /\ h.type = "PARAMS" /\ h.padding = pl
                          /\ cl <= MaxLength => h.length = cl
  BY HeaderMade
<1>8. ParamRecord(p) = <<h>> \o Data(d)
  <2>1. ParamRecord(p) = <<MakeHeader("PARAMS", cl, pl)>>
                           \o Data(SubSeq(t \o Fill(Align, Junk), 1, cl + pl))
    BY <1>1, <1>3, ZenonT(40) DEF ParamRecord
  <2>2. d = SubSeq(t \o Fill(Align, Junk), 1, cl + pl)
    BY <1>5, <1>6, ZenonT(40)
  <2> QED
    BY <1>7, <2>1, <2>2, ZenonT(40)
<1>9. PICK rec : rec = <<h>> \o Data(d)
  OBVIOUS
<1>10. Shaped(rec) /\ rec[1] = h /\ Len(rec) = 1 + Len(d)
  BY <1>9, RecordShaped, ZenonT(40)
<1>11. cl <= MaxLength => Full(rec)
  <2>1. Len(rec) = 1 + cl + pl
    <3>1. 1 + (cl + pl) = 1 + cl + pl
      OBVIOUS
    <3> QED
      BY <1>6, <1>10, <3>1, ZenonT(40)
  <2>2. rec[1].padding = pl /\ (cl <= MaxLength => rec[1].length = cl)
    BY <1>7, <1>10, ZenonT(40)
  <2> QED
    BY <2>1, <2>2, ZenonT(40) DEF Full
<1>12. ParamRecord(p) = rec /\ rec[1].type = "PARAMS"
  BY <1>7, <1>8, <1>9, <1>10, ZenonT(40)
<1> QED
  BY <1>1, <1>10, <1>11, <1>12, ZenonT(40)

\* The records without data.
LEMMA EmptyShaped ==
  ASSUME NEW type \in {"PARAMS", "STDIN"}
  PROVE  /\ Shaped(<<MakeHeader(type, 0, 0)>>) /\ Full(<<MakeHeader(type, 0, 0)>>)
         /\ <<MakeHeader(type, 0, 0)>>[1].type = type
         /\ <<MakeHeader(type, 0, 0)>>[1].length = 0
<1>1. PICK h \in Leader : h = MakeHeader(type, 0, 0) /\ h.type = type
                          /\ h.padding = 0 /\ h.length = 0
  <2>1. 0 <= MaxLength
    BY Limits
  <2> QED
    BY <2>1, HeaderMade
<1>2. <<h>> \in Seq(Written) /\ Len(<<h>>) = 1 /\ <<h>>[1] = h
  BY DEF Written
<1>3. Shaped(<<h>>) /\ Full(<<h>>)
  BY <1>1, <1>2 DEF Shaped, Full
<1> QED
  BY <1>1, <1>2, <1>3

\* The first record.
LEMMA BeginShaped ==
  ASSUME NEW rec, rec = <<MakeHeader("BEGIN", 1, 0)>> \o Data(<<"responder">>)
  PROVE  Shaped(rec) /\ Full(rec) /\ rec[1].type = "BEGIN"
<1>1. PICK h \in Leader : h = MakeHeader("BEGIN", 1, 0) /\ h.type = "BEGIN"
                          /\ h.padding = 0 /\ h.length = 1
  <2>1. 1 <= MaxLength
    BY Limits
  <2> QED
    BY <2>1, HeaderMade
<1>2. PICK d \in Seq(Nat \cup Mark) : d = <<"responder">> /\ Len(d) = 1
  <2>1. "responder" \in Nat \cup Mark
    BY DEF Mark
  <2>2. <<"responder">> \in Seq(Nat \cup Mark) /\ Len(<<"responder">>) = 1
    BY <2>1
  <2> QED
    BY <2>2
<1>3. rec = <<h>> \o Data(d)
  BY <1>1, <1>2
<1>4. Shaped(rec) /\ rec[1] = h /\ Len(rec) = 1 + Len(d)
  BY <1>3, RecordShaped, ZenonT(40)
<1>5. Len(rec) = 2
  BY <1>2, <1>4
<1> QED
  BY <1>1, <1>4, <1>5 DEF Full

\* rec holds n units of the body, the first d left out.
Holds(rec, n, d) == \A j \in 1..n : rec[j + 1].unit = d + j

\* A record of the body is as long as it says, and holds the data in order.
LEMMA StdinShaped ==
  ASSUME NEW cl \in Nat, cl <= MaxLength, NEW data \in Nat
  PROVE  /\ Shaped(StdinRecord(cl, data)) /\ Full(StdinRecord(cl, data))
         /\ StdinRecord(cl, data)[1].type = "STDIN"
         /\ StdinRecord(cl, data)[1].length = cl
         /\ Len(StdinRecord(cl, data)) > cl
         /\ Holds(StdinRecord(cl, data), cl, data)
<1>0. PICK rec : rec = StdinRecord(cl, data)
  OBVIOUS
<1>1. PICK pl \in Nat : pl = PaddingOf(cl)
  BY PaddingSmall
<1>2. PICK h \in Leader : h = MakeHeader("STDIN", cl, pl) /\ h.type = "STDIN"
                          /\ h.padding = pl /\ h.length = cl
  BY HeaderMade
<1>3. [i \in 1..cl |-> data + i] \in [1..cl -> Nat \cup Mark]
  OBVIOUS
<1>4. PICK x \in Seq(Nat \cup Mark) :
        /\ x = [i \in 1..cl |-> data + i]
        /\ Len(x) = cl /\ \A i \in 1..cl : x[i] = data + i
  <2>1. PICK x : x = [i \in 1..cl |-> data + i]
    OBVIOUS
  <2>2. x \in Seq(Nat \cup Mark)
    BY <1>3, <2>1
  <2>3. Len(x) = cl
    BY <2>1, <2>2
  <2> QED
    BY <2>1, <2>2, <2>3
<1>5. PICK y \in Seq(Nat \cup Mark) : y = Fill(pl, 0) /\ Len(y) = pl
  <2>1. PICK y : y = Fill(pl, 0)
    OBVIOUS
  <2>2. y \in [1..pl -> Nat \cup Mark]
    BY <2>1 DEF Fill
  <2>3. y \in Seq(Nat \cup Mark)
    BY <2>2
  <2>4. Len(y) = pl
    BY <2>2, <2>3
  <2> QED
    BY <2>1, <2>3, <2>4
<1>6. PICK d \in Seq(Nat \cup Mark) : d = x \o y
  <2>1. x \o y \in Seq(Nat \cup Mark)
    BY ConcatProperties
  <2> QED
    BY <2>1
<1>7. Len(d) = cl + pl /\ \A i \in 1..cl : d[i] = data + i
  <2>1. /\ Len(x \o y) = Len(x) + Len(y)
        /\ \A i \in 1..(Len(x) + Len(y)) :
             (x \o y)[i] = IF i <= Len(x) THEN x[i] ELSE y[i - Len(x)]
    BY ConcatProperties
  <2>2. Len(x) = cl /\ Len(y) = pl
    BY <1>4, <1>5
  <2>3. ASSUME NEW i \in 1..cl PROVE (x \o y)[i] = x[i]
    <3>1. i \in 1..(cl + pl) /\ i <= cl
      OBVIOUS
    <3> QED
      BY <2>1, <2>2, <3>1
  <2> QED
    BY <1>4, <1>6, <2>1, <2>2, <2>3
<1>8. rec = <<h>> \o Data(d)
  BY <1>0, <1>1, <1>2, <1>4, <1>5, <1>6 DEF StdinRecord
<1>9. /\ Shaped(rec) /\ rec[1] = h /\ Len(rec) = 1 + Len(d)
      /\ \A j \in 1..Len(d) : rec[j + 1].unit = d[j]
  BY <1>8, RecordShaped
<1>10. ASSUME NEW j \in 1..cl PROVE rec[j + 1].unit = data + j
  <2>1. j \in 1..Len(d)
    BY <1>7
  <2> QED
    BY <1>7, <1>9, <2>1
<1>11. Len(rec) = 1 + cl + pl
  <2>1. 1 + (cl + pl) = 1 + cl + pl
    OBVIOUS
  <2> QED
    BY <1>7, <1>9, <2>1
<1>12. Full(rec) /\ Len(rec) > cl
  BY <1>2, <1>9, <1>11 DEF Full
<1> QED
  BY <1>0, <1>2, <1>9, <1>10, <1>12 DEF Holds

-----------------------------------------------------------------------------
(* The request is framed.                                                  *)

\* No pair is longer than a header can say.
Small == \A i \in DOMAIN params : PairLength(params[i]) <= MaxLength

\* n units of rec are written; SendParamRecord may add a pair.
Wrote(rec, n) ==
  /\ phase # "failed"
  /\ Shaped(rec) /\ n \in 0..Len(rec)
  /\ Appends(sent', sent, rec, n)
  /\ n = Len(rec) \/ phase' = "failed"
  /\ params' \in Seq(Pair)
  /\ Small' => Small /\ Full(rec)

\* rec is no part of the body.
Beside(rec) ==
  /\ rec[1].type = "STDIN" => rec[1].length = 0
  /\ UNCHANGED <<stdin, left>>
  /\ phase' \in {"begin", "params"} => phase \in {"begin", "params"}
  /\ phase' = "recv" => left <= 0

\* rec is the next part of the body.
Body(rec) ==
  /\ phase = "stdin" /\ left > 0 /\ phase' \in {"stdin", "failed"}
  /\ rec = StdinRecord(StdinContent, stdin - left)
  /\ left' = left - StdinContent
  /\ UNCHANGED stdin

RequestTypes ==
  /\ params \in Seq(Pair)
  /\ sent \in Seq(Written)
  /\ stdin \in Nat /\ left \in Int /\ left <= stdin

\* A sender that writes a record and leaves the parameters alone.
LEMMA WritenWrote ==
  ASSUME RequestTypes, phase # "failed",
         NEW rec, Shaped(rec), Full(rec), NEW next, Writen(rec, next),
         params' = params
  PROVE  \E n \in 0..Len(rec) : Wrote(rec, n)
<1>1. PICK n \in 0..Len(rec) : /\ Appends(sent', sent, rec, n)
                               /\ n = Len(rec) \/ phase' = "failed"
  BY WritenAppends DEF RequestTypes, Shaped
<1>2. Small' => Small
  BY DEF Small
<1> QED
  BY <1>1, <1>2 DEF Wrote, RequestTypes

\* What the steps of the request write.
LEMMA RequestWrites ==
  ASSUME RequestTypes, Request
  PROVE  \/ \E len \in StdinLength : SendStdinRecord(len)
         \/ \E rec : \E n \in 0..Len(rec) : Wrote(rec, n) /\ (Beside(rec) \/ Body(rec))
<1>1. CASE SendBeginRequestRecord
  <2>1. PICK rec : rec = <<MakeHeader("BEGIN", 1, 0)>> \o Data(<<"responder">>)
    OBVIOUS
  <2>2. Shaped(rec) /\ Full(rec) /\ rec[1].type = "BEGIN"
    BY <2>1, BeginShaped
  <2>3. \E n \in 0..Len(rec) : Wrote(rec, n)
    BY <1>1, <2>1, <2>2, WritenWrote DEF SendBeginRequestRecord
  <2>4. Beside(rec)
    BY <1>1, <2>2 DEF SendBeginRequestRecord, Writen, Beside
  <2> QED
    BY <2>3, <2>4
<1>2. ASSUME NEW p \in Pair, SendParamRecord(p)
      PROVE  \E rec : \E n \in 0..Len(rec) : Wrote(rec, n) /\ Beside(rec)
  <2>1. PICK rec : rec = ParamRecord(p)
    OBVIOUS
  <2>2. /\ Shaped(rec) /\ rec[1].type = "PARAMS"
        /\ PairLength(p) <= MaxLength => Full(rec)
    BY <2>1, ParamShaped
  <2>3. PICK n \in 0..Len(rec) : /\ Appends(sent', sent, rec, n)
                                 /\ n = Len(rec) \/ phase' = "failed"
    BY <1>2, <2>1, <2>2, WritenAppends DEF RequestTypes, Shaped, SendParamRecord
  <2>4. /\ params' \in Seq(Pair) /\ Len(params') = Len(params) + 1
        /\ params'[Len(params) + 1] = p
        /\ \A i \in 1..Len(params) : params'[i] = params[i]
    BY <1>2 DEF RequestTypes, SendParamRecord
  <2>5. Small' => Small /\ PairLength(p) <= MaxLength
    <3>1. /\ DOMAIN params = 1..Len(params) /\ Len(params) \in Nat
          /\ DOMAIN params' = 1..(Len(params) + 1)
      BY <2>4 DEF RequestTypes
    <3> QED
      BY <2>4, <3>1 DEF Small
  <2>6. Wrote(rec, n)
    BY <1>2, <2>2, <2>3, <2>4, <2>5 DEF Wrote, SendParamRecord
  <2>7. Beside(rec)
    BY <1>2, <2>2 DEF SendParamRecord, Writen, Beside
  <2> QED
    BY <2>6, <2>7
<1>3. CASE SendEmptyParamsRecord
  <2>1. PICK rec : rec = <<MakeHeader("PARAMS", 0, 0)>>
    OBVIOUS
  <2>2. Shaped(rec) /\ Full(rec) /\ rec[1].type = "PARAMS"
    BY <2>1, EmptyShaped
  <2>3. \E n \in 0..Len(rec) : Wrote(rec, n)
    BY <1>3, <2>1, <2>2, WritenWrote DEF SendEmptyParamsRecord
  <2>4. Beside(rec)
    BY <1>3, <2>2 DEF SendEmptyParamsRecord, Writen, Beside
  <2> QED
    BY <2>3, <2>4
<1>4. CASE StdinTurn
  <2>1. PICK rec : rec = StdinRecord(StdinContent, stdin - left)
    OBVIOUS
  <2>2. Shaped(rec) /\ Full(rec)
    <3>1. StdinContent \in Nat /\ StdinContent <= MaxLength /\ stdin - left \in Nat
      BY Limits DEF RequestTypes, StdinContent
    <3> QED
      BY <2>1, <3>1, StdinShaped
  <2>3. \E n \in 0..Len(rec) : Wrote(rec, n)
    BY <1>4, <2>1, <2>2, WritenWrote DEF StdinTurn
  <2>4. Body(rec)
    BY <1>4, <2>1 DEF StdinTurn, Writen, Body
  <2> QED
    BY <2>3, <2>4
<1>5. CASE SendEmptyStdinRecord
  <2>1. PICK rec : rec = <<MakeHeader("STDIN", 0, 0)>>
    OBVIOUS
  <2>2. Shaped(rec) /\ Full(rec) /\ rec[1].length = 0
    BY <2>1, EmptyShaped
  <2>3. \E n \in 0..Len(rec) : Wrote(rec, n)
    BY <1>5, <2>1, <2>2, WritenWrote DEF SendEmptyStdinRecord
  <2>4. Beside(rec)
    BY <1>5, <2>2 DEF SendEmptyStdinRecord, Writen, Beside
  <2> QED
    BY <2>3, <2>4
<1> QED
  BY <1>1, <1>2, <1>3, <1>4, <1>5 DEF Request

\* The other steps leave the request alone.
LEMMA RequestAlone ==
  ASSUME [Next]_vars, ~Request
  PROVE  UNCHANGED requestVars
<1>1. CASE PhpFpm
  BY <1>1 DEF PhpFpm, FpmSends, FpmStops
<1>2. CASE ReadHeader
  BY <1>2 DEF ReadHeader
<1>3. CASE ReadContent
  BY <1>3 DEF ReadContent
<1>4. CASE ReadPadding
  BY <1>4 DEF ReadPadding
<1>5. CASE ReadEnd
  BY <1>5 DEF ReadEnd
<1>6. CASE UNCHANGED vars
  BY <1>6 DEF vars
<1> QED
  BY <1>1, <1>2, <1>3, <1>4, <1>5, <1>6 DEF Next, RecvRecord

FramedInv ==
  /\ RequestTypes
  /\ Small => Framed(sent, phase = "failed")

\* The records of the request stand one behind the other in every state.
LEMMA FramedHolds == Spec => []FramedInv
<1>1. Init => FramedInv
  BY DEF Init, FramedInv, RequestTypes, Framed, Heads
<1>2. FramedInv /\ [Next]_vars => FramedInv'
  <2> SUFFICES ASSUME FramedInv, [Next]_vars PROVE FramedInv'
    OBVIOUS
  <2>1. RequestTypes
    BY DEF FramedInv
  <2>2. ASSUME UNCHANGED <<phase, params, sent>>, stdin' \in Nat, left' \in Int,
               left' <= stdin'
        PROVE  FramedInv'
    BY <2>2 DEF FramedInv, RequestTypes, Small, Framed, Heads, Behind
  <2>3. CASE ~Request
    BY <2>1, <2>2, <2>3, RequestAlone DEF requestVars, RequestTypes
  <2>4. ASSUME NEW len \in StdinLength, SendStdinRecord(len) PROVE FramedInv'
    <3>1. len \in Nat
      BY FastCgiAssumption
    <3> QED
      BY <2>2, <2>4, <3>1 DEF SendStdinRecord
  <2>5. ASSUME NEW rec, NEW n \in 0..Len(rec), Wrote(rec, n), Beside(rec) \/ Body(rec)
        PROVE  FramedInv'
    <3>1. RequestTypes'
      <4>1. sent' \in Seq(Written) /\ params' \in Seq(Pair)
        BY <2>5 DEF Wrote, Appends
      <4>2. stdin' \in Nat /\ left' \in Int /\ left' <= stdin'
        BY <2>1, <2>5, Limits DEF RequestTypes, Beside, Body, StdinContent
      <4> QED
        BY <4>1, <4>2 DEF RequestTypes
    <3>2. ASSUME Small' PROVE Framed(sent', (phase = "failed")')
      <4>1. Small /\ Full(rec) /\ Shaped(rec) /\ phase # "failed"
            /\ Appends(sent', sent, rec, n) /\ sent \in Seq(Written)
        BY <2>1, <2>5, <3>2 DEF Wrote, RequestTypes
      <4>2. Framed(sent, FALSE)
        BY <4>1 DEF FramedInv
      <4>3. Framed(sent', n < Len(rec))
        BY <4>1, <4>2, FramedAppend
      <4>4. n < Len(rec) => phase' = "failed"
        BY <2>5, <4>1 DEF Wrote, Shaped
      <4> QED
        BY <4>3, <4>4 DEF Framed
    <3> QED
      BY <3>1, <3>2 DEF FramedInv
  <2> QED
    BY <2>1, <2>3, <2>4, <2>5, RequestWrites
<1> QED
  BY <1>1, <1>2, PTL DEF Spec

\* php-fpm finds every header where the one before announces it, whatever the
\* parameters and the body are and wherever a write fails (FastCgi.cpp:54-186).
THEOREM RequestIsFramed == Spec => []RequestFramed
<1>1. FramedInv => RequestFramed
  BY DEF FramedInv, Small, Framed, Heads, Behind, RequestFramed, HeadersAt, NextAt
<1> QED
  BY <1>1, FramedHolds, PTL

-----------------------------------------------------------------------------
(* The body arrives.                                                       *)

\* Where s holds the content of a STDIN record.
BodyAt(s) ==
  (UNION {(i + 1)..(i + s[i].length) : i \in {h \in Heads(s) : s[h].type = "STDIN"}})
    \cap DOMAIN s

\* What it means to stand in the content of a STDIN record.
LEMMA BodyIs ==
  ASSUME NEW s, NEW j
  PROVE  j \in BodyAt(s) <=>
           /\ j \in DOMAIN s
           /\ \E h \in Heads(s) : s[h].type = "STDIN" /\ j \in (h + 1)..(h + s[h].length)
<1> DEFINE H == {h \in Heads(s) : s[h].type = "STDIN"}
           U == {(i + 1)..(i + s[i].length) : i \in H}
<1>1. \A h : h \in H <=> h \in Heads(s) /\ s[h].type = "STDIN"
  OBVIOUS
<1>2. \A x : x \in U <=> \E h \in H : x = (h + 1)..(h + s[h].length)
  OBVIOUS
<1>3. BodyAt(s) = (UNION U) \cap DOMAIN s
  BY Zenon DEF BodyAt
<1> HIDE DEF H, U
<1>4. j \in BodyAt(s) <=> j \in DOMAIN s /\ \E x \in U : j \in x
  BY <1>3, Zenon
<1>5. (\E x \in U : j \in x) <=> \E h \in H : j \in (h + 1)..(h + s[h].length)
  BY <1>2, Zenon
<1> QED
  BY <1>1, <1>4, <1>5, Zenon

\* No content of a STDIN record is missing.
Whole(s) == \A h \in Heads(s) : s[h].type = "STDIN" => h + s[h].length <= Len(s)

\* The length of what rec adds to the body.
Part(rec) == IF rec[1].type = "STDIN" THEN rec[1].length ELSE 0

\* k units of content behind a header are all that u has more than s.
Grown(u, s, k) == BodyAt(u) = BodyAt(s) \cup (Len(s) + 2)..(Len(s) + 1 + k)

\* The content of a written record, or of the part that was written.
LEMMA BodyAppend ==
  ASSUME NEW s \in Seq(Written), Whole(s), NEW rec, Shaped(rec),
         Part(rec) < Len(rec), NEW n \in 0..Len(rec), NEW u, Appends(u, s, rec, n)
  PROVE  \E k \in 0..Part(rec) :
           /\ Grown(u, s, k)
           /\ k > 0 => 1 + k <= n
           /\ n = Len(rec) => k = Part(rec) /\ Whole(u)
<1>1. /\ Len(s) \in Nat /\ Len(u) = Len(s) + n /\ n \in Nat /\ Part(rec) \in Nat
      /\ DOMAIN s = 1..Len(s) /\ DOMAIN u = 1..(Len(s) + n)
      /\ Heads(s) \subseteq 1..Len(s)
  BY DEF Appends, Heads, Shaped, Part, Leader
<1>2. \A h \in Heads(s) : s[h] \in Leader /\ s[h].length \in Nat
  BY DEF Heads, Written, Leader
<1>3. \A j, h : h \in Heads(s) /\ s[h].type = "STDIN" /\ j \in (h + 1)..(h + s[h].length)
                  => j \in BodyAt(s)
  <2>1. ASSUME NEW h \in Heads(s), s[h].type = "STDIN", NEW j \in (h + 1)..(h + s[h].length)
        PROVE  j \in DOMAIN s
    <3>1. h \in Nat /\ h + s[h].length <= Len(s) /\ s[h].length \in Nat
      BY <1>1, <1>2, <2>1 DEF Whole
    <3> QED
      BY <1>1, <3>1
  <2> QED
    BY <2>1, BodyIs
<1>4. PICK c \in Nat : c = Part(rec) /\ c < Len(rec)
  BY <1>1
<1>5. CASE n = 0
  <2>1. Heads(u) = Heads(s) /\ \A h \in Heads(s) : u[h] = s[h]
    BY <1>5, HeadsAppend
  <2>2. BodyAt(u) = BodyAt(s)
    BY <1>1, <1>5, <2>1 DEF BodyAt
  <2>3. (Len(s) + 2)..(Len(s) + 1 + 0) = {}
    BY <1>1
  <2>4. n # Len(rec)
    BY <1>4, <1>5
  <2> QED
    BY <1>4, <2>2, <2>3, <2>4 DEF Grown
<1>6. CASE n > 0
  <2>1. /\ Heads(u) = Heads(s) \cup {Len(s) + 1}
        /\ \A h \in Heads(s) : u[h] = s[h]
        /\ u[Len(s) + 1] = rec[1]
    BY <1>6, HeadsAppend
  <2>2. PICK b \in Nat : b = Len(s) + 1 /\ b \notin Heads(s)
    BY <1>1
  <2>3. PICK k \in 0..c : k = (IF c < n - 1 THEN c ELSE n - 1)
    BY <1>1, <1>4, <1>6
  <2>4. /\ \A i \in (b + 1)..(b + c) : i \in DOMAIN u <=> i \in (b + 1)..(b + k)
        /\ (b + 1)..(b + k) \subseteq DOMAIN u
        /\ (b + 1)..(b + k) \subseteq (b + 1)..(b + c)
    BY <1>1, <1>4, <1>6, <2>2, <2>3
  <2>5. BodyAt(u) \subseteq BodyAt(s) \cup (b + 1)..(b + k)
    <3> SUFFICES ASSUME NEW j \in BodyAt(u) PROVE j \in BodyAt(s) \cup (b + 1)..(b + k)
      OBVIOUS
    <3>1. PICK h \in Heads(u) : /\ u[h].type = "STDIN"
                                /\ j \in (h + 1)..(h + u[h].length)
                                /\ j \in DOMAIN u
      BY BodyIs
    <3>2. CASE h \in Heads(s)
      BY <1>3, <2>1, <3>1, <3>2
    <3>3. CASE h = b
      <4>1. u[h] = rec[1] /\ rec[1].length = c
        BY <1>4, <2>1, <2>2, <3>1, <3>3 DEF Part
      <4> QED
        BY <2>4, <3>1, <3>3, <4>1
    <3> QED
      BY <2>1, <2>2, <3>2, <3>3
  <2>6. BodyAt(s) \subseteq BodyAt(u)
    <3> SUFFICES ASSUME NEW j \in BodyAt(s) PROVE j \in BodyAt(u)
      OBVIOUS
    <3>1. PICK h \in Heads(s) : s[h].type = "STDIN" /\ j \in (h + 1)..(h + s[h].length)
      BY BodyIs
    <3>2. h \in Heads(u) /\ u[h] = s[h]
      BY <2>1
    <3>3. j \in DOMAIN u
      BY <1>1, BodyIs
    <3> QED
      BY <3>1, <3>2, <3>3, BodyIs
  <2>7. (b + 1)..(b + k) \subseteq BodyAt(u)
    <3>1. CASE c = 0
      <4>1. k = 0 /\ (b + 1)..(b + 0) = {}
        BY <2>3, <3>1
      <4> QED
        BY <4>1
    <3>2. CASE c # 0
      <4>1. b \in Heads(u) /\ u[b].type = "STDIN" /\ u[b].length = c
        BY <1>4, <2>1, <2>2, <3>2 DEF Part
      <4> QED
        BY <2>4, <4>1, BodyIs
    <3> QED
      BY <3>1, <3>2
  <2>8. BodyAt(u) = BodyAt(s) \cup (Len(s) + 2)..(Len(s) + 1 + k)
    <3>1. b + 1 = Len(s) + 2 /\ b + k = Len(s) + 1 + k
      BY <1>1, <2>2
    <3>2. BodyAt(u) = BodyAt(s) \cup (b + 1)..(b + k)
      BY <2>5, <2>6, <2>7
    <3> QED
      BY <3>1, <3>2
  <2>9. k > 0 => 1 + k <= n
    BY <1>1, <1>4, <2>3
  <2>10. ASSUME n = Len(rec) PROVE k = Part(rec) /\ Whole(u)
    <3>1. k = c
      BY <1>4, <2>3, <2>10
    <3>2. ASSUME NEW h \in Heads(s), s[h].type = "STDIN" PROVE h + s[h].length <= Len(u)
      <4>1. h \in Nat /\ h + s[h].length <= Len(s) /\ s[h].length \in Nat
        BY <1>1, <1>2, <3>2 DEF Whole
      <4> QED
        BY <1>1, <4>1
    <3>3. ASSUME u[b].type = "STDIN" PROVE b + u[b].length <= Len(u)
      <4>1. u[b].length = c
        BY <1>4, <2>1, <2>2, <3>3 DEF Part
      <4>2. b + c <= Len(s) + Len(rec)
        BY <1>1, <1>4, <2>2
      <4> QED
        BY <1>1, <2>10, <4>1, <4>2
    <3>4. Whole(u)
      BY <2>1, <2>2, <3>2, <3>3 DEF Whole
    <3> QED
      BY <1>4, <3>1, <3>4
  <2> QED
    BY <1>4, <2>3, <2>8, <2>9, <2>10 DEF Grown
<1> QED
  BY <1>1, <1>5, <1>6

\* The units of the body are numbered from one.
Numbered(s) ==
  \A j \in BodyAt(s) : s[j].unit = Cardinality({m \in BodyAt(s) : m <= j})

\* The body is among the units that are written.
LEMMA BodyFinite ==
  ASSUME NEW s \in Seq(Written)
  PROVE  IsFiniteSet(BodyAt(s)) /\ BodyAt(s) \subseteq 1..Len(s)
<1>1. BodyAt(s) \subseteq 1..Len(s) /\ Len(s) \in Nat
  BY BodyIs
<1>2. IsFiniteSet(1..Len(s))
  BY <1>1, FS_Interval
<1> QED
  BY <1>1, <1>2, FS_Subset

\* k units behind a set of smaller numbers.
LEMMA Behindhand ==
  ASSUME NEW A, NEW a \in Nat, NEW k \in Nat, IsFiniteSet(A), A \subseteq 1..a
  PROVE  Cardinality(A \cup (a + 2)..(a + 1 + k)) = Cardinality(A) + k
<1>1. IsFiniteSet((a + 2)..(a + 1 + k)) /\ Cardinality((a + 2)..(a + 1 + k)) = k
  <2>1. a + 2 \in Int /\ a + 1 + k \in Int
    OBVIOUS
  <2>2. /\ IsFiniteSet((a + 2)..(a + 1 + k))
        /\ Cardinality((a + 2)..(a + 1 + k)) =
             IF a + 2 > a + 1 + k THEN 0 ELSE (a + 1 + k) - (a + 2) + 1
    BY <2>1, FS_Interval
  <2> QED
    BY <2>2
<1>2. A \cap (a + 2)..(a + 1 + k) = {}
  OBVIOUS
<1>3. Cardinality(A \cup (a + 2)..(a + 1 + k)) = Cardinality(A) + k - Cardinality({})
  BY <1>1, <1>2, FS_Union, SMTT(40)
<1>4. Cardinality({}) = 0 /\ Cardinality(A) \in Nat
  BY FS_EmptySet, FS_CardinalityType
<1> QED
  BY <1>3, <1>4

\* Content appended in order keeps the numbering.
LEMMA NumberedAppend ==
  ASSUME NEW s \in Seq(Written), Numbered(s), NEW rec, NEW n \in Nat,
         NEW u, Appends(u, s, rec, n), NEW k \in Nat, k > 0 => 1 + k <= n,
         Grown(u, s, k),
         Holds(rec, k, Cardinality(BodyAt(s)))
  PROVE  Numbered(u) /\ Cardinality(BodyAt(u)) = Cardinality(BodyAt(s)) + k
<1>1. PICK a \in Nat : /\ a = Len(s)
                      /\ BodyAt(u) = BodyAt(s) \cup (a + 2)..(a + 1 + k)
  BY DEF Grown
<1>2. IsFiniteSet(BodyAt(s)) /\ BodyAt(s) \subseteq 1..a
  BY <1>1, BodyFinite
<1>3. ASSUME NEW j \in BodyAt(s)
      PROVE  u[j].unit = Cardinality({m \in BodyAt(u) : m <= j})
  <2>1. {m \in BodyAt(u) : m <= j} = {m \in BodyAt(s) : m <= j}
    BY <1>1, <1>2
  <2>2. u[j] = s[j]
    BY <1>1, <1>2 DEF Appends
  <2> QED
    BY <2>1, <2>2 DEF Numbered
<1>4. ASSUME NEW j \in (a + 2)..(a + 1 + k)
      PROVE  u[j].unit = Cardinality({m \in BodyAt(u) : m <= j})
  <2>1. PICK i \in 1..k : j = a + 1 + i
    <3>1. j - a - 1 \in 1..k /\ j = a + 1 + (j - a - 1)
      OBVIOUS
    <3> QED
      BY <3>1
  <2>2. {m \in BodyAt(u) : m <= j} = BodyAt(s) \cup (a + 2)..(a + 1 + i)
    <3>1. {m \in BodyAt(u) : m <= j} \subseteq BodyAt(s) \cup (a + 2)..(a + 1 + i)
      BY <1>1, <1>2, <2>1
    <3>2. BodyAt(s) \cup (a + 2)..(a + 1 + i) \subseteq {m \in BodyAt(u) : m <= j}
      BY <1>1, <1>2, <2>1
    <3> QED
      BY <3>1, <3>2
  <2>3. Cardinality({m \in BodyAt(u) : m <= j}) = Cardinality(BodyAt(s)) + i
    <3>1. i \in Nat
      OBVIOUS
    <3>2. Cardinality(BodyAt(s) \cup (a + 2)..(a + 1 + i)) = Cardinality(BodyAt(s)) + i
      BY <1>2, <3>1, Behindhand
    <3> QED
      BY <2>2, <3>2
  <2>4. u[j] = rec[i + 1]
    <3>1. j \in (a + 1)..(a + n) /\ j - a = i + 1
      BY <2>1
    <3>2. u[j] = rec[j - a]
      BY <1>1, <3>1 DEF Appends
    <3> QED
      BY <3>1, <3>2
  <2> QED
    BY <2>3, <2>4 DEF Holds
<1>5. Numbered(u)
  BY <1>1, <1>3, <1>4 DEF Numbered
<1>6. Cardinality(BodyAt(u)) = Cardinality(BodyAt(s)) + k
  <2>1. Cardinality(BodyAt(s) \cup (a + 2)..(a + 1 + k)) = Cardinality(BodyAt(s)) + k
    BY <1>2, Behindhand
  <2> QED
    BY <1>1, <2>1
<1> QED
  BY <1>5, <1>6

\* What was written of the body, and what is left of it.
LeftInv ==
  /\ phase \in {"begin", "params"} => stdin = 0 /\ left = 0
  /\ phase = "recv" => left <= 0
  /\ stdin <= MaxLength => left \in {0, stdin}
  /\ stdin > MaxLength => /\ left > -MaxLength
                          /\ \E q \in Nat : stdin - left = q * MaxLength

StdinInv ==
  /\ RequestTypes /\ LeftInv
  /\ Numbered(sent)
  /\ phase # "failed" => Whole(sent) /\ Cardinality(BodyAt(sent)) = stdin - left

\* A turn of the loop of SendStdinRecord keeps the account of what is left.
LEMMA LeftStep ==
  ASSUME RequestTypes, LeftInv, NEW rec, Body(rec)
  PROVE  LeftInv'
<1>1. stdin \in Nat /\ left \in Int /\ MaxLength \in Nat /\ left > 0 /\ left <= stdin
  BY Limits DEF RequestTypes, Body
<1>2. stdin' = stdin /\ left' = left - StdinContent /\ phase' \in {"stdin", "failed"}
  BY DEF Body
<1>3. CASE stdin <= MaxLength
  <2>1. left = stdin /\ left' = 0
    BY <1>1, <1>2, <1>3 DEF LeftInv, StdinContent
  <2> QED
    BY <1>1, <1>2, <1>3, <2>1 DEF LeftInv
<1>4. CASE stdin > MaxLength
  <2>1. left' = left - MaxLength
    BY <1>1, <1>2, <1>4 DEF StdinContent
  <2>2. PICK q \in Nat : stdin - left = q * MaxLength
    BY <1>4 DEF LeftInv
  <2>3. stdin - left' = (q + 1) * MaxLength
    <3>1. (q + 1) * MaxLength = q * MaxLength + MaxLength
      BY <1>1
    <3>2. stdin - left' = (stdin - left) + MaxLength
      BY <1>1, <2>1
    <3> QED
      BY <2>2, <3>1, <3>2
  <2>4. left' > -MaxLength
    BY <1>1, <2>1
  <2>5. \E r \in Nat : stdin' - left' = r * MaxLength
    <3>1. q + 1 \in Nat
      OBVIOUS
    <3> QED
      BY <1>2, <2>3, <3>1
  <2> QED
    BY <1>1, <1>2, <1>4, <2>4, <2>5 DEF LeftInv
<1> QED
  BY <1>1, <1>3, <1>4

\* The body that php-fpm reads stays in order, whatever part of a record is written.
LEMMA StdinStep ==
  ASSUME StdinInv, NEW rec, NEW n \in 0..Len(rec), Wrote(rec, n),
         Beside(rec) \/ Body(rec)
  PROVE  StdinInv'
<1>1. /\ sent \in Seq(Written) /\ Numbered(sent) /\ Whole(sent)
      /\ Cardinality(BodyAt(sent)) = stdin - left
      /\ stdin \in Nat /\ left \in Int /\ left <= stdin /\ RequestTypes /\ LeftInv
      /\ Shaped(rec) /\ Appends(sent', sent, rec, n)
  BY DEF StdinInv, RequestTypes, Wrote
<1>2. RequestTypes'
  <2>1. sent' \in Seq(Written) /\ params' \in Seq(Pair)
    BY DEF Wrote, Appends
  <2>2. stdin' \in Nat /\ left' \in Int /\ left' <= stdin'
    BY <1>1, Limits DEF Beside, Body, StdinContent
  <2> QED
    BY <2>1, <2>2 DEF RequestTypes
<1>3. /\ Part(rec) \in Nat /\ Part(rec) < Len(rec)
      /\ stdin' - left' = stdin - left + Part(rec)
      /\ Holds(rec, Part(rec), stdin - left)
  <2>1. CASE Beside(rec)
    <3>1. Part(rec) = 0 /\ stdin' = stdin /\ left' = left
      BY <2>1 DEF Beside, Part
    <3> QED
      BY <1>1, <3>1 DEF Shaped, Holds
  <2>2. CASE Body(rec)
    <3>1. PICK c \in Nat, d \in Nat : c = StdinContent /\ c <= MaxLength /\ d = stdin - left
      BY <1>1, Limits DEF StdinContent
    <3>2. rec = StdinRecord(c, d)
      BY <2>2, <3>1 DEF Body
    <3>3. /\ Part(rec) = c /\ Len(rec) > c
          /\ Holds(rec, c, d)
      <4>1. /\ rec[1].type = "STDIN" /\ rec[1].length = c /\ Len(rec) > c
            /\ Holds(rec, c, d)
        BY <3>1, <3>2, StdinShaped
      <4> QED
        BY <4>1 DEF Part
    <3>4. stdin' - left' = d + c
      BY <1>1, <2>2, <3>1 DEF Body
    <3> QED
      BY <1>1, <3>1, <3>3, <3>4 DEF Shaped
  <2> QED
    BY <2>1, <2>2
<1>4. PICK k \in 0..Part(rec) :
        /\ Grown(sent', sent, k)
        /\ k > 0 => 1 + k <= n
        /\ n = Len(rec) => k = Part(rec) /\ Whole(sent')
  BY <1>1, <1>3, BodyAppend
<1>5. /\ Numbered(sent')
      /\ Cardinality(BodyAt(sent')) = Cardinality(BodyAt(sent)) + k
  <2>1. k \in Nat /\ n \in Nat
    BY <1>1, <1>3 DEF Shaped
  <2>2. Holds(rec, k, Cardinality(BodyAt(sent)))
    <3>1. 1..k \subseteq 1..Part(rec)
      BY <1>3
    <3> QED
      BY <1>1, <1>3, <3>1 DEF Holds
  <2> QED
    BY <1>1, <1>4, <2>1, <2>2, NumberedAppend
<1>6. ASSUME phase' # "failed"
      PROVE  Whole(sent') /\ Cardinality(BodyAt(sent')) = stdin' - left'
  <2>1. n = Len(rec)
    BY <1>6 DEF Wrote
  <2> QED
    BY <1>1, <1>3, <1>4, <1>5, <2>1
<1>7. LeftInv'
  <2>1. CASE Beside(rec)
    BY <1>1, <2>1 DEF Beside, LeftInv
  <2>2. CASE Body(rec)
    BY <1>1, <2>2, LeftStep
  <2> QED
    BY <2>1, <2>2
<1> QED
  BY <1>2, <1>5, <1>6, <1>7 DEF StdinInv, Numbered, Whole, BodyAt, Heads

\* The body is numbered from 1 on, and as long as SendStdinRecord has come.
LEMMA StdinHolds == Spec => []StdinInv
<1>1. Init => StdinInv
  <2> SUFFICES ASSUME Init PROVE StdinInv
    OBVIOUS
  <2>1. sent = <<>> /\ stdin = 0 /\ left = 0 /\ params = <<>> /\ phase = "begin"
    BY DEF Init
  <2>2. \A j : j \notin BodyAt(sent)
    BY <2>1, BodyIs
  <2>3. Cardinality(BodyAt(sent)) = 0
    BY <2>2, FS_EmptySet
  <2>4. RequestTypes /\ LeftInv /\ Whole(sent)
    BY <2>1, Limits DEF RequestTypes, LeftInv, Whole, Heads
  <2> QED
    BY <2>1, <2>2, <2>3, <2>4 DEF StdinInv, Numbered
<1>2. StdinInv /\ [Next]_vars => StdinInv'
  <2> SUFFICES ASSUME StdinInv, [Next]_vars PROVE StdinInv'
    OBVIOUS
  <2>1. CASE ~Request
    <3>1. UNCHANGED <<phase, params, stdin, left, sent>>
      BY <2>1, RequestAlone DEF requestVars
    <3>2. RequestTypes'
      BY <3>1 DEF StdinInv, RequestTypes
    <3>3. LeftInv'
      BY <3>1 DEF StdinInv, LeftInv
    <3> QED
      BY <3>1, <3>2, <3>3 DEF StdinInv, Numbered, Whole, BodyAt, Heads
  <2>2. ASSUME NEW len \in StdinLength, SendStdinRecord(len) PROVE StdinInv'
    <3>1. len \in Nat /\ MaxLength \in Nat /\ MaxLength > 0
      BY FastCgiAssumption
    <3>2. /\ stdin = 0 /\ left = 0 /\ phase = "stdin"
          /\ stdin' = len /\ left' = len /\ UNCHANGED <<phase, params, sent>>
      BY <2>2, <3>1 DEF StdinInv, LeftInv, SendStdinRecord
    <3>3. LeftInv'
      <4>1. len - len = 0 * MaxLength /\ 0 \in Nat
        BY <3>1
      <4> QED
        BY <3>1, <3>2, <4>1 DEF LeftInv
    <3>4. RequestTypes'
      BY <3>1, <3>2 DEF StdinInv, RequestTypes
    <3>5. stdin' - left' = stdin - left
      BY <3>1, <3>2
    <3> QED
      BY <3>2, <3>3, <3>4, <3>5, SMTT(40) DEF StdinInv, Numbered, Whole, BodyAt, Heads
  <2>3. RequestTypes
    BY DEF StdinInv
  <2> QED
    BY <2>1, <2>2, <2>3, StdinStep, RequestWrites
<1> QED
  BY <1>1, <1>2, PTL DEF Spec

\* Beyond the end of the data by less than a record.
LEMMA Overrun ==
  ASSUME NEW n \in Nat, NEW l \in Int, l < 0, l > -MaxLength,
         NEW q \in Nat, n - l = q * MaxLength
  PROVE  n % MaxLength # 0
<1>1. MaxLength \in Nat /\ MaxLength > 0
  BY Limits
<1>2. q # 0
  <2>1. 0 * MaxLength = 0
    BY <1>1
  <2> QED
    BY <2>1
<1>3. PICK p \in Nat : q = p + 1
  <2>1. q - 1 \in Nat /\ q = (q - 1) + 1
    BY <1>2
  <2> QED
    BY <2>1
<1>4. PICK r \in Nat : r = l + MaxLength /\ r > 0 /\ r < MaxLength
  BY <1>1
<1>5. q * MaxLength = p * MaxLength + MaxLength
  BY <1>1, <1>3
<1>6. n = p * MaxLength + r
  BY <1>1, <1>4, <1>5
<1>7. (p * MaxLength + r) % MaxLength = r
  BY <1>1, <1>4
<1> QED
  BY <1>4, <1>6, <1>7

\* php-fpm reads the body of the request, in order, across the records it is
\* cut into, and more than that only when the last of several is not full
\* (FastCgi.cpp:132-165).
THEOREM StdinHasArrived == Spec => []StdinArrives
<1>1. StdinInv => StdinArrives
  <2> SUFFICES ASSUME StdinInv PROVE StdinArrives
    OBVIOUS
  <2>1. StdinAt = BodyAt(sent)
    BY DEF StdinAt, BodyAt, HeadersAt, Heads
  <2>2. \A j \in StdinAt : sent[j].unit = Cardinality({m \in StdinAt : m <= j})
    BY <2>1 DEF StdinInv, Numbered
  <2>3. ASSUME phase = "recv"
        PROVE  \/ Cardinality(StdinAt) = stdin
               \/ stdin > MaxLength /\ stdin % MaxLength # 0 /\ Cardinality(StdinAt) > stdin
    <3>1. /\ stdin \in Nat /\ left \in Int /\ left <= 0
          /\ Cardinality(StdinAt) = stdin - left
      BY <2>1, <2>3 DEF StdinInv, RequestTypes, LeftInv
    <3>2. MaxLength \in Nat /\ MaxLength > 0
      BY Limits
    <3>3. CASE left = 0
      BY <3>1, <3>3
    <3>4. CASE left < 0
      <4>1. stdin > MaxLength /\ left > -MaxLength
        BY <3>1, <3>2, <3>4 DEF StdinInv, LeftInv
      <4>2. PICK q \in Nat : stdin - left = q * MaxLength
        BY <4>1 DEF StdinInv, LeftInv
      <4>3. stdin % MaxLength # 0
        BY <3>1, <3>4, <4>1, <4>2, Overrun
      <4> QED
        BY <3>1, <3>4, <4>1, <4>3
    <3> QED
      BY <3>1, <3>3, <3>4
  <2> QED
    BY <2>2, <2>3 DEF StdinArrives
<1> QED
  BY <1>1, StdinHolds, PTL

-----------------------------------------------------------------------------
(* What an answer holds.                                                   *)

\* A set of numbers with 0 and the successor of each of its members has them all.
LEMMA SetInduction ==
  ASSUME NEW S, 0 \in S, \A n \in Nat : n \in S => n + 1 \in S
  PROVE  Nat \subseteq S
<1> SUFFICES ASSUME NEW m \in Nat, m \notin S PROVE FALSE
  OBVIOUS
<1> DEFINE T == Nat \ S
<1>1. PICK k \in T : \A l \in T : ~(<<l, k>> \in OpToRel(<, Nat))
  <2>1. T \subseteq Nat /\ T # {}
    OBVIOUS
  <2> HIDE DEF T
  <2> QED
    BY <2>1, NatLessThanWellFounded, WFMin
<1>2. k - 1 \in Nat
  OBVIOUS
<1>3. <<k - 1, k>> \in OpToRel(<, Nat)
  BY <1>2 DEF OpToRel
<1>4. k - 1 \in S
  BY <1>1, <1>2, <1>3
<1> QED
  BY <1>2, <1>4

\* What a record adds to the contents of its type.
Added(r, type) == IF r.type = type THEN r.content ELSE <<>>

\* C is the function Contents computes for the answer a.
Gathers(C, a, type) ==
  C = [n \in 0..Len(a) |-> IF n = 0 THEN <<>> ELSE C[n - 1] \o Added(a[n], type)]

\* The same up to place m, without saying where C ends.
GathersTo(C, a, type, m) ==
  \A n \in 0..m : C[n] = IF n = 0 THEN <<>> ELSE C[n - 1] \o Added(a[n], type)

Total(a, type) == (CHOOSE C : Gathers(C, a, type))[Len(a)]

\* Contents in terms of what its recursive function computes.
LEMMA ContentsTotal ==
  ASSUME NEW type
  PROVE  Contents(type) = Total(answer, type)
BY DEF Contents, Total, Gathers, Added

\* Only one function gathers the contents of an answer.
LEMMA GathersUnique ==
  ASSUME NEW a, NEW type, NEW C, NEW D, NEW n \in Nat,
         GathersTo(C, a, type, n), GathersTo(D, a, type, n)
  PROVE  C[n] = D[n]
<1> DEFINE T == {m \in Nat : m <= n => C[m] = D[m]}
<1>1. 0 \in T
  BY DEF GathersTo
<1>2. \A m \in Nat : m \in T => m + 1 \in T
  <2> SUFFICES ASSUME NEW m \in Nat, C[m] = D[m], m + 1 <= n PROVE C[m + 1] = D[m + 1]
    OBVIOUS
  <2>1. PICK k : k = m + 1
    OBVIOUS
  <2>2. k \in 0..n /\ k # 0 /\ k - 1 = m
    BY <2>1
  <2>3. C[k] = C[k - 1] \o Added(a[k], type) /\ D[k] = D[k - 1] \o Added(a[k], type)
    BY <2>2 DEF GathersTo
  <2> QED
    BY <2>1, <2>2, <2>3
<1> HIDE DEF T
<1>3. Nat \subseteq T
  BY <1>1, <1>2, SetInduction
<1> QED
  BY <1>3 DEF T

\* One more record.
LEMMA GathersMore ==
  ASSUME NEW S, NEW a \in Seq(S), NEW r \in S, NEW type, NEW C, Gathers(C, a, type)
  PROVE  \E D : /\ Gathers(D, Append(a, r), type)
                /\ D[Len(a) + 1] = C[Len(a)] \o Added(r, type)
<1>0. PICK b : b = Append(a, r)
  OBVIOUS
<1>1. PICK k \in Nat, l \in Nat :
        /\ k = Len(a) /\ l = k + 1 /\ Len(b) = l
        /\ b[l] = r /\ \A i \in 1..k : b[i] = a[i]
  <2>1. /\ Len(a) \in Nat /\ Len(b) = Len(a) + 1
        /\ b[Len(a) + 1] = r /\ \A i \in 1..Len(a) : b[i] = a[i]
    BY <1>0
  <2> QED
    BY <2>1
<1>2. l - 1 = k /\ l # 0
  BY <1>1
<1>3. PICK D : D = [n \in 0..l |-> IF n = l THEN C[k] \o Added(r, type) ELSE C[n]]
  OBVIOUS
<1>4. ASSUME NEW n \in 0..l
      PROVE  D[n] = IF n = 0 THEN <<>> ELSE D[n - 1] \o Added(b[n], type)
  <2>1. CASE n = l
    <3>1. n - 1 = k /\ k \in 0..l /\ k # l
      BY <1>1, <1>2, <2>1
    <3>2. D[n] = C[k] \o Added(r, type) /\ D[n - 1] = C[k]
      BY <1>3, <2>1, <3>1
    <3> QED
      BY <1>1, <1>2, <2>1, <3>2
  <2>2. CASE n # l
    <3>1. n \in 0..k /\ (n # 0 => n \in 1..k)
      BY <1>1, <1>2, <2>2
    <3>2. C[n] = IF n = 0 THEN <<>> ELSE C[n - 1] \o Added(a[n], type)
      BY <1>1, <3>1 DEF Gathers
    <3>3. D[n] = C[n]
      BY <1>3, <2>2
    <3>4. n # 0 => n - 1 \in 0..l /\ n - 1 # l /\ D[n - 1] = C[n - 1] /\ b[n] = a[n]
      BY <1>1, <1>2, <1>3, <3>1
    <3> QED
      BY <3>2, <3>3, <3>4
  <2> QED
    BY <2>1, <2>2
<1>5. D = [n \in 0..l |-> IF n = 0 THEN <<>> ELSE D[n - 1] \o Added(b[n], type)]
  <2>1. D = [n \in 0..l |-> D[n]]
    BY <1>3
  <2> QED
    BY <1>4, <2>1
<1>6. D[l] = C[k] \o Added(r, type)
  BY <1>1, <1>3
<1>7. Gathers(D, b, type)
  BY <1>1, <1>5 DEF Gathers
<1> QED
  BY <1>0, <1>1, <1>6, <1>7

\* For every answer there is a function that gathers its contents.
LEMMA GathersExists ==
  ASSUME NEW S, NEW a \in Seq(S), NEW type
  PROVE  \E C : Gathers(C, a, type)
<1> DEFINE T == {k \in Nat : \A b \in Seq(S) : Len(b) = k => \E C : Gathers(C, b, type)}
<1>1. 0 \in T
  <2> SUFFICES ASSUME NEW b \in Seq(S), Len(b) = 0 PROVE \E C : Gathers(C, b, type)
    OBVIOUS
  <2>1. PICK C : C = [n \in 0..0 |-> <<>>]
    OBVIOUS
  <2>2. C = [n \in 0..0 |-> IF n = 0 THEN <<>> ELSE C[n - 1] \o Added(b[n], type)]
    BY <2>1
  <2> QED
    BY <2>2 DEF Gathers
<1>2. ASSUME NEW k \in Nat, k \in T PROVE k + 1 \in T
  <2>1. ASSUME NEW b \in Seq(S), Len(b) = k + 1
        PROVE  \E C : Gathers(C, b, type)
    <3>1. b # <<>>
      <4>1. Len(b) # 0
        BY ONLY <2>1, k \in Nat
      <4>2. Len(<<>>) = 0
        BY EmptySeq
      <4> QED
        BY ONLY <4>1, <4>2
    <3>2. PICK c \in Seq(S), r \in S : b = Append(c, r)
      BY <3>1, SequenceEmptyOrAppend
    <3>3. Len(c) = k
      <4>1. Len(Append(c, r)) = Len(c) + 1 /\ Len(c) \in Nat
        OBVIOUS
      <4> QED
        BY <2>1, <3>2, <4>1
    <3>4. PICK C : Gathers(C, c, type)
      BY <3>3, <1>2
    <3>5. \E D : Gathers(D, Append(c, r), type)
      BY <3>4, GathersMore
    <3> QED
      BY <3>2, <3>5
  <2>2. k + 1 \in Nat
    OBVIOUS
  <2> QED
    BY <2>1, <2>2
<1> HIDE DEF T
<1>3. Nat \subseteq T
  BY <1>1, <1>2, SetInduction
<1>4. Len(a) \in T
  BY <1>3
<1> QED
  BY <1>4 DEF T

\* The total is that of the function, whichever is chosen.
LEMMA TotalIs ==
  ASSUME NEW S, NEW a \in Seq(S), NEW type, NEW C, Gathers(C, a, type)
  PROVE  Total(a, type) = C[Len(a)]
<1>1. PICK D : D = CHOOSE E : Gathers(E, a, type)
  OBVIOUS
<1>2. Gathers(D, a, type)
  BY <1>1
<1>3. Len(a) \in Nat
  OBVIOUS
<1>4. GathersTo(C, a, type, Len(a)) /\ GathersTo(D, a, type, Len(a))
  <2>1. \A n \in 0..Len(a) : C[n] = IF n = 0 THEN <<>> ELSE C[n - 1] \o Added(a[n], type)
    BY DEF Gathers
  <2>2. \A n \in 0..Len(a) : D[n] = IF n = 0 THEN <<>> ELSE D[n - 1] \o Added(a[n], type)
    BY <1>2 DEF Gathers
  <2> QED
    BY <2>1, <2>2 DEF GathersTo
<1>5. C[Len(a)] = D[Len(a)]
  BY <1>3, <1>4, GathersUnique
<1> QED
  BY <1>1, <1>5 DEF Total

\* Nothing, and one record more.
LEMMA TotalEmpty ==
  ASSUME NEW S, NEW a \in Seq(S), Len(a) = 0, NEW type
  PROVE  Total(a, type) = <<>>
<1>1. PICK C : Gathers(C, a, type)
  BY GathersExists
<1>2. Total(a, type) = C[0]
  BY <1>1, TotalIs
<1>3. C[0] = <<>>
  BY <1>1 DEF Gathers
<1> QED
  BY <1>2, <1>3

\* One more record adds its content, if it is of the type.
LEMMA TotalAppend ==
  ASSUME NEW S, NEW a \in Seq(S), NEW r \in S, NEW type
  PROVE  Total(Append(a, r), type) = Total(a, type) \o Added(r, type)
<1>1. PICK C : Gathers(C, a, type)
  BY GathersExists
<1>2. PICK D : /\ Gathers(D, Append(a, r), type)
               /\ D[Len(a) + 1] = C[Len(a)] \o Added(r, type)
  BY <1>1, GathersMore
<1>3. Append(a, r) \in Seq(S) /\ Len(Append(a, r)) = Len(a) + 1
  OBVIOUS
<1>4. Total(Append(a, r), type) = D[Len(a) + 1]
  <2>1. Total(Append(a, r), type) = D[Len(Append(a, r))]
    BY <1>2, <1>3, TotalIs
  <2> QED
    BY <1>3, <2>1
<1>5. Total(a, type) = C[Len(a)]
  BY <1>1, TotalIs
<1> QED
  BY <1>2, <1>4, <1>5

-----------------------------------------------------------------------------
(* The records of an answer, and what is read of them.                     *)

Sent == Record \cup {EndRequest}

Header(r) == <<r.type, Len(r.content), r.padding>>

\* What follows the header of r.
Rest(r) == r.content \o Fill(r.padding, 0)

\* The types of records differ.
LEMMA Types ==
  /\ END \in Nat /\ STDOUT \in Nat /\ STDERR \in Nat /\ UNHANDLED \in Nat
  /\ UNHANDLED \notin {STDOUT, STDERR, END} /\ END \notin {STDOUT, STDERR}
  /\ STDOUT # STDERR
BY DEF END, STDOUT, STDERR, UNHANDLED

\* Zeros of any number, and tuples, are sequences of numbers.
LEMMA Zeros ==
  ASSUME NEW n \in Nat
  PROVE  Fill(n, 0) \in Seq(Nat) /\ Len(Fill(n, 0)) = n
<1>1. Fill(n, 0) \in [1..n -> Nat]
  BY DEF Fill
<1>2. Fill(n, 0) \in Seq(Nat)
  BY <1>1
<1> QED
  BY <1>1, <1>2

\* Three numbers are a sequence of numbers.
LEMMA Triple ==
  ASSUME NEW a \in Nat, NEW b \in Nat, NEW c \in Nat
  PROVE  /\ <<a, b, c>> \in Seq(Nat) /\ Len(<<a, b, c>>) = 3
         /\ <<a, b, c>>[1] = a /\ <<a, b, c>>[2] = b /\ <<a, b, c>>[3] = c
OBVIOUS

\* The order in which three texts are joined does not matter.
LEMMA Joined ==
  ASSUME NEW f \in Seq(Nat), NEW g \in Seq(Nat), NEW x \in Seq(Nat)
  PROVE  (f \o g) \o x = f \o (g \o x)
<1>1. PICK S : S = Nat
  OBVIOUS
<1>2. f \in Seq(S) /\ g \in Seq(S) /\ x \in Seq(S)
  BY <1>1
<1> QED
  BY ONLY <1>2, ConcatAssociative

\* The fields of the records php-fpm may send.
LEMMA SentIs ==
  ASSUME NEW r \in Sent
  PROVE  /\ r.type \in Nat /\ r.content \in Seq(Nat) /\ r.padding \in Nat
         /\ \/ r.type \in {STDOUT, STDERR, UNHANDLED} /\ r # EndRequest
            \/ r.type = END /\ r = EndRequest
<1>1. CASE r \in [type : {STDOUT}, content : Output, padding : Padding]
  <2>1. r.type = STDOUT /\ r.content \in Seq(Nat) /\ r.padding \in Nat
    BY <1>1, FastCgiAssumption
  <2> QED
    BY <2>1, Types DEF EndRequest
<1>2. CASE r \in [type : {STDERR}, content : Error, padding : Padding]
  <2>1. r.type = STDERR /\ r.content \in Seq(Nat) /\ r.padding \in Nat
    BY <1>2, FastCgiAssumption
  <2> QED
    BY <2>1, Types DEF EndRequest
<1>3. CASE r \in [type : {UNHANDLED}, content : Foreign, padding : Padding]
  <2>1. r.type = UNHANDLED /\ r.content \in Seq(Nat) /\ r.padding \in Nat
    BY <1>3, FastCgiAssumption
  <2> QED
    BY <2>1, Types DEF EndRequest
<1>4. CASE r = EndRequest
  <2>1. r.content = <<0>> /\ r.type = END /\ r.padding = 0
    BY <1>4 DEF EndRequest
  <2>2. <<0>> \in Seq(Nat)
    OBVIOUS
  <2> QED
    BY <1>4, <2>1, <2>2, Types
<1> QED
  BY <1>1, <1>2, <1>3, <1>4 DEF Sent, Record

\* The text of a record is its header and its rest.
LEMMA TextIs ==
  ASSUME NEW r \in Sent
  PROVE  /\ Header(r) \in Seq(Nat) /\ Len(Header(r)) = 3
         /\ Rest(r) \in Seq(Nat) /\ Len(Rest(r)) = Len(r.content) + r.padding
         /\ Text(r) = Header(r) \o Rest(r)
         /\ Header(r)[1] = r.type
         /\ Header(r)[2] = Len(r.content) /\ Header(r)[3] = r.padding
<1>1. r.type \in Nat /\ r.padding \in Nat /\ r.content \in Seq(Nat)
  BY SentIs
<1>2. Len(r.content) \in Nat
  BY <1>1
<1>3. /\ Header(r) \in Seq(Nat) /\ Len(Header(r)) = 3
      /\ Header(r)[1] = r.type
      /\ Header(r)[2] = Len(r.content) /\ Header(r)[3] = r.padding
  BY <1>1, <1>2, Triple DEF Header
<1>4. PICK c \in Seq(Nat), f \in Seq(Nat) :
        c = r.content /\ f = Fill(r.padding, 0) /\ Len(f) = r.padding
  BY <1>1, Zeros
<1>5. c \o f \in Seq(Nat) /\ Len(c \o f) = Len(c) + Len(f)
  OBVIOUS
<1>6. Rest(r) \in Seq(Nat) /\ Len(Rest(r)) = Len(r.content) + r.padding
  BY <1>4, <1>5 DEF Rest
<1>7. (Header(r) \o c) \o f = Header(r) \o (c \o f)
  BY <1>3, ConcatAssociative, SMTT(40)
<1>8. Text(r) = Header(r) \o Rest(r)
  BY <1>4, <1>7 DEF Text, Header, Rest
<1> QED
  BY <1>3, <1>6, <1>8

\* What is at the front is read.
LEMMA ReadnFront ==
  ASSUME NEW f \in Seq(Nat), NEW x \in Seq(Nat), NEW n \in Nat,
         incoming = f \o x, Len(f) = n, Readn(n)
  PROVE  Complete(n) /\ Taken(n) = f /\ incoming' = x /\ link' = link
<1>1. PICK s \in Seq(Nat) : s = f \o x /\ Len(s) = n + Len(x) /\ incoming = s
  <2>1. f \o x \in Seq(Nat) /\ Len(f \o x) = Len(f) + Len(x)
    BY ONLY f \in Seq(Nat), x \in Seq(Nat)
  <2> QED
    BY <2>1
<1>2. Complete(n)
  <2>1. Len(x) \in Nat
    OBVIOUS
  <2> QED
    BY <1>1, <2>1 DEF Complete
<1>3. SubSeq(s, 1, n) = f
  <2>1. SubSeq(f \o x, 1, Len(f)) = f
    BY SubSeqOfConcat1, ConcatSimplifications
  <2> QED
    BY <1>1, <2>1
<1>4. SubSeq(s, n + 1, Len(s)) = x
  <2>1. PICK m \in Nat : m = Len(x)
    OBVIOUS
  <2>2. SubSeq(f \o x, n + 1, n + m) = x
    <3>1. CASE m = 0
      <4>1. x = <<>>
        BY ONLY x \in Seq(Nat), <2>1, <3>1, EmptySeq
      <4> QED
        BY <3>1, <4>1, SubSeqEmpty
    <3>2. CASE m > 0
      <4>1. /\ n + 1 \in (Len(f) + 1)..(Len(f) + Len(x))
            /\ n + m \in (Len(f) + 1)..(Len(f) + Len(x))
        BY <2>1, <3>2
      <4>2. SubSeq(f \o x, n + 1, n + m) = SubSeq(x, n + 1 - Len(f), n + m - Len(f))
        BY <4>1, SubSeqOfConcat2
      <4>3. n + 1 - Len(f) = 1 /\ n + m - Len(f) = m
        BY <2>1
      <4> QED
        BY <2>1, <4>2, <4>3, SubSeqFull
    <3> QED
      BY <3>1, <3>2
  <2> QED
    BY <1>1, <2>1, <2>2
<1> QED
  BY <1>1, <1>2, <1>3, <1>4 DEF Taken, Readn

\* What is not complete is read to its end.
LEMMA ReadnShort ==
  ASSUME incoming \in Seq(Nat), NEW n \in Nat, Len(incoming) < n, Readn(n)
  PROVE  /\ ~Complete(n) /\ Taken(n) = incoming /\ incoming' = <<>>
         /\ link # "open" /\ link' # "open"
<1>1. ~Complete(n)
  BY DEF Complete
<1>2. SubSeq(incoming, 1, Len(incoming)) = incoming
  OBVIOUS
<1>3. SubSeq(incoming, n + 1, Len(incoming)) = <<>>
  BY SubSeqEmpty
<1> QED
  BY <1>1, <1>2, <1>3 DEF Taken, Readn

\* What is complete is read, and the rest is left.
LEMMA ReadnLeaves ==
  ASSUME incoming \in Seq(Nat), NEW n \in Nat, Len(incoming) >= n, Readn(n)
  PROVE  /\ Complete(n) /\ incoming' \in Seq(Nat)
         /\ Len(incoming') = Len(incoming) - n /\ link' = link
<1>1. Complete(n)
  BY DEF Complete
<1>2. /\ SubSeq(incoming, n + 1, Len(incoming)) \in Seq(Nat)
      /\ Len(SubSeq(incoming, n + 1, Len(incoming))) = Len(incoming) - n
  OBVIOUS
<1> QED
  BY <1>1, <1>2 DEF Readn

-----------------------------------------------------------------------------
(* The buffers hold as much as was read, and the text of a single record.  *)

None(a, type) == \A i \in 1..Len(a) : a[i].type # type

Alone(a, type) == \E i \in 1..Len(a) : \A j \in 1..Len(a) : a[j].type = type <=> j = i

Byte == Nat \cup {Junk}

\* buf was filled from the records of a type in a.
Kept(buf, a, type) ==
  /\ buf \in Seq(Byte) /\ Total(a, type) \in Seq(Nat)
  /\ Len(buf) = Len(Total(a, type))
  /\ None(a, type) => buf = <<>> /\ Total(a, type) = <<>>
  /\ Alone(a, type) => buf = Total(a, type)

Account(a) ==
  /\ a \in Seq(Sent)
  /\ Kept(conBuf, a, STDOUT)
  /\ Kept(errBuf, a, STDERR)

\* Counting the records of a type.
LEMMA CountAppend ==
  ASSUME NEW a \in Seq(Sent), NEW r \in Sent, NEW type
  PROVE  /\ r.type = type => ~None(Append(a, r), type)
         /\ r.type = type /\ Alone(Append(a, r), type) => None(a, type)
         /\ r.type # type /\ None(Append(a, r), type) => None(a, type)
         /\ r.type # type /\ Alone(Append(a, r), type) => Alone(a, type)
<1>1. PICK b : b = Append(a, r)
  OBVIOUS
<1>2. PICK k \in Nat, l \in Nat :
        /\ k = Len(a) /\ l = k + 1 /\ Len(b) = l
        /\ b[l] = r /\ \A i \in 1..k : b[i] = a[i]
  <2>1. /\ Len(a) \in Nat /\ Len(b) = Len(a) + 1
        /\ b[Len(a) + 1] = r /\ \A i \in 1..Len(a) : b[i] = a[i]
    BY <1>1
  <2> QED
    BY <2>1
<1>3. l \in 1..l /\ \A i \in 1..k : i \in 1..l /\ i # l
  BY <1>2
<1>4. \A i \in 1..l : i # l => i \in 1..k
  BY <1>2
<1>5. r.type = type => ~None(b, type)
  BY <1>2, <1>3 DEF None
<1>6. ASSUME r.type = type, Alone(b, type) PROVE None(a, type)
  BY <1>2, <1>3, <1>6 DEF None, Alone
<1>7. ASSUME r.type # type, None(b, type) PROVE None(a, type)
  BY <1>2, <1>3, <1>7 DEF None
<1>8. ASSUME r.type # type, Alone(b, type) PROVE Alone(a, type)
  <2>1. PICK i \in 1..l : \A j \in 1..l : b[j].type = type <=> j = i
    BY <1>2, <1>8 DEF Alone
  <2>2. i \in 1..k
    BY <1>2, <1>3, <1>4, <1>8, <2>1
  <2>3. \A j \in 1..k : a[j].type = type <=> j = i
    BY <1>2, <1>3, <2>1
  <2> QED
    BY <1>2, <2>2, <2>3 DEF Alone
<1> QED
  BY <1>1, <1>5, <1>6, <1>7, <1>8

\* A record of the type was read whole.
LEMMA KeptRefill ==
  ASSUME NEW type, NEW buf, NEW a \in Seq(Sent), NEW r \in Sent,
         Kept(buf, a, type), r.type = type,
         Taken(Len(r.content)) = r.content
  PROVE  Kept(Refill(buf, Len(r.content)), Append(a, r), type)
<1>0. r.content \in Seq(Nat) /\ \A q \in Seq(Nat) : q \in Seq(Byte)
  BY SentIs DEF Byte
<1>1. PICK c \in Seq(Nat), n \in Nat : c = r.content /\ n = Len(c) /\ c \in Seq(Byte)
  <2>1. Len(r.content) \in Nat
    BY <1>0
  <2> QED
    BY <1>0, <2>1
<1>2. PICK j : j = Fill(n, Junk)
  OBVIOUS
<1>3. j \in Seq(Byte) /\ Len(j) = n
  <2>1. j \in [1..n -> Byte]
    BY <1>2 DEF Fill, Byte
  <2>2. j \in Seq(Byte)
    BY <2>1
  <2> QED
    BY <2>1, <2>2
<1>4. PICK m \in Nat : m = Len(buf) /\ buf \in Seq(Byte)
  BY DEF Kept
<1>5. PICK w : w = SubSeq(buf \o j, n + 1, m + n)
  OBVIOUS
<1>6. w \in Seq(Byte) /\ Len(w) = m
  <2>1. buf \o j \in Seq(Byte) /\ Len(buf \o j) = m + n
    <3>1. buf \in Seq(Byte) /\ j \in Seq(Byte)
      BY <1>3, <1>4
    <3>2. buf \o j \in Seq(Byte) /\ Len(buf \o j) = Len(buf) + Len(j)
      BY ONLY <3>1, ConcatProperties
    <3> QED
      BY ONLY <1>3, <1>4, <3>2
  <2>2. /\ SubSeq(buf \o j, n + 1, m + n) \in Seq(Byte)
        /\ Len(SubSeq(buf \o j, n + 1, m + n)) = m
    BY <2>1, SMTT(40)
  <2> QED
    BY <1>5, <2>2
<1>7. Refill(buf, n) = c \o w
  BY <1>1, <1>2, <1>4, <1>5 DEF Refill
<1>8. c \o w \in Seq(Byte) /\ Len(c \o w) = n + m
  <2>1. c \in Seq(Byte) /\ w \in Seq(Byte)
    BY <1>1, <1>6
  <2>2. c \o w \in Seq(Byte) /\ Len(c \o w) = Len(c) + Len(w)
    BY ONLY <2>1, ConcatProperties
  <2> QED
    BY <1>1, <1>6, <2>2
<1>9. PICK t \in Seq(Nat) : t = Total(a, type) /\ Len(t) = m
  BY <1>4 DEF Kept
<1>10. Total(Append(a, r), type) = t \o c
  BY <1>1, <1>9, TotalAppend DEF Added
<1>11. t \o c \in Seq(Nat) /\ Len(t \o c) = m + n
  <2>1. t \o c \in Seq(Nat) /\ Len(t \o c) = Len(t) + Len(c)
    BY ONLY t \in Seq(Nat), c \in Seq(Nat), ConcatProperties
  <2> QED
    BY ONLY <1>1, <1>9, <2>1
<1>12. ASSUME Alone(Append(a, r), type) PROVE c \o w = t \o c
  <2>1. None(a, type)
    BY <1>12, CountAppend
  <2>2. t = <<>> /\ m = 0
    <3>1. buf = <<>> /\ t = <<>>
      BY <1>9, <2>1 DEF Kept
    <3>2. Len(<<>>) = 0
      BY EmptySeq
    <3> QED
      BY <1>9, <3>1, <3>2
  <2>3. w = <<>>
    BY <1>6, <2>2, EmptySeq
  <2> QED
    BY <1>1, <2>2, <2>3, ConcatEmptySeq
<1>13. ~None(Append(a, r), type)
  BY CountAppend
<1> QED
  <2>1. Len(c \o w) = Len(t \o c)
    BY <1>8, <1>11
  <2>2. PICK b, q, x : b = Append(a, r) /\ q = Refill(buf, n) /\ x = Total(b, type)
    OBVIOUS
  <2>3. /\ q \in Seq(Byte) /\ x \in Seq(Nat) /\ Len(q) = Len(x) /\ ~None(b, type)
        /\ Alone(b, type) => q = x
    BY <1>1, <1>7, <1>8, <1>10, <1>11, <1>12, <1>13, <2>1, <2>2
  <2>4. Kept(q, b, type)
    BY <2>2, <2>3 DEF Kept
  <2> QED
    BY <1>1, <2>2, <2>4

\* A record of another type leaves the buffer alone.
LEMMA KeptBeside ==
  ASSUME NEW type, NEW buf, NEW a \in Seq(Sent), NEW r \in Sent,
         Kept(buf, a, type), r.type # type
  PROVE  Kept(buf, Append(a, r), type)
<1>1. Total(Append(a, r), type) = Total(a, type) \o <<>>
  BY TotalAppend DEF Added
<1>2. Total(a, type) \o <<>> = Total(a, type)
  BY ConcatEmptySeq DEF Kept
<1> QED
  BY <1>1, <1>2, CountAppend DEF Kept

\* Nothing was read.
LEMMA AccountEmpty ==
  ASSUME conBuf = <<>>, errBuf = <<>>
  PROVE  Account(<<>>)
<1>1. <<>> \in Seq(Sent) /\ Len(<<>>) = 0
  BY EmptySeq
<1>2. ASSUME NEW type PROVE Kept(<<>>, <<>>, type)
  <2>1. Total(<<>>, type) = <<>>
    BY <1>1, TotalEmpty
  <2>2. ~Alone(<<>>, type)
    BY <1>1 DEF Alone
  <2>3. <<>> \in Seq(Byte) /\ <<>> \in Seq(Nat)
    BY EmptySeq
  <2> QED
    BY <2>1, <2>2, <2>3 DEF Kept
<1> QED
  BY <1>1, <1>2 DEF Account

\* A record that fills no buffer.
LEMMA AccountBeside ==
  ASSUME NEW a, Account(a), NEW r \in Sent, r.type \notin {STDOUT, STDERR}
  PROVE  Account(Append(a, r))
<1>1. Append(a, r) \in Seq(Sent)
  BY DEF Account
<1> QED
  BY <1>1, KeptBeside DEF Account

\* A record that was read into its buffer.
LEMMA AccountRefill ==
  ASSUME NEW a, Account(a), NEW r \in Sent, r.type \in {STDOUT, STDERR},
         Taken(Len(r.content)) = r.content,
         IF r.type = STDOUT
         THEN conBuf' = Refill(conBuf, Len(r.content)) /\ UNCHANGED errBuf
         ELSE errBuf' = Refill(errBuf, Len(r.content)) /\ UNCHANGED conBuf
  PROVE  /\ Append(a, r) \in Seq(Sent)
         /\ Kept(conBuf', Append(a, r), STDOUT)
         /\ Kept(errBuf', Append(a, r), STDERR)
<1>1. Append(a, r) \in Seq(Sent) /\ a \in Seq(Sent)
  BY DEF Account
<1>2. CASE r.type = STDOUT
  <2>1. Kept(Refill(conBuf, Len(r.content)), Append(a, r), STDOUT)
    BY <1>1, <1>2, KeptRefill DEF Account
  <2>2. Kept(errBuf, Append(a, r), STDERR)
    BY <1>1, <1>2, KeptBeside, Types DEF Account
  <2> QED
    BY <1>1, <1>2, <2>1, <2>2
<1>3. CASE r.type = STDERR
  <2>1. Kept(Refill(errBuf, Len(r.content)), Append(a, r), STDERR)
    BY <1>1, <1>3, KeptRefill DEF Account
  <2>2. Kept(conBuf, Append(a, r), STDOUT)
    BY <1>1, <1>3, KeptBeside, Types DEF Account
  <2> QED
    BY <1>1, <1>3, <2>1, <2>2, Types
<1> QED
  BY <1>2, <1>3

-----------------------------------------------------------------------------
(* Where RecvRecord is in the answer.                                      *)

NoEnd(a) == \A i \in 1..Len(a) : a[i] # EndRequest

\* RecvRecord skips nothing, so there may be nothing to skip.
Harmless(r) == r.type = UNHANDLED => Rest(r) = <<>>

\* rest is what is left of the last record, the others having been handled.
Reading(rest) ==
  \/ at = "header" /\ rest = <<>> /\ NoEnd(answer) /\ Account(answer)
  \/ /\ at = "header"
     /\ \E a, r : /\ r \in Sent /\ answer = Append(a, r) /\ rest = Text(r)
                  /\ Harmless(r) /\ NoEnd(a) /\ Account(a)
  \/ /\ at = "content"
     /\ \E a, r : /\ r \in Sent /\ answer = Append(a, r) /\ rest = Rest(r)
                  /\ header = Header(r) /\ r.type \in {STDOUT, STDERR}
                  /\ NoEnd(a) /\ Account(a)
  \/ /\ at = "padding" /\ NoEnd(answer) /\ Account(answer)
     /\ header[3] \in Nat /\ rest = Fill(header[3], 0)
  \/ at = "end" /\ rest = <<0>> /\ Ended /\ Account(answer)

\* The beginning of a record that php-fpm did not send to its end.
Cut(x) ==
  \E r \in Sent : \E n \in 0..(Len(Text(r)) - 1) :
    ~Misleads(r, n) /\ x = SubSeq(Text(r), 1, n)

Scrap(x) ==
  /\ x \in Seq(Nat)
  /\ link = "open" \/ Ended => x = <<>>
  /\ x = <<>> \/ Cut(x)

\* The rest of the last record, and perhaps the beginning of another.
Running ==
  \E rest, x : /\ rest \in Seq(Nat) /\ incoming = rest \o x
               /\ Reading(rest) /\ Scrap(x)

\* Not enough for a header.
Stump(s) == Len(s) < 3

\* php-fpm is gone without having ended its answer, and what there is left
\* does not suffice for a record.
Broken ==
  /\ link # "open" /\ NoEnd(answer) /\ incoming \in Seq(Nat)
  /\ \/ at = "header" /\ (Stump(incoming) \/ Cut(incoming))
     \/ /\ at = "content" /\ header # <<>>
        /\ incoming = <<>> \/ Len(incoming) < header[2] + header[3]
     \/ at = "padding" /\ header # <<>> /\ Len(incoming) < header[3]
     \/ at = "end" /\ incoming = <<>>

Whole3(h) == h \in Seq(Nat) /\ Len(h) = 3 /\ h[2] \in Nat /\ h[3] \in Nat

\* Where RecvRecord is, if nothing was sent that it does not skip.
Follows ==
  /\ answer \in Seq(Sent)
  /\ header = <<>> \/ Whole3(header)
  /\ at \in {"header", "content", "padding", "end", "ok", "error"}
  /\ IF at \in {"ok", "error"}
     THEN AnswerFaithful /\ AnswerHandedOver
     ELSE promised = -1 /\ client = <<>> /\ (Running \/ Broken)

RecvInv == lost \/ Follows

\* An answer has ended if END_REQUEST is in it.
LEMMA EndedIs ==
  ASSUME answer \in Seq(Sent)
  PROVE  Ended <=> ~NoEnd(answer)
BY DEF Ended, NoEnd

\* An answer without END_REQUEST has none after another record.
LEMMA NoEndAppend ==
  ASSUME NEW a \in Seq(Sent), NEW r \in Sent, NoEnd(a), r # EndRequest
  PROVE  NoEnd(Append(a, r))
<1>1. PICK b : b = Append(a, r)
  OBVIOUS
<1>2. /\ Len(a) \in Nat /\ Len(b) = Len(a) + 1
      /\ b[Len(a) + 1] = r /\ \A i \in 1..Len(a) : b[i] = a[i]
  BY <1>1
<1>3. NoEnd(b)
  BY <1>2 DEF NoEnd
<1> QED
  BY <1>1, <1>3

\* END_REQUEST ends an answer.
LEMMA EndAppend ==
  ASSUME NEW a \in Seq(Sent)
  PROVE  ~NoEnd(Append(a, EndRequest))
<1>1. PICK b : b = Append(a, EndRequest)
  OBVIOUS
<1>2. Len(a) \in Nat /\ Len(b) = Len(a) + 1 /\ b[Len(a) + 1] = EndRequest
  BY <1>1 DEF Sent
<1>3. Len(a) + 1 \in 1..Len(b)
  BY <1>2
<1>4. ~NoEnd(b)
  BY <1>2, <1>3 DEF NoEnd
<1> QED
  BY <1>1, <1>4

\* What END_REQUEST consists of.
LEMMA EndRequestIs ==
  /\ EndRequest \in Sent /\ EndRequest.type = END /\ Rest(EndRequest) = <<0>>
  /\ Fill(0, 0) = <<>>
<1>1. Fill(0, 0) = <<>>
  BY DEF Fill
<1>2. EndRequest \in Sent /\ EndRequest.content \in Seq(Nat) /\ EndRequest.padding = 0
  BY SentIs DEF Sent, EndRequest
<1>3. Rest(EndRequest) = EndRequest.content
  BY <1>1, <1>2, ConcatEmptySeq DEF Rest
<1> QED
  BY <1>1, <1>2, <1>3 DEF EndRequest

\* A record with a type is handled by it.
LEMMA HandledIs ==
  ASSUME NEW r \in Sent
  PROVE  \/ r.type \in {STDOUT, STDERR} /\ Handled(r.type) = "content"
         \/ r = EndRequest /\ Handled(r.type) = "end"
         \/ r.type = UNHANDLED /\ Handled(r.type) = "header"
<1>1. CASE r.type = UNHANDLED
  BY <1>1, Types DEF Handled
<1>2. CASE r = EndRequest
  BY <1>2, EndRequestIs, Types DEF Handled
<1>3. CASE r.type \in {STDOUT, STDERR}
  BY <1>3, Types DEF Handled
<1> QED
  BY <1>1, <1>2, <1>3, SentIs

\* A stale header, or an uninitialized one, has three fields.
LEMMA StaleIs ==
  ASSUME header = <<>> \/ Whole3(header), NEW old \in Stale
  PROVE  Whole3(old)
<1>1. CASE header = <<>>
  <2>1. old \in Uninitialized
    BY <1>1 DEF Stale
  <2>2. \A a \in Nat : \A b \in {0, 1} : Whole3(<<a, b, 0>>)
    BY Triple DEF Whole3
  <2> QED
    BY <2>1, <2>2, Types DEF Uninitialized
<1>2. CASE header # <<>>
  BY <1>2 DEF Stale
<1> QED
  BY <1>1, <1>2

\* A whole header is not nothing.
LEMMA HeaderThere ==
  ASSUME NEW h, Whole3(h)
  PROVE  h # <<>>
<1>1. Len(h) = 3
  BY DEF Whole3
<1>2. PICK k \in Nat : k = 3
  OBVIOUS
<1>3. Len(h) = k /\ k # 0
  BY ONLY <1>1, <1>2
<1>4. Len(<<>>) = 0
  BY EmptySeq
<1> QED
  BY ONLY <1>3, <1>4, Zenon

\* What a whole header is read into.
LEMMA HeaderRead ==
  ASSUME NEW h, Whole3(h), NEW old
  PROVE  h \o SubSeq(old, Len(h) + 1, HeaderLength) = h
<1>1. Len(h) = 3 /\ h \in Seq(Nat)
  BY DEF Whole3
<1>2. SubSeq(old, 4, 3) = <<>>
  BY SubSeqEmpty
<1>3. SubSeq(old, Len(h) + 1, HeaderLength) = <<>>
  BY <1>1, <1>2 DEF HeaderLength
<1> QED
  BY <1>1, <1>3, ConcatEmptySeq

\* What a stump is read into.
LEMMA StumpRead ==
  ASSUME NEW s \in Seq(Nat), Stump(s), NEW old, Whole3(old)
  PROVE  Whole3(s \o SubSeq(old, Len(s) + 1, HeaderLength))
<1>1. PICK m \in 0..2 : m = Len(s)
  <2>1. Len(s) \in Nat
    BY ONLY s \in Seq(Nat)
  <2>2. Len(s) < 3
    BY DEF Stump
  <2>3. PICK m \in Nat : m = Len(s)
    BY <2>1
  <2>4. m \in 0..2
    BY <2>2, <2>3
  <2> QED
    BY <2>3, <2>4
<1>2. PICK t : t = SubSeq(old, m + 1, 3)
  OBVIOUS
<1>3. t \in Seq(Nat) /\ Len(t) = 3 - m /\ \A i \in 1..(3 - m) : t[i] = old[m + i]
  <2>1. \A i \in 1..3 : old[i] \in Nat
    <3>1. old \in [1..Len(old) -> Nat]
      BY LenProperties DEF Whole3
    <3> QED
      BY <3>1 DEF Whole3
  <2>2. m + 1 \in Int /\ 3 \in Int /\ m + 1 <= 3 /\ \A i \in (m + 1)..3 : old[i] \in Nat
    BY <2>1
  <2>3. /\ SubSeq(old, m + 1, 3) \in Seq(Nat)
        /\ Len(SubSeq(old, m + 1, 3)) = 3 - (m + 1) + 1
        /\ \A i \in 1..(3 - (m + 1) + 1) : SubSeq(old, m + 1, 3)[i] = old[m + 1 + i - 1]
    BY <2>2, SubSeqProperties
  <2>4. 3 - (m + 1) + 1 = 3 - m /\ \A i \in 1..(3 - m) : m + 1 + i - 1 = m + i
    OBVIOUS
  <2> QED
    BY <1>2, <2>3, <2>4
<1>4. PICK u : u = s \o t
  OBVIOUS
<1>5. /\ u \in Seq(Nat) /\ Len(u) = 3
      /\ \A i \in 1..3 : u[i] = IF i <= m THEN s[i] ELSE t[i - m]
  BY <1>1, <1>3, <1>4
<1>6. u[2] \in Nat /\ u[3] \in Nat
  <2>1. u \in [1..3 -> Nat]
    BY <1>5, LenProperties
  <2> QED
    BY ONLY <2>1
<1> QED
  BY <1>1, <1>2, <1>4, <1>5, <1>6 DEF Whole3, HeaderLength

-----------------------------------------------------------------------------
(* php-fpm.                                                                *)

\* As long as the answer is the same, so is what the client should get of it.
LEMMA AnswerStays ==
  ASSUME answer' = answer
  PROVE  \A type : /\ Contents(type)' = Contents(type)
                   /\ InOneRecord(type)' <=> InOneRecord(type)
<1>1. \A type : Contents(type)' = Total(answer', type) /\ Contents(type) = Total(answer, type)
  BY DEF Contents, Total, Gathers, Added
<1> QED
  BY <1>1 DEF InOneRecord

\* What is there of a record in which RecvRecord is.
LEMMA RunningHolds ==
  ASSUME Follows, link = "open", at \notin {"ok", "error"}
  PROVE  incoming \in Seq(Nat) /\ Reading(incoming)
<1>1. Running
  BY DEF Follows, Broken
<1>2. PICK rest, x : /\ rest \in Seq(Nat) /\ incoming = rest \o x
                     /\ Reading(rest) /\ x = <<>>
  BY <1>1 DEF Running, Scrap
<1>3. incoming = rest
  BY <1>2, ConcatEmptySeq
<1> QED
  BY <1>2, <1>3

\* The length of what php-fpm sends of a record.
LEMMA TextLength ==
  ASSUME NEW r \in Sent
  PROVE  /\ Text(r) \in Seq(Nat)
         /\ Len(Text(r)) = 3 + Len(Rest(r)) /\ Len(Rest(r)) \in Nat
<1>1. PICK h \in Seq(Nat), t \in Seq(Nat) : h = Header(r) /\ t = Rest(r) /\ Len(h) = 3
  BY TextIs
<1>2. h \o t \in Seq(Nat) /\ Len(h \o t) = Len(h) + Len(t) /\ Len(t) \in Nat
  BY ONLY h \in Seq(Nat), t \in Seq(Nat), ConcatProperties, LenProperties
<1>3. Text(r) = h \o t
  BY <1>1, TextIs
<1> QED
  BY <1>1, <1>2, <1>3

\* While RecvRecord is in a record there is what it reads next.
LEMMA WaitsForHeader ==
  ASSUME at \notin {"ok", "error"}, incoming \in Seq(Nat), Reading(incoming), ~Complete(Wanted)
  PROVE  at = "header" /\ incoming = <<>> /\ NoEnd(answer) /\ Account(answer)
<1>1. ASSUME at = "header", NEW r \in Sent, incoming = Text(r) PROVE FALSE
  <2>1. Wanted = 3
    BY <1>1 DEF Wanted, HeaderLength
  <2>2. Len(incoming) >= 3
    BY <1>1, TextLength
  <2> QED
    BY <2>1, <2>2 DEF Complete
<1>2. ASSUME at = "content", NEW r \in Sent, incoming = Rest(r), header = Header(r) PROVE FALSE
  <2>1. PICK c \in Nat, q \in Nat : c = Len(r.content) /\ q = r.padding
    BY SentIs, LenProperties
  <2>2. Wanted = c /\ Len(incoming) = c + q
    BY <1>2, <2>1, TextIs DEF Wanted
  <2> QED
    BY <2>1, <2>2 DEF Complete
<1>3. ASSUME at = "padding", header[3] \in Nat, incoming = Fill(header[3], 0) PROVE FALSE
  <2>1. Wanted = header[3] /\ Len(incoming) = header[3]
    BY <1>3, Zeros DEF Wanted
  <2> QED
    BY <1>3, <2>1 DEF Complete
<1>4. ASSUME at = "end", incoming = << 0 >> PROVE FALSE
  <2>1. Wanted = 1 /\ Len(incoming) = 1
    BY <1>4 DEF Wanted
  <2> QED
    BY <2>1 DEF Complete
<1> QED
  BY <1>1, <1>2, <1>3, <1>4 DEF Reading

\* php-fpm sends a record when all there was is read.
LEMMA FpmSendsStep ==
  ASSUME Follows, NEW r \in Sent, FpmSends(r), ~lost'
  PROVE  Follows'
<1>1. /\ at \notin {"ok", "error"} /\ ~Complete(Wanted) /\ link = "open"
      /\ answer' = Append(answer, r) /\ incoming' = incoming \o Text(r)
      /\ UNCHANGED <<link, recvVars>>
  BY DEF FpmSends
<1>2. /\ at = "header" /\ incoming = <<>>
      /\ NoEnd(answer) /\ Account(answer)
  BY <1>1, RunningHolds, WaitsForHeader
<1>3. Text(r) \in Seq(Nat) /\ Len(Text(r)) = 3 + Len(Rest(r)) /\ Len(Rest(r)) \in Nat
  BY TextLength
<1>4. answer' \in Seq(Sent)
  <2>1. answer \in Seq(Sent)
    BY DEF Follows
  <2> QED
    BY <1>1, <2>1
<1>5. incoming' = Text(r) /\ incoming' = Text(r) \o <<>>
  BY <1>1, <1>2, <1>3, ConcatEmptySeq
<1>6. Harmless(r)
  <2>1. SUFFICES ASSUME r.type = UNHANDLED PROVE Rest(r) = <<>>
    BY DEF Harmless
  <2>2. ~(Len(Text(r)) > 3)
    BY <2>1 DEF FpmSends, Misleads, HeaderLength
  <2>3. Len(Rest(r)) = 0
    BY <1>3, <2>2
  <2> QED
    BY <2>3, TextIs, EmptySeq
<1>7. \E a, q : /\ q \in Sent /\ answer' = Append(a, q) /\ Text(r) = Text(q)
                /\ Harmless(q) /\ NoEnd(a) /\ Account(a)'
  BY <1>1, <1>2, <1>6 DEF recvVars, Account
<1>8. Reading(Text(r))'
  BY <1>1, <1>2, <1>7 DEF recvVars, Reading
<1>9. Scrap(<<>>)'
  BY EmptySeq DEF Scrap
<1>10. Running'
  BY <1>3, <1>5, <1>8, <1>9 DEF Running
<1> QED
  BY <1>1, <1>2, <1>4, <1>10 DEF Follows, recvVars, Whole3

\* php-fpm stops, and part of a record may be left behind.
LEMMA FpmStopsStep ==
  ASSUME Follows, NEW r \in Sent, FpmStops(r), ~lost'
  PROVE  Follows'
<1>1. /\ link = "open" /\ link' \in {"closed", "reset", "failing"}
      /\ UNCHANGED <<answer, recvVars>>
  BY DEF FpmStops
<1>2. PICK n \in 0..(Len(Text(r)) - 1) :
        /\ n > 0 => ~Ended
        /\ incoming' = incoming \o SubSeq(Text(r), 1, n)
        /\ ~lost /\ ~Misleads(r, n)
  BY DEF FpmStops
<1>3. PICK x : x = SubSeq(Text(r), 1, n)
  OBVIOUS
<1>4. Text(r) \in Seq(Nat)
  BY TextLength
<1>5. x \in Seq(Nat) /\ (n = 0 => x = <<>>)
  BY <1>3, <1>4
<1>6. Ended' <=> Ended
  BY <1>1 DEF Ended
<1>7. Scrap(x)'
  <2>1. n \in Nat
    BY <1>4
  <2>2. Ended => x = <<>>
    BY <1>2, <1>5, <2>1
  <2>3. Cut(x)
    BY <1>2, <1>3 DEF Cut
  <2> QED
    BY <1>1, <1>5, <1>6, <2>2, <2>3 DEF Scrap
<1>8. CASE at \notin {"ok", "error"}
  <2>1. incoming \in Seq(Nat) /\ Reading(incoming)
    BY <1>1, <1>8, RunningHolds
  <2>2. PICK rest : rest = incoming
    OBVIOUS
  <2>3. Reading(rest)'
    BY <1>1, <1>6, <2>1, <2>2 DEF recvVars, Reading, Account
  <2>4. Running'
    BY <1>2, <1>3, <1>7, <2>1, <2>2, <2>3 DEF Running
  <2> QED
    BY <1>1, <1>8, <2>4 DEF Follows, recvVars, Whole3
<1>9. CASE at \in {"ok", "error"}
  <2>1. AnswerFaithful /\ AnswerHandedOver
    BY <1>9 DEF Follows
  <2>2. AnswerFaithful' /\ AnswerHandedOver'
    BY <1>1, <1>2, <1>6, <2>1, AnswerStays DEF recvVars, AnswerFaithful, AnswerHandedOver
  <2> QED
    BY <1>1, <1>9, <2>2 DEF Follows, recvVars, Whole3
<1> QED
  BY <1>8, <1>9

-----------------------------------------------------------------------------
(* RecvRecord.                                                             *)

\* The state after a step that goes on.
LEMMA GoesOn ==
  ASSUME Follows, at \notin {"ok", "error"}, answer' = answer,
         promised' = promised, client' = client,
         header' = <<>> \/ Whole3(header'),
         at' \in {"header", "content", "padding", "end"},
         Running' \/ Broken'
  PROVE  Follows'
BY DEF Follows

\* The state after a step with which RecvRecord gives up.
LEMMA GivesUp ==
  ASSUME Follows, at \notin {"ok", "error"}, answer' = answer,
         promised' = promised, header' = header, at' \in {"ok", "error"}, NoEnd(answer)
  PROVE  Follows'
<1>1. ~Ended'
  BY EndedIs DEF Follows, Ended
<1>2. promised' = -1
  BY DEF Follows
<1>3. AnswerFaithful' /\ AnswerHandedOver'
  BY <1>1, <1>2 DEF AnswerFaithful, AnswerHandedOver
<1> QED
  BY <1>3 DEF Follows

\* A tail is still one when the step takes nothing of it.
LEMMA ScrapStays ==
  ASSUME NEW x, Scrap(x), link' = link, answer' = answer
  PROVE  Scrap(x)'
BY DEF Scrap, Ended

\* A whole header is read.
LEMMA ReadWholeHeader ==
  ASSUME Follows, ReadHeader, NEW h, Whole3(h), NEW x \in Seq(Nat), incoming = h \o x
  PROVE  /\ header' = h /\ at' = Handled(h[1]) /\ incoming' = x
         /\ UNCHANGED <<link, answer, conBuf, errBuf, promised, client>>
<1>1. h \in Seq(Nat) /\ Len(h) = HeaderLength /\ HeaderLength \in Nat
  BY DEF Whole3, HeaderLength
<1>2. Readn(HeaderLength)
  BY DEF ReadHeader
<1>3. Taken(HeaderLength) = h /\ incoming' = x /\ link' = link
  BY <1>1, <1>2, ReadnFront
<1>4. incoming # <<>>
  <2>1. Len(h \o x) = Len(h) + Len(x) /\ Len(x) \in Nat
    BY ONLY <1>1, x \in Seq(Nat)
  <2>2. Len(h \o x) # 0
    BY <1>1, <2>1 DEF HeaderLength
  <2> QED
    BY <2>2, EmptySeq
<1>5. PICK old \in Stale : header' = Taken(HeaderLength)
                           \o SubSeq(old, Len(Taken(HeaderLength)) + 1, HeaderLength)
  BY <1>4 DEF ReadHeader
<1>6. header' = h
  BY <1>3, <1>5, HeaderRead
<1> QED
  BY <1>3, <1>4, <1>6 DEF ReadHeader

\* The header of a record is read, the rest of it is there.
LEMMA HeaderStep ==
  ASSUME Follows, ReadHeader, NEW x, Scrap(x), NEW a, Account(a), NoEnd(a),
         NEW r \in Sent, Harmless(r), answer = Append(a, r), incoming = Text(r) \o x
  PROVE  Follows'
<1>1. /\ x \in Seq(Nat) /\ Rest(r) \in Seq(Nat) /\ Header(r) \in Seq(Nat)
      /\ a \in Seq(Sent) /\ answer \in Seq(Sent)
  BY TextIs DEF Scrap, Account, Follows
<1>2. Whole3(Header(r)) /\ Header(r)[1] = r.type
  BY TextIs, SentIs, LenProperties DEF Whole3
<1>3. incoming = Header(r) \o (Rest(r) \o x)
  <2>1. PICK h, t : h = Header(r) /\ t = Rest(r)
    OBVIOUS
  <2>2. (h \o t) \o x = h \o (t \o x)
    <3>1. h \in Seq(Nat) /\ t \in Seq(Nat) /\ x \in Seq(Nat)
      BY <1>1, <2>1
    <3> QED
      BY ONLY <3>1, Joined
  <2>3. Text(r) = h \o t
    BY <2>1, TextIs
  <2> QED
    BY <2>1, <2>2, <2>3
<1>4. Rest(r) \o x \in Seq(Nat)
  BY ONLY <1>1, ConcatProperties
<1>5. /\ header' = Header(r) /\ at' = Handled(r.type) /\ incoming' = Rest(r) \o x
      /\ UNCHANGED <<link, answer, conBuf, errBuf, promised, client>>
  BY <1>2, <1>3, <1>4, ReadWholeHeader
<1>6. Scrap(x)' /\ \A b : Account(b)' <=> Account(b)
  BY <1>5, ScrapStays DEF Account
<1>7. at = "header"
  BY DEF ReadHeader
<1>8. Reading(Rest(r))'
  <2>1. CASE r.type \in {STDOUT, STDERR} /\ Handled(r.type) = "content"
    <3>1. PICK s : s = Rest(r)
      OBVIOUS
    <3>2. \E b, q : /\ q \in Sent /\ answer' = Append(b, q) /\ s = Rest(q)
                    /\ header' = Header(q) /\ q.type \in {STDOUT, STDERR}
                    /\ NoEnd(b) /\ Account(b)'
      BY <1>5, <1>6, <2>1, <3>1
    <3>3. Reading(s)'
      BY <1>5, <2>1, <3>2 DEF Reading
    <3> QED
      BY <3>1, <3>3
  <2>2. CASE r = EndRequest /\ Handled(r.type) = "end"
    <3>1. Ended'
      BY <1>1, <1>5, <2>2, EndAppend, EndedIs DEF Ended
    <3>2. Account(answer)'
      <4>1. Account(answer)
        BY <2>2, AccountBeside, EndRequestIs, Types
      <4> QED
        BY <1>5, <4>1 DEF Account
    <3> QED
      BY <1>5, <2>2, <3>1, <3>2, EndRequestIs DEF Reading
  <2>3. CASE r.type = UNHANDLED /\ Handled(r.type) = "header"
    <3>1. NoEnd(answer)
      BY <1>1, <2>3, NoEndAppend, EndRequestIs, Types
    <3>2. Account(answer)
      BY <2>3, AccountBeside, Types
    <3>3. Account(answer)'
      BY <1>5, <3>2 DEF Account
    <3>4. Rest(r) = <<>>
      BY <2>3 DEF Harmless
    <3> QED
      BY <1>5, <2>3, <3>1, <3>3, <3>4 DEF Reading
  <2> QED
    BY <2>1, <2>2, <2>3, HandledIs
<1>9. Running'
  BY <1>1, <1>5, <1>6, <1>8 DEF Running
<1>10. at' \in {"header", "content", "padding", "end"}
  BY <1>5, HandledIs
<1> QED
  BY <1>2, <1>5, <1>7, <1>9, <1>10, GoesOn

\* The content of a record is read.
LEMMA ContentStep ==
  ASSUME Follows, ReadContent, NEW x, Scrap(x), NEW a, Account(a), NoEnd(a),
         NEW r \in Sent, answer = Append(a, r), incoming = Rest(r) \o x,
         header = Header(r), r.type \in {STDOUT, STDERR}
  PROVE  Follows'
<1>1. PICK c \in Seq(Nat), f \in Seq(Nat), n \in Nat :
        /\ c = r.content /\ n = Len(c) /\ f = Fill(r.padding, 0)
  <2>1. r.content \in Seq(Nat) /\ Fill(r.padding, 0) \in Seq(Nat)
    BY SentIs, Zeros
  <2>2. Len(r.content) \in Nat
    BY <2>1
  <2> QED
    BY <2>1, <2>2
<1>2. x \in Seq(Nat) /\ a \in Seq(Sent) /\ answer \in Seq(Sent) /\ r.padding \in Nat
  BY SentIs DEF Scrap, Account, Follows
<1>3. header[2] = n /\ header[3] = r.padding /\ header[1] = r.type
  BY <1>1, TextIs
<1>4. incoming = c \o (f \o x) /\ f \o x \in Seq(Nat)
  <2>1. (c \o f) \o x = c \o (f \o x)
    BY <1>2, Joined
  <2>2. f \o x \in Seq(Nat)
    BY ONLY <1>1, <1>2, ConcatProperties
  <2> QED
    BY <1>1, <2>1, <2>2 DEF Rest
<1>5. Complete(n) /\ Taken(n) = c /\ incoming' = f \o x /\ link' = link
  <2>1. Readn(n)
    BY <1>3 DEF ReadContent
  <2> QED
    BY <1>1, <1>4, <2>1, ReadnFront
<1>6. /\ at = "content" /\ at' = AfterContent(r.padding)
      /\ UNCHANGED <<answer, header, promised, client>>
  BY <1>3, <1>5 DEF ReadContent
<1>7. Account(answer)'
  <2>1. IF r.type = STDOUT
        THEN conBuf' = Refill(conBuf, Len(r.content)) /\ UNCHANGED errBuf
        ELSE errBuf' = Refill(errBuf, Len(r.content)) /\ UNCHANGED conBuf
    BY <1>1, <1>3 DEF ReadContent
  <2>2. Taken(Len(r.content)) = r.content
    BY <1>1, <1>5
  <2>3. /\ Append(a, r) \in Seq(Sent)
        /\ Kept(conBuf', Append(a, r), STDOUT)
        /\ Kept(errBuf', Append(a, r), STDERR)
    BY <2>1, <2>2, AccountRefill
  <2> QED
    BY <1>6, <2>3 DEF Account
<1>8. NoEnd(answer)
  BY <1>2, NoEndAppend, EndRequestIs, Types
<1>9. Scrap(x)'
  BY <1>5, <1>6, ScrapStays
<1>10. CASE r.padding > 0
  <2>1. at' = "padding"
    BY <1>6, <1>10 DEF AfterContent
  <2>2. Reading(f)'
    BY <1>1, <1>2, <1>3, <1>6, <1>7, <1>8, <2>1 DEF Reading
  <2>3. Running'
    BY <1>5, <1>9, <2>2 DEF Running
  <2> QED
    BY <1>6, <2>1, <2>3, GoesOn DEF Follows
<1>11. CASE r.padding = 0
  <2>1. at' = "header" /\ f = <<>>
    BY <1>1, <1>6, <1>11, EndRequestIs DEF AfterContent
  <2>2. Reading(f)'
    BY <1>6, <1>7, <1>8, <2>1 DEF Reading
  <2>3. Running'
    BY <1>5, <1>9, <2>2 DEF Running
  <2> QED
    BY <1>6, <2>1, <2>3, GoesOn DEF Follows
<1> QED
  BY <1>2, <1>10, <1>11

\* The padding of a record is read.
LEMMA PaddingStep ==
  ASSUME Follows, ReadPadding, NEW x, Scrap(x), NoEnd(answer), Account(answer),
         header[3] \in Nat, incoming = Fill(header[3], 0) \o x
  PROVE  Follows'
<1>1. x \in Seq(Nat) /\ Fill(header[3], 0) \in Seq(Nat) /\ Len(Fill(header[3], 0)) = header[3]
  BY Zeros DEF Scrap
<1>2. Readn(header[3])
  BY DEF ReadPadding
<1>3. Complete(header[3]) /\ incoming' = x /\ link' = link
  BY <1>1, <1>2, ReadnFront
<1>4. /\ at = "padding" /\ at' = "header"
      /\ UNCHANGED <<answer, header, conBuf, errBuf, promised, client>>
  BY <1>3 DEF ReadPadding
<1>5. Scrap(x)' /\ Account(answer)'
  BY <1>3, <1>4, ScrapStays DEF Account
<1>6. Reading(<<>>)'
  BY <1>4, <1>5 DEF Reading
<1>7. incoming' = <<>> \o x /\ <<>> \in Seq(Nat)
  BY <1>1, <1>3, ConcatEmptySeq, EmptySeq
<1>8. Running'
  BY <1>5, <1>6, <1>7 DEF Running
<1> QED
  BY <1>4, <1>8, GoesOn DEF Follows

\* What is sent of an output with one line of head.
LEMMA PageIs ==
  ASSUME NEW out \in Seq(Byte), NEW i \in DOMAIN out, HeadEnd(out, i)
  PROVE  /\ Cuttable(out) /\ out # <<>>
         /\ Page(out) = SubSeq(out, i + 3, Len(out))
         /\ Page(out) \in Seq(Byte) /\ Len(Page(out)) <= Len(out)
<1>1. PICK m \in Nat : m = Len(out) /\ DOMAIN out = 1..m
  BY LenProperties
<1>2. i \in 1..m /\ i + 3 <= m /\ FirstCR(out, i)
  BY <1>1 DEF HeadEnd
<1>3. Cuttable(out)
  <2>1. i \in 1..(m - 2)
    BY <1>2
  <2> QED
    BY <1>1, <1>2, <2>1 DEF Cuttable
<1>4. ASSUME NEW k \in DOMAIN out, FirstCR(out, k) PROVE k = i
  <2>1. k \in 1..m
    BY <1>1
  <2>2. k < i => k \in 1..(i - 1)
    BY <1>2, <2>1
  <2>3. i < k => i \in 1..(k - 1)
    BY <1>2, <2>1
  <2> QED
    BY <1>2, <1>4, <2>1, <2>2, <2>3 DEF FirstCR
<1>5. (CHOOSE k \in DOMAIN out : FirstCR(out, k)) = i
  BY <1>2, <1>4
<1>6. Page(out) = SubSeq(out, i + 3, Len(out))
  BY <1>5 DEF Page
<1>7. SubSeq(out, i + 3, m) \in Seq(Byte) /\ Len(SubSeq(out, i + 3, m)) <= m
  BY <1>1, <1>2
<1>8. out # <<>>
  BY <1>1, <1>2, EmptySeq
<1> QED
  BY <1>1, <1>3, <1>6, <1>7, <1>8

\* The end of the answer is read, and the client is given the answer.
LEMMA EndStep ==
  ASSUME Follows, ReadEnd, NEW x, Scrap(x), Ended, Account(answer),
         incoming = << 0 >> \o x
  PROVE  Follows'
<1>1. x = <<>>
  BY DEF Scrap
<1>2. <<0>> \in Seq(Nat) /\ Len(<<0>>) = 1 /\ x \in Seq(Nat)
  BY DEF Scrap
<1>3. Readn(1)
  BY DEF ReadEnd
<1>4. Complete(1)
  BY <1>2, <1>3, ReadnFront
<1>5. /\ at = "end" /\ at' = "ok" /\ SendPhpToCli
      /\ UNCHANGED <<answer, header, conBuf, errBuf>>
  BY <1>4 DEF ReadEnd
<1>6. /\ Len(conBuf) = Len(Total(answer, STDOUT))
      /\ Len(errBuf) = Len(Total(answer, STDERR))
      /\ Alone(answer, STDOUT) => conBuf = Total(answer, STDOUT)
      /\ Alone(answer, STDERR) => errBuf = Total(answer, STDERR)
      /\ Len(conBuf) \in Nat /\ Len(errBuf) \in Nat
      /\ conBuf \in Seq(Byte) /\ errBuf \in Seq(Byte)
  BY DEF Account, Kept
<1>7. promised' = Len(conBuf) + Len(errBuf) /\ promised' >= 0
  BY <1>5, <1>6 DEF SendPhpToCli
<1>8. Ended'
  BY <1>5 DEF Ended
<1>9. \A type : /\ Contents(type)' = Total(answer, type)
                /\ InOneRecord(type)' => Alone(answer, type)
  <2>1. \A type : Contents(type)' = Contents(type) /\ (InOneRecord(type)' <=> InOneRecord(type))
    BY <1>5, AnswerStays
  <2>2. DOMAIN answer = 1..Len(answer)
    BY DEF Follows
  <2>3. ASSUME NEW type, InOneRecord(type) PROVE Alone(answer, type)
    <3>1. PICK i \in DOMAIN answer : \A j \in DOMAIN answer : answer[j].type = type <=> j = i
      BY <2>3 DEF InOneRecord
    <3> QED
      BY <2>2, <3>1, SMTT(40) DEF Alone
  <2> QED
    BY <2>1, <2>3, ContentsTotal
<1>10. ASSUME NEW i \in DOMAIN conBuf, HeadEnd(conBuf, i)
       PROVE  \E head \in {<<HttpHead>>, <<>>} :
                client' \in Beginnings(head \o SubSeq(conBuf, i + 3, Len(conBuf)) \o errBuf)
  <2>1. /\ Cuttable(conBuf) /\ conBuf # <<>>
        /\ Page(conBuf) = SubSeq(conBuf, i + 3, Len(conBuf))
    BY <1>6, <1>10, PageIs
  <2> QED
    BY <1>5, <2>1 DEF SendPhpToCli
<1>11. AnswerFaithful'
  <2>1. /\ conBuf' = conBuf /\ errBuf' = errBuf
        /\ \A i : HeadEnd(conBuf, i)' <=> HeadEnd(conBuf, i)
    BY <1>5 DEF HeadEnd, FirstCR
  <2>2. /\ promised' = Len(Contents(STDOUT)') + Len(Contents(STDERR)')
        /\ InOneRecord(STDOUT)' => conBuf' = Contents(STDOUT)'
        /\ InOneRecord(STDERR)' => errBuf' = Contents(STDERR)'
    BY <1>6, <1>7, <1>9, <2>1
  <2> QED
    BY <1>8, <1>10, <2>1, <2>2 DEF AnswerFaithful
<1>12. AnswerHandedOver'
  BY <1>7 DEF AnswerHandedOver
<1> QED
  BY <1>5, <1>11, <1>12 DEF Follows, Whole3

\* The connection broke, and the header is read from what there is.
LEMMA BrokenHeader ==
  ASSUME Follows, ReadHeader, link # "open", NoEnd(answer),
         incoming \in Seq(Nat), Stump(incoming) \/ Cut(incoming)
  PROVE  Follows'
<1>1. /\ at = "header" /\ Readn(HeaderLength) /\ HeaderLength = 3
      /\ UNCHANGED <<answer, conBuf, errBuf, promised, client>>
  BY DEF ReadHeader, HeaderLength
<1>2. CASE Stump(incoming)
  <2>1. /\ Taken(HeaderLength) = incoming /\ incoming' = <<>> /\ link' # "open"
    BY <1>1, <1>2, ReadnShort DEF Stump
  <2>2. CASE incoming = <<>> /\ link = "closed"
    <3>1. at' = "ok" /\ header' = header
      BY <2>2 DEF ReadHeader
    <3> QED
      BY <1>1, <3>1, GivesUp
  <2>3. CASE ~(incoming = <<>> /\ link = "closed")
    <3>1. PICK old \in Stale :
            header' = incoming \o SubSeq(old, Len(incoming) + 1, HeaderLength)
      BY <2>1, <2>3 DEF ReadHeader
    <3>2. Whole3(header')
      BY <1>2, <3>1, StaleIs, StumpRead DEF Follows
    <3>3. at' \in {"content", "end", "header"}
      BY <2>3 DEF ReadHeader, Handled
    <3>4. incoming' \in Seq(Nat) /\ Len(incoming') = 0
      BY <2>1, EmptySeq
    <3>5. Broken'
      <4>1. header' # <<>>
        BY <3>2, HeaderThere
      <4>2. Stump(incoming')
        BY <3>4 DEF Stump
      <4> QED
        BY <1>1, <2>1, <3>3, <3>4, <4>1, <4>2 DEF Broken
    <3> QED
      BY <1>1, <3>2, <3>3, <3>5, GoesOn
  <2> QED
    BY <2>2, <2>3
<1>3. CASE ~Stump(incoming) /\ Cut(incoming)
  <2>1. PICK r \in Sent : \E n \in 0..(Len(Text(r)) - 1) :
                            ~Misleads(r, n) /\ incoming = SubSeq(Text(r), 1, n)
    BY <1>3 DEF Cut
  <2>2. PICK n \in 0..(Len(Text(r)) - 1) : ~Misleads(r, n) /\ incoming = SubSeq(Text(r), 1, n)
    BY <2>1
  <2>3. PICK h \in Seq(Nat), t \in Seq(Nat) :
          /\ h = Header(r) /\ t = Rest(r) /\ Text(r) = h \o t
          /\ Len(h) = 3 /\ h[2] = Len(r.content) /\ h[1] = r.type /\ h[3] = r.padding
          /\ Len(t) = Len(r.content) + r.padding
          /\ Len(r.content) \in Nat /\ r.padding \in Nat
    BY TextIs, SentIs, LenProperties
  <2>4. Whole3(h)
    BY <2>3 DEF Whole3
  <2>5. PICK l \in Nat : l = Len(t) /\ h \o t \in Seq(Nat) /\ Len(h \o t) = 3 + l
    <3>1. h \o t \in Seq(Nat) /\ Len(h \o t) = Len(h) + Len(t) /\ Len(t) \in Nat
      BY ONLY h \in Seq(Nat), t \in Seq(Nat), ConcatProperties, LenProperties
    <3> QED
      BY <2>3, <3>1
  <2>6. PICK u : u = h \o t /\ u \in Seq(Nat) /\ Len(u) = 3 + l
                 /\ \A i \in 1..(3 + l) : u[i] = IF i <= 3 THEN h[i] ELSE t[i - 3]
    <3>1. \A i \in 1..(Len(h) + Len(t)) :
            (h \o t)[i] = IF i <= Len(h) THEN h[i] ELSE t[i - Len(h)]
      BY ONLY h \in Seq(Nat), t \in Seq(Nat), ConcatProperties
    <3>2. Len(h) = 3 /\ Len(h) + Len(t) = 3 + l
      BY <2>3, <2>5
    <3>3. \A i \in 1..(3 + l) : (h \o t)[i] = IF i <= 3 THEN h[i] ELSE t[i - 3]
      BY ONLY <3>1, <3>2
    <3> QED
      BY ONLY <2>5, <3>3
  <2>7. n \in 0..(3 + l - 1)
    BY <2>2, <2>3, <2>5
  <2>8. n >= 3
    <3>1. SUFFICES ASSUME n < 3 PROVE Stump(incoming)
      BY <1>3, <2>7
    <3>2. incoming = SubSeq(u, 1, n)
      BY <2>2, <2>3, <2>6
    <3>3. Len(SubSeq(u, 1, n)) = n
      BY <2>6, <2>7
    <3> QED
      BY <3>1, <3>2, <3>3 DEF Stump
  <2>9. PICK y : y = SubSeq(t, 1, n - 3)
    OBVIOUS
  <2>10. /\ y \in Seq(Nat) /\ Len(y) = n - 3 /\ n - 3 < l
        /\ \A i \in 1..(n - 3) : y[i] = t[i]
    <3>1. n - 3 \in 0..l /\ n - 3 < l
      BY <2>7, <2>8
    <3>2. /\ SubSeq(t, 1, n - 3) \in Seq(Nat) /\ Len(SubSeq(t, 1, n - 3)) = n - 3
          /\ \A i \in 1..(n - 3) : SubSeq(t, 1, n - 3)[i] = t[i]
      <4>1. PICK k : k = n - 3
        OBVIOUS
      <4>2. k \in 0..Len(t) /\ t \in Seq(Nat)
        BY <2>5, <3>1, <4>1
      <4>3. /\ SubSeq(t, 1, k) \in Seq(Nat) /\ Len(SubSeq(t, 1, k)) = k
            /\ \A i \in 1..k : SubSeq(t, 1, k)[i] = t[i]
        BY ONLY <4>2
      <4> QED
        BY <4>1, <4>3
    <3> QED
      BY <2>9, <3>1, <3>2
  <2>11. incoming = h \o y
    <3>1. PICK v : v = SubSeq(u, 1, n)
      OBVIOUS
    <3>2. v \in Seq(Nat) /\ Len(v) = n /\ \A i \in 1..n : v[i] = u[i]
      <4>1. n \in 0..Len(u) /\ u \in Seq(Nat)
        BY <2>6, <2>7
      <4>2. /\ SubSeq(u, 1, n) \in Seq(Nat) /\ Len(SubSeq(u, 1, n)) = n
            /\ \A i \in 1..n : SubSeq(u, 1, n)[i] = u[i]
        BY ONLY <4>1
      <4> QED
        BY <3>1, <4>2
    <3>3. PICK w : w = h \o y
      OBVIOUS
    <3>4. /\ w \in Seq(Nat) /\ Len(w) = n
          /\ \A i \in 1..n : w[i] = IF i <= 3 THEN h[i] ELSE y[i - 3]
      <4>1. /\ h \o y \in Seq(Nat) /\ Len(h \o y) = Len(h) + Len(y)
            /\ \A i \in 1..(Len(h) + Len(y)) :
                 (h \o y)[i] = IF i <= Len(h) THEN h[i] ELSE y[i - Len(h)]
        <5>1. y \in Seq(Nat)
          BY <2>10
        <5> QED
          BY ONLY h \in Seq(Nat), <5>1, ConcatProperties
      <4>2. Len(h) + Len(y) = n /\ Len(h) = 3
        BY <2>3, <2>7, <2>10
      <4>3. w \in Seq(Nat) /\ Len(w) = n
        BY <3>3, <4>1, <4>2
      <4>4. \A i \in 1..n : w[i] = IF i <= 3 THEN h[i] ELSE y[i - 3]
        BY <3>3, <4>1, <4>2
      <4> QED
        BY <4>3, <4>4
    <3>5. ASSUME NEW i \in 1..n PROVE v[i] = w[i]
      <4>1. v[i] = u[i] /\ i \in 1..(3 + l)
        BY <2>7, <3>2
      <4>2. CASE i <= 3
        BY <2>6, <3>4, <4>1, <4>2
      <4>3. CASE ~(i <= 3)
        <5>1. i - 3 \in 1..(n - 3)
          BY <4>3
        <5> QED
          BY <2>6, <2>10, <3>4, <4>1, <4>3, <5>1
      <4> QED
        BY <4>2, <4>3
    <3>6. v = w
      BY <3>2, <3>4, <3>5, SeqEqual
    <3> QED
      BY <2>2, <2>3, <2>6, <3>1, <3>3, <3>6
  <2>12. /\ header' = h /\ at' = Handled(h[1]) /\ incoming' = y /\ link' = link
    BY <2>4, <2>10, <2>11, ReadWholeHeader
  <2>13. header' # <<>> /\ Whole3(header')
    <3>1. h # <<>>
      BY <2>4, HeaderThere
    <3> QED
      BY <2>4, <2>12, <3>1
  <2>14. Broken' /\ at' \in {"content", "end", "header"}
    <3>1. CASE r.type \in {STDOUT, STDERR} /\ Handled(r.type) = "content"
      <4>1. Len(y) < h[2] + h[3]
        BY <2>3, <2>5, <2>10
      <4> QED
        BY <1>1, <2>3, <2>10, <2>12, <2>13, <3>1, <4>1 DEF Broken
    <3>2. CASE r = EndRequest /\ Handled(r.type) = "end"
      <4>1. Len(t) = 1
        BY <2>3, <3>2, EndRequestIs
      <4>2. Len(y) = 0
        BY <2>5, <2>8, <2>10, <4>1
      <4>3. y = <<>>
        BY <2>10, <4>2, EmptySeq
      <4> QED
        BY <1>1, <2>3, <2>10, <2>12, <3>2, <4>3 DEF Broken
    <3>3. CASE r.type = UNHANDLED /\ Handled(r.type) = "header"
      <4>1. n = 3
        BY <2>2, <2>7, <2>8, <3>3 DEF Misleads, HeaderLength
      <4>2. Stump(y)
        BY <2>10, <4>1 DEF Stump
      <4> QED
        BY <1>1, <2>3, <2>10, <2>12, <3>3, <4>2 DEF Broken
    <3> QED
      BY <3>1, <3>2, <3>3, HandledIs
  <2> QED
    BY <1>1, <2>13, <2>14, GoesOn
<1> QED
  BY <1>2, <1>3

\* The connection broke while a record was read.
LEMMA BrokenStep ==
  ASSUME Follows, Broken, RecvRecord
  PROVE  Follows'
<1>1. link # "open" /\ NoEnd(answer) /\ incoming \in Seq(Nat)
  BY DEF Broken
<1>2. CASE ReadHeader
  <2>1. Stump(incoming) \/ Cut(incoming)
    BY <1>2 DEF Broken, ReadHeader
  <2> QED
    BY <1>1, <1>2, <2>1, BrokenHeader
<1>3. CASE ReadContent
  <2>1. /\ at = "content" /\ Whole3(header)
        /\ incoming = <<>> \/ Len(incoming) < header[2] + header[3]
        /\ UNCHANGED <<answer, header, promised, client>>
    BY <1>3 DEF Broken, ReadContent, Follows
  <2>2. PICK c \in Nat, p \in Nat, l \in Nat :
          c = header[2] /\ p = header[3] /\ l = Len(incoming)
    BY <1>1, <2>1, LenProperties DEF Whole3
  <2>3. l = 0 \/ l < c + p
    BY <2>1, <2>2, EmptySeq
  <2>4. Readn(c)
    BY <1>3, <2>2 DEF ReadContent
  <2>5. CASE l < c
    <3>1. ~Complete(c)
      BY <1>1, <2>2, <2>4, <2>5, ReadnShort
    <3>2. at' = "error"
      BY <1>3, <2>2, <3>1 DEF ReadContent
    <3> QED
      BY <1>1, <2>1, <3>2, GivesUp
  <2>6. CASE l >= c
    <3>1. /\ Complete(c) /\ incoming' \in Seq(Nat)
          /\ Len(incoming') = l - c /\ link' = link
      BY <1>1, <2>2, <2>4, <2>6, ReadnLeaves
    <3>2. at' = AfterContent(p)
      BY <1>3, <2>2, <3>1 DEF ReadContent
    <3>3. header # <<>>
      BY <2>1, HeaderThere
    <3>4. CASE p > 0
      <4>1. at' = "padding"
        BY <3>2, <3>4 DEF AfterContent
      <4>2. l - c < p
        BY <2>3, <2>6, <3>4
      <4>3. Broken'
        BY <1>1, <2>1, <2>2, <3>1, <3>3, <4>1, <4>2 DEF Broken
      <4> QED
        BY <2>1, <4>1, <4>3, GoesOn
    <3>5. CASE p = 0
      <4>1. at' = "header"
        BY <3>2, <3>5 DEF AfterContent
      <4>2. l - c = 0
        BY <2>3, <2>6, <3>5
      <4>3. Stump(incoming')
        BY <3>1, <4>2 DEF Stump
      <4>4. Broken'
        BY <1>1, <2>1, <3>1, <4>1, <4>3 DEF Broken
      <4> QED
        BY <2>1, <4>1, <4>4, GoesOn
    <3> QED
      BY <3>4, <3>5
  <2> QED
    BY <2>5, <2>6
<1>4. CASE ReadPadding
  <2>1. /\ at = "padding" /\ Whole3(header) /\ Len(incoming) < header[3]
        /\ UNCHANGED <<answer, header, promised, client>>
    BY <1>4 DEF Broken, ReadPadding, Follows
  <2>2. ~Complete(header[3])
    BY <1>1, <1>4, <2>1, ReadnShort DEF ReadPadding, Whole3
  <2>3. at' = "error"
    BY <1>4, <2>2 DEF ReadPadding
  <2> QED
    BY <1>1, <2>1, <2>3, GivesUp
<1>5. CASE ReadEnd
  <2>1. at = "end" /\ incoming = <<>>
    BY <1>5 DEF Broken, ReadEnd
  <2>2. Len(incoming) < 1
    BY <2>1, EmptySeq
  <2>3. ~Complete(1)
    BY <1>1, <1>5, <2>2, ReadnShort DEF ReadEnd
  <2>4. at' = "error" /\ UNCHANGED <<answer, header, promised, client>>
    BY <1>5, <2>3 DEF ReadEnd
  <2> QED
    BY <1>1, <2>1, <2>4, GivesUp
<1> QED
  BY <1>2, <1>3, <1>4, <1>5 DEF RecvRecord

\* RecvRecord reads a record that was sent whole.
LEMMA RunningStep ==
  ASSUME Follows, Running, RecvRecord
  PROVE  Follows'
<1>1. PICK rest, x : /\ rest \in Seq(Nat) /\ incoming = rest \o x
                     /\ Reading(rest) /\ Scrap(x)
  BY DEF Running
<1>2. x \in Seq(Nat)
  BY <1>1 DEF Scrap
<1>3. CASE at = "header"
  <2>1. ReadHeader
    BY <1>3 DEF RecvRecord, ReadContent, ReadPadding, ReadEnd
  <2>2. CASE rest = <<>> /\ NoEnd(answer)
    <3>1. incoming = x
      BY <1>1, <1>2, <2>2, ConcatEmptySeq
    <3>2. Stump(<<>>)
      BY EmptySeq DEF Stump
    <3>3. link # "open"
      <4>1. SUFFICES ASSUME link = "open" PROVE FALSE
        OBVIOUS
      <4>2. incoming = <<>> /\ Readn(HeaderLength)
        BY <1>1, <2>1, <3>1, <4>1 DEF Scrap, ReadHeader
      <4> QED
        BY <4>1, <4>2, EmptySeq DEF Readn, Complete, HeaderLength
    <3>4. Stump(incoming) \/ Cut(incoming)
      BY <1>1, <3>1, <3>2 DEF Scrap
    <3> QED
      BY <1>2, <2>1, <2>2, <3>1, <3>3, <3>4, BrokenHeader
  <2>3. CASE \E a, r : /\ r \in Sent /\ answer = Append(a, r) /\ rest = Text(r)
                       /\ Harmless(r) /\ NoEnd(a) /\ Account(a)
    BY <1>1, <2>1, <2>3, HeaderStep
  <2> QED
    BY <1>1, <1>3, <2>2, <2>3 DEF Reading
<1>4. CASE at = "content"
  <2>1. ReadContent
    BY <1>4 DEF RecvRecord, ReadHeader, ReadPadding, ReadEnd
  <2> QED
    BY <1>1, <1>4, <2>1, ContentStep DEF Reading
<1>5. CASE at = "padding"
  <2>1. ReadPadding
    BY <1>5 DEF RecvRecord, ReadHeader, ReadContent, ReadEnd
  <2> QED
    BY <1>1, <1>5, <2>1, PaddingStep DEF Reading
<1>6. CASE at = "end"
  <2>1. ReadEnd
    BY <1>6 DEF RecvRecord, ReadHeader, ReadContent, ReadPadding
  <2> QED
    BY <1>1, <1>6, <2>1, EndStep DEF Reading
<1> QED
  BY <1>3, <1>4, <1>5, <1>6 DEF RecvRecord, ReadHeader, ReadContent, ReadPadding, ReadEnd

\* The invariant of RecvRecord holds in every state.
LEMMA RecvHolds == Spec => []RecvInv
<1>1. Init => RecvInv
  <2> SUFFICES ASSUME Init PROVE RecvInv
    OBVIOUS
  <2>1. /\ answer = <<>> /\ incoming = <<>> /\ at = "header" /\ header = <<>>
        /\ promised = -1 /\ client = <<>> /\ conBuf = <<>> /\ errBuf = <<>>
        /\ link = "open"
    BY DEF Init
  <2>2. NoEnd(answer) /\ Account(answer) /\ answer \in Seq(Sent)
    BY <2>1, AccountEmpty, EmptySeq DEF NoEnd
  <2>3. Reading(<<>>)
    BY <2>1, <2>2 DEF Reading
  <2>4. Scrap(<<>>) /\ <<>> \in Seq(Nat) /\ incoming = <<>> \o <<>>
    BY <2>1, EmptySeq, ConcatEmptySeq DEF Scrap
  <2>5. Running
    BY <2>3, <2>4 DEF Running
  <2> QED
    BY <2>1, <2>2, <2>5 DEF RecvInv, Follows
<1>2. RecvInv /\ [Next]_vars => RecvInv'
  <2> SUFFICES ASSUME RecvInv, [Next]_vars, ~lost' PROVE Follows'
    BY DEF RecvInv
  <2>1. ASSUME NEW r \in Sent, FpmSends(r) PROVE Follows'
    <3>1. Follows
      BY <2>1 DEF FpmSends, RecvInv
    <3> QED
      BY <2>1, <3>1, FpmSendsStep
  <2>2. ASSUME NEW r \in Sent, FpmStops(r) PROVE Follows'
    <3>1. Follows
      BY <2>2 DEF FpmStops, RecvInv
    <3> QED
      BY <2>2, <3>1, FpmStopsStep
  <2>3. CASE RecvRecord
    <3>1. lost' = lost /\ at \notin {"ok", "error"}
      BY <2>3 DEF RecvRecord, ReadHeader, ReadContent, ReadPadding, ReadEnd, Readn
    <3>2. Follows
      BY <3>1 DEF RecvInv
    <3>3. Running \/ Broken
      BY <3>1, <3>2 DEF Follows
    <3> QED
      BY <2>3, <3>2, <3>3, RunningStep, BrokenStep
  <2>4. CASE UNCHANGED <<fpmVars, recvVars>>
    <3>1. /\ UNCHANGED <<answer, incoming, link, at, header, conBuf, errBuf, promised, client>>
          /\ lost' = lost
      BY <2>4 DEF fpmVars, recvVars
    <3>2. Ended' <=> Ended
      BY <3>1 DEF Ended
    <3>3. AnswerFaithful' <=> AnswerFaithful
      BY <3>1, <3>2, AnswerStays DEF AnswerFaithful, HeadEnd, FirstCR
    <3>4. AnswerHandedOver' <=> AnswerHandedOver
      BY <3>1, <3>2 DEF AnswerHandedOver
    <3>5. Running' <=> Running
      BY <3>1, <3>2, ZenonT(40) DEF Running, Reading, Scrap, Account
    <3>6. Broken' <=> Broken
      BY <3>1 DEF Broken
    <3>7. Follows
      BY <3>1 DEF RecvInv
    <3> QED
      BY <3>1, <3>3, <3>4, <3>5, <3>6, <3>7 DEF Follows
  <2>5. CASE Request
    <3>1. UNCHANGED <<fpmVars, recvVars>>
      BY <2>5 DEF Request, SendBeginRequestRecord, SendParamRecord, SendEmptyParamsRecord,
                  SendStdinRecord, StdinTurn, SendEmptyStdinRecord
    <3> QED
      BY <2>4, <3>1
  <2>6. CASE UNCHANGED vars
    BY <2>4, <2>6 DEF vars
  <2> QED
    BY <2>1, <2>2, <2>3, <2>5, <2>6 DEF Next, PhpFpm, Sent
<1> QED
  BY <1>1, <1>2, PTL DEF Spec

\* It says of an answer that is read what the properties say.
LEMMA RecvInvGives ==
  ASSUME RecvInv
  PROVE  AnswerFaithful /\ AnswerHandedOver
<1>1. CASE lost
  BY <1>1 DEF AnswerFaithful, AnswerHandedOver
<1>2. CASE Follows /\ at \in {"ok", "error"}
  BY <1>2 DEF Follows
<1>3. CASE Follows /\ at \notin {"ok", "error"}
  BY <1>3 DEF Follows, AnswerFaithful, AnswerHandedOver
<1> QED
  BY <1>1, <1>2, <1>3 DEF RecvInv

\* Unless php-fpm has sent the body of a record that RecvRecord does not handle:
\* the client is not answered before php-fpm has ended the answer, is promised
\* the length of all of it, and given what came in one record of its kind, from
\* the end of the head on if that has one line, for any records in any order and
\* a connection that breaks anywhere (FastCgi.cpp:193-279, HttpData.cpp:596-600).
THEOREM AnswerIsFaithful == Spec => []AnswerFaithful
<1>1. RecvInv => AnswerFaithful
  BY RecvInvGives
<1> QED
  BY <1>1, RecvHolds, PTL

\* An answer that php-fpm has ended, without the body of a record that RecvRecord
\* does not handle, reaches the client, whatever becomes of the connection:
\* RecvRecord gives up only on one that is cut short (FastCgi.cpp:202-281).
THEOREM AnswerIsHandedOver == Spec => []AnswerHandedOver
<1>1. RecvInv => AnswerHandedOver
  BY RecvInvGives
<1> QED
  BY <1>1, RecvHolds, PTL

=============================================================================
