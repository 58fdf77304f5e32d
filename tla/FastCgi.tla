------------------------------ MODULE FastCgi ------------------------------
(***************************************************************************)
(* One exchange with php-fpm over FastCgiData (core/FastCgi.cpp), and what *)
(* sendPhpToCli (HttpData.cpp) makes of the answer.  No function of webd   *)
(* calls the senders: they are called here in the order of the protocol.   *)
(*                                                                         *)
(* A byte is a unit of a sequence; a header is its three fields that are   *)
(* looked at: the type, the length of the content and that of the padding. *)
(* The request id is part of the type: a record for another request is of  *)
(* type UNHANDLED.  What malloc and realloc do not set is Junk.            *)
(***************************************************************************)
EXTENDS Integers, Sequences, FiniteSets

CONSTANTS Pair,       \* the parameters: [name |-> length, value |-> length]
          MaxPairs,   \* bound on the parameters of a request
          StdinLength,\* lengths of the request's body
          MaxLength,  \* FASTCGI_MAX_LENGTH, the largest 16 bit length
          Align,      \* padding fills a record up to a multiple of it (8)
          Short,      \* a length below it takes one byte, else four (128)
          Output,     \* contents of STDOUT records
          Error,      \* contents of STDERR records
          Foreign,    \* contents of the records RecvRecord does not handle
          Padding,    \* lengths of the padding php-fpm may choose
          MaxRecords  \* bound on the records of an answer before the last

ASSUME FastCgiAssumption ==
  /\ Pair \subseteq [name : Nat, value : Nat]
  /\ MaxPairs \in Nat /\ MaxRecords \in Nat
  /\ StdinLength \subseteq Nat
  /\ MaxLength \in Nat \ {0} /\ Align \in Nat \ {0} /\ Short \in Nat \ {0}
  /\ Padding \subseteq Nat
  /\ Output \subseteq Seq(Nat) /\ Error \subseteq Seq(Nat) /\ Foreign \subseteq Seq(Nat)

VARIABLES
  phase,    \* the next call: "begin", "params", "stdin", "recv"; "failed"
  params,   \* the parameters handed to SendParamRecord (history)
  stdin,    \* the length handed to SendStdinRecord (history)
  left,     \* len, what SendStdinRecord has still to write
  sent,     \* all units written to php-fpm
  answer,   \* the records php-fpm has sent (history)
  incoming, \* units of them not yet read
  link,     \* php-fpm's end: "open", "closed"; "reset" if the next read that
            \* finds nothing fails, "failing" if all of them will
  lost,     \* php-fpm has sent a body that RecvRecord does not skip (history)
  at,       \* where RecvRecord is: "header", "content", "padding", "end",
            \* or what it returned: "ok", "error"
  header,   \* responHeader; <<>> before anything was read into it
  conBuf,   \* conBuf, of outlen units
  errBuf,   \* errBuf, of errlen units
  promised, \* the Content-Length the client is given; -1 if sendPhpToCli was not called
  client,   \* what the client was sent
  broken    \* sendPhpToCli followed a null pointer, or wrote a negative length

requestVars == <<phase, params, stdin, left, sent>>
fpmVars == <<answer, incoming, link, lost>>
recvVars == <<at, header, conBuf, errBuf, promised, client, broken>>
vars == <<requestVars, fpmVars, recvVars>>

Init ==
  /\ phase = "begin"
  /\ params = <<>>
  /\ stdin = 0
  /\ left = 0
  /\ sent = <<>>
  /\ answer = <<>>
  /\ incoming = <<>>
  /\ link = "open"
  /\ lost = FALSE
  /\ at = "header"
  /\ header = <<>>
  /\ conBuf = <<>>
  /\ errBuf = <<>>
  /\ promised = -1
  /\ client = <<>>
  /\ broken = FALSE

\* No byte: it may be any.
Junk == -1

Fill(n, unit) == [i \in 1..n |-> unit]

\* What follows a header on the way to php-fpm.
Data(units) == [i \in DOMAIN units |-> [type |-> "data", unit |-> units[i]]]

-----------------------------------------------------------------------------
(* The request.                                                            *)

\* MakeHeader: only the low 16 bits of a length are sent.
MakeHeader(type, length, padding) ==
  [type |-> type, length |-> length % (MaxLength + 1), padding |-> padding]

PaddingOf(length) ==
  IF length % Align = 0 THEN 0 ELSE Align - (length % Align)

\* rio_writen: everything, or an error after any part of it.
Writen(units, next) ==
  \/ sent' = sent \o units /\ phase' = next
  \/ /\ \E n \in 0..(Len(units) - 1) : sent' = sent \o SubSeq(units, 1, n)
     /\ phase' = "failed"

SendBeginRequestRecord ==
  /\ phase = "begin"
  /\ Writen(<<MakeHeader("BEGIN", 1, 0)>> \o Data(<<"responder">>), "params")
  /\ UNCHANGED <<params, stdin, left, fpmVars, recvVars>>

One(b) == IF b THEN 1 ELSE 0

\* cl == (nlen < 128) ? (++cl) : (cl + 4) compares cl with a truth value, and
\* drops what it adds unless they are equal.
PairLength(p) ==
  LET cl == p.name + p.value
      Counted(n, m) == IF n = One(m < Short) THEN n + 1 ELSE n
  IN Counted(Counted(cl, p.name), p.value)

LengthField(n) == Fill(IF n < Short THEN 1 ELSE 4, "length")

PairText(p) ==
  LengthField(p.name) \o LengthField(p.value)
    \o Fill(p.name, "name") \o Fill(p.value, "value")

\* Mutant of ParamRecord: the padding is announced, but not sent.
ParamRecordUnpadded(p) ==
  LET cl == PairLength(p)
  IN <<MakeHeader("PARAMS", cl, PaddingOf(cl))>> \o Data(SubSeq(PairText(p), 1, cl))

\* What is written of the buffer, which the text of the pair may run over.
ParamRecord(p) ==
  LET cl == PairLength(p)
      pl == PaddingOf(cl)
  IN <<MakeHeader("PARAMS", cl, pl)>>
       \o Data(SubSeq(PairText(p) \o Fill(Align, Junk), 1, cl + pl))

SendParamRecord(p) ==
  /\ phase = "params"
  /\ Len(params) < MaxPairs
  /\ params' = Append(params, p)
  /\ Writen(ParamRecord(p), "params")
  /\ UNCHANGED <<stdin, left, fpmVars, recvVars>>

SendEmptyParamsRecord ==
  /\ phase = "params"
  /\ Writen(<<MakeHeader("PARAMS", 0, 0)>>, "stdin")
  /\ UNCHANGED <<params, stdin, left, fpmVars, recvVars>>

\* SendStdinRecord is called; its loop writes while len > 0.
SendStdinRecord(len) ==
  /\ phase = "stdin" /\ stdin = 0
  /\ stdin' = len
  /\ left' = len
  /\ UNCHANGED <<phase, params, sent, fpmVars, recvVars>>

\* cl keeps the value of a full record, so the last of several records is full
\* as well, beyond the data.
StdinContent == IF stdin > MaxLength THEN MaxLength ELSE stdin

\* Mutant of StdinRecord: data is not moved on.
StdinRecordAgain(cl, data) ==
  LET pl == PaddingOf(cl)
  IN <<MakeHeader("STDIN", cl, pl)>> \o Data([i \in 1..cl |-> i] \o Fill(pl, 0))

\* The record for the cl units behind the first data units.
StdinRecord(cl, data) ==
  LET pl == PaddingOf(cl)
  IN <<MakeHeader("STDIN", cl, pl)>> \o Data([i \in 1..cl |-> data + i] \o Fill(pl, 0))

\* One turn of the loop; data moves on as len shrinks.
StdinTurn ==
  /\ phase = "stdin" /\ left > 0
  /\ Writen(StdinRecord(StdinContent, stdin - left), "stdin")
  /\ left' = left - StdinContent
  /\ UNCHANGED <<params, stdin, fpmVars, recvVars>>

SendEmptyStdinRecord ==
  /\ phase = "stdin" /\ left <= 0
  /\ Writen(<<MakeHeader("STDIN", 0, 0)>>, "recv")
  /\ UNCHANGED <<params, stdin, left, fpmVars, recvVars>>

-----------------------------------------------------------------------------
(* php-fpm.                                                                *)

END == 3
STDOUT == 6
STDERR == 7
UNHANDLED == 0

Text(r) ==
  <<r.type, Len(r.content), r.padding>> \o r.content \o Fill(r.padding, 0)

Record ==
  [type : {STDOUT}, content : Output, padding : Padding]
    \cup [type : {STDERR}, content : Error, padding : Padding]
    \cup [type : {UNHANDLED}, content : Foreign, padding : Padding]

EndRequest == [type |-> END, content |-> <<0>>, padding |-> 0]

Ended == \E i \in DOMAIN answer : answer[i] = EndRequest

HeaderLength == 3

Complete(n) == Len(incoming) >= n

\* The length of what RecvRecord reads next.
Wanted ==
  CASE at = "header" -> HeaderLength
    [] at = "content" -> header[2]
    [] at = "padding" -> header[3]
    [] at = "end" -> 1

\* n units of r reach into a body, or padding, that RecvRecord reads as headers.
Misleads(r, n) == r.type = UNHANDLED /\ n > HeaderLength

\* One record, once RecvRecord waits for it: it cannot tell whether it came
\* earlier.
FpmSends(r) ==
  /\ phase = "recv" /\ link = "open" /\ ~Ended
  /\ at \notin {"ok", "error"} /\ ~Complete(Wanted)
  /\ r = EndRequest \/ Len(answer) < MaxRecords
  /\ answer' = Append(answer, r)
  /\ incoming' = incoming \o Text(r)
  /\ lost' = (lost \/ Misleads(r, Len(Text(r))))
  /\ UNCHANGED <<link, requestVars, recvVars>>

\* php-fpm ends the connection, after its answer or at any place in a record, or
\* the connection breaks.
FpmStops(r) ==
  /\ phase = "recv" /\ link = "open"
  /\ \E n \in 0..(Len(Text(r)) - 1) :
        /\ n > 0 => ~Ended
        /\ incoming' = incoming \o SubSeq(Text(r), 1, n)
        /\ lost' = (lost \/ Misleads(r, n))
  /\ link' \in {"closed", "reset", "failing"}
  /\ UNCHANGED <<answer, requestVars, recvVars>>

-----------------------------------------------------------------------------
(* RecvRecord.  rio_readn returns a size_t, so its -1 is positive.         *)

Taken(n) == SubSeq(incoming, 1, IF Complete(n) THEN n ELSE Len(incoming))

\* rio_readn: n units, or what there was before the end or an error.
Readn(n) ==
  /\ Complete(n) \/ link # "open"
  /\ incoming' = SubSeq(incoming, n + 1, Len(incoming))
  /\ link' = IF ~Complete(n) /\ link = "reset" THEN "closed" ELSE link
  /\ UNCHANGED lost

\* What an uninitialized header may hold, as far as the loop tells it apart.
Uninitialized == {<<STDOUT, 0, 0>>, <<STDOUT, 1, 0>>, <<STDERR, 1, 0>>,
                  <<END, 0, 0>>, <<UNHANDLED, 0, 0>>}

Stale == IF header = <<>> THEN Uninitialized ELSE {header}

Handled(type) ==
  CASE type \in {STDOUT, STDERR} -> "content"
    [] type = END -> "end"
    [] OTHER -> "header"

\* Mutant of ReadHeader: the loop goes on when rio_readn returns 0.
ReadHeaderForEver ==
  /\ phase = "recv" /\ at = "header"
  /\ Readn(HeaderLength)
  /\ \E old \in Stale :
       header' = Taken(HeaderLength) \o SubSeq(old, Len(Taken(HeaderLength)) + 1, HeaderLength)
  /\ at' = Handled(header'[1])
  /\ UNCHANGED <<answer, requestVars, conBuf, errBuf, promised, client, broken>>

\* The loop ends at the end of the connection; after an error, or part of a
\* header, it goes on with what the header still holds of the last record.  The
\* body of a record it does not handle is not skipped.
ReadHeader ==
  /\ phase = "recv" /\ at = "header"
  /\ Readn(HeaderLength)
  /\ IF incoming = <<>> /\ link = "closed"
     THEN at' = "ok" /\ UNCHANGED header
     ELSE /\ \E old \in Stale :
               header' = Taken(HeaderLength)
                           \o SubSeq(old, Len(Taken(HeaderLength)) + 1, HeaderLength)
          /\ at' = Handled(header'[1])
  /\ UNCHANGED <<answer, requestVars, conBuf, errBuf, promised, client, broken>>

\* Mutant of Refill: the buffer is made anew for each record.
RefillAnew(buf, cl) == Taken(cl) \o Fill(cl - Len(Taken(cl)), Junk)

\* realloc adds cl units to the buffer, and the record is read to its start.
Refill(buf, cl) ==
  LET got == Taken(cl)
  IN got \o SubSeq(buf \o Fill(cl, Junk), Len(got) + 1, Len(buf) + cl)

AfterContent(padding) == IF padding > 0 THEN "padding" ELSE "header"

ReadContent ==
  /\ at = "content"
  /\ LET cl == header[2]
     IN /\ Readn(cl)
        /\ IF header[1] = STDOUT
           THEN conBuf' = Refill(conBuf, cl) /\ UNCHANGED errBuf
           ELSE errBuf' = Refill(errBuf, cl) /\ UNCHANGED conBuf
        /\ at' = IF Complete(cl) THEN AfterContent(header[3]) ELSE "error"
  /\ UNCHANGED <<answer, requestVars, header, promised, client, broken>>

ReadPadding ==
  /\ at = "padding"
  /\ Readn(header[3])
  /\ at' = IF Complete(header[3]) THEN "header" ELSE "error"
  /\ UNCHANGED <<answer, requestVars, header, conBuf, errBuf, promised, client, broken>>

CR == 13
LF == 10

FirstCR(out, i) == i \in DOMAIN out /\ out[i] = CR /\ \A j \in 1..(i - 1) : out[j] # CR

\* What sendPhpToCli sends of php's output: the units from the third one after
\* the first CR on.
Page(out) == SubSeq(out, (CHOOSE i \in DOMAIN out : FirstCR(out, i)) + 3, Len(out))

\* There is a CR, and p + 3 is not behind the end of the output.
Cuttable(out) == \E i \in 1..(Len(out) - 2) : FirstCR(out, i)

\* The status line and the headers that sendPhpToCli writes.
HttpHead == -2

\* What rio_writen may have written of a text when it returns.
Beginnings(text) == {SubSeq(text, 1, n) : n \in 0..Len(text)}

\* sendPhpToCli; it goes on when its head could not be written, and RecvRecord
\* drops what it returns.
SendPhpToCli ==
  /\ promised' = Len(conBuf) + Len(errBuf)
  /\ IF conBuf = <<>> \/ Cuttable(conBuf)
     THEN /\ \E head \in {<<HttpHead>>, <<>>} :
               client' \in Beginnings(head \o (IF conBuf = <<>> THEN <<>> ELSE Page(conBuf))
                                            \o errBuf)
          /\ UNCHANGED broken
     ELSE broken' = TRUE /\ UNCHANGED client

\* Mutant of ReadEnd: an answer without output is not handed over.
ReadEndWithOutput ==
  /\ at = "end"
  /\ Readn(1)
  /\ IF Complete(1) /\ conBuf # <<>> THEN SendPhpToCli /\ at' = "ok"
     ELSE /\ at' = IF Complete(1) THEN "ok" ELSE "error"
          /\ UNCHANGED <<promised, client, broken>>
  /\ UNCHANGED <<answer, requestVars, header, conBuf, errBuf>>

ReadEnd ==
  /\ at = "end"
  /\ Readn(1)
  /\ IF Complete(1) THEN SendPhpToCli /\ at' = "ok"
     ELSE at' = "error" /\ UNCHANGED <<promised, client, broken>>
  /\ UNCHANGED <<answer, requestVars, header, conBuf, errBuf>>

-----------------------------------------------------------------------------

Request ==
  \/ SendBeginRequestRecord
  \/ \E p \in Pair : SendParamRecord(p)
  \/ SendEmptyParamsRecord
  \/ \E len \in StdinLength : SendStdinRecord(len)
  \/ StdinTurn
  \/ SendEmptyStdinRecord

PhpFpm == \E r \in Record \cup {EndRequest} : FpmSends(r) \/ FpmStops(r)

RecvRecord == ReadHeader \/ ReadContent \/ ReadPadding \/ ReadEnd

Next == Request \/ PhpFpm \/ RecvRecord

\* The thread inside RecvRecord is scheduled; php-fpm may take for ever.
Spec == Init /\ [][Next]_vars /\ WF_vars(RecvRecord)

-----------------------------------------------------------------------------
(* Properties.                                                             *)

HeadersAt == {i \in DOMAIN sent : sent[i].type # "data"}

\* Where the header at i announces the next one.
NextAt(i) == i + 1 + sent[i].length + sent[i].padding

\* php-fpm finds the headers where the previous ones announce them, in spite of
\* the wrong length SendParamRecord gives a pair (FastCgi.cpp:57-61), whatever
\* the lengths and wherever a write fails; except that a pair of more than
\* FASTCGI_MAX_LENGTH is announced modulo 2^16.
RequestFramed ==
  (\A i \in DOMAIN params : PairLength(params[i]) <= MaxLength)
    => /\ sent # <<>> => 1 \in HeadersAt
       /\ \A i \in HeadersAt :
            /\ \A j \in HeadersAt : j > i => j >= NextAt(i)
            /\ \/ NextAt(i) \in HeadersAt \cup {Len(sent) + 1}
               \/ phase = "failed" /\ NextAt(i) > Len(sent)

\* Where sent holds the content of a STDIN record.
StdinAt ==
  (UNION {(i + 1)..(i + sent[i].length) : i \in {h \in HeadersAt : sent[h].type = "STDIN"}})
    \cap DOMAIN sent

\* What php-fpm reads as the body of the request is that body, in order,
\* across the records it is cut into (FastCgi.cpp:132-165); it is too long only
\* when several records are needed and the last one is not full.
StdinArrives ==
  /\ \A j \in StdinAt : sent[j].unit = Cardinality({m \in StdinAt : m <= j})
  /\ phase = "recv" =>
       \/ Cardinality(StdinAt) = stdin
       \/ stdin > MaxLength /\ stdin % MaxLength # 0 /\ Cardinality(StdinAt) > stdin

\* All that php-fpm sent in records of a type.
Contents(type) ==
  LET contents[n \in 0..Len(answer)] ==
        IF n = 0 THEN <<>>
        ELSE contents[n - 1] \o
               (IF answer[n].type = type THEN answer[n].content ELSE <<>>)
  IN contents[Len(answer)]

InOneRecord(type) ==
  \E i \in DOMAIN answer : \A j \in DOMAIN answer : answer[j].type = type <=> j = i

\* Where the head of an output ends, if that is at its first CR: with the empty
\* line behind its only line.
HeadEnd(out, i) ==
  FirstCR(out, i) /\ i + 3 <= Len(out) /\ SubSeq(out, i, i + 3) = <<CR, LF, CR, LF>>

\* Unless php-fpm has sent a body RecvRecord does not skip, the client is answered
\* only when php-fpm has ended its answer, with the length of all of it, and with
\* its text if that came in one record of each kind (FastCgi.cpp:193-279).  Of an
\* output with one line of head the client gets what follows the head, from the
\* last LF on, or the beginning of it, behind webd's own head if that could be
\* written (HttpData.cpp:593-600).
AnswerFaithful ==
  (promised >= 0 /\ ~lost) =>
    /\ Ended
    /\ promised = Len(Contents(STDOUT)) + Len(Contents(STDERR))
    /\ InOneRecord(STDOUT) =>
         /\ conBuf = Contents(STDOUT)
         /\ \A i \in DOMAIN conBuf : HeadEnd(conBuf, i) =>
               \E head \in {<<HttpHead>>, <<>>} :
                 client \in Beginnings(head \o SubSeq(conBuf, i + 3, Len(conBuf)) \o errBuf)
    /\ InOneRecord(STDERR) => errBuf = Contents(STDERR)

\* Whatever happens to the connection afterwards, an answer that was sent to
\* its end, without a body RecvRecord does not skip, is handed to the client:
\* RecvRecord gives up, or says 0 without an answer, only when END_REQUEST has not
\* come (FastCgi.cpp:204, 262-281).
AnswerHandedOver == (at \in {"ok", "error"} /\ Ended /\ ~lost) => promised >= 0

\* RecvRecord returns when php-fpm has ended its answer, closed the connection or
\* reset it, wherever in a record (FastCgi.cpp:204).  It need not return behind a
\* body it does not skip, while the connection stays open, and it spins for ever
\* when every read fails while the header holds a record without body.
RecvReturns ==
  (phase = "recv" /\ ((Ended /\ ~lost) \/ link \in {"closed", "reset"}))
    ~> at \in {"ok", "error"}
=============================================================================
