------------------------------ MODULE HttpData ------------------------------
(***************************************************************************)
(* How HttpData turns the bytes of one connection into requests and        *)
(* responses (HttpData.cpp: handleRead, parseURI, parseHeaders,            *)
(* analysisRequest, handleWrite, reset).                                   *)
(*                                                                         *)
(* The stream is cut into reads at any place between two tokens; a word (a *)
(* method, a path, a header name, a value, a version) is one token, CR and *)
(* LF are tokens of their own, so positions count tokens.  Positions in a  *)
(* std::string are a size_t: npos is its largest value, and it wraps.      *)
(* Positions kept in an int may be -1: indexing the string there is        *)
(* undefined, and yields a byte that belongs to no header (Junk).          *)
(*                                                                         *)
(* Which events lead to handleRead, and the timers, are Reactor's part:    *)
(* here a read happens when there is something to read and nothing left to *)
(* write, as the masks handleConn asks for have it.                        *)
(***************************************************************************)
EXTENDS Integers, Sequences

SX == INSTANCE SequencesExt

CONSTANTS Word,       \* the names and values in them
          Request,    \* the requests clients make
          MaxRequests,\* bound on the requests of a connection
          SizeT,      \* number of values of a size_t
          MaxValue,   \* longest value of a header (255)
          Missing,    \* paths that stat does not find
          Unmappable, \* paths that open or mmap refuses (an empty file)
          Fragmented, \* a read may end inside a request
          Pipelined   \* a request may be sent before the last is answered

VARIABLES
  reqs,     \* the requests the client of this connection makes
  taken,    \* tokens of them that have been read
  d,        \* the HttpData
  wire,     \* what has been written to the socket
  answers,  \* the answered requests, as the parser saw them (history)
  calm,     \* every read so far took one request, after the last answer (history)
  pc        \* "wait" for an event, "again" in the nested handleRead, "closed"

vars == <<reqs, taken, d, wire, answers, calm, pc>>

-----------------------------------------------------------------------------
(* The client.                                                             *)

CR == "CR"
LF == "LF"

HeaderLine(h) == <<h.key, ":", " ", h.value, CR, LF>>

Method == {"GET", "POST", "HEAD"}

Text(r) ==
  <<r.method, " ", "/">> \o r.path \o <<" ", "HTTP", "/", r.version, CR, LF>>
    \o SX!FlattenSeq([i \in DOMAIN r.headers |-> HeaderLine(r.headers[i])])
    \o <<CR, LF>> \o r.body

\* Requests are well-formed: a word is none of the tokens the parser looks
\* for (parseURI would take a path named after a method for it), and "?" comes
\* after the name.  No stream of requests is as long as npos.
ASSUME HttpDataAssumption ==
  /\ MaxRequests \in Nat \ {0}
  /\ SizeT \in Nat \ {0}
  /\ MaxValue \in Nat
  /\ Fragmented \in BOOLEAN
  /\ Pipelined \in BOOLEAN
  /\ Word \cap (Method \cup {CR, LF, " ", "/", ":", "?"}) = {}
  /\ Request \subseteq
       [method : Method, path : Seq(Word \cup {"?"}), version : Word,
        headers : Seq([key : Word, value : Word]), body : Seq(Word)]
  /\ \A r \in Request :
       /\ \A i \in DOMAIN r.path : r.path[i] = "?" <=> i = 2
       /\ r.body # <<>> => r.method = "POST" /\ r.headers # <<>>
       /\ MaxRequests * Len(Text(r)) + 1 < SizeT

Stream == SX!FlattenSeq([i \in DOMAIN reqs |-> Text(reqs[i])])

\* The place in the stream where the first n requests end.
EndOf(n) == Len(SX!FlattenSeq([i \in 1..n |-> Text(reqs[i])]))

\* The requests that have been read to their last token.
Delivered == {n \in 0..Len(reqs) : EndOf(n) <= taken}

\* A read up to s ends where a request does, or finds nothing.
Whole(s) == s = taken \/ \E n \in 1..Len(reqs) : s = EndOf(n)

\* A read up to s finds nothing behind the first request without an answer.
InTurn(s) == Len(answers) < Len(reqs) => s <= EndOf(Len(answers) + 1)

\* What one readn may find: everything that has arrived so far.
Available ==
  {s \in taken..Len(Stream) : (Fragmented \/ Whole(s)) /\ (Pipelined \/ InTurn(s))}

-----------------------------------------------------------------------------
(* std::string.                                                            *)

npos == SizeT - 1

Plus(a, b) == (a + b) % SizeT
Minus(a, b) == (a - b) % SizeT

\* s.find(t, from)
Find(s, t, from) ==
  LET at == {i \in from..(Len(s) - 1) : s[i + 1] = t}
  IN IF at = {} THEN npos ELSE CHOOSE i \in at : \A j \in at : i <= j

\* s.substr(pos, n), for pos within s
Substr(s, pos, n) == SubSeq(s, pos + 1, IF pos + n > Len(s) THEN Len(s) ELSE pos + n)

From(s, pos) == Substr(s, pos, npos)

Junk == "junk"

\* std::string(s.begin() + from, s.begin() + to), where from may be -1
Slice(s, from, to) ==
  (IF from < 0 /\ to > from THEN <<Junk>> ELSE <<>>)
    \o SubSeq(s, (IF from < 0 THEN 0 ELSE from) + 1, to)

-----------------------------------------------------------------------------
(* parseURI.                                                               *)

Index == <<"www/index.html">>

\* Mutant of MethodOf: whatever the line begins with is the method.
MethodOfFirstWord(line) == IF line = <<>> THEN "none" ELSE line[1]

\* The first of GET, POST and HEAD that occurs anywhere in the line.
MethodOf(line) ==
  LET Occurs(m) == Find(line, m, 0) # npos
  IN IF Occurs("GET") THEN "GET"
     ELSE IF Occurs("POST") THEN "POST"
     ELSE IF Occurs("HEAD") THEN "HEAD" ELSE "none"

FileOf(line, slash, space) ==
  IF Minus(space, slash) > 1
  THEN LET name == Substr(line, Plus(slash, 1), Minus(space, Plus(slash, 1)))
       IN Substr(name, 0, Find(name, "?", 0))
  ELSE Index

\* What is left in inBuffer_ once the request line is cut off.  With no CR in
\* it, pos is npos, the line is the whole buffer, and nothing is cut.
CutLine(str, pos) ==
  IF Len(str) > Plus(pos, 1) THEN From(str, Plus(pos, 1)) ELSE <<>>

\* A size_t is never below 0, so a missing CR, slash or blank is not noticed.
ParseURI(str) ==
  LET pos == Find(str, CR, 0)
      line == Substr(str, 0, pos)
      method == MethodOf(line)
      slash == Find(line, "/", Find(line, method, 0))
      space == Find(line, " ", slash)
      last == Find(line, "/", space)
      version == Substr(line, Plus(last, 1), 1)
      Flag == IF pos < 0 THEN "again"
              ELSE IF method = "none" THEN "error"
              ELSE IF slash < 0 THEN "success"
              ELSE IF \/ space < 0
                      \/ last < 0
                      \/ Minus(Len(line), last) <= 1
                      \/ version \notin {<<"1.0">>, <<"1.1">>}
                   THEN "error" ELSE "success"
  IN [flag |-> Flag, rest |-> CutLine(str, pos), method |-> method,
      file |-> IF slash < 0 THEN Index ELSE FileOf(line, slash, space)]

-----------------------------------------------------------------------------
(* parseHeaders: p is the state of the loop at position i.                 *)

HeaderStates == {"start", "key", "colon", "spaces", "value", "cr", "lf",
                 "end_cr", "end_lf"}

SetHeader(headers, key, value) ==
  {h \in headers : h.key # key} \cup {[key |-> key, value |-> value]}

\* One turn of the loop.
HeaderStep(str, p) ==
  LET i == p.i
      t == str[i + 1]
      q == [p EXCEPT !.i = i + 1]
      Error == [p EXCEPT !.flag = "error"]
      Go(h) == [q EXCEPT !.h = h]
  IN CASE p.h = "start" ->
            IF t \in {CR, LF} THEN q ELSE [Go("key") EXCEPT !.ks = i, !.begin = i]
       [] p.h = "key" ->
            IF t = ":" THEN IF i - p.ks <= 0 THEN Error ELSE [Go("colon") EXCEPT !.ke = i]
            ELSE IF t \in {CR, LF} THEN Error ELSE q
       [] p.h = "colon" -> IF t = " " THEN Go("spaces") ELSE Error
       [] p.h = "spaces" -> [Go("value") EXCEPT !.vs = i]
       [] p.h = "value" ->
            IF t = CR THEN IF i - p.vs <= 0 THEN Error ELSE [Go("cr") EXCEPT !.ve = i]
            ELSE IF i - p.vs > MaxValue THEN Error ELSE q
       [] p.h = "cr" ->
            IF t = LF THEN [Go("lf") EXCEPT !.begin = i,
                              !.headers = SetHeader(@, Slice(str, p.ks, p.ke),
                                                       Slice(str, p.vs, p.ve))]
            ELSE Error
       [] p.h = "lf" -> IF t = CR THEN Go("end_cr") ELSE [Go("key") EXCEPT !.ks = i]
       [] p.h = "end_cr" -> IF t = LF THEN Go("end_lf") ELSE Error
       [] p.h = "end_lf" -> [q EXCEPT !.flag = "stop", !.ks = i, !.begin = i]

\* The loop: a turn for every token, until one returns or breaks.
HeaderLoop(str, p0) ==
  LET turn[n \in 0..Len(str)] ==
        IF n = 0 THEN p0
        ELSE LET p == turn[n - 1]
             IN IF p.flag = "go" THEN HeaderStep(str, p) ELSE p
  IN turn[Len(str)]

\* hState_ and headers_ outlive the call, the positions do not.
ParseHeaders(str, h, headers) ==
  LET p0 == [i |-> 0, h |-> h, headers |-> headers, ks |-> -1, ke |-> -1,
             vs |-> -1, ve |-> -1, begin |-> 0, flag |-> "go"]
      p == HeaderLoop(str, p0)
      Flag == IF p.flag = "error" THEN "error"
              ELSE IF p.h = "end_lf" THEN "success" ELSE "again"
      rest == IF Flag = "error" THEN str
              ELSE IF Flag = "success" THEN From(str, p.i) ELSE From(str, p.begin)
  IN [flag |-> Flag, rest |-> rest, h |-> p.h, headers |-> p.headers]

-----------------------------------------------------------------------------
(* The phases of handleRead.  Each passes on what its break leaves: a      *)
(* state_ that none of the following phases looks at, or error_.           *)

\* handleError answers on the socket itself.
Fail(s, reply) == [s EXCEPT !.error = TRUE, !.reply = reply]

UriPhase(s) ==
  LET u == ParseURI(s.inBuffer)
  IN IF s.state # "uri" \/ u.flag = "again" THEN s
     ELSE IF u.flag = "error" THEN [Fail(s, "400") EXCEPT !.inBuffer = <<>>]
     ELSE [s EXCEPT !.state = "headers", !.inBuffer = u.rest,
                    !.method = u.method, !.file = u.file]

HeaderPhase(s) ==
  LET p == ParseHeaders(s.inBuffer, s.hState, s.headers)
      left == [s EXCEPT !.inBuffer = p.rest, !.hState = p.h, !.headers = p.headers]
  IN IF s.error \/ s.state # "headers" THEN s
     ELSE IF p.flag = "error" THEN Fail(left, "400")
     ELSE IF p.flag = "again" THEN left
     ELSE [left EXCEPT !.state = IF s.method = "POST" THEN "body" ELSE "analysis"]

Number(value) == IF value = <<"1">> THEN 1 ELSE 2

Lengths(s) == {h \in s.headers : h.key = <<"Content-length">>}

BodyPhase(s) ==
  IF s.error \/ s.state # "body" THEN s
  ELSE IF Lengths(s) = {} THEN Fail(s, "400")
  ELSE IF \E h \in Lengths(s) : Len(s.inBuffer) < Number(h.value) THEN s
  ELSE [s EXCEPT !.state = "analysis"]

Asked(headers) ==
  \E h \in headers : h.key = <<"Connection">>
                       /\ h.value \in {<<"keep-alive">>, <<"Keep-Alive">>}

OkHead(file, keep) == [kind |-> "200", file |-> file, keep |-> keep]
Body(file) == [kind |-> "body", file |-> file, keep |-> FALSE]
Hello == [kind |-> "hello", file |-> <<"hello">>, keep |-> FALSE]
ErrorPage(reply) == [kind |-> reply, file |-> <<>>, keep |-> FALSE]

\* Mutant of Reply: the body is sent for a HEAD as well.
ReplyWithBody(method, file, keep) ==
  IF file = <<"hello">> THEN <<Hello>> ELSE <<OkHead(file, keep), Body(file)>>

\* What outBuffer_ is given.
Reply(method, file, keep) ==
  IF file = <<"hello">> THEN <<Hello>>
  ELSE IF method = "HEAD" THEN <<OkHead(file, keep)>>
  ELSE <<OkHead(file, keep), Body(file)>>

\* analysisRequest.  A POST is never answered; the echo test replaces what
\* outBuffer_ still holds, and a file that cannot be mapped clears it.
AnalysisPhase(s) ==
  LET asked == Asked(s.headers)
      kept == [s EXCEPT !.keepAlive = @ \/ asked]
      reply == Reply(s.method, s.file, asked)
  IN IF s.error \/ s.state # "analysis" THEN s
     ELSE IF s.method = "POST" THEN Fail(s, "none")
     ELSE IF s.file = <<"hello">> THEN [kept EXCEPT !.state = "finish", !.out = reply]
     ELSE IF s.file \in Missing THEN Fail(kept, "404")
     ELSE IF s.method = "GET" /\ s.file \in Unmappable
          THEN [Fail(kept, "404") EXCEPT !.out = <<>>]
     ELSE [kept EXCEPT !.state = "finish", !.out = @ \o reply]

Parsed(s) == AnalysisPhase(BodyPhase(HeaderPhase(UriPhase(s))))

\* Mutant of Cleared: the headers of the last request stay.
ClearedButHeaders(s) == [s EXCEPT !.file = <<>>, !.state = "uri", !.hState = "start"]

\* Mutant of Cleared: the header parser stays in its last state.
ClearedButHState(s) == [s EXCEPT !.file = <<>>, !.state = "uri", !.headers = {}]

\* reset()
Cleared(s) ==
  [s EXCEPT !.file = <<>>, !.state = "uri", !.hState = "start", !.headers = {}]

-----------------------------------------------------------------------------
(* The steps.                                                              *)

Init ==
  /\ reqs \in UNION {[1..n -> Request] : n \in 1..MaxRequests}
  /\ taken = 0
  /\ d = [inBuffer |-> <<>>, state |-> "uri", hState |-> "start", method |-> "GET",
          file |-> <<>>, headers |-> {}, keepAlive |-> FALSE, error |-> FALSE,
          reply |-> "none", fin |-> FALSE, out |-> <<>>]
  /\ wire = <<>>
  /\ answers = <<>>
  /\ calm = TRUE
  /\ pc = "wait"

\* Where handleConn leaves the connection.
Settled(s) == IF s.error \/ (s.fin /\ s.out = <<>>) THEN "closed" ELSE "wait"

\* error_ was set: the error page is written past outBuffer_, and lost if the
\* socket has no room; handleConn closes.
Refuse(s) ==
  /\ s.error
  /\ \/ wire' = wire \o (IF s.reply = "none" THEN <<>> ELSE <<ErrorPage(s.reply)>>)
     \/ UNCHANGED wire
  /\ d' = s
  /\ pc' = "closed"
  /\ UNCHANGED answers

\* handleWrite: as much as the socket takes.
WriteSome(s, n) ==
  /\ wire' = wire \o SubSeq(s.out, 1, n)
  /\ d' = [s EXCEPT !.out = SubSeq(@, n + 1, Len(@))]

\* The write fails, the client being gone.
WriteFails(s) ==
  /\ s.out # <<>>
  /\ d' = [s EXCEPT !.error = TRUE]
  /\ pc' = "closed"
  /\ UNCHANGED wire

\* The end of handleRead for an unfinished request.
Await(s) ==
  /\ ~s.error /\ s.state # "finish"
  /\ \/ \E n \in 0..Len(s.out) :
          /\ WriteSome(s, n)
          /\ pc' = Settled(d')
     \/ WriteFails(s)
  /\ UNCHANGED answers

\* The end of handleRead for an answered request: reset, and once more if
\* inBuffer_ holds more.
Answer(s) ==
  /\ ~s.error /\ s.state = "finish"
  /\ answers' = Append(answers, [method |-> s.method, file |-> s.file,
                                 keep |-> Asked(s.headers), at |-> taken'])
  /\ \/ \E n \in 0..Len(s.out) :
          /\ WriteSome(Cleared(s), n)
          /\ pc' = IF s.inBuffer # <<>> /\ ~s.fin THEN "again" ELSE Settled(d')
     \/ WriteFails(s)

\* handleRead: readn takes the stream up to "upto", and sees the client's FIN
\* if fin.  A FIN with nothing before it is not parsed.
HandleRead(upto, fin) ==
  /\ taken' = upto
  /\ LET s == [d EXCEPT !.inBuffer = @ \o SubSeq(Stream, taken + 1, upto), !.fin = fin]
         p == IF fin /\ upto = taken THEN s ELSE Parsed(s)
     IN Refuse(p) \/ Await(p) \/ Answer(p)
  /\ calm' = (calm /\ Whole(upto) /\ InTurn(upto))
  /\ UNCHANGED reqs

\* EPOLLIN.
ReadEvent ==
  /\ pc = "wait" /\ ~d.fin /\ d.out = <<>>
  /\ \E upto \in Available, fin \in BOOLEAN :
        /\ upto > taken \/ fin
        /\ HandleRead(upto, fin)

\* The call of handleRead inside handleRead.
ReadAgain ==
  /\ pc = "again"
  /\ \E upto \in Available, fin \in BOOLEAN : HandleRead(upto, fin)

\* EPOLLOUT.
WriteEvent ==
  /\ pc = "wait" /\ d.out # <<>>
  /\ \/ \E n \in 1..Len(d.out) :
          /\ WriteSome(d, n)
          /\ pc' = Settled(d')
     \/ WriteFails(d)
  /\ UNCHANGED <<reqs, taken, answers, calm>>

\* The connection is closed, or its client has said all it had to say.
Done ==
  /\ pc = "closed" \/ (pc = "wait" /\ taken = Len(Stream) /\ d.out = <<>>)
  /\ UNCHANGED vars

Next == ReadEvent \/ ReadAgain \/ WriteEvent \/ Done

Spec == Init /\ [][Next]_vars

-----------------------------------------------------------------------------
(* Properties.                                                             *)

\* The shape of the state.
TypeOK ==
  /\ taken \in 0..Len(Stream)
  /\ pc \in {"wait", "again", "closed"}
  /\ d.state \in {"uri", "headers", "body", "analysis", "finish"}
  /\ d.hState \in HeaderStates
  /\ d.method \in {"GET", "POST", "HEAD"}
  /\ d.error => pc = "closed"

\* A new request meets a fresh parser: whenever the next thing to be parsed is
\* a request line, nothing of an earlier request is left in hState_, headers_
\* or fileName_, and a connection that waits for one has read all its bytes
\* (HttpData.cpp:75-89, 192-198).
FreshStart ==
  (pc # "closed" /\ d.state = "uri")
    => /\ d.hState = "start" /\ d.headers = {} /\ d.file = <<>>
       /\ (pc = "wait" /\ ~d.fin) => d.inBuffer = <<>>

\* However the stream is cut into reads, the answers are answers to its
\* requests, one each and in their order, with the method and the file of the
\* request, none before its blank line began to arrive, and none that
\* promises to keep alive what did not ask for it (HttpData.cpp:439-529).
AnswersRequests ==
  \A k \in DOMAIN answers :
    LET a == answers[k]
        r == reqs[k]
    IN /\ k <= Len(reqs)
       /\ a.method = r.method
       /\ a.file = (IF r.path = <<>> THEN Index ELSE <<r.path[1]>>)
       /\ a.at >= EndOf(k) - Len(r.body) - 1
       /\ a.keep => \E i \in DOMAIN r.headers :
                      /\ r.headers[i].key = "Connection"
                      /\ r.headers[i].value \in {"keep-alive", "Keep-Alive"}

\* The reference: what a request should be answered with.
Named(r) == IF r.path = <<>> THEN Index ELSE <<r.path[1]>>

\* A header given twice counts as it was given last.
AsksToKeep(r) ==
  \E i \in DOMAIN r.headers :
    /\ r.headers[i].key = "Connection"
    /\ r.headers[i].value \in {"keep-alive", "Keep-Alive"}
    /\ \A j \in DOMAIN r.headers : r.headers[j].key = "Connection" => j <= i

Expected(r) ==
  IF r.version \notin {"1.0", "1.1"} THEN <<ErrorPage("400")>>
  ELSE IF r.method = "POST"
     THEN IF \E i \in DOMAIN r.headers : r.headers[i].key = "Content-length"
          THEN <<>> ELSE <<ErrorPage("400")>>
     ELSE IF Named(r) = <<"hello">> THEN <<Hello>>
     ELSE IF Named(r) \in Missing \/ (r.method = "GET" /\ Named(r) \in Unmappable)
          THEN <<ErrorPage("404")>>
     ELSE IF r.method = "HEAD" THEN <<OkHead(Named(r), AsksToKeep(r))>>
     ELSE <<OkHead(Named(r), AsksToKeep(r)), Body(Named(r))>>

AllExpected(n) == SX!FlattenSeq([i \in 1..n |-> Expected(reqs[i])])

\* The responses follow each other on the wire, none is cut by another, and a
\* connection that waits for the next request has sent the one before.
Ordered ==
  /\ \E n \in Delivered : SX!IsPrefix(wire, AllExpected(n))
  /\ (pc = "wait" /\ d.state = "uri" /\ d.out = <<>>)
       => \E n \in Delivered : EndOf(n) = taken /\ wire = AllExpected(n)

\* Requests that arrive whole and one by one are answered as they should be,
\* however the socket takes the responses (HttpData.cpp:209-220, 439-529).
WireInOrder == calm => Ordered

\* The same of requests that arrive whole, but without waiting for each other
\* (pipelining, README.md:9).
PipelineInOrder == Ordered
=============================================================================
