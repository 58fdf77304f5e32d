--------------------------- MODULE ReactorProofs ---------------------------
(***************************************************************************)
(* Proofs about Reactor for any connections, loops, descriptors and        *)
(* failures: callbacks, tables and timers never refer to a connection that *)
(* is gone, every connection that only a timer can end has one, and no     *)
(* event and nobody in the backlog is missed.                              *)
(*                                                                         *)
(* The argument goes in a circle, so that the parts are inductive only     *)
(* together.  An HttpData is destroyed when its loop drops it, because its *)
(* tables are exact and no other timer node holds it; the tables stay      *)
(* exact because the descriptor is free only then; and a loop drops a      *)
(* connection only while it handles it or after it has handled all.        *)
(*                                                                         *)
(* With that known of every state, Watched follows one connection through  *)
(* epoll_wait, the handlers and handleConn, Closing a half-closed one to   *)
(* where it is stranded, and Listening the listening socket through a      *)
(* round of the accepting thread.                                          *)
(***************************************************************************)
EXTENDS Reactor, TLAPS

\* The connection has a descriptor that the kernel will not give away.
HoldsFd(c) == Alive(c) \/ life[c] = "leaked"

\* Two connections never have the same descriptor.
Descriptors ==
  /\ \A c \in Conn : HoldsFd(c) => http[c].fd \in Fd
  /\ \A c, d \in Conn :
       HoldsFd(c) /\ HoldsFd(d) /\ http[c].fd = http[d].fd => c = d

\* A newEvent is queued once, in the loop that was chosen.
Queues ==
  \A l \in Loop :
    /\ pending[l] \cap functors[l] = {}
    /\ \A c \in pending[l] \cup functors[l] : life[c] = "queued" /\ http[c].loop = l

\* Where a loop is in its round.
Rounds ==
  \A l \in Loop :
    /\ pc[l] \in {"read", "write", "conn"} <=> cur[l] # None
    /\ pc[l] \in {"poll", "pending"} => ret[l] = {}
    /\ cur[l] \notin ret[l]

\* No connection is in handleEvents.
NotCur(c) == \A l \in Loop : cur[l] # c

Timers ==
  \A c \in Conn :
    /\ timers[c] = (IF linked[c] THEN 1 ELSE 0)
    /\ due[c] => linked[c]
    /\ linked[c] => life[c] = "open"
    /\ (life[c] = "open" /\ NotCur(c) /\ ~HalfClosed(c)) => linked[c]

\* A mask never asks for input and output, so no event is both, and a handler
\* that asks for output leaves some.
Masks ==
  /\ \A c \in Conn :
       /\ ~({"in", "out"} \subseteq ep[c].mask)
       /\ ~({"in", "out"} \subseteq chan[c].revents)
  /\ \A l \in Loop :
       /\ pc[l] \in {"read", "write"} => chan[cur[l]].events = {}
       /\ pc[l] = "read" => "out" \notin chan[cur[l]].revents
       /\ pc[l] = "conn" /\ "out" \in chan[cur[l]].events => http[cur[l]].out

IInv ==
  /\ TypeOK
  /\ Descriptors
  /\ Queues
  /\ Rounds
  /\ CallbackTargetAlive
  /\ TablesCoherent
  /\ Timers
  /\ Masks

-----------------------------------------------------------------------------
(* What the handlers leave.                                                *)

Socket == [rx : BOOLEAN, fin : BOOLEAN, rst : BOOLEAN, full : BOOLEAN]
Entry == [mask : SUBSET Mask, armed : BOOLEAN, rdy : BOOLEAN]
Chan == [events : SUBSET Mask, lastEvents : SUBSET Mask, revents : SUBSET Bits]
Http == [fd : Nat, loop : Loop, state : {"connected", "disconnecting", "disconnected"},
         error : BOOLEAN, out : BOOLEAN]
Results == [http : Http, sock : Socket, events : SUBSET Mask, reset : BOOLEAN]

\* x is a result of the connection that r is a result of, and has not asked for
\* output without having some.
Follows(r, x) ==
  /\ x \in Results
  /\ x.http.fd = r.http.fd
  /\ x.http.loop = r.http.loop
  /\ "out" \in x.events => "out" \in r.events \/ x.http.out

LEMMA WriteFollows ==
  ASSUME NEW r \in Results, NEW x \in WriteResults(r)
  PROVE  Follows(r, x)
<1>1. CASE r.http.error \/ r.http.state = "disconnected" \/ ~r.http.out
  <2>1. x = r
    BY <1>1 DEF WriteResults
  <2> QED
    BY <2>1 DEF Follows
<1>2. CASE ~(r.http.error \/ r.http.state = "disconnected" \/ ~r.http.out)
  <2>1. r.http.out
    BY <1>2
  <2>2. PICK y \in { [r EXCEPT !.http.error = TRUE, !.events = {}],
                      [r EXCEPT !.sock.full = TRUE, !.events = @ \cup {"out"}],
                      [r EXCEPT !.http.out = FALSE] } : x = y
    BY <1>2 DEF WriteResults
  <2>3. CASE x = [r EXCEPT !.http.error = TRUE, !.events = {}]
    BY <2>3 DEF Follows, Results, Http
  <2>4. CASE x = [r EXCEPT !.sock.full = TRUE, !.events = @ \cup {"out"}]
    BY <2>1, <2>4 DEF Follows, Results, Socket, Mask
  <2>5. CASE x = [r EXCEPT !.http.out = FALSE]
    BY <2>5 DEF Follows, Results, Http
  <2> QED
    BY <2>2, <2>3, <2>4, <2>5
<1> QED
  BY <1>1, <1>2

LEMMA AgainFollows ==
  ASSUME NEW r \in Results, NEW x \in AgainResults(r)
  PROVE  Follows(r, x)
<1>1. PICK w \in WriteResults(r) :
        x = IF w.http.error THEN w ELSE [w EXCEPT !.events = @ \cup {"in"}]
  BY DEF AgainResults
<1>2. Follows(r, w)
  BY WriteFollows
<1> QED
  BY <1>1, <1>2 DEF Follows, Results, Mask

LEMMA FailFollows ==
  ASSUME NEW r \in Results
  PROVE  Follows(r, Fail(r))
BY DEF Follows, Fail, Results, Http

LEMMA AnswerFollows ==
  ASSUME NEW r \in Results, NEW x \in AnswerResults(r)
  PROVE  Follows(r, x)
<1> DEFINE q == [r EXCEPT !.http.out = TRUE]
           W == {IF y.http.error THEN y ELSE [y EXCEPT !.reset = TRUE] : y \in WriteResults(q)}
<1>1. q \in Results /\ q.http.fd = r.http.fd /\ q.http.loop = r.http.loop
        /\ q.events = r.events
  BY DEF Results, Http
<1>2. ASSUME NEW w \in W PROVE Follows(r, w)
  <2>1. PICK y \in WriteResults(q) : w = IF y.http.error THEN y ELSE [y EXCEPT !.reset = TRUE]
    OBVIOUS
  <2>2. Follows(q, y)
    BY <1>1, WriteFollows
  <2> QED
    BY <1>1, <2>1, <2>2 DEF Follows, Results
<1>3. \E w \in W : x \in {w, [w EXCEPT !.events = @ \cup {"in"}], Fail(w)}
  BY DEF AnswerResults
<1>4. PICK w \in W : x \in {w, [w EXCEPT !.events = @ \cup {"in"}], Fail(w)}
  BY <1>3
<1>5. Follows(r, w)
  BY <1>2
<1>6. CASE x = [w EXCEPT !.events = @ \cup {"in"}]
  BY <1>5, <1>6 DEF Follows, Results, Mask
<1>7. CASE x = Fail(w)
  <2>1. w \in Results
    BY <1>5 DEF Follows
  <2>2. Follows(w, x)
    BY <2>1, <1>7, FailFollows
  <2>3. x.events = w.events
    BY <2>1, <1>7 DEF Fail, Results
  <2>4. x.http.out = w.http.out
    BY <2>1, <1>7 DEF Fail, Results, Http
  <2> QED
    BY <1>5, <2>2, <2>3, <2>4 DEF Follows
<1> QED
  BY <1>4, <1>5, <1>6, <1>7

\* Where handleRead begins.
LEMMA ReadFollows ==
  ASSUME TypeOK, NEW c \in Conn, NEW x \in ReadResults(c)
  PROVE  Follows(Result(http[c], sock[c], chan[c].events), x)
<1> DEFINE s == [sock[c] EXCEPT !.rx = FALSE]
           r == Result(http[c], s, chan[c].events)
           finished == [r EXCEPT !.http.state = "disconnecting"]
           base == Result(http[c], sock[c], chan[c].events)
<1>0. sock \in [Conn -> Socket] /\ http \in [Conn -> Http] /\ chan \in [Conn -> Chan]
  BY DEF TypeOK, Socket, Http, Chan
<1>1. s \in Socket
  BY <1>0 DEF Socket
<1>2. r \in Results /\ r.http = http[c] /\ r.events = chan[c].events
  BY <1>0, <1>1 DEF Results, Result, Chan
<1>3. /\ finished \in Results /\ finished.events = chan[c].events
      /\ finished.http.fd = http[c].fd /\ finished.http.loop = http[c].loop
  BY <1>2 DEF Results, Http
<1>4. \E q \in {r, finished} :
        x \in AgainResults(q) \cup {Fail(q)} \cup AnswerResults(q)
  BY DEF ReadResults
<1>5. PICK q \in {r, finished} :
        x \in AgainResults(q) \cup {Fail(q)} \cup AnswerResults(q)
  BY <1>4
<1>6. Follows(q, x)
  BY <1>2, <1>3, <1>5, AgainFollows, FailFollows, AnswerFollows
<1> QED
  BY <1>2, <1>3, <1>5, <1>6 DEF Follows, Result

-----------------------------------------------------------------------------
(* The invariant holds at the beginning.                                   *)

LEMMA LoopZero == 0 \in Loop
BY ReactorAssumption DEF Loop

LEMMA InitInv == Init => IInv
<1> SUFFICES ASSUME Init PROVE IInv
  OBVIOUS
<1> USE ReactorAssumption, LoopZero DEF Init
<1>1. TypeOK
  <2>1. /\ life \in [Conn -> {"new", "backlog", "queued", "open", "closed", "leaked"}]
        /\ sock \in [Conn -> Socket] /\ moves \in Nat /\ faults \in 0..MaxFaults
    BY DEF Socket, NewSocket
  <2>2. ep \in [Conn -> Entry] /\ chan \in [Conn -> Chan]
    BY DEF Entry, Idle, Chan, NewChannel
  <2>3. http \in [Conn -> Http]
    BY DEF Http, NewHttpData
  <2>4. /\ timers \in [Conn -> Nat] /\ linked \in [Conn -> BOOLEAN]
        /\ due \in [Conn -> BOOLEAN]
        /\ endless \in [Conn -> BOOLEAN]
        /\ fd2chan \in [Loop -> [Fd -> Conn \cup {None}]]
        /\ fd2http \in [Loop -> [Fd -> Conn \cup {None}]]
    OBVIOUS
  <2>5. /\ acc \in [at : {"poll", "accept", "conn"}, mask : SUBSET {"in"}, rdy : BOOLEAN,
                    events : SUBSET {"in"}, lastEvents : SUBSET {"in"}]
        /\ starved \in BOOLEAN /\ next \in Loop
    OBVIOUS
  <2>6. /\ pending \in [Loop -> SUBSET Conn] /\ functors \in [Loop -> SUBSET Conn]
        /\ pc \in [Loop -> {"poll", "events", "read", "write", "conn", "pending"}]
        /\ cur \in [Loop -> Conn \cup {None}] /\ ret \in [Loop -> SUBSET Conn]
    OBVIOUS
  <2> QED
    BY <2>1, <2>2, <2>3, <2>4, <2>5, <2>6 DEF TypeOK, Socket, Entry, Chan, Http
<1>2. Descriptors
  BY DEF Descriptors, HoldsFd, Alive
<1>3. Queues
  BY DEF Queues
<1>4. Rounds /\ CallbackTargetAlive
  BY DEF Rounds, CallbackTargetAlive
<1>5. TablesCoherent
  BY DEF TablesCoherent
<1>6. Timers
  BY DEF Timers
<1>7. Masks
  BY DEF Masks, Idle, NewChannel
<1> QED
  BY <1>1, <1>2, <1>3, <1>4, <1>5, <1>6, <1>7 DEF IInv

-----------------------------------------------------------------------------
(* The clients, and time.                                                  *)

\* Outside the shape of the state and the masks, no invariant looks at the
\* sockets, the kernel's entries, the masks of channels, or the accepting thread.
LEMMA SocketsOnly ==
  ASSUME IInv, TypeOK', Masks',
         UNCHANGED <<life, http, timerVars, tableVars, faults, pending, loopVars>>
  PROVE  IInv'
<1> USE DEF IInv, timerVars, tableVars, loopVars
<1>1. Descriptors'
  BY DEF Descriptors, HoldsFd, Alive
<1>2. Queues'
  BY DEF Queues
<1>3. Rounds' /\ CallbackTargetAlive'
  BY DEF Rounds, CallbackTargetAlive
<1>4. TablesCoherent'
  BY DEF TablesCoherent
<1>5. Timers'
  BY DEF Timers, NotCur, HalfClosed
<1> QED
  BY <1>1, <1>2, <1>3, <1>4, <1>5

LEMMA EdgeMasks ==
  ASSUME TypeOK, NEW c \in Conn, NEW bits, Edge(c, bits)
  PROVE  /\ ep' \in [Conn -> Entry]
         /\ \A d \in Conn : ep'[d].mask = ep[d].mask
<1>1. ep \in [Conn -> Entry]
  BY DEF TypeOK, Entry
<1>2. PICK b \in BOOLEAN : ep' = [ep EXCEPT ![c].rdy = b]
  BY <1>1 DEF Edge, Entry
<1> QED
  BY <1>1, <1>2 DEF Entry

LEMMA ClientInv ==
  ASSUME IInv, NEW c \in Conn, Client(c)
  PROVE  IInv'
<1>1. CASE Connect(c)
  <2> USE <1>1 DEF IInv, Connect, timerVars, tableVars, loopVars
  <2>1. TypeOK'
    BY DEF TypeOK
  <2>2. Descriptors'
    BY DEF Descriptors, HoldsFd, Alive
  <2>3. Queues'
    BY DEF Queues, TypeOK
  <2>4. Rounds' /\ CallbackTargetAlive'
    BY DEF Rounds, CallbackTargetAlive, TypeOK
  <2>5. TablesCoherent'
    BY DEF TablesCoherent, TypeOK
  <2>6. Timers'
    BY DEF Timers, NotCur, HalfClosed, TypeOK
  <2>7. Masks'
    BY DEF Masks
  <2> QED
    BY <2>1, <2>2, <2>3, <2>4, <2>5, <2>6, <2>7
<1>2. ASSUME NEW bits, Edge(c, bits), sock' \in [Conn -> Socket], moves' \in Nat,
             UNCHANGED <<life, faults, chan, http, timerVars, tableVars, acceptVars,
                         loopVars>>
      PROVE  IInv'
  <2> USE <1>2 DEF timerVars, tableVars, acceptVars, loopVars
  <2>1. ep' \in [Conn -> Entry] /\ \A d \in Conn : ep'[d].mask = ep[d].mask
    BY EdgeMasks DEF IInv
  <2>2. TypeOK'
    BY <2>1 DEF IInv, TypeOK, Socket, Entry
  <2>3. Masks'
    BY <2>1 DEF IInv, Masks
  <2> QED
    BY <2>2, <2>3, SocketsOnly
<1>3. sock \in [Conn -> Socket] /\ moves \in Nat
  BY DEF IInv, TypeOK, Socket
<1>4. CASE Send(c)
  <2>1. PICK last \in BOOLEAN :
          /\ sock' = [sock EXCEPT ![c].rx = TRUE, ![c].fin = last]
          /\ Edge(c, IF last THEN ep[c].mask ELSE {"in"})
    BY <1>4 DEF Send
  <2>2. sock' \in [Conn -> Socket]
    BY <1>3, <2>1 DEF Socket
  <2>3. moves' \in Nat
    BY <1>3, <1>4 DEF Send
  <2> QED
    BY <1>2, <2>1, <2>2, <2>3, <1>4 DEF Send
<1>5. CASE Finish(c)
  <2>1. sock' \in [Conn -> Socket]
    BY <1>3, <1>5 DEF Finish, Socket
  <2>2. moves' \in Nat
    BY <1>3, <1>5 DEF Finish
  <2> QED
    BY <1>2, <2>1, <2>2, <1>5 DEF Finish
<1>6. CASE Reset(c)
  <2>1. sock' \in [Conn -> Socket]
    BY <1>3, <1>6 DEF Reset, Socket
  <2>2. moves' \in Nat
    BY <1>3, <1>6 DEF Reset
  <2> QED
    BY <1>2, <2>1, <2>2, <1>6 DEF Reset
<1>7. CASE Drain(c)
  <2>1. sock' \in [Conn -> Socket]
    BY <1>3, <1>7 DEF Drain, Socket
  <2>2. moves' \in Nat
    BY <1>3, <1>7 DEF Drain
  <2> QED
    BY <1>2, <2>1, <2>2, <1>7 DEF Drain
<1> QED
  BY <1>1, <1>4, <1>5, <1>6, <1>7 DEF Client

LEMMA TimeInv ==
  ASSUME IInv, ClockWraps \/ \E c \in Conn : TimeOut(c)
  PROVE  IInv'
<1> USE DEF IInv, TimeOut, ClockWraps, tableVars, acceptVars, loopVars
<1>0. /\ moves' \in Nat /\ endless' \in [Conn -> BOOLEAN] /\ due' \in [Conn -> BOOLEAN]
      /\ \A d \in Conn : due'[d] => due[d] \/ timers[d] > 0
      /\ UNCHANGED <<life, sock, faults, ep, chan, http, timers, linked, fd2chan,
                     fd2http, acc, starved, next, pending, functors, pc, cur, ret>>
  <2>1. CASE ClockWraps
    BY <2>1 DEF TypeOK
  <2>2. ASSUME NEW c \in Conn, TimeOut(c) PROVE <1>0
    BY <2>2 DEF TypeOK
  <2> QED
    BY <2>1, <2>2
<1>1. TypeOK'
  BY <1>0 DEF TypeOK
<1>2. Timers'
  BY <1>0 DEF Timers, NotCur, HalfClosed
<1>3. Descriptors' /\ Queues'
  BY DEF Descriptors, HoldsFd, Alive, Queues
<1>4. Rounds' /\ CallbackTargetAlive'
  BY DEF Rounds, CallbackTargetAlive
<1>5. TablesCoherent'
  BY DEF TablesCoherent
<1>6. Masks'
  BY <1>0 DEF Masks
<1> QED
  BY <1>1, <1>2, <1>3, <1>4, <1>5, <1>6

-----------------------------------------------------------------------------
(* The accepting thread.                                                   *)

AccType == [at : {"poll", "accept", "conn"}, mask : SUBSET {"in"}, rdy : BOOLEAN,
            events : SUBSET {"in"}, lastEvents : SUBSET {"in"}]

LEMMA AcceptRoundInv ==
  ASSUME IInv, AcceptPoll \/ AcceptEnds \/ HandThisConn,
         UNCHANGED <<sock, moves, ep, chan, timerVars, tableVars, loopVars>>
  PROVE  IInv'
<1>1. acc \in AccType
  BY DEF IInv, TypeOK, AccType
<1>2. acc' \in AccType
  <2>1. CASE AcceptPoll
    BY <1>1, <2>1 DEF AcceptPoll, AccType
  <2>2. CASE AcceptEnds
    BY <1>1, <2>2 DEF AcceptEnds, AccType
  <2>3. CASE HandThisConn
    <3>1. PICK b \in BOOLEAN :
            acc' = [acc EXCEPT !.at = "poll", !.lastEvents = acc.events,
                               !.mask = acc.events, !.rdy = b]
      BY <1>1, <2>3 DEF HandThisConn, AccType
    <3> QED
      BY <1>1, <3>1 DEF AccType
  <2> QED
    BY <2>1, <2>2, <2>3
<1>3. /\ starved' \in BOOLEAN
      /\ UNCHANGED <<life, http, faults, next, pending>>
  BY DEF AcceptPoll, AcceptEnds, HandThisConn, IInv, TypeOK
<1> USE <1>3 DEF timerVars, tableVars, loopVars
<1>4. TypeOK'
  BY <1>2 DEF IInv, TypeOK, AccType
<1>5. Masks'
  BY DEF IInv, Masks
<1> QED
  BY <1>4, <1>5, SocketsOnly

LEMMA NextLoopIn ==
  ASSUME TypeOK
  PROVE  NextLoop \in Loop
<1>1. NumLoops \in Nat \ {0} /\ next \in 0..(NumLoops - 1)
  BY ReactorAssumption DEF TypeOK, Loop
<1>2. CASE next + 1 < NumLoops
  BY <1>1, <1>2 DEF NextLoop, Loop
<1>3. CASE next + 1 = NumLoops
  BY <1>1, <1>3 DEF NextLoop, Loop
<1> QED
  BY <1>1, <1>2, <1>3

\* A descriptor accept returns belongs to nobody.
LEMMA FreeIsFree ==
  ASSUME NEW fd \in FreeFds
  PROVE  fd \in Fd /\ \A d \in Conn : HoldsFd(d) => http[d].fd # fd
BY DEF FreeFds, HoldsFd

\* A connection in the backlog is in no table, queue or handler, and has no timer.
LEMMA BacklogNowhere ==
  ASSUME IInv, NEW c \in Conn, life[c] = "backlog"
  PROVE  /\ ~linked[c] /\ timers[c] = 0 /\ ~due[c]
         /\ \A l \in Loop : c \notin pending[l] /\ c \notin functors[l]
         /\ \A l \in Loop : c \notin ret[l] /\ cur[l] # c
         /\ \A l \in Loop, f \in Fd : fd2http[l][f] # c
<1>1. ~linked[c] /\ timers[c] = 0 /\ ~due[c]
  BY DEF IInv, Timers
<1>2. \A l \in Loop : c \notin pending[l] /\ c \notin functors[l]
  BY DEF IInv, Queues
<1>3. \A l \in Loop : c \notin ret[l] /\ cur[l] # c
  BY DEF IInv, CallbackTargetAlive
<1>4. \A l \in Loop, f \in Fd : fd2http[l][f] # c
  BY DEF IInv, TablesCoherent
<1> QED
  BY <1>1, <1>2, <1>3, <1>4

LEMMA AcceptInv ==
  ASSUME IInv, NEW c \in Conn, Accept(c),
         UNCHANGED <<sock, moves, ep, chan, timerVars, tableVars, loopVars>>
  PROVE  IInv'
<1> USE DEF timerVars, tableVars, loopVars
<1>1. PICK fd \in FreeFds : Refused(c) \/ Leaked(c, fd) \/ Handed(c, fd)
  BY DEF Accept
<1>2. life[c] = "backlog" /\ next' \in Loop /\ starved' \in BOOLEAN
  BY NextLoopIn DEF Accept, IInv, TypeOK
<1>3. fd \in Fd /\ fd \in Nat /\ \A d \in Conn : HoldsFd(d) => http[d].fd # fd
  BY FreeIsFree, ReactorAssumption
<1>4. /\ http \in [Conn -> Http] /\ acc \in AccType /\ next \in Loop
      /\ life \in [Conn -> {"new", "backlog", "queued", "open", "closed", "leaked"}]
      /\ pending \in [Loop -> SUBSET Conn] /\ faults \in 0..MaxFaults
  BY DEF IInv, TypeOK, Http, AccType
\* Whatever becomes of it, nobody else notices.
<1>5. /\ life'[c] \in {"queued", "closed", "leaked"}
      /\ \A d \in Conn \ {c} : life'[d] = life[d] /\ http'[d] = http[d]
      /\ life' \in [Conn -> {"new", "backlog", "queued", "open", "closed", "leaked"}]
      /\ http' \in [Conn -> Http]
      /\ acc' \in AccType /\ pending' \in [Loop -> SUBSET Conn]
      /\ faults' \in 0..MaxFaults /\ faults' >= faults
  <2>1. CASE Refused(c)
    BY <1>4, <2>1 DEF Refused
  <2>2. CASE Leaked(c, fd)
    <3>1. faults' \in 0..MaxFaults /\ faults' >= faults
      BY <1>4, <2>2, ReactorAssumption DEF Leaked
    <3>2. http' \in [Conn -> Http]
      <4>1. http' = [http EXCEPT ![c] = [http[c] EXCEPT !.fd = fd]]
        BY <2>2 DEF Leaked
      <4>2. [http[c] EXCEPT !.fd = fd] \in Http
        BY <1>3, <1>4 DEF Http
      <4> QED
        BY <1>4, <4>1, <4>2
    <3>3. acc' \in AccType
      BY <1>4, <2>2 DEF Leaked, AccType
    <3> QED
      BY <1>4, <2>2, <3>1, <3>2, <3>3 DEF Leaked
  <2>3. CASE Handed(c, fd)
    <3>1. http' \in [Conn -> Http]
      <4>1. http' = [http EXCEPT ![c] = [http[c] EXCEPT !.fd = fd, !.loop = next]]
        BY <2>3 DEF Handed
      <4>2. [http[c] EXCEPT !.fd = fd, !.loop = next] \in Http
        BY <1>3, <1>4 DEF Http
      <4> QED
        BY <1>4, <4>1, <4>2
    <3> QED
      BY <1>4, <2>3, <3>1 DEF Handed
  <2> QED
    BY <1>1, <2>1, <2>2, <2>3
<1>6. HoldsFd(c)' => http'[c].fd = fd
  BY <1>1, <1>2, <1>4 DEF Refused, Leaked, Handed, HoldsFd, Alive, Http
<1>7. \A d \in Conn \ {c} : HoldsFd(d)' <=> HoldsFd(d)
  BY <1>5 DEF HoldsFd, Alive
<1>8. ~HoldsFd(c)
  BY <1>2 DEF HoldsFd, Alive
<1>9. TypeOK'
  BY <1>2, <1>5 DEF IInv, TypeOK, Http, AccType
<1>10. Descriptors'
  BY <1>3, <1>5, <1>6, <1>7, <1>8 DEF IInv, Descriptors
<1>11. Queues'
  <2>1. CASE UNCHANGED pending
    <3>1. \A l \in Loop : pending[l] \cup functors[l] \subseteq Conn \ {c}
      BY <1>2, BacklogNowhere DEF IInv, TypeOK
    <3> QED
      BY <1>5, <2>1, <3>1 DEF IInv, Queues
  <2>2. CASE Handed(c, fd)
    <3>1. /\ life'[c] = "queued" /\ http'[c].loop = next
          /\ pending' = [pending EXCEPT ![next] = @ \cup {c}]
      BY <1>4, <2>2 DEF Handed, Http
    <3> QED
      BY <1>2, <1>4, <1>5, <3>1, BacklogNowhere DEF IInv, Queues, TypeOK
  <2> QED
    BY <1>1, <2>1, <2>2 DEF Refused, Leaked
<1>12. Rounds' /\ CallbackTargetAlive'
  <2>1. Rounds'
    BY DEF IInv, Rounds
  <2>2. \A l \in Loop, d \in Conn : d \in ret[l] \/ cur[l] = d => d \in Conn \ {c}
    BY <1>2, BacklogNowhere
  <2> QED
    BY <1>5, <2>1, <2>2 DEF IInv, CallbackTargetAlive
<1>13. TablesCoherent'
  <2>1. \A l \in Loop, f \in Fd :
          fd2chan'[l][f] \in {fd2http'[l][f]} \cup (IF faults' > 0 THEN {None} ELSE {})
    BY <1>4, <1>5 DEF IInv, TablesCoherent
  <2>2. \A l \in Loop, f \in Fd, d \in Conn :
          fd2http'[l][f] = d => life'[d] = "open" /\ http'[d].fd = f /\ http'[d].loop = l
    BY <1>2, <1>5, BacklogNowhere DEF IInv, TablesCoherent
  <2>3. \A d \in Conn :
          life'[d] = "open" => fd2http'[http'[d].loop][http'[d].fd] = d
    BY <1>2, <1>5 DEF IInv, TablesCoherent
  <2> QED
    BY <2>1, <2>2, <2>3 DEF TablesCoherent
<1>14. Timers'
  BY <1>2, <1>5, BacklogNowhere DEF IInv, Timers, NotCur, HalfClosed
<1>15. Masks'
  <2>1. \A l \in Loop : cur[l] # c
    BY <1>2, BacklogNowhere
  <2>2. \A l \in Loop : pc[l] = "conn" => cur[l] \in Conn \ {c}
    BY <2>1 DEF IInv, Rounds, TypeOK
  <2> QED
    BY <1>5, <2>2 DEF IInv, Masks
<1> QED
  BY <1>9, <1>10, <1>11, <1>12, <1>13, <1>14, <1>15 DEF IInv

LEMMA AcceptStepInv == IInv /\ AcceptStep => IInv'
BY AcceptRoundInv, AcceptInv DEF AcceptStep

-----------------------------------------------------------------------------
(* A loop up to its handlers.                                              *)

LEMMA LoopTypes ==
  ASSUME IInv
  PROVE  /\ sock \in [Conn -> Socket] /\ ep \in [Conn -> Entry]
         /\ chan \in [Conn -> Chan] /\ http \in [Conn -> Http]
         /\ pc \in [Loop -> {"poll", "events", "read", "write", "conn", "pending"}]
         /\ cur \in [Loop -> Conn \cup {None}] /\ ret \in [Loop -> SUBSET Conn]
         /\ pending \in [Loop -> SUBSET Conn] /\ functors \in [Loop -> SUBSET Conn]
         /\ timers \in [Conn -> Nat] /\ linked \in [Conn -> BOOLEAN]
         /\ due \in [Conn -> BOOLEAN]
         /\ endless \in [Conn -> BOOLEAN]
BY DEF IInv, TypeOK, Socket, Entry, Chan, Http

\* The connection in handleEvents of a loop is open and belongs to the loop.
LEMMA CurOpen ==
  ASSUME IInv, NEW l \in Loop, pc[l] \in {"read", "write", "conn"}
  PROVE  /\ cur[l] \in Conn
         /\ life[cur[l]] = "open" /\ http[cur[l]].loop = l
         /\ cur[l] \notin ret[l]
         /\ \A k \in Loop : cur[k] = cur[l] => k = l
         /\ \A k \in Loop \ {l} : cur[l] \notin ret[k]
<1>1. cur[l] \in Conn
  BY LoopTypes DEF IInv, Rounds
<1> QED
  BY <1>1 DEF IInv, Rounds, CallbackTargetAlive

LEMMA PollInv ==
  ASSUME IInv, NEW l \in Loop, Poll(l)
  PROVE  IInv'
<1> USE DEF timerVars, tableVars, acceptVars
<1> DEFINE R == Reported(l)
<1>1. /\ pc[l] = "poll"
      /\ ret' = [ret EXCEPT ![l] = R]
      /\ UNCHANGED <<life, sock, moves, faults, http, timerVars, tableVars, acceptVars,
                     functors, cur>>
  BY DEF Poll
<1>2. \/ pc' = [pc EXCEPT ![l] = "events"]
      \/ R = {} /\ pc' = pc
  BY DEF Poll
<1>3. \A c \in R : c \in Conn /\ life[c] = "open" /\ http[c].loop = l
  BY DEF Reported, Returned, OnReadyList
<1>4. /\ ep' \in [Conn -> Entry]
      /\ \A c \in Conn : ep'[c].mask = ep[c].mask
  <2>1. \A c \in Conn : ep'[c] \in Entry /\ ep'[c].mask = ep[c].mask
    <3> TAKE c \in Conn
    <3>1. PICK b \in BOOLEAN :
            ep'[c] = IF c \in OnReadyList(l)
                     THEN [ep[c] EXCEPT !.rdy = FALSE, !.armed = b] ELSE ep[c]
      BY LoopTypes DEF Poll, Entry
    <3> QED
      BY <3>1, LoopTypes DEF Entry
  <2> QED
    BY <2>1 DEF Poll
<1>5. /\ chan' \in [Conn -> Chan]
      /\ \A c \in Conn \ R : chan'[c] = chan[c]
      /\ \A c \in Conn : ~({"in", "out"} \subseteq chan'[c].revents)
  <2>1. \A c \in Conn : chan'[c] \in Chan /\ (c \notin R => chan'[c] = chan[c])
    <3> TAKE c \in Conn
    <3>1. chan'[c] = IF c \in R
                     THEN [chan[c] EXCEPT !.events = {},
                                          !.revents = Reports(sock[c], ep[c].mask)]
                     ELSE chan[c]
      BY DEF Poll
    <3>2. Reports(sock[c], ep[c].mask) \subseteq Bits
      BY DEF Reports, Ready, Bits
    <3> QED
      BY <3>1, <3>2, LoopTypes DEF Chan
  <2>2. \A c \in Conn : ~({"in", "out"} \subseteq chan'[c].revents)
    <3> TAKE c \in Conn
    <3>1. ~({"in", "out"} \subseteq chan[c].revents) /\ ~({"in", "out"} \subseteq ep[c].mask)
      BY DEF IInv, Masks
    <3>2. ~({"in", "out"} \subseteq Reports(sock[c], ep[c].mask))
      BY <3>1 DEF Reports
    <3>3. chan'[c].revents \in {chan[c].revents, Reports(sock[c], ep[c].mask)}
      <4>1. chan'[c] \in {chan[c], [chan[c] EXCEPT !.events = {},
                                       !.revents = Reports(sock[c], ep[c].mask)]}
        BY DEF Poll
      <4>2. chan[c] \in Chan
        BY LoopTypes
      <4>3. [chan[c] EXCEPT !.events = {}, !.revents = Reports(sock[c], ep[c].mask)].revents
              = Reports(sock[c], ep[c].mask)
        BY <4>2 DEF Chan
      <4> QED
        BY <4>1, <4>3
    <3> QED
      BY <3>1, <3>2, <3>3
  <2> QED
    BY <2>1, <2>2 DEF Poll
<1>6. TypeOK'
  <2>1. /\ pc' \in [Loop -> {"poll", "events", "read", "write", "conn", "pending"}]
        /\ ret' \in [Loop -> SUBSET Conn]
    BY <1>1, <1>2, <1>3, LoopTypes
  <2> QED
    BY <1>1, <1>4, <1>5, <2>1 DEF IInv, TypeOK, Entry, Chan
<1>7. Descriptors' /\ Queues'
  BY <1>1 DEF IInv, Descriptors, HoldsFd, Alive, Queues
<1>8. cur[l] = None
  BY <1>1, LoopTypes DEF IInv, Rounds
<1>9. Rounds'
  BY <1>1, <1>2, <1>3, <1>8, LoopTypes, ReactorAssumption DEF IInv, Rounds
<1>10. CallbackTargetAlive'
  BY <1>1, <1>3, LoopTypes DEF IInv, CallbackTargetAlive
<1>11. TablesCoherent'
  BY <1>1 DEF IInv, TablesCoherent
<1>12. Timers'
  BY <1>1 DEF IInv, Timers, NotCur, HalfClosed
<1>13. Masks'
  <2>1. \A k \in Loop : pc'[k] \in {"read", "write", "conn"} =>
          pc'[k] = pc[k] /\ cur[k] \in Conn \ R
    <3> SUFFICES ASSUME NEW k \in Loop, pc'[k] \in {"read", "write", "conn"}
                 PROVE  pc'[k] = pc[k] /\ cur[k] \in Conn \ R
      OBVIOUS
    <3>1. k # l /\ pc'[k] = pc[k]
      BY <1>1, <1>2, LoopTypes
    <3> QED
      BY <1>3, <3>1, CurOpen
  <2> QED
    BY <1>1, <1>4, <1>5, <2>1, ZenonT(40) DEF IInv, Masks
<1> QED
  BY <1>6, <1>7, <1>9, <1>10, <1>11, <1>12, <1>13 DEF IInv

\* An active channel that is still to be handled is nobody's current one.
LEMMA RetNotCur ==
  ASSUME IInv, NEW l \in Loop, NEW c \in ret[l]
  PROVE  c \in Conn /\ NotCur(c)
<1>1. c \in Conn
  BY LoopTypes
<1> QED
  BY <1>1 DEF IInv, CallbackTargetAlive, Rounds, NotCur

LEMMA SwallowInv ==
  ASSUME IInv, NEW l \in Loop, NEW c \in Conn, SwallowEvents(l, c)
  PROVE  IInv'
<1> USE DEF timerVars, tableVars, acceptVars
<1>1. /\ c \in ret[l] /\ pc[l] = "events"
      /\ chan' = [chan EXCEPT ![c].events = {}, ![c].revents = {}]
      /\ ret' = [ret EXCEPT ![l] = @ \ {c}]
      /\ UNCHANGED <<life, sock, moves, faults, ep, http, timerVars, tableVars,
                     acceptVars, functors, pc, cur>>
  BY DEF SwallowEvents
<1>2. chan' \in [Conn -> Chan] /\ ret' \in [Loop -> SUBSET Conn]
  BY <1>1, LoopTypes, ZenonT(40) DEF Chan
<1>3. TypeOK'
  BY <1>1, <1>2 DEF IInv, TypeOK, Chan
<1>4. Descriptors' /\ Queues'
  BY <1>1 DEF IInv, Descriptors, HoldsFd, Alive, Queues
<1>5. Rounds' /\ CallbackTargetAlive'
  BY <1>1, LoopTypes DEF IInv, Rounds, CallbackTargetAlive
<1>6. TablesCoherent' /\ Timers'
  BY <1>1 DEF IInv, TablesCoherent, Timers, NotCur, HalfClosed
<1>7. Masks'
  <2>1. NotCur(c)
    BY <1>1, RetNotCur
  <2>2. chan'[c].revents = {} /\ \A d \in Conn \ {c} : chan'[d] = chan[d]
    BY <1>1, LoopTypes DEF Chan
  <2>3. \A k \in Loop : pc[k] \in {"read", "write", "conn"} => cur[k] \in Conn \ {c}
    BY <2>1, CurOpen DEF NotCur
  <2>4. \A d \in Conn : /\ ~({"in", "out"} \subseteq ep'[d].mask)
                        /\ ~({"in", "out"} \subseteq chan'[d].revents)
    BY <1>1, <2>2 DEF IInv, Masks
  <2>5. ASSUME NEW k \in Loop, pc[k] \in {"read", "write", "conn"}
        PROVE  chan'[cur[k]] = chan[cur[k]]
    BY <2>2, <2>3, <2>5
  <2> QED
    BY <1>1, <2>4, <2>5 DEF IInv, Masks
<1> QED
  BY <1>3, <1>4, <1>5, <1>6, <1>7 DEF IInv

LEMMA HandleEventsInv ==
  ASSUME IInv, NEW l \in Loop, NEW c \in Conn, HandleEvents(l, c)
  PROVE  IInv'
<1> USE DEF timerVars, tableVars, acceptVars
<1>1. /\ c \in ret[l] /\ pc[l] = "events"
      /\ chan' = [chan EXCEPT ![c].events = {}]
      /\ ret' = [ret EXCEPT ![l] = @ \ {c}]
      /\ cur' = [cur EXCEPT ![l] = c]
      /\ pc' = [pc EXCEPT ![l] = IF "in" \in chan[c].revents THEN "read" ELSE "write"]
      /\ UNCHANGED <<life, sock, moves, faults, ep, http, timerVars, tableVars,
                     acceptVars, functors>>
  BY DEF HandleEvents
<1>2. chan' \in [Conn -> Chan] /\ ret' \in [Loop -> SUBSET Conn]
  BY <1>1, LoopTypes, ZenonT(40) DEF Chan
<1>3. TypeOK'
  <2>1. /\ cur' \in [Loop -> Conn \cup {None}]
        /\ pc' \in [Loop -> {"poll", "events", "read", "write", "conn", "pending"}]
    BY <1>1, LoopTypes
  <2> QED
    BY <1>1, <1>2, <2>1 DEF IInv, TypeOK, Chan
<1>4. Descriptors' /\ Queues'
  BY <1>1 DEF IInv, Descriptors, HoldsFd, Alive, Queues
<1>5. Rounds'
  BY <1>1, LoopTypes, ReactorAssumption DEF IInv, Rounds
<1>6. CallbackTargetAlive'
  BY <1>1, LoopTypes DEF IInv, CallbackTargetAlive
<1>7. TablesCoherent'
  BY <1>1 DEF IInv, TablesCoherent
<1>8. Timers'
  <2>1. cur[l] = None
    BY <1>1, LoopTypes DEF IInv, Rounds
  <2>2. \A d \in Conn : NotCur(d)' => NotCur(d)
    BY <1>1, <2>1, LoopTypes, ReactorAssumption DEF NotCur
  <2> QED
    BY <1>1, <2>2 DEF IInv, Timers, HalfClosed
<1>9. Masks'
  <2>1. NotCur(c)
    BY <1>1, RetNotCur
  <2>2. /\ chan'[c].events = {} /\ chan'[c].revents = chan[c].revents
        /\ \A d \in Conn \ {c} : chan'[d] = chan[d]
    BY <1>1, LoopTypes DEF Chan
  <2>3. \A k \in Loop \ {l} : pc[k] \in {"read", "write", "conn"} => cur[k] \in Conn \ {c}
    BY <2>1, CurOpen DEF NotCur
  <2>4. \A k \in Loop \ {l} : pc'[k] = pc[k] /\ cur'[k] = cur[k]
    BY <1>1, LoopTypes
  <2>5. /\ cur'[l] = c
        /\ pc'[l] = IF "in" \in chan[c].revents THEN "read" ELSE "write"
    BY <1>1, LoopTypes
  <2>6. \A d \in Conn : ~({"in", "out"} \subseteq ep[d].mask)
                          /\ ~({"in", "out"} \subseteq chan[d].revents)
    BY DEF IInv, Masks
  <2>7. \A d \in Conn : ~({"in", "out"} \subseteq ep'[d].mask)
                          /\ ~({"in", "out"} \subseteq chan'[d].revents)
    BY <1>1, <2>2, <2>6
  <2>8. ASSUME NEW k \in Loop \ {l}
        PROVE  /\ pc'[k] \in {"read", "write"} => chan'[cur'[k]].events = {}
               /\ pc'[k] = "read" => "out" \notin chan'[cur'[k]].revents
               /\ pc'[k] = "conn" /\ "out" \in chan'[cur'[k]].events => http'[cur'[k]].out
    BY <1>1, <2>2, <2>3, <2>4, SMTT(40) DEF IInv, Masks
  <2> QED
    BY <2>2, <2>5, <2>6, <2>7, <2>8 DEF Masks
<1> QED
  BY <1>3, <1>4, <1>5, <1>6, <1>7, <1>8, <1>9 DEF IInv

LEMMA StartPendingInv ==
  ASSUME IInv, NEW l \in Loop, StartPending(l)
  PROVE  IInv'
<1> USE DEF timerVars, tableVars
<1>1. /\ pc[l] = "events" /\ ret[l] = {}
      /\ functors' = [functors EXCEPT ![l] = pending[l]]
      /\ pending' = [pending EXCEPT ![l] = {}]
      /\ pc' = [pc EXCEPT ![l] = "pending"]
      /\ UNCHANGED <<life, sock, moves, faults, ep, chan, http, timerVars, tableVars,
                     acc, starved, next, cur, ret>>
  BY DEF StartPending
<1>2. TypeOK'
  <2>1. /\ pending' \in [Loop -> SUBSET Conn] /\ functors' \in [Loop -> SUBSET Conn]
        /\ pc' \in [Loop -> {"poll", "events", "read", "write", "conn", "pending"}]
    BY <1>1, LoopTypes
  <2> QED
    BY <1>1, <2>1 DEF IInv, TypeOK
<1>3. Descriptors'
  BY <1>1 DEF IInv, Descriptors, HoldsFd, Alive
<1>4. Queues'
  BY <1>1, LoopTypes DEF IInv, Queues
<1>5. Rounds' /\ CallbackTargetAlive'
  BY <1>1, LoopTypes DEF IInv, Rounds, CallbackTargetAlive
<1>6. TablesCoherent' /\ Timers'
  BY <1>1 DEF IInv, TablesCoherent, Timers, NotCur, HalfClosed
<1>7. Masks'
  BY <1>1, LoopTypes DEF IInv, Masks
<1> QED
  BY <1>2, <1>3, <1>4, <1>5, <1>6, <1>7 DEF IInv

LEMMA EndRoundInv ==
  ASSUME IInv, NEW l \in Loop, EndRound(l)
  PROVE  IInv'
<1> USE DEF timerVars, tableVars, acceptVars
<1>1. /\ pc[l] = "pending"
      /\ pc' = [pc EXCEPT ![l] = "poll"]
      /\ UNCHANGED <<life, sock, moves, faults, ep, chan, http, timerVars, tableVars,
                     acceptVars, functors, cur, ret>>
  BY DEF EndRound
<1>2. TypeOK'
  BY <1>1 DEF IInv, TypeOK
<1>3. Descriptors' /\ Queues'
  BY <1>1 DEF IInv, Descriptors, HoldsFd, Alive, Queues
<1>4. Rounds' /\ CallbackTargetAlive'
  BY <1>1, LoopTypes DEF IInv, Rounds, CallbackTargetAlive
<1>5. TablesCoherent' /\ Timers'
  BY <1>1 DEF IInv, TablesCoherent, Timers, NotCur, HalfClosed
<1>6. Masks'
  BY <1>1, LoopTypes DEF IInv, Masks
<1> QED
  BY <1>2, <1>3, <1>4, <1>5, <1>6 DEF IInv

-----------------------------------------------------------------------------
(* The handlers of HttpData.                                               *)

LEMMA ClearTimerTypes ==
  ASSUME IInv, NEW c \in Conn, ClearTimer(c)
  PROVE  /\ timers' = [timers EXCEPT ![c] = 0]
         /\ linked' = [linked EXCEPT ![c] = FALSE]
         /\ due' = [due EXCEPT ![c] = FALSE]
         /\ endless' = [endless EXCEPT ![c] = FALSE]
<1>1. timers[c] = IF linked[c] THEN 1 ELSE 0
  BY DEF IInv, Timers
<1>2. timers' = [timers EXCEPT ![c] = 0]
  BY <1>1, LoopTypes DEF ClearTimer
<1>3. timers'[c] = 0
  BY <1>2, LoopTypes
<1>4. due' = [due EXCEPT ![c] = FALSE]
  <2>1. due' = [due EXCEPT ![c] = due[c] /\ timers'[c] > 0]
    BY DEF ClearTimer
  <2>2. (due[c] /\ timers'[c] > 0) = FALSE
    BY <1>3
  <2> QED
    BY <2>1, <2>2
<1>5. endless' = [endless EXCEPT ![c] = FALSE]
  <2>1. endless' = [endless EXCEPT ![c] = endless[c] /\ timers'[c] > 0]
    BY DEF ClearTimer
  <2>2. (endless[c] /\ timers'[c] > 0) = FALSE
    BY <1>3
  <2> QED
    BY <2>1, <2>2
<1> QED
  BY <1>2, <1>4, <1>5 DEF ClearTimer

\* A handler of the current connection leaves what Follows allows.
LEMMA HandlerInv ==
  ASSUME IInv, NEW l \in Loop, pc[l] \in {"read", "write"}, NEW x,
         Follows(Result(http[cur[l]], sock[cur[l]], chan[cur[l]].events), x),
         Leave(cur[l], x),
         ClearTimer(cur[l]) \/ UNCHANGED timerVars,
         pc' = [pc EXCEPT ![l] = "conn"],
         UNCHANGED <<life, moves, faults, ep, tableVars, acceptVars, functors, cur, ret>>
  PROVE  IInv'
<1> USE DEF timerVars, tableVars, acceptVars
<1> DEFINE c == cur[l]
<1>1. c \in Conn /\ life[c] = "open" /\ \A k \in Loop : cur[k] = c => k = l
  BY CurOpen
<1>2. chan[c].events = {}
  BY DEF IInv, Masks
<1>3. /\ x \in Results
      /\ x.http.fd = http[c].fd /\ x.http.loop = http[c].loop
      /\ "out" \in x.events => x.http.out
  BY <1>2 DEF Follows, Result
<1>4. /\ http' = [http EXCEPT ![c] = x.http]
      /\ sock' = [sock EXCEPT ![c] = x.sock]
      /\ chan' = [chan EXCEPT ![c].events = x.events]
  BY DEF Leave
<1>5. /\ http' \in [Conn -> Http] /\ sock' \in [Conn -> Socket] /\ chan' \in [Conn -> Chan]
  <2>1. x.http \in Http /\ x.sock \in Socket /\ x.events \in SUBSET Mask
    BY <1>3 DEF Results
  <2>2. http' \in [Conn -> Http] /\ sock' \in [Conn -> Socket]
    BY <1>4, <2>1, LoopTypes
  <2>3. chan' \in [Conn -> Chan]
    BY <1>4, <2>1, LoopTypes, ZenonT(40) DEF Chan
  <2> QED
    BY <2>2, <2>3
<1>6. /\ \A d \in Conn : http'[d].fd = http[d].fd /\ http'[d].loop = http[d].loop
      /\ \A d \in Conn \ {c} : http'[d] = http[d] /\ chan'[d] = chan[d]
      /\ \A d \in Conn : chan'[d].revents = chan[d].revents
      /\ http'[c] = x.http /\ chan'[c].events = x.events
  BY <1>1, <1>3, <1>4, LoopTypes DEF Chan
<1>7. /\ \A d \in Conn \ {c} : /\ timers'[d] = timers[d] /\ linked'[d] = linked[d]
                               /\ due'[d] = due[d]
      /\ \/ timers'[c] = 0 /\ ~linked'[c] /\ ~due'[c]
         \/ timers'[c] = timers[c] /\ linked'[c] = linked[c] /\ due'[c] = due[c]
      /\ timers' \in [Conn -> Nat] /\ linked' \in [Conn -> BOOLEAN]
      /\ due' \in [Conn -> BOOLEAN]
      /\ endless' \in [Conn -> BOOLEAN]
  <2>1. CASE UNCHANGED timerVars
    BY <2>1, LoopTypes
  <2>2. CASE ClearTimer(c)
    <3>1. /\ timers' = [timers EXCEPT ![c] = 0]
          /\ linked' = [linked EXCEPT ![c] = FALSE]
          /\ due' = [due EXCEPT ![c] = FALSE]
          /\ endless' = [endless EXCEPT ![c] = FALSE]
      BY <1>1, <2>2, ClearTimerTypes
    <3> QED
      BY <1>1, <3>1, LoopTypes
  <2> QED
    BY <2>1, <2>2
<1>8. TypeOK'
  <2>1. pc' \in [Loop -> {"poll", "events", "read", "write", "conn", "pending"}]
    BY LoopTypes
  <2> QED
    BY <1>5, <1>7, <2>1 DEF IInv, TypeOK, Http, Socket, Chan
<1>9. Descriptors' /\ Queues'
  <2>1. Descriptors'
    BY <1>6 DEF IInv, Descriptors, HoldsFd, Alive
  <2>2. \A k \in Loop : pending[k] \cup functors[k] \subseteq Conn
    BY LoopTypes
  <2>3. Queues'
    BY <1>6, <2>2 DEF IInv, Queues
  <2> QED
    BY <2>1, <2>3
<1>10. Rounds'
  BY <1>1, LoopTypes, ReactorAssumption DEF IInv, Rounds
<1>11. CallbackTargetAlive'
  BY <1>6 DEF IInv, CallbackTargetAlive
<1>12. TablesCoherent'
  BY <1>6 DEF IInv, TablesCoherent
<1>13. Timers'
  <2>1. ~NotCur(c)'
    BY DEF NotCur
  <2>2. \A d \in Conn : NotCur(d)' <=> NotCur(d)
    BY DEF NotCur
  <2>3. ASSUME NEW d \in Conn \ {c}
        PROVE  /\ timers'[d] = (IF linked'[d] THEN 1 ELSE 0)
               /\ due'[d] => linked'[d]
               /\ linked'[d] => life'[d] = "open"
               /\ (life'[d] = "open" /\ NotCur(d)' /\ ~HalfClosed(d)') => linked'[d]
    BY <1>6, <1>7, <2>2 DEF IInv, Timers, HalfClosed
  <2>4. /\ timers'[c] = (IF linked'[c] THEN 1 ELSE 0)
        /\ due'[c] => linked'[c]
        /\ linked'[c] => life'[c] = "open"
    BY <1>1, <1>7 DEF IInv, Timers
  <2> QED
    BY <2>1, <2>3, <2>4 DEF Timers
<1>14. Masks'
  <2>1. \A k \in Loop \ {l} : /\ pc'[k] = pc[k]
                              /\ pc[k] \in {"read", "write", "conn"} => cur[k] \in Conn \ {c}
    BY <1>1, CurOpen, LoopTypes
  <2>2. pc'[l] = "conn"
    BY LoopTypes
  <2>3. \A d \in Conn : ~({"in", "out"} \subseteq ep'[d].mask)
                          /\ ~({"in", "out"} \subseteq chan'[d].revents)
    BY <1>6 DEF IInv, Masks
  <2>4. ASSUME NEW k \in Loop \ {l}
        PROVE  /\ pc'[k] \in {"read", "write"} => chan'[cur'[k]].events = {}
               /\ pc'[k] = "read" => "out" \notin chan'[cur'[k]].revents
               /\ pc'[k] = "conn" /\ "out" \in chan'[cur'[k]].events => http'[cur'[k]].out
    BY <1>6, <2>1 DEF IInv, Masks
  <2>5. "out" \in chan'[cur'[l]].events => http'[cur'[l]].out
    BY <1>3, <1>6
  <2> QED
    BY <2>2, <2>3, <2>4, <2>5 DEF Masks
<1> QED
  BY <1>8, <1>9, <1>10, <1>11, <1>12, <1>13, <1>14 DEF IInv

LEMMA ReadInv ==
  ASSUME IInv, NEW l \in Loop, HandleRead(l)
  PROVE  IInv'
<1>1. pc[l] = "read" /\ cur[l] \in Conn
  BY CurOpen DEF HandleRead
<1>2. PICK x \in ReadResults(cur[l]) :
        /\ Leave(cur[l], x)
        /\ ClearTimer(cur[l]) \/ UNCHANGED timerVars
  BY DEF HandleRead
<1>3. Follows(Result(http[cur[l]], sock[cur[l]], chan[cur[l]].events), x)
  BY <1>1, ReadFollows DEF IInv
<1>4. pc' = [pc EXCEPT ![l] = "conn"]
  BY <1>1 DEF HandleRead, IInv, Masks
<1> QED
  BY <1>1, <1>2, <1>3, <1>4, HandlerInv DEF HandleRead

LEMMA WriteInv ==
  ASSUME IInv, NEW l \in Loop, HandleWrite(l)
  PROVE  IInv'
<1> DEFINE r == Result(http[cur[l]], sock[cur[l]], chan[cur[l]].events)
<1>1. pc[l] = "write" /\ cur[l] \in Conn
  BY CurOpen DEF HandleWrite
<1>2. r \in Results
  BY <1>1, LoopTypes DEF Result, Results, Chan
<1>3. PICK x \in WriteResults(r) : Leave(cur[l], x)
  BY DEF HandleWrite
<1>4. Follows(r, x)
  BY <1>2, WriteFollows
<1> QED
  BY <1>1, <1>3, <1>4, HandlerInv DEF HandleWrite

-----------------------------------------------------------------------------
(* Connections are closed.                                                 *)

\* The connection is dropped and nothing of it is left.
Gone(c) ==
  /\ life' = [life EXCEPT ![c] = "closed"]
  /\ sock' = [sock EXCEPT ![c] = NewSocket]
  /\ chan' = [chan EXCEPT ![c] = NewChannel]
  /\ http' = [http EXCEPT ![c] = NewHttpData]
  /\ ep' = [ep EXCEPT ![c] = Idle]
  /\ fd2chan' = [fd2chan EXCEPT ![http[c].loop][http[c].fd] = None]
  /\ fd2http' = [fd2http EXCEPT ![http[c].loop][http[c].fd] = None]
  /\ timers' = [timers EXCEPT ![c] = 0]
  /\ linked' = [linked EXCEPT ![c] = FALSE]
  /\ due' = [due EXCEPT ![c] = FALSE]
  /\ endless' = [endless EXCEPT ![c] = FALSE]

LEMMA TableTypes ==
  ASSUME IInv
  PROVE  /\ fd2chan \in [Loop -> [Fd -> Conn \cup {None}]]
         /\ fd2http \in [Loop -> [Fd -> Conn \cup {None}]]
BY DEF IInv, TypeOK

\* An open connection is where its descriptor leads to.
LEMMA OpenPlace ==
  ASSUME IInv, NEW c \in Conn, life[c] = "open"
  PROVE  /\ http[c].loop \in Loop /\ http[c].fd \in Fd
         /\ fd2http[http[c].loop][http[c].fd] = c
         /\ \A d \in Conn \ {c} : HoldsFd(d) => http[d].fd # http[c].fd
<1>1. HoldsFd(c)
  BY DEF HoldsFd, Alive
<1> QED
  BY <1>1, LoopTypes DEF IInv, Descriptors, TablesCoherent, Http

LEMMA CloseIsGone ==
  ASSUME IInv, NEW c \in Conn, life[c] = "open", Close(c),
         timers' = [timers EXCEPT ![c] = 0],
         linked' = [linked EXCEPT ![c] = FALSE],
         due' = [due EXCEPT ![c] = FALSE],
         endless' = [endless EXCEPT ![c] = FALSE]
  PROVE  Gone(c)
<1> DEFINE h == http[c]
<1>1. /\ ep' = [ep EXCEPT ![c] = Idle]
      /\ fd2chan' = [fd2chan EXCEPT ![h.loop][h.fd] = None]
      /\ fd2http' = [fd2http EXCEPT ![h.loop][h.fd] = None]
      /\ Release(c, [h EXCEPT !.state = "disconnected"])
  BY DEF Close
<1>2. ~(timers'[c] > 0)
  BY LoopTypes
<1>3. \A l \in Loop, f \in Fd : fd2http'[l][f] # c
  <2> TAKE l \in Loop, f \in Fd
  <2>1. CASE fd2http[l][f] = c
    <3>1. h.fd = f /\ h.loop = l
      BY <2>1 DEF IInv, TablesCoherent
    <3> QED
      BY <1>1, <3>1, TableTypes, ReactorAssumption
  <2>2. CASE fd2http[l][f] # c
    <3>1. fd2http'[l][f] \in {fd2http[l][f], None}
      BY <1>1, TableTypes, OpenPlace
    <3> QED
      BY <2>2, <3>1, ReactorAssumption
  <2> QED
    BY <2>1, <2>2
<1> QED
  BY <1>1, <1>2, <1>3 DEF Release, Gone

LEMMA GoneInv ==
  ASSUME IInv, NEW c \in Conn, life[c] = "open", Gone(c),
         UNCHANGED <<moves, faults, acceptVars, functors, ret>>,
         pc' \in [Loop -> {"poll", "events", "read", "write", "conn", "pending"}],
         cur' \in [Loop -> Conn \cup {None}],
         Rounds', NotCur(c)',
         \A l \in Loop : c \notin ret[l],
         \A l \in Loop : cur'[l] # None => pc'[l] = pc[l] /\ cur'[l] = cur[l],
         \A d \in Conn \ {c} : NotCur(d)' => NotCur(d)
  PROVE  IInv'
<1> USE DEF acceptVars
<1>1. /\ life'[c] = "closed" /\ ~linked'[c] /\ timers'[c] = 0 /\ ~due'[c]
      /\ \A d \in Conn \ {c} : /\ life'[d] = life[d] /\ http'[d] = http[d]
                               /\ chan'[d] = chan[d] /\ ep'[d] = ep[d]
                               /\ timers'[d] = timers[d] /\ linked'[d] = linked[d]
                               /\ due'[d] = due[d]
  <2>1. life \in [Conn -> {"new", "backlog", "queued", "open", "closed", "leaked"}]
    BY DEF IInv, TypeOK
  <2>2. life'[c] = "closed" /\ ~linked'[c] /\ timers'[c] = 0 /\ ~due'[c]
    BY <2>1, LoopTypes DEF Gone
  <2>3. \A d \in Conn \ {c} : /\ life'[d] = life[d] /\ http'[d] = http[d]
                              /\ chan'[d] = chan[d] /\ ep'[d] = ep[d]
    BY <2>1, LoopTypes DEF Gone
  <2>4. \A d \in Conn \ {c} : /\ timers'[d] = timers[d] /\ linked'[d] = linked[d]
                              /\ due'[d] = due[d]
    BY LoopTypes DEF Gone
  <2> QED
    BY <2>2, <2>3, <2>4
<1>2. TypeOK'
  <2>1. life' \in [Conn -> {"new", "backlog", "queued", "open", "closed", "leaked"}]
    BY DEF IInv, TypeOK, Gone
  <2>2. sock' \in [Conn -> Socket] /\ http' \in [Conn -> Http]
    BY LoopTypes, LoopZero DEF Gone, NewSocket, Socket, NewHttpData, Http
  <2>3. chan' \in [Conn -> Chan] /\ ep' \in [Conn -> Entry]
    BY LoopTypes DEF Gone, NewChannel, Chan, Idle, Entry
  <2>4. /\ timers' \in [Conn -> Nat] /\ linked' \in [Conn -> BOOLEAN]
        /\ due' \in [Conn -> BOOLEAN]
        /\ endless' \in [Conn -> BOOLEAN]
    BY LoopTypes DEF Gone
  <2>5. /\ fd2chan' \in [Loop -> [Fd -> Conn \cup {None}]]
        /\ fd2http' \in [Loop -> [Fd -> Conn \cup {None}]]
    BY TableTypes, OpenPlace DEF Gone
  <2> QED
    BY <2>1, <2>2, <2>3, <2>4, <2>5 DEF IInv, TypeOK, Socket, Http, Chan, Entry
<1>3. ~HoldsFd(c)' /\ \A d \in Conn \ {c} : HoldsFd(d)' <=> HoldsFd(d)
  BY <1>1 DEF HoldsFd, Alive
<1>4. Descriptors'
  BY <1>1, <1>3 DEF IInv, Descriptors
<1>5. Queues'
  <2>1. \A l \in Loop : pending[l] \cup functors[l] \subseteq Conn \ {c}
    BY LoopTypes DEF IInv, Queues
  <2> QED
    BY <1>1, <2>1 DEF IInv, Queues
<1>6. CallbackTargetAlive'
  <2>1. \A l \in Loop, d \in Conn :
          d \in ret'[l] \/ cur'[l] = d => d # c /\ (d \in ret[l] \/ cur[l] = d)
    BY ReactorAssumption DEF NotCur
  <2> QED
    BY <1>1, <2>1 DEF IInv, CallbackTargetAlive
<1>7. TablesCoherent'
  <2> DEFINE L == http[c].loop
             F == http[c].fd
  <2>1. /\ L \in Loop /\ F \in Fd /\ fd2http[L][F] = c
        /\ \A d \in Conn \ {c} : life[d] = "open" => http[d].fd # F
    BY OpenPlace DEF HoldsFd, Alive
  <2>2. /\ fd2chan'[L][F] = None /\ fd2http'[L][F] = None
        /\ \A l \in Loop, f \in Fd : l # L \/ f # F =>
             fd2chan'[l][f] = fd2chan[l][f] /\ fd2http'[l][f] = fd2http[l][f]
    BY <2>1, TableTypes DEF Gone
  <2>3. \A l \in Loop, f \in Fd :
          fd2chan'[l][f] \in {fd2http'[l][f]} \cup (IF faults' > 0 THEN {None} ELSE {})
    BY <2>1, <2>2 DEF IInv, TablesCoherent
  <2>4. \A l \in Loop, f \in Fd, d \in Conn :
          fd2http'[l][f] = d => life'[d] = "open" /\ http'[d].fd = f /\ http'[d].loop = l
    <3> SUFFICES ASSUME NEW l \in Loop, NEW f \in Fd, NEW d \in Conn, fd2http'[l][f] = d
                 PROVE  life'[d] = "open" /\ http'[d].fd = f /\ http'[d].loop = l
      OBVIOUS
    <3>1. (l # L \/ f # F) /\ fd2http[l][f] = d
      BY <2>1, <2>2, ReactorAssumption
    <3>2. life[d] = "open" /\ http[d].fd = f /\ http[d].loop = l
      BY <3>1 DEF IInv, TablesCoherent
    <3> QED
      BY <1>1, <3>1, <3>2
  <2>5. \A d \in Conn :
          life'[d] = "open" => fd2http'[http'[d].loop][http'[d].fd] = d
    <3> SUFFICES ASSUME NEW d \in Conn, life'[d] = "open"
                 PROVE  fd2http'[http'[d].loop][http'[d].fd] = d
      OBVIOUS
    <3>1. d # c /\ life[d] = "open" /\ http'[d] = http[d]
      BY <1>1
    <3>2. /\ http[d].fd # F /\ http[d].loop \in Loop /\ http[d].fd \in Fd
          /\ fd2http[http[d].loop][http[d].fd] = d
      BY <2>1, <3>1, OpenPlace
    <3> QED
      BY <2>2, <3>1, <3>2
  <2> QED
    BY <2>3, <2>4, <2>5 DEF TablesCoherent
<1>8. Timers'
  <2>1. ASSUME NEW d \in Conn \ {c}
        PROVE  /\ timers'[d] = (IF linked'[d] THEN 1 ELSE 0)
               /\ due'[d] => linked'[d]
               /\ linked'[d] => life'[d] = "open"
               /\ (life'[d] = "open" /\ NotCur(d)' /\ ~HalfClosed(d)') => linked'[d]
    BY <1>1 DEF IInv, Timers, HalfClosed
  <2> QED
    BY <1>1, <2>1 DEF Timers
<1>9. Masks'
  <2>1. ep'[c].mask = {} /\ chan'[c].revents = {}
    BY LoopTypes DEF Gone, Idle, NewChannel
  <2>2. \A d \in Conn : ~({"in", "out"} \subseteq ep'[d].mask)
                          /\ ~({"in", "out"} \subseteq chan'[d].revents)
    BY <1>1, <2>1 DEF IInv, Masks
  <2>3. \A l \in Loop : pc'[l] \in {"read", "write", "conn"} =>
          pc'[l] = pc[l] /\ cur'[l] = cur[l] /\ cur[l] \in Conn \ {c}
    BY DEF Rounds, NotCur
  <2>4. ASSUME NEW l \in Loop, pc'[l] \in {"read", "write", "conn"}
        PROVE  /\ pc'[l] \in {"read", "write"} => chan'[cur'[l]].events = {}
               /\ pc'[l] = "read" => "out" \notin chan'[cur'[l]].revents
               /\ pc'[l] = "conn" /\ "out" \in chan'[cur'[l]].events => http'[cur'[l]].out
    <3>1. /\ pc'[l] = pc[l] /\ cur'[l] = cur[l]
          /\ chan'[cur[l]] = chan[cur[l]] /\ http'[cur[l]] = http[cur[l]]
      BY <1>1, <2>3, <2>4
    <3> QED
      BY <3>1, <2>4 DEF IInv, Masks
  <2> QED
    BY <2>2, <2>4 DEF Masks
<1> QED
  BY <1>2, <1>4, <1>5, <1>6, <1>7, <1>8, <1>9 DEF IInv

LEMMA ExpireInv ==
  ASSUME IInv, NEW l \in Loop, NEW c \in Conn, Expire(l, c)
  PROVE  IInv'
<1>1. /\ pc[l] = "pending" /\ http[c].loop = l /\ due[c]
      /\ Close(c)
      /\ timers' = [timers EXCEPT ![c] = @ - 1]
      /\ linked' = [linked EXCEPT ![c] = FALSE]
      /\ due' = [due EXCEPT ![c] = FALSE]
      /\ endless' = [endless EXCEPT ![c] = FALSE]
      /\ UNCHANGED <<moves, faults, acceptVars, loopVars>>
  BY DEF Expire, Sweeping
<1>2. life[c] = "open" /\ timers[c] = 1
  BY <1>1 DEF IInv, Timers
<1>3. timers' = [timers EXCEPT ![c] = 0]
  BY <1>1, <1>2, LoopTypes
<1>4. Gone(c)
  BY <1>1, <1>2, <1>3, CloseIsGone
<1>5. UNCHANGED <<functors, pc, cur, ret>>
  BY <1>1 DEF loopVars
<1>6. Rounds' /\ \A d \in Conn : NotCur(d)' <=> NotCur(d)
  BY <1>5 DEF IInv, Rounds, NotCur
<1>7. NotCur(c) /\ \A k \in Loop : c \notin ret[k]
  BY <1>1, ReactorAssumption DEF IInv, Rounds, CallbackTargetAlive, NotCur
<1> QED
  BY <1>1, <1>2, <1>4, <1>5, <1>6, <1>7, LoopTypes, GoneInv

-----------------------------------------------------------------------------
(* Connections are registered with epoll_ctl.                              *)

LEMMA ControlTypes ==
  ASSUME IInv, NEW l \in Loop, NEW c \in Conn, http[c].fd \in Fd,
         NEW mask \in SUBSET Mask, ~({"in", "out"} \subseteq mask),
         Control(l, c, mask)
  PROVE  /\ ep' \in [Conn -> Entry]
         /\ \A d \in Conn : ~({"in", "out"} \subseteq ep'[d].mask)
         /\ fd2chan' \in [Loop -> [Fd -> Conn \cup {None}]]
         /\ fd2chan'[l][http[c].fd] \in {c} \cup (IF faults' > 0 THEN {None} ELSE {})
         /\ \A k \in Loop, f \in Fd :
              k # l \/ f # http[c].fd => fd2chan'[k][f] = fd2chan[k][f]
         /\ faults' \in 0..MaxFaults /\ faults' >= faults
<1>1. faults \in 0..MaxFaults /\ MaxFaults \in Nat
  BY ReactorAssumption DEF IInv, TypeOK
<1>2. \A d \in Conn : ~({"in", "out"} \subseteq ep[d].mask)
  BY DEF IInv, Masks
<1>3. CASE /\ ep' = [ep EXCEPT ![c] = Armed(sock[c], mask)]
           /\ fd2chan' = [fd2chan EXCEPT ![l][http[c].fd] = c]
           /\ UNCHANGED faults
  <2>1. Armed(sock[c], mask) \in Entry /\ Armed(sock[c], mask).mask = mask
    BY DEF Armed, Entry
  <2>2. /\ ep' \in [Conn -> Entry]
        /\ \A d \in Conn : ~({"in", "out"} \subseteq ep'[d].mask)
    BY <1>2, <1>3, <2>1, LoopTypes
  <2> QED
    BY <1>1, <1>3, <2>2, TableTypes
<1>4. CASE /\ faults < MaxFaults
           /\ faults' = faults + 1
           /\ fd2chan' = [fd2chan EXCEPT ![l][http[c].fd] = None]
           /\ UNCHANGED ep
  <2>1. faults' \in 0..MaxFaults /\ faults' >= faults /\ faults' > 0
    BY <1>1, <1>4
  <2> QED
    BY <1>2, <1>4, <2>1, LoopTypes, TableTypes
<1> QED
  BY <1>3, <1>4 DEF Control

LEMMA NewEventInv ==
  ASSUME IInv, NEW l \in Loop, NEW c \in Conn, NewEvent(l, c)
  PROVE  IInv'
<1> USE DEF acceptVars
<1> DEFINE F == http[c].fd
<1>1. /\ pc[l] = "pending" /\ c \in functors[l]
      /\ functors' = [functors EXCEPT ![l] = @ \ {c}]
      /\ life' = [life EXCEPT ![c] = "open"]
      /\ chan' = [chan EXCEPT ![c].events = DEFAULT_EVENT, ![c].lastEvents = DEFAULT_EVENT]
      /\ Control(l, c, DEFAULT_EVENT)
      /\ fd2http' = [fd2http EXCEPT ![l][F] = c]
      /\ UNCHANGED <<sock, moves, http, acceptVars, pc, cur, ret>>
  BY DEF NewEvent
<1>2. life[c] = "queued" /\ http[c].loop = l
  BY <1>1 DEF IInv, Queues
<1>3. HoldsFd(c)
  BY <1>2 DEF HoldsFd, Alive
<1>4. /\ F \in Fd
      /\ \A d \in Conn \ {c} : HoldsFd(d) => http[d].fd # F
  BY <1>3 DEF IInv, Descriptors
<1>5. /\ ~linked[c] /\ timers[c] = 0 /\ NotCur(c)
      /\ \A k \in Loop : c \notin ret[k]
  BY <1>2 DEF IInv, Timers, CallbackTargetAlive, NotCur
<1>6. /\ timers' = [timers EXCEPT ![c] = 1]
      /\ linked' = [linked EXCEPT ![c] = TRUE]
      /\ due' \in [Conn -> BOOLEAN]
      /\ endless' \in [Conn -> BOOLEAN]
      /\ \A d \in Conn \ {c} : due'[d] = due[d]
  BY <1>1, <1>5, LoopTypes DEF NewEvent, AddTimer
<1>7. DEFAULT_EVENT \in SUBSET Mask /\ ~({"in", "out"} \subseteq DEFAULT_EVENT)
  BY DEF DEFAULT_EVENT, Mask
<1>8. /\ ep' \in [Conn -> Entry]
      /\ \A d \in Conn : ~({"in", "out"} \subseteq ep'[d].mask)
      /\ fd2chan' \in [Loop -> [Fd -> Conn \cup {None}]]
      /\ fd2chan'[l][F] \in {c} \cup (IF faults' > 0 THEN {None} ELSE {})
      /\ \A k \in Loop, f \in Fd : k # l \/ f # F => fd2chan'[k][f] = fd2chan[k][f]
      /\ faults' \in 0..MaxFaults /\ faults' >= faults
  BY <1>1, <1>4, <1>7, ControlTypes
<1>9. /\ life'[c] = "open"
      /\ \A d \in Conn \ {c} : life'[d] = life[d]
      /\ life' \in [Conn -> {"new", "backlog", "queued", "open", "closed", "leaked"}]
  BY <1>1 DEF IInv, TypeOK
<1>10. /\ chan' \in [Conn -> Chan]
       /\ \A d \in Conn \ {c} : chan'[d] = chan[d]
       /\ chan'[c].revents = chan[c].revents
  <2>1. chan' = [chan EXCEPT ![c] = [chan[c] EXCEPT !.events = DEFAULT_EVENT,
                                                   !.lastEvents = DEFAULT_EVENT]]
    BY <1>1, LoopTypes
  <2>2. [chan[c] EXCEPT !.events = DEFAULT_EVENT, !.lastEvents = DEFAULT_EVENT] \in Chan
    <3>1. chan[c] \in Chan
      BY LoopTypes
    <3> HIDE DEF DEFAULT_EVENT
    <3> QED
      BY <1>7, <3>1 DEF Chan
  <2>3. [chan[c] EXCEPT !.events = DEFAULT_EVENT, !.lastEvents = DEFAULT_EVENT].revents
          = chan[c].revents
    BY LoopTypes DEF Chan
  <2> QED
    BY <2>1, <2>2, <2>3, LoopTypes
<1>11. TypeOK'
  <2>1. functors' \in [Loop -> SUBSET Conn]
    BY <1>1, LoopTypes
  <2>2. /\ timers' \in [Conn -> Nat] /\ linked' \in [Conn -> BOOLEAN]
    BY <1>6, LoopTypes
  <2>3. fd2http' \in [Loop -> [Fd -> Conn \cup {None}]]
    BY <1>1, <1>4, TableTypes
  <2> QED
    BY <1>1, <1>6, <1>8, <1>9, <1>10, <2>1, <2>2, <2>3 DEF IInv, TypeOK, Entry, Chan
<1>12. Descriptors'
  <2>1. \A d \in Conn : HoldsFd(d)' <=> HoldsFd(d)
    BY <1>2, <1>9 DEF HoldsFd, Alive
  <2> QED
    BY <1>1, <2>1 DEF IInv, Descriptors
<1>13. Queues'
  <2>1. \A k \in Loop : functors'[k] \subseteq functors[k] /\ c \notin functors'[k]
    BY <1>1, <1>2, LoopTypes DEF IInv, Queues
  <2>2. \A k \in Loop : c \notin pending[k]
    BY <1>1, <1>2 DEF IInv, Queues
  <2>3. \A k \in Loop : pending[k] \cup functors[k] \subseteq Conn
    BY LoopTypes
  <2> QED
    BY <1>1, <1>9, <2>1, <2>2, <2>3 DEF IInv, Queues
<1>14. Rounds' /\ CallbackTargetAlive'
  <2>1. Rounds'
    BY <1>1 DEF IInv, Rounds
  <2> QED
    BY <1>1, <1>5, <1>9, <2>1 DEF IInv, CallbackTargetAlive, NotCur
<1>15. TablesCoherent'
  <2>1. /\ fd2http'[l][F] = c
        /\ \A k \in Loop, f \in Fd : k # l \/ f # F => fd2http'[k][f] = fd2http[k][f]
    BY <1>1, <1>4, TableTypes
  <2>2. faults \in 0..MaxFaults /\ MaxFaults \in Nat
    BY ReactorAssumption DEF IInv, TypeOK
  <2>3. \A k \in Loop, f \in Fd :
          fd2chan'[k][f] \in {fd2http'[k][f]} \cup (IF faults' > 0 THEN {None} ELSE {})
    BY <1>8, <2>1, <2>2 DEF IInv, TablesCoherent
  <2>4. \A k \in Loop, f \in Fd, d \in Conn :
          fd2http'[k][f] = d => life'[d] = "open" /\ http'[d].fd = f /\ http'[d].loop = k
    BY <1>1, <1>2, <1>9, <2>1 DEF IInv, TablesCoherent
  <2>5. \A d \in Conn :
          life'[d] = "open" => fd2http'[http'[d].loop][http'[d].fd] = d
    <3> SUFFICES ASSUME NEW d \in Conn \ {c}, life'[d] = "open"
                 PROVE  fd2http'[http'[d].loop][http'[d].fd] = d
      BY <1>1, <1>2, <2>1
    <3>1. life[d] = "open" /\ HoldsFd(d)
      BY <1>9 DEF HoldsFd, Alive
    <3>2. /\ http[d].fd # F /\ http[d].loop \in Loop /\ http[d].fd \in Fd
          /\ fd2http[http[d].loop][http[d].fd] = d
      BY <1>4, <3>1, OpenPlace
    <3> QED
      BY <1>1, <2>1, <3>2
  <2> QED
    BY <2>3, <2>4, <2>5 DEF TablesCoherent
<1>16. Timers'
  <2>1. timers'[c] = 1 /\ linked'[c]
    BY <1>6, LoopTypes
  <2>2. \A d \in Conn \ {c} : timers'[d] = timers[d] /\ linked'[d] = linked[d]
    BY <1>6, LoopTypes
  <2>3. ASSUME NEW d \in Conn \ {c}
        PROVE  /\ timers'[d] = (IF linked'[d] THEN 1 ELSE 0)
               /\ due'[d] => linked'[d]
               /\ linked'[d] => life'[d] = "open"
               /\ (life'[d] = "open" /\ NotCur(d)' /\ ~HalfClosed(d)') => linked'[d]
    BY <1>1, <1>6, <1>9, <2>2 DEF IInv, Timers, HalfClosed, NotCur
  <2> QED
    BY <1>9, <2>1, <2>3 DEF Timers
<1>17. Masks'
  <2>1. \A k \in Loop : pc[k] \in {"read", "write", "conn"} => cur[k] \in Conn \ {c}
    BY <1>5, CurOpen DEF NotCur
  <2>2. \A d \in Conn : ~({"in", "out"} \subseteq chan'[d].revents)
    BY <1>10 DEF IInv, Masks
  <2>3. ASSUME NEW k \in Loop, pc'[k] \in {"read", "write", "conn"}
        PROVE  /\ pc'[k] \in {"read", "write"} => chan'[cur'[k]].events = {}
               /\ pc'[k] = "read" => "out" \notin chan'[cur'[k]].revents
               /\ pc'[k] = "conn" /\ "out" \in chan'[cur'[k]].events => http'[cur'[k]].out
    <3>1. /\ pc'[k] = pc[k] /\ cur'[k] = cur[k]
          /\ chan'[cur[k]] = chan[cur[k]] /\ http'[cur[k]] = http[cur[k]]
      BY <1>1, <1>10, <2>1, <2>3
    <3> QED
      BY <3>1, <2>3 DEF IInv, Masks
  <2> QED
    BY <1>8, <2>2, <2>3 DEF Masks
<1> QED
  BY <1>11, <1>12, <1>13, <1>14, <1>15, <1>16, <1>17 DEF IInv

-----------------------------------------------------------------------------
(* handleConn.                                                             *)

\* What all outcomes of handleConn leave of the round.
AfterConn(l) ==
  /\ pc' = [pc EXCEPT ![l] = "events"]
  /\ cur' = [cur EXCEPT ![l] = None]
  /\ UNCHANGED <<moves, acceptVars, functors, ret>>

LEMMA AfterConnRounds ==
  ASSUME IInv, NEW l \in Loop, pc[l] = "conn", AfterConn(l)
  PROVE  /\ pc' \in [Loop -> {"poll", "events", "read", "write", "conn", "pending"}]
         /\ cur' \in [Loop -> Conn \cup {None}]
         /\ Rounds'
         /\ \A k \in Loop : cur'[k] # None => k # l /\ pc'[k] = pc[k] /\ cur'[k] = cur[k]
         /\ \A d \in Conn \ {cur[l]} : NotCur(d)' => NotCur(d)
<1>1. /\ pc'[l] = "events" /\ cur'[l] = None /\ ret' = ret
      /\ \A k \in Loop \ {l} : pc'[k] = pc[k] /\ cur'[k] = cur[k]
  BY LoopTypes DEF AfterConn
<1>2. Rounds'
  <2>1. None \notin ret[l]
    BY LoopTypes, ReactorAssumption
  <2> QED
    BY <1>1, <2>1 DEF IInv, Rounds
<1>3. \A d \in Conn \ {cur[l]} : NotCur(d)' => NotCur(d)
  BY <1>1 DEF NotCur
<1> QED
  BY <1>1, <1>2, <1>3, LoopTypes DEF AfterConn

\* The current connection stays open, with or without a new timer, and its mask
\* may have been changed in the kernel.
LEMMA KeptInv ==
  ASSUME IInv, NEW l \in Loop, pc[l] = "conn", NEW c \in Conn, c = cur[l],
         AfterConn(l),
         UNCHANGED <<life, sock, http, fd2http>>,
         timers' \in [Conn -> Nat], linked' \in [Conn -> BOOLEAN], due' \in [Conn -> BOOLEAN],
         endless' \in [Conn -> BOOLEAN],
         \A d \in Conn \ {c} :
           timers'[d] = timers[d] /\ linked'[d] = linked[d] /\ due'[d] = due[d],
         timers'[c] = (IF linked'[c] THEN 1 ELSE 0),
         due'[c] => linked'[c],
         ~HalfClosed(c) => linked'[c],
         chan' \in [Conn -> Chan],
         ~({"in", "out"} \subseteq chan'[c].revents),
         \A d \in Conn \ {c} : chan'[d] = chan[d],
         ep' \in [Conn -> Entry],
         \A d \in Conn : ~({"in", "out"} \subseteq ep'[d].mask),
         fd2chan' \in [Loop -> [Fd -> Conn \cup {None}]],
         fd2chan'[l][http[c].fd] \in {c} \cup (IF faults' > 0 THEN {None} ELSE {}),
         \A k \in Loop, f \in Fd :
           k # l \/ f # http[c].fd => fd2chan'[k][f] = fd2chan[k][f],
         faults' \in 0..MaxFaults, faults' >= faults
  PROVE  IInv'
<1> USE DEF acceptVars
<1>1. /\ c \in Conn /\ life[c] = "open" /\ http[c].loop = l /\ c \notin ret[l]
      /\ \A k \in Loop : cur[k] = c => k = l
  BY CurOpen
<1>2. /\ pc' \in [Loop -> {"poll", "events", "read", "write", "conn", "pending"}]
      /\ cur' \in [Loop -> Conn \cup {None}]
      /\ Rounds'
      /\ \A k \in Loop : cur'[k] # None => k # l /\ pc'[k] = pc[k] /\ cur'[k] = cur[k]
      /\ \A d \in Conn \ {c} : NotCur(d)' => NotCur(d)
      /\ UNCHANGED <<moves, acceptVars, functors, ret>>
  BY AfterConnRounds DEF AfterConn
<1>3. TypeOK'
  BY <1>2 DEF IInv, TypeOK, Chan, Entry
<1>4. Descriptors' /\ Queues'
  BY <1>2 DEF IInv, Descriptors, HoldsFd, Alive, Queues
<1>5. CallbackTargetAlive'
  BY <1>2, ReactorAssumption DEF IInv, CallbackTargetAlive
<1>6. TablesCoherent'
  <2>1. http[c].fd \in Fd /\ fd2http[l][http[c].fd] = c
    BY <1>1, OpenPlace
  <2>2. faults \in 0..MaxFaults /\ MaxFaults \in Nat
    BY ReactorAssumption DEF IInv, TypeOK
  <2>3. \A k \in Loop, f \in Fd :
          fd2chan'[k][f] \in {fd2http'[k][f]} \cup (IF faults' > 0 THEN {None} ELSE {})
    BY <2>1, <2>2 DEF IInv, TablesCoherent
  <2> QED
    BY <2>3 DEF IInv, TablesCoherent
<1>7. Timers'
  <2>1. ASSUME NEW d \in Conn \ {c}
        PROVE  /\ timers'[d] = (IF linked'[d] THEN 1 ELSE 0)
               /\ due'[d] => linked'[d]
               /\ linked'[d] => life'[d] = "open"
               /\ (life'[d] = "open" /\ NotCur(d)' /\ ~HalfClosed(d)') => linked'[d]
    BY <1>2 DEF IInv, Timers, HalfClosed
  <2>2. /\ timers'[c] = (IF linked'[c] THEN 1 ELSE 0)
        /\ due'[c] => linked'[c]
        /\ linked'[c] => life'[c] = "open"
        /\ (life'[c] = "open" /\ NotCur(c)' /\ ~HalfClosed(c)') => linked'[c]
    BY <1>1 DEF HalfClosed
  <2> QED
    BY <2>1, <2>2 DEF Timers
<1>8. Masks'
  <2>1. \A d \in Conn : ~({"in", "out"} \subseteq chan'[d].revents)
    BY DEF IInv, Masks
  <2>2. ASSUME NEW k \in Loop, pc'[k] \in {"read", "write", "conn"}
        PROVE  /\ pc'[k] \in {"read", "write"} => chan'[cur'[k]].events = {}
               /\ pc'[k] = "read" => "out" \notin chan'[cur'[k]].revents
               /\ pc'[k] = "conn" /\ "out" \in chan'[cur'[k]].events => http'[cur'[k]].out
    <3>1. cur'[k] # None
      BY <1>2, <2>2 DEF Rounds
    <3>2. k # l /\ pc'[k] = pc[k] /\ cur'[k] = cur[k]
      BY <1>2, <3>1
    <3>3. cur[k] \in Conn \ {c}
      BY <1>1, <2>2, <3>2, CurOpen
    <3>4. /\ pc[k] \in {"read", "write"} => chan[cur[k]].events = {}
          /\ pc[k] = "read" => "out" \notin chan[cur[k]].revents
          /\ pc[k] = "conn" /\ "out" \in chan[cur[k]].events => http[cur[k]].out
      BY DEF IInv, Masks
    <3>5. chan'[cur[k]] = chan[cur[k]] /\ http'[cur[k]] = http[cur[k]]
      BY <1>2, <3>3
    <3> QED
      BY <3>2, <3>4, <3>5
  <2> QED
    BY <2>1, <2>2 DEF Masks
<1> QED
  BY <1>2, <1>3, <1>4, <1>5, <1>6, <1>7, <1>8 DEF IInv

LEMMA NextEventsMask ==
  ASSUME NEW events \in SUBSET Mask
  PROVE  /\ NextEvents(events) \in SUBSET Mask
         /\ ~({"in", "out"} \subseteq NextEvents(events))
BY DEF NextEvents, Mask

LEMMA RearmInv ==
  ASSUME IInv, NEW l \in Loop, pc[l] = "conn", NEW c \in Conn, c = cur[l],
         AfterConn(l), Rearm(l, c)
  PROVE  IInv'
<1> DEFINE mask == NextEvents(chan[c].events)
<1>1. /\ life[c] = "open" /\ http[c].loop = l
      /\ http[c].fd \in Fd /\ fd2http[l][http[c].fd] = c
  BY CurOpen, OpenPlace
<1>2. mask \in SUBSET Mask /\ ~({"in", "out"} \subseteq mask)
  BY NextEventsMask, LoopTypes DEF Chan
<1>3. /\ RenewTimer(c)
      /\ chan' = [chan EXCEPT ![c] = [events |-> mask, lastEvents |-> mask, revents |-> {}]]
      /\ UNCHANGED <<ep, fd2chan, faults>> \/ Control(l, c, mask)
      /\ UNCHANGED <<life, sock, http, fd2http>>
  BY DEF Rearm
<1>4. /\ chan' \in [Conn -> Chan] /\ chan'[c].revents = {}
      /\ \A d \in Conn \ {c} : chan'[d] = chan[d]
  BY <1>2, <1>3, LoopTypes DEF Chan
<1>5. timers[c] = (IF linked[c] THEN 1 ELSE 0)
  BY DEF IInv, Timers
<1>6. /\ timers' = [timers EXCEPT ![c] = 1]
      /\ linked' = [linked EXCEPT ![c] = TRUE]
  BY <1>3, <1>5, LoopTypes DEF RenewTimer
<1>7. /\ due' \in [Conn -> BOOLEAN] /\ \A d \in Conn \ {c} : due'[d] = due[d]
      /\ endless' \in [Conn -> BOOLEAN]
  BY <1>3, LoopTypes DEF RenewTimer
<1>8. /\ timers' \in [Conn -> Nat] /\ linked' \in [Conn -> BOOLEAN]
      /\ timers'[c] = 1 /\ linked'[c]
      /\ \A d \in Conn \ {c} : timers'[d] = timers[d] /\ linked'[d] = linked[d]
  BY <1>6, LoopTypes
<1>9. /\ ep' \in [Conn -> Entry]
      /\ \A d \in Conn : ~({"in", "out"} \subseteq ep'[d].mask)
      /\ fd2chan' \in [Loop -> [Fd -> Conn \cup {None}]]
      /\ fd2chan'[l][http[c].fd] \in {c} \cup (IF faults' > 0 THEN {None} ELSE {})
      /\ \A k \in Loop, f \in Fd : k # l \/ f # http[c].fd => fd2chan'[k][f] = fd2chan[k][f]
      /\ faults' \in 0..MaxFaults /\ faults' >= faults
  <2>1. CASE Control(l, c, mask)
    BY <1>1, <1>2, <2>1, ControlTypes
  <2>2. CASE UNCHANGED <<ep, fd2chan, faults>>
    <3>1. \A d \in Conn : ~({"in", "out"} \subseteq ep[d].mask)
      BY DEF IInv, Masks
    <3>2. fd2chan[l][http[c].fd] \in {c} \cup (IF faults > 0 THEN {None} ELSE {})
      BY <1>1 DEF IInv, TablesCoherent
    <3>3. faults \in 0..MaxFaults /\ MaxFaults \in Nat
      BY ReactorAssumption DEF IInv, TypeOK
    <3> QED
      BY <2>2, <3>1, <3>2, <3>3, LoopTypes, TableTypes
  <2> QED
    BY <1>3, <2>1, <2>2
<1>10. /\ timers'[c] = (IF linked'[c] THEN 1 ELSE 0)
       /\ due'[c] => linked'[c]
       /\ ~HalfClosed(c) => linked'[c]
       /\ ~({"in", "out"} \subseteq chan'[c].revents)
       /\ \A d \in Conn \ {c} :
            timers'[d] = timers[d] /\ linked'[d] = linked[d] /\ due'[d] = due[d]
  BY <1>4, <1>7, <1>8
<1>11. UNCHANGED <<life, sock, http, fd2http>>
  BY <1>3
<1> QED
  BY <1>4, <1>7, <1>8, <1>9, <1>10, <1>11, KeptInv

LEMMA KeepHalfClosedInv ==
  ASSUME IInv, NEW l \in Loop, pc[l] = "conn", NEW c \in Conn, c = cur[l],
         AfterConn(l), http[c].state = "disconnecting", "out" \in chan[c].events,
         KeepHalfClosed(c)
  PROVE  IInv'
<1>1. /\ life[c] = "open" /\ http[c].loop = l
      /\ http[c].fd \in Fd /\ fd2http[l][http[c].fd] = c
  BY CurOpen, OpenPlace
<1>2. HalfClosed(c)
  BY DEF IInv, Masks, HalfClosed
<1>3. /\ timers' = [timers EXCEPT ![c] = 0]
      /\ linked' = [linked EXCEPT ![c] = FALSE]
      /\ due' = [due EXCEPT ![c] = FALSE]
      /\ endless' = [endless EXCEPT ![c] = FALSE]
      /\ chan' = [chan EXCEPT ![c].events = {"out"}, ![c].revents = {}]
      /\ UNCHANGED <<life, sock, ep, http, tableVars, faults>>
  BY ClearTimerTypes DEF KeepHalfClosed
<1>4. /\ chan' \in [Conn -> Chan] /\ chan'[c].revents = {}
      /\ \A d \in Conn \ {c} : chan'[d] = chan[d]
  <2>1. chan[c] \in Chan
    BY LoopTypes
  <2>2. [chan[c] EXCEPT !.events = {"out"}, !.revents = {}] \in Chan
    BY <2>1 DEF Chan, Mask
  <2>3. [chan[c] EXCEPT !.events = {"out"}, !.revents = {}].revents = {}
    BY <2>1 DEF Chan
  <2>4. chan' = [chan EXCEPT ![c] = [chan[c] EXCEPT !.events = {"out"}, !.revents = {}]]
    BY <1>3, LoopTypes
  <2> QED
    BY <2>2, <2>3, <2>4, LoopTypes
<1>5. /\ timers' \in [Conn -> Nat] /\ linked' \in [Conn -> BOOLEAN]
      /\ due' \in [Conn -> BOOLEAN]
      /\ endless' \in [Conn -> BOOLEAN]
      /\ timers'[c] = 0 /\ ~linked'[c] /\ ~due'[c]
      /\ \A d \in Conn \ {c} : timers'[d] = timers[d] /\ linked'[d] = linked[d]
                                 /\ due'[d] = due[d]
  BY <1>3, LoopTypes
<1>6. \A d \in Conn : ~({"in", "out"} \subseteq ep[d].mask)
  BY DEF IInv, Masks
<1>7. fd2chan[l][http[c].fd] \in {c} \cup (IF faults > 0 THEN {None} ELSE {})
  BY <1>1 DEF IInv, TablesCoherent
<1>8. faults \in 0..MaxFaults /\ MaxFaults \in Nat
  BY ReactorAssumption DEF IInv, TypeOK
<1>9.  /\ timers'[c] = (IF linked'[c] THEN 1 ELSE 0)
       /\ due'[c] => linked'[c]
       /\ ~HalfClosed(c) => linked'[c]
       /\ ~({"in", "out"} \subseteq chan'[c].revents)
       /\ \A d \in Conn \ {c} :
            timers'[d] = timers[d] /\ linked'[d] = linked[d] /\ due'[d] = due[d]
  BY <1>2, <1>4, <1>5
<1>10. /\ ep' \in [Conn -> Entry]
       /\ \A d \in Conn : ~({"in", "out"} \subseteq ep'[d].mask)
  BY <1>3, <1>6, LoopTypes
<1>11. /\ fd2chan' \in [Loop -> [Fd -> Conn \cup {None}]]
       /\ fd2chan'[l][http[c].fd] \in {c} \cup (IF faults' > 0 THEN {None} ELSE {})
       /\ \A k \in Loop, f \in Fd : k # l \/ f # http[c].fd => fd2chan'[k][f] = fd2chan[k][f]
       /\ faults' \in 0..MaxFaults /\ faults' >= faults
  BY <1>3, <1>7, <1>8, TableTypes DEF tableVars
<1>12. UNCHANGED <<life, sock, http, fd2http>>
  BY <1>3 DEF tableVars
<1> QED
  BY <1>4, <1>5, <1>9, <1>10, <1>11, <1>12, KeptInv

LEMMA CloseNowInv ==
  ASSUME IInv, NEW l \in Loop, pc[l] = "conn", NEW c \in Conn, c = cur[l],
         AfterConn(l), CloseNow(c)
  PROVE  IInv'
<1>1. /\ life[c] = "open" /\ c \notin ret[l]
      /\ \A k \in Loop : cur[k] = c => k = l
      /\ \A k \in Loop \ {l} : c \notin ret[k]
  BY CurOpen
<1>2. Gone(c)
  BY <1>1, ClearTimerTypes, CloseIsGone DEF CloseNow
<1>3. /\ pc' \in [Loop -> {"poll", "events", "read", "write", "conn", "pending"}]
      /\ cur' \in [Loop -> Conn \cup {None}]
      /\ Rounds'
      /\ \A k \in Loop : cur'[k] # None => k # l /\ pc'[k] = pc[k] /\ cur'[k] = cur[k]
      /\ \A d \in Conn \ {c} : NotCur(d)' => NotCur(d)
  BY AfterConnRounds
<1>4. NotCur(c)'
  BY <1>1, <1>3, ReactorAssumption DEF NotCur
<1>5. UNCHANGED <<moves, faults, acceptVars, functors, ret>>
  BY DEF AfterConn, CloseNow
<1> QED
  BY <1>1, <1>2, <1>3, <1>4, <1>5, GoneInv

LEMMA HandleConnInv ==
  ASSUME IInv, NEW l \in Loop, HandleConn(l)
  PROVE  IInv'
<1> DEFINE c == cur[l]
<1>1. pc[l] = "conn" /\ c \in Conn /\ AfterConn(l)
  BY CurOpen DEF HandleConn, AfterConn
<1>2. \/ Rearm(l, c)
      \/ /\ http[c].state = "disconnecting" /\ "out" \in chan[c].events
         /\ KeepHalfClosed(c)
      \/ CloseNow(c)
  BY DEF HandleConn
<1>3. CASE Rearm(l, c)
  BY <1>1, <1>3, RearmInv
<1>4. CASE /\ http[c].state = "disconnecting" /\ "out" \in chan[c].events
           /\ KeepHalfClosed(c)
  BY <1>1, <1>4, KeepHalfClosedInv
<1>5. CASE CloseNow(c)
  BY <1>1, <1>5, CloseNowInv
<1> QED
  BY <1>2, <1>3, <1>4, <1>5

-----------------------------------------------------------------------------
(* Every step keeps the invariant.                                         *)

LEMMA LoopStepInv ==
  ASSUME IInv, NEW l \in Loop, LoopStep(l)
  PROVE  IInv'
BY PollInv, ReadInv, WriteInv, HandleConnInv, StartPendingInv, EndRoundInv, SwallowInv,
   HandleEventsInv, NewEventInv, ExpireInv DEF LoopStep

LEMMA StutterInv ==
  ASSUME IInv, UNCHANGED vars
  PROVE  IInv'
<1> USE DEF vars, timerVars, tableVars, acceptVars, loopVars
<1>1. TypeOK'
  BY DEF IInv, TypeOK
<1>2. Masks'
  BY DEF IInv, Masks
<1> QED
  BY <1>1, <1>2, SocketsOnly

LEMMA NextInv == IInv /\ [Next]_vars => IInv'
BY ClientInv, TimeInv, AcceptStepInv, LoopStepInv, StutterInv DEF Next

LEMMA Invariant == SafeSpec => []IInv
BY InitInv, NextInv, PTL DEF SafeSpec

-----------------------------------------------------------------------------
(* Edge-triggered epoll misses nothing.  What is known of a connection     *)
(* depends on how far the loop is with it: waiting, reported, in a         *)
(* handler, or about to be re-armed.                                       *)

\* Nothing keeps the connection from being served.
Calm(h) == ~h.error /\ (h.state = "connected" \/ (h.state = "disconnecting" /\ h.out))

\* A handler that did not fail asks for output exactly when it left some.
Asks(h, events) ==
  ~h.error => events \subseteq {"in", "out"} /\ (h.out <=> "out" \in events)

\* The entry the kernel has for a connected client fits what the connection
\* waits for: what it should see next is in the mask, and what came while nobody
\* looked has put the entry on the ready list.
Fits(s, e, k, h, stage) ==
  ~s.rst /\ h.state = "connected" =>
    /\ e.mask = k.lastEvents
    /\ "oneshot" \notin e.mask => e.armed
    /\ stage = "idle" => /\ e.armed
                         /\ ~h.out /\ (s.rx \/ s.fin) => e.rdy
                         /\ h.out /\ ~s.full => e.rdy
    /\ stage # "conn" => (IF h.out THEN "out" ELSE "in") \in e.mask
    /\ stage \in {"ret", "read", "write"} => k.revents \subseteq e.mask /\ k.revents # {}
    /\ stage = "read" => "in" \in k.revents
    /\ stage = "write" => "in" \notin k.revents
    /\ stage = "conn" /\ ~h.error =>
         /\ "in" \in e.mask /\ e.armed /\ (s.rx \/ s.fin) => e.rdy
         /\ "out" \in e.mask /\ e.armed /\ h.out /\ ~s.full => e.rdy

\* How far its loop is with the connection.
Stage(c) == IF \E l \in Loop : cur[l] = c THEN pc[http[c].loop]
            ELSE IF \E l \in Loop : c \in ret[l] THEN "ret" ELSE "idle"

\* A connection nobody forgets.
Watched(c) ==
  /\ life[c] \in {"new", "backlog", "queued"} =>
       http[c].state = "connected" /\ ~http[c].error /\ ~http[c].out
  /\ life[c] = "open" =>
       /\ Stage(c) # "idle" => ~Unregistered(c)
       /\ http[c].state # "disconnected"
       /\ Stage(c) \in {"idle", "ret"} => Calm(http[c])
       /\ Stage(c) = "conn" => Asks(http[c], chan[c].events)
       /\ ~Unregistered(c) => Fits(sock[c], ep[c], chan[c], http[c], Stage(c))

-----------------------------------------------------------------------------
(* What the kernel, the loop and the handlers do to it, one connection at  *)
(* a time.                                                                 *)

\* The client has done something, and the kernel has looked at the entry.
LEMMA EdgeFits ==
  ASSUME NEW s \in Socket, NEW t \in Socket, NEW e \in Entry, NEW d \in Entry,
         NEW k \in Chan, NEW h \in Http, NEW stage, NEW bits,
         Fits(s, e, k, h, stage),
         d.mask = e.mask, d.armed = e.armed,
         d.rdy <=> (e.rdy \/ (e.armed /\ bits \cap e.mask # {})),
         ~t.rst => ~s.rst,
         (t.rx \/ t.fin) /\ ~(s.rx \/ s.fin) /\ "in" \in e.mask => "in" \in bits,
         ~t.full /\ s.full => "out" \in bits
  PROVE  Fits(t, d, k, h, stage)
<1> SUFFICES ASSUME ~t.rst, h.state = "connected"
             PROVE  Fits(t, d, k, h, stage)
  BY DEF Fits
<1>1. ~s.rst
  OBVIOUS
<1>2. "in" \in e.mask /\ e.armed /\ (t.rx \/ t.fin)
        => d.rdy \/ (e.armed /\ (s.rx \/ s.fin) /\ ~d.rdy)
  OBVIOUS
<1>3. "out" \in e.mask /\ e.armed /\ ~t.full => d.rdy \/ (~s.full /\ ~d.rdy)
  OBVIOUS
<1>4. e.rdy => d.rdy
  OBVIOUS
<1> QED
  BY <1>1, <1>2, <1>3, <1>4 DEF Fits

\* epoll_wait has looked at an entry and found nothing to report.
LEMMA PassedOverFits ==
  ASSUME NEW s \in Socket, NEW e \in Entry, NEW d \in Entry, NEW k \in Chan,
         NEW h \in Http, Fits(s, e, k, h, "idle"),
         ~(e.armed /\ Reports(s, e.mask) # {}),
         d.mask = e.mask, d.armed = e.armed
  PROVE  Fits(s, d, k, h, "idle")
BY DEF Fits, Reports, Ready

\* epoll_wait has reported it.
LEMMA ReportedFits ==
  ASSUME NEW s \in Socket, NEW e \in Entry, NEW d \in Entry, NEW k \in Chan,
         NEW q \in Chan, NEW h \in Http, Fits(s, e, k, h, "idle"),
         e.armed, Reports(s, e.mask) # {},
         d.mask = e.mask, "oneshot" \notin e.mask => d.armed,
         q.lastEvents = k.lastEvents, q.revents = Reports(s, e.mask)
  PROVE  Fits(s, d, q, h, "ret")
<1> SUFFICES ASSUME ~s.rst, h.state = "connected"
             PROVE  Fits(s, d, q, h, "ret")
  BY DEF Fits
<1>1. Reports(s, e.mask) \subseteq e.mask
  BY DEF Reports, Ready
<1> QED
  BY <1>1 DEF Fits

\* handleEvents begins.
LEMMA DispatchFits ==
  ASSUME NEW s \in Socket, NEW e \in Entry, NEW k \in Chan, NEW q \in Chan,
         NEW h \in Http, Fits(s, e, k, h, "ret"),
         q.lastEvents = k.lastEvents, q.revents = k.revents
  PROVE  Fits(s, e, q, h, IF "in" \in k.revents THEN "read" ELSE "write")
BY DEF Fits

\* Events that are swallowed are those of a reset, or of a connection that is
\* left to its timer.
LEMMA SwallowFits ==
  ASSUME NEW s \in Socket, NEW e \in Entry, NEW k \in Chan, NEW q \in Chan,
         NEW h \in Http, Fits(s, e, k, h, "ret"), Swallowed(k.revents)
  PROVE  Fits(s, e, q, h, "idle")
<1> SUFFICES ASSUME ~s.rst, h.state = "connected" PROVE FALSE
  BY DEF Fits
<1>1. k.revents \subseteq Mask
  BY DEF Fits, Entry
<1> QED
  BY <1>1 DEF Swallowed, Mask

\* x answers r: it asks for output exactly when it left some, and then only
\* because the send buffer is full.
Answers(r, x) ==
  /\ x.http.state = r.http.state
  /\ x.sock.rx = r.sock.rx /\ x.sock.fin = r.sock.fin /\ x.sock.rst = r.sock.rst
  /\ Asks(x.http, x.events)
  /\ ~x.http.error => (x.http.out => x.sock.full)

\* handleWrite.
LEMMA WriteAnswers ==
  ASSUME NEW r \in Results, r.http.state # "disconnected",
         r.events = {}, NEW x \in WriteResults(r)
  PROVE  Answers(r, x)
<1>1. CASE r.http.error \/ ~r.http.out
  <2>1. x = r
    BY <1>1 DEF WriteResults
  <2> QED
    BY <1>1, <2>1 DEF Answers, Asks
<1>2. CASE ~r.http.error /\ r.http.out
  <2>1. x \in { [r EXCEPT !.http.error = TRUE, !.events = {}],
                [r EXCEPT !.sock.full = TRUE, !.events = @ \cup {"out"}] }
        \/ x = [r EXCEPT !.http.out = FALSE]
    BY <1>2 DEF WriteResults
  <2>2. CASE x = [r EXCEPT !.http.error = TRUE, !.events = {}]
    BY <2>2 DEF Answers, Asks, Results, Http
  <2>3. CASE x = [r EXCEPT !.sock.full = TRUE, !.events = @ \cup {"out"}]
    BY <1>2, <2>3 DEF Answers, Asks, Results, Socket
  <2>4. CASE x = [r EXCEPT !.http.out = FALSE]
    BY <2>4 DEF Answers, Asks, Results, Http
  <2> QED
    BY <2>1, <2>2, <2>3, <2>4
<1> QED
  BY <1>1, <1>2

\* The ends of handleRead.
LEMMA AgainAnswers ==
  ASSUME NEW r \in Results, r.http.state # "disconnected", r.events = {},
         NEW x \in AgainResults(r)
  PROVE  Answers(r, x)
<1>1. PICK w \in WriteResults(r) :
        x = IF w.http.error THEN w ELSE [w EXCEPT !.events = @ \cup {"in"}]
  BY DEF AgainResults
<1>2. Answers(r, w) /\ w \in Results
  BY WriteAnswers, WriteFollows DEF Follows
<1> QED
  BY <1>1, <1>2 DEF Answers, Asks, Results

LEMMA FailErrs ==
  ASSUME NEW r \in Results
  PROVE  Fail(r).http.error
BY DEF Fail, Results, Http

LEMMA FailAnswers ==
  ASSUME NEW r \in Results
  PROVE  Answers(r, Fail(r))
BY DEF Answers, Asks, Fail, Results, Http

LEMMA AnswerAnswers ==
  ASSUME NEW r \in Results, r.http.state # "disconnected", r.events = {},
         NEW x \in AnswerResults(r)
  PROVE  Answers(r, x)
<1> DEFINE q == [r EXCEPT !.http.out = TRUE]
           W == {IF y.http.error THEN y ELSE [y EXCEPT !.reset = TRUE] : y \in WriteResults(q)}
<1>1. /\ q \in Results /\ q.http.state = r.http.state /\ q.http.out
      /\ q.events = {} /\ q.sock = r.sock
  BY DEF Results, Http
<1>2. ASSUME NEW w \in W PROVE Answers(r, w) /\ w \in Results
  <2>1. PICK y \in WriteResults(q) : w = IF y.http.error THEN y ELSE [y EXCEPT !.reset = TRUE]
    OBVIOUS
  <2>2. Answers(q, y) /\ y \in Results
    BY <1>1, WriteAnswers, WriteFollows DEF Follows
  <2> QED
    BY <1>1, <2>1, <2>2 DEF Answers, Results
<1>3. \/ x \in W
      \/ \E w \in W : x = Fail(w)
      \/ \E w \in W : x = [w EXCEPT !.events = @ \cup {"in"}]
  BY DEF AnswerResults
<1>4. ASSUME NEW w \in W, x = Fail(w) PROVE Answers(r, x)
  <2>1. Answers(w, x)
    BY <1>2, <1>4, FailAnswers
  <2>2. x.http.error
    BY <1>2, <1>4 DEF Fail, Results, Http
  <2> QED
    BY <1>2, <2>1, <2>2 DEF Answers, Asks
<1>5. ASSUME NEW w \in W, x = [w EXCEPT !.events = @ \cup {"in"}] PROVE Answers(r, x)
  BY <1>2, <1>5 DEF Answers, Asks, Results
<1> QED
  BY <1>2, <1>3, <1>4, <1>5

\* What handleRead leaves of connection c.
LEMMA ReadAnswers ==
  ASSUME TypeOK, NEW c \in Conn, chan[c].events = {},
         http[c].state # "disconnected", NEW x \in ReadResults(c)
  PROVE  /\ Asks(x.http, x.events)
         /\ x.http.state # "disconnected"
         /\ ~x.sock.rx /\ x.sock.fin = sock[c].fin /\ x.sock.rst = sock[c].rst
         /\ ~x.http.error => (x.http.out => x.sock.full)
         /\ x.http.state = "connected" => http[c].state = "connected"
         /\ ~x.http.error /\ x.http.state = "connected" => ~x.sock.fin
         /\ x.http.state = "disconnecting" => http[c].state = "disconnecting" \/ sock[c].fin
<1> DEFINE s == [sock[c] EXCEPT !.rx = FALSE]
           r == Result(http[c], s, chan[c].events)
           finished == [r EXCEPT !.http.state = "disconnecting"]
<1>1. /\ sock[c] \in Socket /\ http[c] \in Http
  BY DEF TypeOK, Socket, Http
<1>2. s \in Socket /\ ~s.rx /\ s.fin = sock[c].fin /\ s.rst = sock[c].rst
  BY <1>1 DEF Socket
<1>3. r \in Results /\ r.http = http[c] /\ r.events = {} /\ r.sock = s
  BY <1>1, <1>2 DEF Results, Result
<1>4. /\ finished \in Results /\ finished.events = {} /\ finished.sock = s
      /\ finished.http.state = "disconnecting"
  BY <1>3 DEF Results, Http
<1>5. \E q \in {r, finished} :
        /\ x \in AgainResults(q) \cup {Fail(q)} \cup AnswerResults(q)
        /\ q = r => \/ x = Fail(r)
                    \/ http[c].state = "disconnecting"
                    \/ ~s.fin
        /\ q = r \/ s.fin
  <2>1. CASE s.rst
    BY <2>1 DEF ReadResults
  <2>2. CASE ~s.rst /\ http[c].state = "disconnecting"
    BY <2>2 DEF ReadResults
  <2>3. CASE ~s.rst /\ http[c].state # "disconnecting" /\ s.fin
    <3>1. (IF s.fin THEN finished ELSE r) = finished
      BY <2>3
    <3>2. CASE sock[c].rx
      <4>1. x \in AgainResults(finished) \cup {Fail(finished)} \cup AnswerResults(finished)
        BY <2>3, <3>1, <3>2 DEF ReadResults
      <4>2. finished # r
        BY <1>3, <1>4, <2>3
      <4> QED
        BY <2>3, <4>1, <4>2
    <3>3. CASE ~sock[c].rx
      <4>1. x \in AgainResults(finished)
        BY <2>3, <3>3 DEF ReadResults
      <4>2. finished # r
        BY <1>3, <1>4, <2>3
      <4> QED
        BY <2>3, <4>1, <4>2
    <3> QED
      BY <3>2, <3>3
  <2>4. CASE ~s.rst /\ http[c].state # "disconnecting" /\ ~s.fin
    BY <2>4 DEF ReadResults
  <2> QED
    BY <2>1, <2>2, <2>3, <2>4
<1>6. PICK q \in {r, finished} :
        /\ x \in AgainResults(q) \cup {Fail(q)} \cup AnswerResults(q)
        /\ q = r => \/ x = Fail(r)
                    \/ http[c].state = "disconnecting"
                    \/ ~s.fin
        /\ q = r \/ s.fin
  BY <1>5
<1>7. q \in Results /\ q.events = {} /\ q.sock = s /\ q.http.state # "disconnected"
  BY <1>3, <1>4
<1>8. Answers(q, x)
  BY <1>6, <1>7, AgainAnswers, FailAnswers, AnswerAnswers
<1>9. x = Fail(r) => x.http.error
  BY <1>3, FailErrs
<1> QED
  BY <1>2, <1>3, <1>4, <1>6, <1>7, <1>8, <1>9, ZenonT(40) DEF Answers

\* handleRead has read everything, and seen the FIN if there was one.
LEMMA ReadFits ==
  ASSUME NEW s \in Socket, NEW t \in Socket, NEW e \in Entry,
         NEW k \in Chan, NEW q \in Chan, NEW h \in Http, NEW g \in Http,
         Fits(s, e, k, h, "read"), ~({"in", "out"} \subseteq e.mask),
         q.lastEvents = k.lastEvents,
         ~t.rx, t.rst = s.rst,
         ~g.error => (g.out => t.full),
         g.state = "connected" => h.state = "connected",
         ~g.error /\ g.state = "connected" => ~t.fin
  PROVE  Fits(t, e, q, g, "conn")
BY DEF Fits

\* handleWrite was called for output alone, and has filled the send buffer or
\* sent it all.
LEMMA WriteFits ==
  ASSUME NEW s \in Socket, NEW t \in Socket, NEW e \in Entry,
         NEW k \in Chan, NEW q \in Chan, NEW h \in Http, NEW g \in Http,
         Fits(s, e, k, h, "write"), ~({"in", "out"} \subseteq e.mask),
         q.lastEvents = k.lastEvents,
         t.rst = s.rst,
         ~g.error => (g.out => t.full),
         g.state = h.state
  PROVE  Fits(t, e, q, g, "conn")
<1> SUFFICES ASSUME ~t.rst, g.state = "connected"
             PROVE  Fits(t, e, q, g, "conn")
  BY DEF Fits
<1>1. k.revents \subseteq e.mask /\ k.revents # {} /\ "in" \notin k.revents
  BY DEF Fits
<1>2. "out" \in e.mask
  BY <1>1 DEF Entry, Chan, Mask, Bits
<1> QED
  BY <1>2 DEF Fits

\* What the connection asks for next is what the entry has, or epoll_ctl looks
\* at the socket again.
LEMMA RearmFits ==
  ASSUME NEW s \in Socket, NEW e \in Entry, NEW d \in Entry,
         NEW k \in Chan, NEW q \in Chan, NEW h \in Http,
         Fits(s, e, k, h, "conn"), Asks(h, k.events), ~h.error,
         h.state = "connected",
         q.lastEvents = NextEvents(k.events),
         d = Armed(s, NextEvents(k.events))
           \/ (d = e /\ k.lastEvents = NextEvents(k.events))
  PROVE  Fits(s, d, q, h, "idle")
<1> DEFINE mask == NextEvents(k.events)
<1> SUFFICES ASSUME ~s.rst PROVE Fits(s, d, q, h, "idle")
  BY DEF Fits
<1>1. mask = (IF h.out THEN {"out"} ELSE {"in"})
  BY DEF Asks, NextEvents
<1>2. CASE d = Armed(s, mask)
  <2>1. d.mask = mask /\ d.armed
    BY <1>2 DEF Armed
  <2>2. d.rdy <=> Reports(s, mask) # {}
    BY <1>2 DEF Armed
  <2>3. h.out /\ ~s.full => "out" \in Reports(s, mask)
    BY <1>1 DEF Reports, Ready
  <2>4. ~h.out /\ (s.rx \/ s.fin) => "in" \in Reports(s, mask)
    BY <1>1 DEF Reports, Ready
  <2> QED
    BY <1>1, <2>1, <2>2, <2>3, <2>4 DEF Fits
<1>3. CASE d = e /\ k.lastEvents = mask
  BY <1>1, <1>3 DEF Fits
<1> QED
  BY <1>2, <1>3

\* epoll_add looks at the socket too.
LEMMA AddFits ==
  ASSUME NEW s \in Socket, NEW q \in Chan, NEW h \in Http, ~h.out,
         q.lastEvents = DEFAULT_EVENT
  PROVE  Fits(s, Armed(s, DEFAULT_EVENT), q, h, "idle")
<1> DEFINE d == Armed(s, DEFAULT_EVENT)
<1>1. d.mask = DEFAULT_EVENT /\ d.armed /\ (d.rdy <=> Reports(s, DEFAULT_EVENT) # {})
  BY DEF Armed
<1>2. s.rx \/ s.fin => "in" \in Reports(s, DEFAULT_EVENT)
  BY DEF Reports, Ready, DEFAULT_EVENT
<1> QED
  BY <1>1, <1>2 DEF Fits, DEFAULT_EVENT

-----------------------------------------------------------------------------
(* Every step leaves every connection watched.                             *)

AllWatched == \A c \in Conn : Watched(c)

\* Where each connection stands.
Stages ==
  \A c \in Conn :
    /\ \A l \in Loop : /\ cur[l] = c => Stage(c) = pc[l]
                       /\ c \in ret[l] => Stage(c) = "ret"
    /\ ~Handled(c) => Stage(c) = "idle"

LEMMA StagesAlways == IInv => Stages
<1> SUFFICES ASSUME IInv, NEW c \in Conn
             PROVE  /\ \A l \in Loop : /\ cur[l] = c => Stage(c) = pc[l]
                                       /\ c \in ret[l] => Stage(c) = "ret"
                    /\ ~Handled(c) => Stage(c) = "idle"
  BY DEF Stages
<1>1. ASSUME NEW l \in Loop, cur[l] = c PROVE Stage(c) = pc[l]
  BY <1>1 DEF IInv, CallbackTargetAlive, Stage
<1>2. ASSUME NEW l \in Loop, c \in ret[l] PROVE Stage(c) = "ret"
  <2>1. NotCur(c)
    BY <1>2, RetNotCur
  <2> QED
    BY <1>2, <2>1 DEF Stage, NotCur
<1>3. ~Handled(c) => Stage(c) = "idle"
  BY DEF Handled, Stage
<1> QED
  BY <1>1, <1>2, <1>3

\* A connection nothing happens to.
LEMMA Untouched ==
  ASSUME NEW d \in Conn, Watched(d),
         life'[d] = life[d], sock'[d] = sock[d], ep'[d] = ep[d], chan'[d] = chan[d],
         http'[d] = http[d],
         life[d] = "open" =>
           Stage(d)' = Stage(d) /\ (Unregistered(d)' <=> Unregistered(d))
  PROVE  Watched(d)'
BY DEF Watched

\* A connection loop l does nothing to in a step of its own.
LEMMA Elsewhere ==
  ASSUME IInv, IInv', NEW l \in Loop, NEW d \in Conn, Watched(d),
         \A m \in Loop \ {l} : pc'[m] = pc[m] /\ cur'[m] = cur[m] /\ ret'[m] = ret[m],
         cur[l] # d, cur'[l] # d, d \in ret'[l] <=> d \in ret[l],
         life'[d] = life[d], sock'[d] = sock[d], ep'[d] = ep[d], chan'[d] = chan[d],
         http'[d] = http[d],
         life[d] = "open" => (Unregistered(d)' <=> Unregistered(d))
  PROVE  Watched(d)'
<1>1. Stages /\ Stages'
  BY StagesAlways, PTL
<1>2. Stage(d)' = Stage(d)
  <2>1. CASE \E m \in Loop : cur[m] = d
    <3>1. PICK m \in Loop : cur[m] = d
      BY <2>1
    <3>2. m # l /\ pc'[m] = pc[m] /\ cur'[m] = d
      BY <3>1
    <3>3. Stage(d) = pc[m]
      BY <1>1, <3>1 DEF Stages
    <3>4. Stage(d)' = pc'[m]
      BY <1>1, <3>2 DEF Stages
    <3> QED
      BY <3>2, <3>3, <3>4
  <2>2. CASE \E m \in Loop : d \in ret[m]
    <3>1. PICK m \in Loop : d \in ret[m]
      BY <2>2
    <3>2. d \in ret'[m]
      BY <3>1
    <3> QED
      BY <1>1, <3>1, <3>2 DEF Stages
  <2>3. CASE ~Handled(d)
    <3>1. ~Handled(d)'
      BY <2>3 DEF Handled
    <3> QED
      BY <1>1, <2>3, <3>1 DEF Stages
  <2> QED
    BY <2>1, <2>2, <2>3 DEF Handled
<1> QED
  BY <1>2, Untouched

LEMMA InitWatched == Init => AllWatched
BY DEF Init, AllWatched, Watched, NewHttpData

LEMMA ClientWatched ==
  ASSUME IInv, AllWatched, NEW c \in Conn, Client(c)
  PROVE  AllWatched'
<1> USE DEF tableVars, loopVars, acceptVars, timerVars
<1>0. /\ UNCHANGED <<http, chan, tableVars, loopVars>>
      /\ \A d \in Conn \ {c} : life'[d] = life[d] /\ sock'[d] = sock[d] /\ ep'[d] = ep[d]
  <2>1. CASE Connect(c)
    BY <2>1 DEF Connect
  <2>2. CASE Send(c)
    <3>1. PICK last \in BOOLEAN :
            /\ sock' = [sock EXCEPT ![c].rx = TRUE, ![c].fin = last]
            /\ Edge(c, IF last THEN ep[c].mask ELSE {"in"})
      BY <2>2 DEF Send
    <3> QED
      BY <2>2, <3>1, LoopTypes DEF Send, Edge
  <2>3. CASE Finish(c)
    BY <2>3 DEF Finish, Edge
  <2>4. CASE Reset(c)
    BY <2>4 DEF Reset, Edge
  <2>5. CASE Drain(c)
    BY <2>5 DEF Drain, Edge
  <2> QED
    BY <2>1, <2>2, <2>3, <2>4, <2>5 DEF Client
<1>1. \A d \in Conn : Stage(d)' = Stage(d) /\ (Unregistered(d)' <=> Unregistered(d))
  BY <1>0 DEF Stage, Unregistered
<1>2. \A d \in Conn \ {c} : Watched(d)'
  BY <1>0, <1>1, Untouched DEF AllWatched
<1>3. ASSUME NEW bits, sock'[c] \in Socket, life' = life,
             ep' = [ep EXCEPT ![c].rdy = @ \/ (ep[c].armed /\ bits \cap ep[c].mask # {})],
             ~sock'[c].rst => ~sock[c].rst,
             (sock'[c].rx \/ sock'[c].fin) /\ ~(sock[c].rx \/ sock[c].fin)
               /\ "in" \in ep[c].mask => "in" \in bits,
             ~sock'[c].full /\ sock[c].full => "out" \in bits
      PROVE  AllWatched'
  <2>1. /\ ep'[c] \in Entry /\ ep'[c].mask = ep[c].mask /\ ep'[c].armed = ep[c].armed
        /\ ep'[c].rdy <=> (ep[c].rdy \/ (ep[c].armed /\ bits \cap ep[c].mask # {}))
    <3>1. PICK b \in BOOLEAN :
            b = (ep[c].rdy \/ (ep[c].armed /\ bits \cap ep[c].mask # {}))
      OBVIOUS
    <3>2. ep' = [ep EXCEPT ![c].rdy = b]
      BY <1>3, <3>1
    <3> QED
      BY <3>1, <3>2, LoopTypes, SMTT(40) DEF Entry
  <2>2. ASSUME Fits(sock[c], ep[c], chan[c], http[c], Stage(c))
        PROVE  Fits(sock'[c], ep'[c], chan[c], http[c], Stage(c))
    BY <1>3, <2>1, <2>2, EdgeFits, LoopTypes
  <2>3. Watched(c)'
    BY <1>0, <1>1, <1>3, <2>2 DEF Watched, AllWatched
  <2> QED
    BY <1>2, <2>3 DEF AllWatched
<1>4. sock \in [Conn -> Socket]
  BY LoopTypes
<1>5. CASE Connect(c)
  <2>1. life[c] = "new" /\ life'[c] = "backlog" /\ http'[c] = http[c]
    BY <1>0, <1>5 DEF Connect, IInv, TypeOK
  <2>2. http[c].state = "connected" /\ ~http[c].error /\ ~http[c].out
    BY <2>1 DEF AllWatched, Watched
  <2>3. Watched(c)'
    BY <2>1, <2>2 DEF Watched
  <2> QED
    BY <1>2, <2>3 DEF AllWatched
<1>6. CASE Send(c)
  <2>1. PICK last \in BOOLEAN :
          /\ sock' = [sock EXCEPT ![c].rx = TRUE, ![c].fin = last]
          /\ Edge(c, IF last THEN ep[c].mask ELSE {"in"})
    BY <1>6 DEF Send
  <2>2. /\ sock'[c] \in Socket /\ sock'[c].rst = sock[c].rst /\ sock'[c].full = sock[c].full
        /\ life' = life
    <3>1. sock'[c] = [sock[c] EXCEPT !.rx = TRUE, !.fin = last]
      BY <1>4, <2>1
    <3>2. sock[c] \in Socket
      BY <1>4
    <3> QED
      BY <1>6, <3>1, <3>2 DEF Send, Socket
  <2>3. "in" \in ep[c].mask => "in" \in (IF last THEN ep[c].mask ELSE {"in"})
    OBVIOUS
  <2> QED
    BY <1>3, <2>1, <2>2, <2>3 DEF Edge
<1>7. CASE Finish(c)
  <2>1. /\ sock'[c] \in Socket /\ sock'[c].rst = sock[c].rst /\ sock'[c].full = sock[c].full
        /\ Edge(c, ep[c].mask) /\ life' = life
    BY <1>4, <1>7 DEF Finish, Socket
  <2> QED
    BY <1>3, <2>1 DEF Edge
<1>8. CASE Reset(c)
  <2>1. /\ sock'[c] \in Socket /\ sock'[c].rst /\ sock'[c].full = sock[c].full
        /\ Edge(c, ep[c].mask) /\ life' = life
        /\ sock'[c].rx = sock[c].rx /\ sock'[c].fin = sock[c].fin
    BY <1>4, <1>8 DEF Reset, Socket
  <2> QED
    BY <1>3, <2>1 DEF Edge
<1>9. CASE Drain(c)
  <2>1. /\ sock'[c] \in Socket /\ sock'[c].rst = sock[c].rst
        /\ Edge(c, {"out"}) /\ life' = life
        /\ sock'[c].rx = sock[c].rx /\ sock'[c].fin = sock[c].fin
    BY <1>4, <1>9 DEF Drain, Socket
  <2> QED
    BY <1>3, <2>1 DEF Edge
<1> QED
  BY <1>5, <1>6, <1>7, <1>8, <1>9 DEF Client

LEMMA TimeWatched ==
  ASSUME AllWatched, ClockWraps \/ \E c \in Conn : TimeOut(c)
  PROVE  AllWatched'
<1>1. UNCHANGED <<life, sock, ep, chan, http, fd2chan, pc, cur, ret>>
  BY DEF TimeOut, ClockWraps, tableVars, loopVars
<1>2. \A d \in Conn : Stage(d)' = Stage(d) /\ (Unregistered(d)' <=> Unregistered(d))
  BY <1>1 DEF Stage, Unregistered
<1> QED
  BY <1>1, <1>2, Untouched DEF AllWatched

LEMMA AcceptWatched ==
  ASSUME IInv, AllWatched, AcceptStep
  PROVE  AllWatched'
<1>1. UNCHANGED <<sock, ep, chan, fd2chan, pc, cur, ret>>
  BY DEF AcceptStep, tableVars, loopVars
<1>2. CASE AcceptPoll \/ AcceptEnds \/ HandThisConn
  <2>1. UNCHANGED <<life, http>>
    BY <1>2 DEF AcceptPoll, AcceptEnds, HandThisConn
  <2>2. \A d \in Conn : Stage(d)' = Stage(d) /\ (Unregistered(d)' <=> Unregistered(d))
    BY <1>1, <2>1 DEF Stage, Unregistered
  <2> QED
    BY <1>1, <2>1, <2>2, Untouched DEF AllWatched
<1>3. ASSUME NEW c \in Conn, Accept(c) PROVE AllWatched'
  <2>1. PICK fd \in FreeFds : Refused(c) \/ Leaked(c, fd) \/ Handed(c, fd)
    BY <1>3 DEF Accept
  <2>2. /\ life'[c] \in {"queued", "closed", "leaked"}
        /\ \A d \in Conn \ {c} : life'[d] = life[d] /\ http'[d] = http[d]
        /\ http'[c].state = http[c].state /\ http'[c].error = http[c].error
        /\ http'[c].out = http[c].out
    BY <2>1, LoopTypes DEF IInv, TypeOK, Refused, Leaked, Handed, Http
  <2>3. \A d \in Conn \ {c} : Stage(d)' = Stage(d) /\ (Unregistered(d)' <=> Unregistered(d))
    BY <1>1, <2>2 DEF Stage, Unregistered
  <2>4. \A d \in Conn \ {c} : Watched(d)'
    BY <1>1, <2>2, <2>3, Untouched DEF AllWatched
  <2>5. Watched(c)'
    BY <1>3, <2>2 DEF Accept, Watched, AllWatched
  <2> QED
    BY <2>4, <2>5 DEF AllWatched
<1> QED
  BY <1>2, <1>3 DEF AcceptStep

LEMMA PollWatched ==
  ASSUME IInv, IInv', AllWatched, NEW l \in Loop, Poll(l)
  PROVE  AllWatched'
<1> USE DEF tableVars, timerVars, acceptVars
<1>1. /\ pc[l] = "poll" /\ ret[l] = {} /\ cur[l] = None
      /\ UNCHANGED <<life, sock, http, fd2chan, cur>>
      /\ ret' = [ret EXCEPT ![l] = Reported(l)]
      /\ \A m \in Loop \ {l} : pc'[m] = pc[m]
  <2>1. pc[l] = "poll"
    BY DEF Poll
  <2>2. ret[l] = {} /\ cur[l] = None
    BY <2>1, LoopTypes DEF IInv, Rounds
  <2>3. \A m \in Loop \ {l} : pc'[m] = pc[m]
    BY LoopTypes DEF Poll
  <2> QED
    BY <2>1, <2>2, <2>3 DEF Poll
<1>2. /\ ret'[l] = Reported(l)
      /\ \A m \in Loop \ {l} : ret'[m] = ret[m] /\ cur'[m] = cur[m]
  BY <1>1, LoopTypes
<1>3. Stages /\ Stages'
  BY StagesAlways, PTL
<1> SUFFICES ASSUME NEW d \in Conn PROVE Watched(d)'
  BY DEF AllWatched
<1>4. /\ ep[d] \in Entry /\ ep'[d] \in Entry /\ chan[d] \in Chan /\ chan'[d] \in Chan
      /\ sock[d] \in Socket /\ http[d] \in Http
  <2>1. ep' \in [Conn -> Entry] /\ chan' \in [Conn -> Chan]
    BY DEF IInv, TypeOK, Entry, Chan
  <2> QED
    BY <2>1, LoopTypes
<1>5. Watched(d)
  BY DEF AllWatched
<1>6. Unregistered(d)' <=> Unregistered(d)
  BY <1>1 DEF Unregistered
<1>7. CASE d \notin OnReadyList(l)
  <2>1. d \notin Reported(l)
    BY <1>7 DEF Reported, Returned
  <2>2. ep'[d] = ep[d] /\ chan'[d] = chan[d]
    BY <1>7, <2>1 DEF Poll
  <2>3. d \in ret'[l] <=> d \in ret[l]
    BY <1>1, <1>2, <2>1
  <2>4. cur[l] # d /\ cur'[l] # d
    BY <1>1, ReactorAssumption
  <2> QED
    BY <1>1, <1>2, <1>5, <1>6, <2>2, <2>3, <2>4, Elsewhere
<1>8. CASE d \in OnReadyList(l)
  <2>1. life[d] = "open" /\ http[d].loop = l
    BY <1>8 DEF OnReadyList
  <2>2. ~Handled(d)
    BY <1>1, <2>1, ReactorAssumption DEF Handled, IInv, CallbackTargetAlive
  <2>3. Stage(d) = "idle"
    BY <1>3, <2>2 DEF Stages
  <2>4. /\ ep'[d].mask = ep[d].mask
        /\ d \notin Returned(l) => ep'[d].armed = ep[d].armed
        /\ "oneshot" \notin ep[d].mask => ep'[d].armed = ep[d].armed
    <3>1. ep'[d] = [ep[d] EXCEPT !.rdy = FALSE,
                                 !.armed = @ /\ ~(/\ d \in Returned(l)
                                                  /\ "oneshot" \in ep[d].mask)]
      BY <1>8 DEF Poll
    <3>2. ep[d].armed \in BOOLEAN
      BY <1>4 DEF Entry
    <3>3. ep'[d].armed = (ep[d].armed /\ ~(/\ d \in Returned(l)
                                           /\ "oneshot" \in ep[d].mask))
      BY <1>4, <3>1 DEF Entry
    <3>4. ep'[d].mask = ep[d].mask
      BY <1>4, <3>1 DEF Entry
    <3>5. d \notin Returned(l) => ep'[d].armed = ep[d].armed
      BY <3>2, <3>3
    <3>6. "oneshot" \notin ep[d].mask => ep'[d].armed = ep[d].armed
      BY <3>2, <3>3
    <3> QED
      BY <3>4, <3>5, <3>6
  <2>5. CASE d \in Reported(l)
    <3>1. d \in Returned(l) /\ ~Unregistered(d)
      BY <2>1, <2>5 DEF Reported, Unregistered
    <3>2. ep[d].armed /\ Reports(sock[d], ep[d].mask) # {}
      BY <3>1 DEF Returned
    <3>3. chan'[d] = [chan[d] EXCEPT !.events = {},
                                     !.revents = Reports(sock[d], ep[d].mask)]
      BY <2>5 DEF Poll
    <3>4. /\ chan'[d].lastEvents = chan[d].lastEvents
          /\ chan'[d].revents = Reports(sock[d], ep[d].mask)
      BY <1>4, <3>3 DEF Chan
    <3>5. Fits(sock[d], ep[d], chan[d], http[d], "idle") /\ Calm(http[d])
            /\ http[d].state # "disconnected"
      BY <1>5, <2>1, <2>3, <3>1 DEF Watched
    <3>6. Fits(sock[d], ep'[d], chan'[d], http[d], "ret")
      BY <1>4, <2>4, <3>2, <3>4, <3>5, ReportedFits
    <3>7. Stage(d)' = "ret"
      BY <1>2, <1>3, <2>5 DEF Stages
    <3> QED
      BY <1>1, <1>6, <2>1, <3>1, <3>5, <3>6, <3>7 DEF Watched
  <2>6. CASE d \notin Reported(l)
    <3>1. chan'[d] = chan[d]
      BY <2>6 DEF Poll
    <3>2. ~Handled(d)'
      BY <1>1, <1>2, <2>2, <2>6 DEF Handled
    <3>3. Stage(d)' = "idle"
      BY <1>3, <3>2 DEF Stages
    <3>4. ASSUME ~Unregistered(d)
          PROVE  Fits(sock[d], ep'[d], chan[d], http[d], "idle")
      <4>1. d \notin Returned(l)
        BY <2>1, <2>6, <3>4 DEF Reported, Unregistered
      <4>2. ~(ep[d].armed /\ Reports(sock[d], ep[d].mask) # {})
        BY <1>8, <4>1 DEF Returned
      <4>3. Fits(sock[d], ep[d], chan[d], http[d], "idle")
        BY <1>5, <2>1, <2>3, <3>4 DEF Watched
      <4> QED
        BY <1>4, <2>4, <4>1, <4>2, <4>3, PassedOverFits
    <3> QED
      BY <1>1, <1>5, <1>6, <2>1, <2>3, <3>1, <3>3, <3>4 DEF Watched
  <2> QED
    BY <2>5, <2>6
<1> QED
  BY <1>7, <1>8

\* The first steps of handleEvents.
LEMMA EventsWatched ==
  ASSUME IInv, IInv', AllWatched, NEW l \in Loop, NEW c \in Conn,
         SwallowEvents(l, c) \/ HandleEvents(l, c)
  PROVE  AllWatched'
<1> USE DEF tableVars, timerVars, acceptVars
<1>1. /\ pc[l] = "events" /\ c \in ret[l] /\ cur[l] = None
      /\ UNCHANGED <<life, sock, ep, http, fd2chan>>
      /\ ret' = [ret EXCEPT ![l] = @ \ {c}]
  <2>1. pc[l] = "events"
    BY DEF SwallowEvents, HandleEvents
  <2>2. cur[l] = None
    BY <2>1, LoopTypes DEF IInv, Rounds
  <2> QED
    BY <2>1, <2>2 DEF SwallowEvents, HandleEvents
<1>2. /\ ret'[l] = ret[l] \ {c}
      /\ \A m \in Loop \ {l} : ret'[m] = ret[m]
      /\ \A m \in Loop \ {l} : pc'[m] = pc[m] /\ cur'[m] = cur[m]
      /\ cur'[l] \in {None, c}
  BY <1>1, LoopTypes DEF SwallowEvents, HandleEvents
<1>3. /\ \A d \in Conn \ {c} : chan'[d] = chan[d]
      /\ chan'[c].lastEvents = chan[c].lastEvents
      /\ HandleEvents(l, c) => chan'[c].revents = chan[c].revents
  BY LoopTypes DEF SwallowEvents, HandleEvents, Chan
<1>4. Stages /\ Stages'
  BY StagesAlways, PTL
<1>5. \A d \in Conn : Unregistered(d)' <=> Unregistered(d)
  BY <1>1 DEF Unregistered
<1>6. ASSUME NEW d \in Conn \ {c} PROVE Watched(d)'
  <2>1. cur[l] # d /\ cur'[l] # d /\ (d \in ret'[l] <=> d \in ret[l])
    BY <1>1, <1>2, ReactorAssumption
  <2>2. Watched(d)
    BY DEF AllWatched
  <2> QED
    BY <1>1, <1>2, <1>3, <1>5, <2>1, <2>2, Elsewhere
<1>7. /\ ep[c] \in Entry /\ chan[c] \in Chan /\ chan'[c] \in Chan
      /\ sock[c] \in Socket /\ http[c] \in Http
  <2>1. chan' \in [Conn -> Chan]
    BY DEF IInv, TypeOK, Chan
  <2> QED
    BY <2>1, LoopTypes
<1>8. /\ life[c] = "open" /\ Stage(c) = "ret" /\ http[c].state # "disconnected"
      /\ Calm(http[c]) /\ ~Unregistered(c)
      /\ Fits(sock[c], ep[c], chan[c], http[c], "ret")
  <2>1. life[c] = "open" /\ Stage(c) = "ret"
    BY <1>1, <1>4 DEF Stages, IInv, CallbackTargetAlive
  <2> QED
    BY <2>1 DEF AllWatched, Watched
<1>9. CASE SwallowEvents(l, c)
  <2>1. UNCHANGED <<cur, pc>> /\ Swallowed(chan[c].revents)
    BY <1>9 DEF SwallowEvents
  <2>2. ~Handled(c)'
    <3>1. NotCur(c) /\ \A m \in Loop \ {l} : c \notin ret[m]
      BY <1>1, <1>8, RetNotCur DEF IInv, CallbackTargetAlive
    <3> QED
      BY <1>2, <2>1, <3>1 DEF Handled, NotCur
  <2>3. Stage(c)' = "idle"
    BY <1>4, <2>2 DEF Stages
  <2>4. Fits(sock[c], ep[c], chan'[c], http[c], "idle")
    BY <1>7, <1>8, <2>1, SwallowFits
  <2>5. Watched(c)'
    BY <1>1, <1>5, <1>8, <2>3, <2>4 DEF Watched
  <2> QED
    BY <1>6, <2>5 DEF AllWatched
<1>10. CASE HandleEvents(l, c)
  <2>1. /\ pc'[l] = (IF "in" \in chan[c].revents THEN "read" ELSE "write")
        /\ cur'[l] = c
    BY <1>10, LoopTypes DEF HandleEvents
  <2>2. Stage(c)' = (IF "in" \in chan[c].revents THEN "read" ELSE "write")
    BY <1>4, <2>1 DEF Stages
  <2>3. Fits(sock[c], ep[c], chan'[c], http[c],
             IF "in" \in chan[c].revents THEN "read" ELSE "write")
    BY <1>3, <1>7, <1>8, <1>10, DispatchFits
  <2>4. Stage(c)' \notin {"idle", "ret", "conn"}
    BY <2>2
  <2>5. Watched(c)'
    BY <1>1, <1>5, <1>8, <2>2, <2>3, <2>4 DEF Watched
  <2> QED
    BY <1>6, <2>5 DEF AllWatched
<1> QED
  BY <1>9, <1>10

\* A handler of the current connection.
LEMMA HandlerWatched ==
  ASSUME IInv, IInv', AllWatched, NEW l \in Loop, HandleRead(l) \/ HandleWrite(l)
  PROVE  AllWatched'
<1> USE DEF tableVars, timerVars, acceptVars
<1>1. PICK c \in Conn : c = cur[l]
  BY CurOpen DEF HandleRead, HandleWrite
<1>2. /\ pc[l] \in {"read", "write"} /\ pc'[l] = "conn"
      /\ UNCHANGED <<life, ep, fd2chan, cur, ret>>
      /\ \A m \in Loop \ {l} : pc'[m] = pc[m]
      /\ HandleRead(l) <=> pc[l] = "read"
  <2>1. pc[l] = "read" => "out" \notin chan[cur[l]].revents
    BY DEF IInv, Masks
  <2> QED
    BY <2>1, LoopTypes DEF HandleRead, HandleWrite
<1>3. Stages /\ Stages'
  BY StagesAlways, PTL
<1>4. /\ life[c] = "open" /\ http[c].loop = l /\ Stage(c) = pc[l] /\ Stage(c)' = "conn"
      /\ chan[c].events = {} /\ c \notin ret[l]
  BY <1>1, <1>2, <1>3, CurOpen DEF Stages, IInv, Masks
<1>5. /\ http[c].state # "disconnected" /\ ~Unregistered(c)
      /\ Fits(sock[c], ep[c], chan[c], http[c], pc[l])
  BY <1>2, <1>4 DEF AllWatched, Watched
<1>6. /\ ep[c] \in Entry /\ chan[c] \in Chan /\ sock[c] \in Socket /\ http[c] \in Http
      /\ ~({"in", "out"} \subseteq ep[c].mask)
  BY LoopTypes DEF IInv, Masks
<1> DEFINE r == Result(http[c], sock[c], chan[c].events)
<1>7. r \in Results
  BY <1>6 DEF Result, Results, Chan
<1>8. \E x : /\ Leave(c, x) /\ Follows(r, x)
             /\ Asks(x.http, x.events) /\ x.http.state # "disconnected"
             /\ \A q \in Chan : q.lastEvents = chan[c].lastEvents
                  => Fits(x.sock, ep[c], q, x.http, "conn")
  <2>1. CASE HandleRead(l)
    <3>1. PICK x \in ReadResults(c) : Leave(c, x)
      BY <1>1, <2>1 DEF HandleRead
    <3>2. Follows(r, x)
      BY ReadFollows DEF IInv
    <3>3. /\ Asks(x.http, x.events)
          /\ x.http.state # "disconnected"
          /\ ~x.sock.rx /\ x.sock.fin = sock[c].fin /\ x.sock.rst = sock[c].rst
          /\ ~x.http.error => (x.http.out => x.sock.full)
          /\ x.http.state = "connected" => http[c].state = "connected"
          /\ ~x.http.error /\ x.http.state = "connected" => ~x.sock.fin
      BY <1>4, <1>5, ReadAnswers DEF IInv
    <3>4. x.sock \in Socket /\ x.http \in Http
      BY <3>2 DEF Follows, Results
    <3>5. Fits(sock[c], ep[c], chan[c], http[c], "read")
      BY <1>2, <1>5, <2>1
    <3>6. ASSUME NEW q \in Chan, q.lastEvents = chan[c].lastEvents
          PROVE  Fits(x.sock, ep[c], q, x.http, "conn")
      BY <1>6, <3>3, <3>4, <3>5, <3>6, ReadFits
    <3> QED
      BY <3>1, <3>2, <3>3, <3>6
  <2>2. CASE HandleWrite(l)
    <3>1. PICK x \in WriteResults(r) : Leave(c, x)
      BY <1>1, <2>2 DEF HandleWrite
    <3>2. Follows(r, x)
      BY <1>7, WriteFollows
    <3>3. Answers(r, x)
      <4>1. r.http = http[c] /\ r.events = {}
        BY <1>4 DEF Result
      <4> QED
        BY <1>5, <1>7, <4>1, WriteAnswers
    <3>4. x.sock \in Socket /\ x.http \in Http
      BY <3>2 DEF Follows, Results
    <3>5. Fits(sock[c], ep[c], chan[c], http[c], "write")
      <4>1. pc[l] = "write"
        BY <2>2 DEF HandleWrite
      <4> QED
        BY <1>5, <4>1
    <3>6. /\ x.http.state = http[c].state /\ x.sock.rst = sock[c].rst
          /\ ~x.http.error => (x.http.out => x.sock.full)
          /\ Asks(x.http, x.events)
      BY <3>3 DEF Answers, Result
    <3>7. ASSUME NEW q \in Chan, q.lastEvents = chan[c].lastEvents
          PROVE  Fits(x.sock, ep[c], q, x.http, "conn")
      BY <1>6, <3>4, <3>5, <3>6, <3>7, WriteFits
    <3> QED
      BY <1>5, <3>1, <3>2, <3>6, <3>7
  <2> QED
    BY <2>1, <2>2
<1>9. PICK x : /\ Leave(c, x) /\ Follows(r, x)
               /\ Asks(x.http, x.events) /\ x.http.state # "disconnected"
               /\ \A q \in Chan : q.lastEvents = chan[c].lastEvents
                    => Fits(x.sock, ep[c], q, x.http, "conn")
  BY <1>8
<1>10. /\ http'[c] = x.http /\ sock'[c] = x.sock /\ chan'[c].events = x.events
       /\ chan'[c].lastEvents = chan[c].lastEvents
       /\ \A d \in Conn \ {c} :
            http'[d] = http[d] /\ sock'[d] = sock[d] /\ chan'[d] = chan[d]
  BY <1>9, LoopTypes DEF Leave, Chan
<1>11. chan'[c] \in Chan
  <2>1. chan' \in [Conn -> Chan]
    BY DEF IInv, TypeOK, Chan
  <2> QED
    BY <2>1
<1>12. http'[c].fd = http[c].fd /\ http'[c].loop = http[c].loop
  BY <1>9, <1>10 DEF Follows, Result
<1>13. \A d \in Conn : Unregistered(d)' <=> Unregistered(d)
  BY <1>2, <1>10, <1>12 DEF Unregistered
<1>14. Watched(c)'
  <2>1. Fits(sock'[c], ep[c], chan'[c], http'[c], "conn")
    BY <1>9, <1>10, <1>11
  <2> QED
    BY <1>2, <1>4, <1>5, <1>9, <1>10, <1>13, <2>1 DEF Watched
<1>15. ASSUME NEW d \in Conn \ {c} PROVE Watched(d)'
  <2>1. Watched(d)
    BY DEF AllWatched
  <2> QED
    BY <1>1, <1>2, <1>10, <1>13, <2>1, Elsewhere
<1> QED
  BY <1>14, <1>15 DEF AllWatched

\* An open connection whose place in the tables is not the one of c.
LEMMA OtherPlace ==
  ASSUME IInv, NEW c \in Conn, HoldsFd(c), NEW d \in Conn \ {c}, life[d] = "open",
         http'[d] = http[d],
         \A k \in Loop, f \in Fd :
           k # http[c].loop \/ f # http[c].fd => fd2chan'[k][f] = fd2chan[k][f]
  PROVE  Unregistered(d)' <=> Unregistered(d)
<1>1. http[d].loop \in Loop /\ http[d].fd \in Fd /\ http[d].fd # http[c].fd
  BY OpenPlace
<1>2. fd2chan'[http[d].loop][http[d].fd] = fd2chan[http[d].loop][http[d].fd]
  BY <1>1
<1> QED
  BY <1>2 DEF Unregistered

\* Loop l drops c, and nothing else happens to the connections.
LEMMA GoneWatched ==
  ASSUME IInv, IInv', AllWatched, NEW l \in Loop, NEW c \in Conn, life[c] = "open",
         Gone(c), UNCHANGED ret,
         \A m \in Loop \ {l} : pc'[m] = pc[m] /\ cur'[m] = cur[m],
         cur[l] \in {c, None}, cur'[l] = None
  PROVE  AllWatched'
<1>1. /\ life'[c] = "closed"
      /\ \A d \in Conn \ {c} : /\ life'[d] = life[d] /\ sock'[d] = sock[d]
                               /\ ep'[d] = ep[d] /\ chan'[d] = chan[d]
                               /\ http'[d] = http[d]
      /\ \A k \in Loop, f \in Fd :
           k # http[c].loop \/ f # http[c].fd => fd2chan'[k][f] = fd2chan[k][f]
  <2>1. life'[c] = "closed" /\ \A d \in Conn \ {c} : life'[d] = life[d]
    BY DEF Gone, IInv, TypeOK
  <2>2. \A d \in Conn \ {c} : /\ sock'[d] = sock[d] /\ ep'[d] = ep[d]
                               /\ chan'[d] = chan[d] /\ http'[d] = http[d]
    BY LoopTypes DEF Gone
  <2>3. \A k \in Loop, f \in Fd :
           k # http[c].loop \/ f # http[c].fd => fd2chan'[k][f] = fd2chan[k][f]
    BY TableTypes DEF Gone
  <2> QED
    BY <2>1, <2>2, <2>3
<1>2. ASSUME NEW d \in Conn \ {c} PROVE Watched(d)'
  <2>1. life[d] = "open" => (Unregistered(d)' <=> Unregistered(d))
    BY <1>1, OtherPlace DEF HoldsFd, Alive
  <2>2. cur[l] # d /\ cur'[l] # d
    BY ReactorAssumption
  <2>3. Watched(d)
    BY DEF AllWatched
  <2> QED
    BY <1>1, <2>1, <2>2, <2>3, Elsewhere
<1>3. Watched(c)'
  BY <1>1 DEF Watched
<1> QED
  BY <1>2, <1>3 DEF AllWatched

LEMMA ExpireWatched ==
  ASSUME IInv, IInv', AllWatched, NEW l \in Loop, NEW c \in Conn, Expire(l, c)
  PROVE  AllWatched'
<1>1. pc[l] = "pending" /\ cur[l] = None /\ UNCHANGED <<pc, cur, ret>>
  <2>1. pc[l] = "pending"
    BY DEF Expire, Sweeping
  <2>2. cur[l] = None
    BY <2>1, LoopTypes DEF IInv, Rounds
  <2> QED
    BY <2>1, <2>2 DEF Expire, loopVars
<1>2. linked[c] /\ timers[c] = 1 /\ life[c] = "open"
  BY DEF Expire, IInv, Timers
<1>3. Gone(c)
  <2>1. timers' = [timers EXCEPT ![c] = 0]
    BY <1>2, LoopTypes DEF Expire
  <2> QED
    BY <1>2, <2>1, CloseIsGone DEF Expire
<1> QED
  BY <1>1, <1>2, <1>3, GoneWatched

\* Nothing happens to a connection, but the loop goes on.
LEMMA RoundWatched ==
  ASSUME IInv, IInv', AllWatched, NEW l \in Loop, StartPending(l) \/ EndRound(l)
  PROVE  AllWatched'
<1>1. /\ pc[l] \in {"events", "pending"}
      /\ UNCHANGED <<life, sock, ep, chan, http, fd2chan, cur, ret>>
      /\ \A m \in Loop \ {l} : pc'[m] = pc[m]
  BY LoopTypes DEF StartPending, EndRound, tableVars
<1>2. cur[l] = None
  BY <1>1, LoopTypes DEF IInv, Rounds
<1> SUFFICES ASSUME NEW d \in Conn PROVE Watched(d)'
  BY DEF AllWatched
<1>3. cur[l] # d /\ cur'[l] # d
  BY <1>1, <1>2, ReactorAssumption
<1>4. (Unregistered(d)' <=> Unregistered(d)) /\ Watched(d)
  BY <1>1 DEF Unregistered, AllWatched
<1> QED
  BY <1>1, <1>3, <1>4, Elsewhere

LEMMA NewEventWatched ==
  ASSUME IInv, IInv', AllWatched, NEW l \in Loop, NEW c \in Conn, NewEvent(l, c)
  PROVE  AllWatched'
<1>1. /\ pc[l] = "pending" /\ cur[l] = None /\ c \in functors[l]
      /\ UNCHANGED <<sock, http, pc, cur, ret>>
  <2>1. pc[l] = "pending"
    BY DEF NewEvent
  <2>2. cur[l] = None
    BY <2>1, LoopTypes DEF IInv, Rounds
  <2> QED
    BY <2>1, <2>2 DEF NewEvent
<1>2. life[c] = "queued" /\ http[c].loop = l /\ HoldsFd(c) /\ http[c].fd \in Fd
  BY <1>1 DEF IInv, Queues, Descriptors, HoldsFd, Alive
<1>3. /\ life'[c] = "open" /\ chan'[c].lastEvents = DEFAULT_EVENT
      /\ \A d \in Conn \ {c} : life'[d] = life[d] /\ chan'[d] = chan[d]
  BY LoopTypes DEF NewEvent, IInv, TypeOK, Chan
<1>4. /\ \A d \in Conn \ {c} : ep'[d] = ep[d]
      /\ \A k \in Loop, f \in Fd :
           k # http[c].loop \/ f # http[c].fd => fd2chan'[k][f] = fd2chan[k][f]
      /\ \/ ep'[c] = Armed(sock[c], DEFAULT_EVENT)
         \/ fd2chan'[http[c].loop][http[c].fd] = None
  BY <1>2, LoopTypes, TableTypes DEF NewEvent, Control
<1>5. ASSUME NEW d \in Conn \ {c} PROVE Watched(d)'
  <2>1. life[d] = "open" => (Unregistered(d)' <=> Unregistered(d))
    BY <1>1, <1>2, <1>4, OtherPlace
  <2>2. cur[l] # d /\ cur'[l] # d
    BY <1>1, ReactorAssumption
  <2>3. Watched(d)
    BY DEF AllWatched
  <2> QED
    BY <1>1, <1>3, <1>4, <2>1, <2>2, <2>3, Elsewhere
<1>6. http[c].state = "connected" /\ ~http[c].error /\ ~http[c].out
  BY <1>2 DEF AllWatched, Watched
<1>7. Stage(c)' = "idle"
  <2>1. ~Handled(c)
    BY <1>2 DEF Handled, IInv, CallbackTargetAlive
  <2>2. ~Handled(c)'
    BY <1>1, <2>1 DEF Handled
  <2>3. Stages'
    BY StagesAlways, PTL
  <2> QED
    BY <2>2, <2>3 DEF Stages
<1>8. ASSUME ~Unregistered(c)' PROVE Fits(sock[c], ep'[c], chan'[c], http[c], "idle")
  <2>1. fd2chan'[http[c].loop][http[c].fd] # None
    BY <1>1, <1>8, ReactorAssumption DEF Unregistered
  <2>2. ep'[c] = Armed(sock[c], DEFAULT_EVENT)
    BY <1>4, <2>1
  <2>3. chan'[c] \in Chan /\ sock[c] \in Socket /\ http[c] \in Http
    <3>1. chan' \in [Conn -> Chan]
      BY DEF IInv, TypeOK, Chan
    <3> QED
      BY <3>1, LoopTypes
  <2> QED
    BY <1>3, <1>6, <2>2, <2>3, AddFits
<1>9. Watched(c)'
  BY <1>1, <1>3, <1>6, <1>7, <1>8 DEF Watched, Calm
<1> QED
  BY <1>5, <1>9 DEF AllWatched

LEMMA HandleConnWatched ==
  ASSUME IInv, IInv', AllWatched, NEW l \in Loop, HandleConn(l)
  PROVE  AllWatched'
<1>1. PICK c \in Conn : c = cur[l]
  BY CurOpen DEF HandleConn
<1>2. /\ pc[l] = "conn" /\ ret' = ret /\ cur'[l] = None
      /\ \A m \in Loop \ {l} : pc'[m] = pc[m] /\ cur'[m] = cur[m]
  BY LoopTypes DEF HandleConn
<1>3. /\ life[c] = "open" /\ http[c].loop = l /\ HoldsFd(c)
      /\ \A m \in Loop : c \notin ret[m] /\ (cur[m] = c => m = l)
  BY <1>1, <1>2, CurOpen DEF HoldsFd, Alive
<1>4. Stages /\ Stages'
  BY StagesAlways, PTL
<1>5. Stage(c) = "conn"
  BY <1>1, <1>2, <1>4 DEF Stages
<1>6. /\ http[c].state # "disconnected" /\ ~Unregistered(c)
      /\ Asks(http[c], chan[c].events)
      /\ Fits(sock[c], ep[c], chan[c], http[c], "conn")
  BY <1>3, <1>5 DEF AllWatched, Watched
<1>7. /\ ep[c] \in Entry /\ chan[c] \in Chan /\ chan'[c] \in Chan /\ ep'[c] \in Entry
      /\ sock[c] \in Socket /\ http[c] \in Http
  <2>1. ep' \in [Conn -> Entry] /\ chan' \in [Conn -> Chan]
    BY DEF IInv, TypeOK, Entry, Chan
  <2> QED
    BY <2>1, LoopTypes
<1>8. Stage(c)' = "idle"
  <2>1. ~Handled(c)'
    <3>1. \A m \in Loop : cur'[m] # c
      BY <1>1, <1>2, <1>3, ReactorAssumption
    <3> QED
      BY <1>2, <1>3, <3>1 DEF Handled
  <2> QED
    BY <1>4, <2>1 DEF Stages
<1>9. ASSUME UNCHANGED <<life, sock, http>>,
             \A d \in Conn \ {c} : ep'[d] = ep[d] /\ chan'[d] = chan[d],
             \A k \in Loop, f \in Fd :
               k # http[c].loop \/ f # http[c].fd => fd2chan'[k][f] = fd2chan[k][f],
             Watched(c)'
      PROVE  AllWatched'
  <2> SUFFICES ASSUME NEW d \in Conn \ {c} PROVE Watched(d)'
    BY <1>9 DEF AllWatched
  <2>1. life[d] = "open" => (Unregistered(d)' <=> Unregistered(d))
    BY <1>3, <1>9, OtherPlace
  <2>2. cur[l] # d /\ cur'[l] # d
    BY <1>1, <1>2, ReactorAssumption
  <2>3. Watched(d)
    BY DEF AllWatched
  <2> QED
    BY <1>2, <1>9, <2>1, <2>2, <2>3, Elsewhere
<1>10. CASE ~http[c].error /\ http[c].state = "connected" /\ Rearm(l, c)
  <2> DEFINE mask == NextEvents(chan[c].events)
  <2>1. /\ UNCHANGED <<life, sock, http>>
        /\ chan'[c].lastEvents = mask
        /\ \A d \in Conn \ {c} : chan'[d] = chan[d]
    BY <1>10, LoopTypes DEF Rearm
  <2>2. http[c].fd \in Fd
    BY <1>3, OpenPlace
  <2>3. /\ \A d \in Conn \ {c} : ep'[d] = ep[d]
        /\ \A k \in Loop, f \in Fd :
             k # http[c].loop \/ f # http[c].fd => fd2chan'[k][f] = fd2chan[k][f]
        /\ \/ ep'[c] = Armed(sock[c], mask)
           \/ ep'[c] = ep[c] /\ chan[c].lastEvents = mask
           \/ fd2chan'[http[c].loop][http[c].fd] = None
    <3>1. CASE chan[c].lastEvents = mask
      BY <1>10, <3>1 DEF Rearm
    <3>2. CASE Control(l, c, mask)
      BY <1>3, <2>2, <3>2, LoopTypes, TableTypes DEF Control
    <3> QED
      BY <1>10, <3>1, <3>2 DEF Rearm
  <2>4. ASSUME ~Unregistered(c)' PROVE Fits(sock[c], ep'[c], chan'[c], http[c], "idle")
    <3>1. fd2chan'[http[c].loop][http[c].fd] # None
      BY <2>1, <2>4, ReactorAssumption DEF Unregistered
    <3>2. ep'[c] = Armed(sock[c], mask) \/ (ep'[c] = ep[c] /\ chan[c].lastEvents = mask)
      BY <2>3, <3>1
    <3> QED
      BY <1>6, <1>7, <1>10, <2>1, <3>2, RearmFits
  <2>5. Watched(c)'
    BY <1>3, <1>8, <1>10, <2>1, <2>4 DEF Watched, Calm
  <2> QED
    BY <1>9, <2>1, <2>3, <2>5
<1>11. CASE /\ ~http[c].error /\ http[c].state = "disconnecting"
            /\ "out" \in chan[c].events /\ KeepHalfClosed(c)
  <2>1. /\ UNCHANGED <<life, sock, http, ep, fd2chan>>
        /\ \A d \in Conn \ {c} : chan'[d] = chan[d]
    BY <1>11, LoopTypes DEF KeepHalfClosed, tableVars
  <2>2. http[c].out
    BY <1>6, <1>11 DEF Asks
  <2>3. Watched(c)'
    BY <1>3, <1>8, <1>11, <2>1, <2>2 DEF Watched, Calm, Fits
  <2> QED
    BY <1>9, <2>1, <2>3
<1>12. CASE CloseNow(c)
  <2>1. Gone(c)
    BY <1>3, <1>12, ClearTimerTypes, CloseIsGone DEF CloseNow
  <2> QED
    BY <1>1, <1>2, <1>3, <2>1, GoneWatched
<1> QED
  BY <1>1, <1>10, <1>11, <1>12 DEF HandleConn

LEMMA StutterWatched ==
  ASSUME AllWatched, UNCHANGED vars
  PROVE  AllWatched'
<1>1. UNCHANGED <<life, sock, ep, chan, http, fd2chan, pc, cur, ret>>
  BY DEF vars, tableVars, loopVars
<1>2. \A d \in Conn : Stage(d)' = Stage(d) /\ (Unregistered(d)' <=> Unregistered(d))
  BY <1>1 DEF Stage, Unregistered
<1> QED
  BY <1>1, <1>2, Untouched DEF AllWatched

LEMMA NextWatched == IInv /\ AllWatched /\ [Next]_vars => AllWatched'
<1> SUFFICES ASSUME IInv, AllWatched, [Next]_vars PROVE AllWatched'
  OBVIOUS
<1>1. IInv'
  BY NextInv
<1>2. ASSUME NEW l \in Loop, LoopStep(l) PROVE AllWatched'
  BY <1>1, <1>2, PollWatched, EventsWatched, HandlerWatched, HandleConnWatched,
     RoundWatched, NewEventWatched, ExpireWatched DEF LoopStep
<1>3. ASSUME NEW c \in Conn, Client(c) PROVE AllWatched'
  BY <1>3, ClientWatched
<1> QED
  BY <1>2, <1>3, TimeWatched, AcceptWatched, StutterWatched DEF Next

LEMMA AlwaysWatched == SafeSpec => [](IInv /\ AllWatched)
<1>1. Init => AllWatched
  BY InitWatched
<1>2. IInv /\ AllWatched /\ [Next]_vars => IInv' /\ AllWatched'
  BY NextInv, NextWatched
<1> QED
  BY <1>1, <1>2, InitInv, PTL DEF SafeSpec

-----------------------------------------------------------------------------
(* Half-closed connections.  A step either is one of the connection's own  *)
(* or leaves it as it is.                                                  *)

\* Nothing happens to the connection.
Same(c) ==
  /\ life'[c] = life[c] /\ sock'[c] = sock[c] /\ ep'[c] = ep[c] /\ chan'[c] = chan[c]
  /\ http'[c] = http[c] /\ linked'[c] = linked[c]
  /\ \A l \in Loop : /\ cur'[l] = c <=> cur[l] = c
                     /\ c \in ret'[l] <=> c \in ret[l]
                     /\ cur[l] = c => pc'[l] = pc[l]

\* The steps that are the connection's own.
Own(c) ==
  \/ Client(c)
  \/ Accept(c) /\ UNCHANGED <<sock, moves, ep, chan, timerVars, tableVars, loopVars>>
  \/ \E l \in Loop :
       \/ Poll(l) /\ c \in OnReadyList(l)
       \/ SwallowEvents(l, c) \/ HandleEvents(l, c) \/ NewEvent(l, c) \/ Expire(l, c)
       \/ cur[l] = c /\ (HandleRead(l) \/ HandleWrite(l) \/ HandleConn(l))

LEMMA ClientOfAnother ==
  ASSUME IInv, NEW c \in Conn, NEW d \in Conn \ {c}, Client(d)
  PROVE  Same(c)
<1> USE LoopTypes DEF Same, timerVars, loopVars
<1>1. life \in [Conn -> {"new", "backlog", "queued", "open", "closed", "leaked"}]
  BY DEF IInv, TypeOK
<1>2. CASE Connect(d)
  BY <1>1, <1>2 DEF Connect
<1>3. CASE Send(d)
  <2>1. PICK last \in BOOLEAN :
          /\ sock' = [sock EXCEPT ![d].rx = TRUE, ![d].fin = last]
          /\ Edge(d, IF last THEN ep[d].mask ELSE {"in"})
    BY <1>3 DEF Send
  <2> QED
    BY <1>3, <2>1 DEF Send, Edge
<1>4. CASE Finish(d)
  BY <1>4 DEF Finish, Edge
<1>5. CASE Reset(d)
  BY <1>5 DEF Reset, Edge
<1>6. CASE Drain(d)
  BY <1>6 DEF Drain, Edge
<1> QED
  BY <1>2, <1>3, <1>4, <1>5, <1>6 DEF Client

LEMMA GoneIsAnother ==
  ASSUME IInv, NEW c \in Conn, NEW d \in Conn \ {c}, Gone(d)
  PROVE  /\ life'[c] = life[c] /\ sock'[c] = sock[c] /\ ep'[c] = ep[c]
         /\ chan'[c] = chan[c] /\ http'[c] = http[c] /\ linked'[c] = linked[c]
<1>1. life \in [Conn -> {"new", "backlog", "queued", "open", "closed", "leaked"}]
  BY DEF IInv, TypeOK
<1> QED
  BY <1>1, LoopTypes DEF Gone

LEMMA ExpireIsGone ==
  ASSUME IInv, NEW l \in Loop, NEW c \in Conn, Expire(l, c)
  PROVE  Gone(c) /\ linked[c] /\ UNCHANGED loopVars
<1>1. life[c] = "open" /\ timers[c] = 1 /\ linked[c]
  BY DEF IInv, Timers, Expire
<1>2. timers' = [timers EXCEPT ![c] = 0]
  BY <1>1, LoopTypes DEF Expire
<1> QED
  BY <1>1, <1>2, CloseIsGone DEF Expire

\* What handleConn does to connections other than the current one.
LEMMA ConnOfAnother ==
  ASSUME IInv, NEW l \in Loop, NEW c \in Conn, cur[l] # c, HandleConn(l)
  PROVE  Same(c)
<1> DEFINE d == cur[l]
<1>1. /\ pc[l] = "conn" /\ d \in Conn /\ life[d] = "open"
      /\ Rearm(l, d) \/ KeepHalfClosed(d) \/ CloseNow(d)
  BY CurOpen DEF HandleConn
<1>2. /\ life'[c] = life[c] /\ sock'[c] = sock[c] /\ ep'[c] = ep[c]
      /\ chan'[c] = chan[c] /\ http'[c] = http[c] /\ linked'[c] = linked[c]
  <2>1. CASE Rearm(l, d)
    BY <1>1, <2>1, LoopTypes DEF Rearm, RenewTimer, Control
  <2>2. CASE KeepHalfClosed(d)
    BY <1>1, <2>2, LoopTypes DEF KeepHalfClosed, ClearTimer
  <2>3. CASE CloseNow(d)
    <3>1. Gone(d)
      BY <1>1, <2>3, ClearTimerTypes, CloseIsGone DEF CloseNow
    <3> QED
      BY <1>1, <3>1, GoneIsAnother
  <2> QED
    BY <1>1, <2>1, <2>2, <2>3
<1>3. \A k \in Loop : /\ cur'[k] = c <=> cur[k] = c
                      /\ cur[k] = c => pc'[k] = pc[k]
  BY LoopTypes, ReactorAssumption DEF HandleConn
<1>4. ret' = ret
  BY DEF HandleConn
<1> QED
  BY <1>2, <1>3, <1>4 DEF Same

LEMMA OwnOrSame ==
  ASSUME IInv, [Next]_vars, NEW c \in Conn
  PROVE  Own(c) \/ Same(c)
<1> USE DEF timerVars, loopVars
<1>0. life \in [Conn -> {"new", "backlog", "queued", "open", "closed", "leaked"}]
  BY DEF IInv, TypeOK
<1>1. CASE UNCHANGED vars
  BY <1>1 DEF Same, vars
<1>2. CASE ClockWraps \/ \E d \in Conn : TimeOut(d)
  BY <1>2 DEF Same, ClockWraps, TimeOut
<1>3. ASSUME NEW d \in Conn, Client(d) PROVE Own(c) \/ Same(c)
  BY <1>3, ClientOfAnother DEF Own
<1>4. CASE AcceptStep
  <2>1. CASE AcceptPoll \/ AcceptEnds \/ HandThisConn
    BY <1>4, <2>1 DEF Same, AcceptStep, AcceptPoll, AcceptEnds, HandThisConn
  <2>2. ASSUME NEW d \in Conn, Accept(d) PROVE Own(c) \/ Same(c)
    <3>1. CASE d = c
      BY <1>4, <2>2, <3>1 DEF Own, AcceptStep
    <3>2. CASE d # c
      <4>1. PICK fd \in FreeFds : Refused(d) \/ Leaked(d, fd) \/ Handed(d, fd)
        BY <2>2 DEF Accept
      <4>2. life'[c] = life[c] /\ http'[c] = http[c]
        BY <1>0, <3>2, <4>1, LoopTypes DEF Refused, Leaked, Handed
      <4> QED
        BY <1>4, <4>2 DEF Same, AcceptStep
    <3> QED
      BY <3>1, <3>2
  <2> QED
    BY <1>4, <2>1, <2>2 DEF AcceptStep
<1>5. ASSUME NEW l \in Loop, Poll(l) PROVE Own(c) \/ Same(c)
  <2>1. ret[l] = {} /\ cur[l] = None
    BY <1>5, LoopTypes DEF Poll, IInv, Rounds
  <2>2. CASE c \notin OnReadyList(l)
    <3>1. c \notin Reported(l)
      BY <2>2 DEF Reported, Returned
    <3>2. ep'[c] = ep[c] /\ chan'[c] = chan[c]
      BY <1>5, <2>2, <3>1 DEF Poll
    <3>3. \A k \in Loop : c \in ret'[k] <=> c \in ret[k]
      BY <1>5, <2>1, <3>1, LoopTypes DEF Poll
    <3>4. \A k \in Loop : cur[k] = c => pc'[k] = pc[k]
      BY <1>5, <2>1, LoopTypes, ReactorAssumption DEF Poll
    <3> QED
      BY <1>5, <3>2, <3>3, <3>4 DEF Same, Poll
  <2> QED
    BY <1>5, <2>2 DEF Own
<1>6. ASSUME NEW l \in Loop, NEW d \in Conn, SwallowEvents(l, d) \/ HandleEvents(l, d)
      PROVE  Own(c) \/ Same(c)
  <2>1. CASE d # c
    <3>1. cur[l] = None
      BY <1>6, LoopTypes DEF IInv, Rounds, SwallowEvents, HandleEvents
    <3>2. /\ chan'[c] = chan[c]
          /\ \A k \in Loop : c \in ret'[k] <=> c \in ret[k]
          /\ \A k \in Loop : cur'[k] = c <=> cur[k] = c
          /\ \A k \in Loop : cur[k] = c => pc'[k] = pc[k]
      BY <1>6, <2>1, <3>1, LoopTypes, ReactorAssumption DEF SwallowEvents, HandleEvents
    <3> QED
      BY <1>6, <3>2 DEF Same, SwallowEvents, HandleEvents
  <2> QED
    BY <1>6, <2>1 DEF Own
<1>7. ASSUME NEW l \in Loop, HandleRead(l) \/ HandleWrite(l) PROVE Own(c) \/ Same(c)
  <2>1. CASE cur[l] # c
    <3>1. cur[l] \in Conn
      BY <1>7, CurOpen DEF HandleRead, HandleWrite
    <3>2. \E x : Leave(cur[l], x)
      BY <1>7 DEF HandleRead, HandleWrite
    <3>3. http'[c] = http[c] /\ sock'[c] = sock[c] /\ chan'[c] = chan[c]
      BY <2>1, <3>1, <3>2, LoopTypes DEF Leave
    <3>4. linked'[c] = linked[c]
      BY <1>7, <2>1, <3>1, LoopTypes DEF HandleRead, HandleWrite, ClearTimer
    <3>5. \A k \in Loop : cur[k] = c => pc'[k] = pc[k]
      BY <1>7, <2>1, LoopTypes DEF HandleRead, HandleWrite
    <3> QED
      BY <1>7, <3>3, <3>4, <3>5 DEF Same, HandleRead, HandleWrite
  <2> QED
    BY <1>7, <2>1 DEF Own
<1>8. ASSUME NEW l \in Loop, HandleConn(l) PROVE Own(c) \/ Same(c)
  BY <1>8, ConnOfAnother DEF Own
<1>9. ASSUME NEW l \in Loop, StartPending(l) \/ EndRound(l) PROVE Own(c) \/ Same(c)
  <2>1. cur[l] = None
    BY <1>9, LoopTypes DEF IInv, Rounds, StartPending, EndRound
  <2>2. \A k \in Loop : cur[k] = c => pc'[k] = pc[k]
    BY <1>9, <2>1, LoopTypes, ReactorAssumption DEF StartPending, EndRound
  <2> QED
    BY <1>9, <2>2 DEF Same, StartPending, EndRound
<1>10. ASSUME NEW l \in Loop, NEW d \in Conn, NewEvent(l, d) PROVE Own(c) \/ Same(c)
  <2>1. CASE d # c
    <3>1. /\ life'[c] = life[c] /\ chan'[c] = chan[c] /\ ep'[c] = ep[c]
          /\ linked'[c] = linked[c]
      BY <1>0, <1>10, <2>1, LoopTypes DEF NewEvent, AddTimer, Control
    <3> QED
      BY <1>10, <3>1 DEF Same, NewEvent
  <2> QED
    BY <1>10, <2>1 DEF Own
<1>11. ASSUME NEW l \in Loop, NEW d \in Conn, Expire(l, d) PROVE Own(c) \/ Same(c)
  <2>1. CASE d # c
    BY <1>11, <2>1, ExpireIsGone, GoneIsAnother DEF Same
  <2> QED
    BY <1>11, <2>1 DEF Own
<1>12. CASE \E l \in Loop : LoopStep(l)
  BY <1>5, <1>6, <1>7, <1>8, <1>9, <1>10, <1>11, <1>12 DEF LoopStep
<1> QED
  BY <1>1, <1>2, <1>3, <1>4, <1>12 DEF Next


\* A half-closed connection has seen the client's FIN while it was asking for
\* input, and once it has been handled it has neither EPOLLOUT nor a timer.
Closing(c) ==
  /\ life[c] # "open" => chan[c].revents = {}
  /\ life[c] = "open" =>
       /\ http[c].state = "disconnecting" => sock[c].fin /\ "out" \notin ep[c].mask
       /\ "in" \in chan[c].revents => "in" \in ep[c].mask
       /\ \A l \in Loop : cur[l] = c /\ pc[l] = "read" => "in" \in chan[c].revents
       /\ NotCur(c) /\ HalfClosed(c) => ~linked[c]

LEMMA SameClosing ==
  ASSUME NEW c \in Conn, Closing(c), Same(c)
  PROVE  Closing(c)'
BY DEF Closing, Same, NotCur, HalfClosed

\* A client changes its socket, and the rest of it only by connecting.
LEMMA ClientChanges ==
  ASSUME IInv, NEW c \in Conn, Client(c)
  PROVE  /\ UNCHANGED <<chan, http, timers, linked, pc, cur, ret>>
         /\ \/ life[c] = "new" /\ life'[c] = "backlog" /\ sock' = sock /\ ep' = ep
            \/ /\ life'[c] = life[c]
               /\ sock[c].fin => sock'[c].fin
               /\ sock[c].rst => sock'[c].rst
               /\ ep'[c].mask = ep[c].mask
               /\ sock[c].fin => sock'[c].rst \/ "out" \in ep[c].mask \/ ep'[c].rdy = ep[c].rdy
<1> USE DEF timerVars, loopVars
<1>1. /\ life \in [Conn -> {"new", "backlog", "queued", "open", "closed", "leaked"}]
      /\ sock[c] \in Socket /\ ep[c] \in Entry
      /\ sock \in [Conn -> Socket] /\ ep \in [Conn -> Entry]
  BY LoopTypes DEF IInv, TypeOK
<1>2. CASE Connect(c)
  BY <1>1, <1>2 DEF Connect
<1>3. CASE Send(c)
  <2>1. PICK last \in BOOLEAN :
          /\ sock' = [sock EXCEPT ![c].rx = TRUE, ![c].fin = last]
          /\ Edge(c, IF last THEN ep[c].mask ELSE {"in"})
    BY <1>3 DEF Send
  <2>2. ep'[c].mask = ep[c].mask
    BY <2>1, EdgeMasks DEF IInv
  <2>3. ~sock[c].fin /\ sock'[c].rst = sock[c].rst
    BY <1>1, <1>3, <2>1 DEF Send, Socket
  <2> QED
    BY <1>3, <2>2, <2>3 DEF Send
<1>4. CASE Finish(c)
  <2>1. ep'[c].mask = ep[c].mask
    BY <1>4, EdgeMasks DEF IInv, Finish
  <2>2. ~sock[c].fin /\ sock'[c].rst = sock[c].rst
    BY <1>1, <1>4 DEF Finish, Socket
  <2> QED
    BY <1>4, <2>1, <2>2 DEF Finish
<1>5. CASE Reset(c)
  <2>1. ep'[c].mask = ep[c].mask
    BY <1>5, EdgeMasks DEF IInv, Reset
  <2>2. sock'[c].rst /\ sock'[c].fin = sock[c].fin
    BY <1>1, <1>5 DEF Reset, Socket
  <2> QED
    BY <1>5, <2>1, <2>2 DEF Reset
<1>6. CASE Drain(c)
  <2>1. ep'[c].mask = ep[c].mask
    BY <1>6, EdgeMasks DEF IInv, Drain
  <2>2. sock'[c].rst = sock[c].rst /\ sock'[c].fin = sock[c].fin
    BY <1>1, <1>6 DEF Drain, Socket
  <2>3. "out" \in ep[c].mask \/ ep'[c].rdy = ep[c].rdy
    <3>1. CASE "out" \notin ep[c].mask
      <4>1. {"out"} \cap ep[c].mask = {}
        BY <3>1
      <4>2. (ep[c].rdy \/ (ep[c].armed /\ {"out"} \cap ep[c].mask # {})) = ep[c].rdy
        BY <1>1, <4>1 DEF Entry
      <4>3. ep' = [ep EXCEPT ![c].rdy = ep[c].rdy]
        BY <1>6, <4>2 DEF Drain, Edge
      <4> QED
        BY <1>1, <4>3 DEF Entry
    <3> QED
      BY <3>1
  <2> QED
    BY <1>6, <2>1, <2>2, <2>3 DEF Drain
<1> QED
  BY <1>2, <1>3, <1>4, <1>5, <1>6 DEF Client

\* What a handler of the current connection leaves of it.
LEMMA HandlerLeaves ==
  ASSUME IInv, AllWatched, NEW l \in Loop, NEW c \in Conn, cur[l] = c,
         HandleRead(l) \/ HandleWrite(l)
  PROVE  /\ life[c] = "open" /\ UNCHANGED <<life, ep, cur>> /\ pc'[l] = "conn"
         /\ \A k \in Loop : cur[k] = c => k = l
         /\ chan'[c].revents = chan[c].revents
         /\ sock'[c].fin = sock[c].fin
         /\ http'[c].state = "disconnecting"
              => \/ http[c].state = "disconnecting"
                 \/ pc[l] = "read" /\ sock[c].fin
<1>1. /\ pc[l] \in {"read", "write"} /\ life[c] = "open" /\ chan[c].events = {}
      /\ \A k \in Loop : cur[k] = c => k = l
  BY CurOpen DEF HandleRead, HandleWrite, IInv, Masks
<1>2. Stages
  BY StagesAlways
<1>3. http[c].state # "disconnected"
  BY <1>1, <1>2 DEF AllWatched, Watched
<1>4. UNCHANGED <<life, ep, cur>> /\ pc'[l] = "conn"
  BY <1>1, LoopTypes DEF HandleRead, HandleWrite, IInv, Masks
<1>5. ASSUME NEW x, Leave(c, x)
      PROVE  chan'[c].revents = chan[c].revents /\ sock'[c] = x.sock /\ http'[c] = x.http
  BY <1>5, LoopTypes DEF Leave, Chan
<1>6. CASE HandleRead(l)
  <2>1. PICK x \in ReadResults(c) : Leave(c, x)
    BY <1>6 DEF HandleRead
  <2>2. /\ x.sock.fin = sock[c].fin
        /\ x.http.state = "disconnecting" => http[c].state = "disconnecting" \/ sock[c].fin
    BY <1>1, <1>3, ReadAnswers DEF IInv
  <2>3. pc[l] = "read"
    BY <1>6 DEF HandleRead
  <2> QED
    BY <1>1, <1>4, <1>5, <2>1, <2>2, <2>3
<1>7. CASE HandleWrite(l)
  <2> DEFINE r == Result(http[c], sock[c], chan[c].events)
  <2>1. PICK x \in WriteResults(r) : Leave(c, x)
    BY <1>7 DEF HandleWrite
  <2>2. r \in Results /\ r.http = http[c] /\ r.events = {} /\ r.sock = sock[c]
    BY <1>1, LoopTypes DEF Result, Results, Chan
  <2>3. Answers(r, x)
    BY <1>3, <2>1, <2>2, WriteAnswers
  <2> QED
    BY <1>1, <1>4, <1>5, <2>1, <2>2, <2>3 DEF Answers
<1> QED
  BY <1>6, <1>7

\* What epoll_wait leaves of a connection on the ready list.
LEMMA PollLeaves ==
  ASSUME IInv, NEW l \in Loop, NEW c \in Conn, Poll(l), c \in OnReadyList(l)
  PROVE  /\ life[c] = "open" /\ http[c].loop = l /\ ep[c].rdy
         /\ UNCHANGED <<life, sock, http, timers, linked, cur>>
         /\ NotCur(c)
         /\ \A k \in Loop : c \in ret'[k] => k = l /\ c \in Reported(l)
         /\ ep'[c].mask = ep[c].mask /\ ep'[c].rdy = FALSE
         /\ chan'[c].revents
              = IF c \in Reported(l) THEN Reports(sock[c], ep[c].mask) ELSE chan[c].revents
<1>1. life[c] = "open" /\ http[c].loop = l /\ ep[c].rdy /\ pc[l] = "poll"
  BY DEF OnReadyList, Poll
<1>2. ret[l] = {} /\ cur[l] = None
  BY <1>1, LoopTypes DEF IInv, Rounds
<1>3. \A k \in Loop : cur[k] # c /\ (c \in ret[k] => k = l)
  BY <1>1, <1>2, ReactorAssumption DEF IInv, CallbackTargetAlive
<1>4. \A k \in Loop : c \in ret'[k] => k = l /\ c \in Reported(l)
  BY <1>2, <1>3, LoopTypes DEF Poll
<1>5. ep'[c].mask = ep[c].mask /\ ep'[c].rdy = FALSE
  <2>1. ep'[c] = [ep[c] EXCEPT !.rdy = FALSE,
                               !.armed = @ /\ ~(/\ c \in Returned(l)
                                                /\ "oneshot" \in ep[c].mask)]
    BY DEF Poll
  <2> QED
    BY <2>1, LoopTypes DEF Entry
<1>6. chan'[c].revents
        = IF c \in Reported(l) THEN Reports(sock[c], ep[c].mask) ELSE chan[c].revents
  <2>1. CASE c \in Reported(l)
    <3>1. chan'[c] = [chan[c] EXCEPT !.events = {},
                                     !.revents = Reports(sock[c], ep[c].mask)]
      BY <2>1 DEF Poll
    <3> QED
      BY <2>1, <3>1, LoopTypes DEF Chan
  <2>2. CASE c \notin Reported(l)
    BY <2>2 DEF Poll
  <2> QED
    BY <2>1, <2>2
<1> QED
  BY <1>1, <1>3, <1>4, <1>5, <1>6 DEF Poll, timerVars, NotCur

\* What the first step of handleEvents leaves of its connection.
LEMMA EventsLeave ==
  ASSUME IInv, NEW l \in Loop, NEW c \in Conn,
         SwallowEvents(l, c) \/ HandleEvents(l, c)
  PROVE  /\ life[c] = "open" /\ c \in ret[l] /\ NotCur(c)
         /\ UNCHANGED <<life, sock, ep, http, timers, linked>>
         /\ \A k \in Loop : c \notin ret'[k]
         /\ SwallowEvents(l, c) => UNCHANGED cur /\ chan'[c].revents = {}
         /\ HandleEvents(l, c) =>
              /\ chan'[c].revents = chan[c].revents
              /\ cur'[l] = c
              /\ \A k \in Loop : cur'[k] = c => k = l
              /\ pc'[l] = "read" => "in" \in chan[c].revents
<1>1. c \in ret[l] /\ pc[l] = "events"
  BY DEF SwallowEvents, HandleEvents
<1>2. life[c] = "open" /\ http[c].loop = l /\ NotCur(c)
  BY <1>1, RetNotCur DEF IInv, CallbackTargetAlive
<1>3. \A k \in Loop : c \notin ret'[k]
  <2>1. ret' = [ret EXCEPT ![l] = ret[l] \ {c}]
    BY DEF SwallowEvents, HandleEvents
  <2>2. \A k \in Loop : c \in ret[k] => k = l
    BY <1>2 DEF IInv, CallbackTargetAlive
  <2> QED
    BY <2>1, <2>2, LoopTypes
<1>4. CASE SwallowEvents(l, c)
  <2>1. ~HandleEvents(l, c)
    BY <1>4 DEF SwallowEvents, HandleEvents
  <2> QED
    BY <1>1, <1>2, <1>3, <1>4, <2>1, LoopTypes DEF SwallowEvents, timerVars, Chan
<1>5. CASE HandleEvents(l, c)
  <2>1. ~SwallowEvents(l, c)
    BY <1>5 DEF SwallowEvents, HandleEvents
  <2>2. cur'[l] = c /\ \A k \in Loop : cur'[k] = c => k = l
    BY <1>2, <1>5, LoopTypes DEF HandleEvents, NotCur
  <2>3. pc'[l] = "read" => "in" \in chan[c].revents
    BY <1>5, LoopTypes DEF HandleEvents
  <2>4. chan'[c].revents = chan[c].revents
    BY <1>5, LoopTypes DEF HandleEvents, Chan
  <2> QED
    BY <1>1, <1>2, <1>3, <1>5, <2>1, <2>2, <2>3, <2>4 DEF HandleEvents, timerVars
<1> QED
  BY <1>4, <1>5

LEMMA ConnClosing ==
  ASSUME IInv, NEW l \in Loop, NEW c \in Conn, cur[l] = c, HandleConn(l), Closing(c)
  PROVE  Closing(c)'
<1>1. life[c] = "open" /\ \A k \in Loop : cur[k] = c => k = l
  BY CurOpen DEF HandleConn
<1>2. \A k \in Loop : cur'[k] # c
  BY <1>1, LoopTypes, ReactorAssumption DEF HandleConn
<1>3. CASE ~http[c].error /\ http[c].state = "connected" /\ Rearm(l, c)
  <2>1. chan'[c].revents = {} /\ http' = http /\ life' = life
    BY <1>3, LoopTypes DEF Rearm
  <2> QED
    BY <1>1, <1>2, <1>3, <2>1 DEF Closing, HalfClosed
<1>4. CASE KeepHalfClosed(c)
  <2>1. chan'[c].revents = {} /\ UNCHANGED <<life, sock, ep, http>> /\ ~linked'[c]
    <3>1. chan[c] \in Chan /\ chan' = [chan EXCEPT ![c].events = {"out"}, ![c].revents = {}]
      BY <1>4, LoopTypes DEF KeepHalfClosed
    <3>2. chan'[c].revents = {}
      BY <3>1, LoopTypes DEF Chan
    <3>3. linked' = [linked EXCEPT ![c] = FALSE]
      BY <1>4, ClearTimerTypes DEF KeepHalfClosed
    <3> QED
      BY <1>4, <3>2, <3>3, LoopTypes DEF KeepHalfClosed
  <2> QED
    BY <1>1, <1>2, <2>1 DEF Closing
<1>5. CASE CloseNow(c)
  <2>1. Gone(c)
    BY <1>1, <1>5, ClearTimerTypes, CloseIsGone DEF CloseNow
  <2>2. life'[c] = "closed" /\ chan'[c].revents = {}
    BY <2>1, LoopTypes DEF Gone, NewChannel, IInv, TypeOK
  <2> QED
    BY <2>2 DEF Closing
<1> QED
  BY <1>3, <1>4, <1>5 DEF HandleConn

LEMMA OwnClosing ==
  ASSUME IInv, IInv', AllWatched, NEW c \in Conn, Closing(c), Own(c)
  PROVE  Closing(c)'
<1>0. life \in [Conn -> {"new", "backlog", "queued", "open", "closed", "leaked"}]
  BY DEF IInv, TypeOK
<1>1. CASE Client(c)
  <2>1. /\ UNCHANGED <<chan, http, linked, pc, cur>>
        /\ \/ life[c] = "new" /\ life'[c] = "backlog"
           \/ /\ life'[c] = life[c] /\ ep'[c].mask = ep[c].mask
              /\ sock[c].fin => sock'[c].fin
    BY <1>1, ClientChanges
  <2> QED
    BY <2>1 DEF Closing, NotCur, HalfClosed
<1>2. CASE Accept(c) /\ UNCHANGED <<sock, moves, ep, chan, timerVars, tableVars, loopVars>>
  <2>1. PICK fd \in FreeFds : Refused(c) \/ Leaked(c, fd) \/ Handed(c, fd)
    BY <1>2 DEF Accept
  <2>2. life[c] = "backlog" /\ life'[c] # "open" /\ chan' = chan
    BY <1>0, <1>2, <2>1 DEF Accept, Refused, Leaked, Handed
  <2> QED
    BY <2>2 DEF Closing
<1>3. ASSUME NEW l \in Loop, Poll(l), c \in OnReadyList(l) PROVE Closing(c)'
  <2>1. "in" \in Reports(sock[c], ep[c].mask) => "in" \in ep[c].mask
    BY DEF Reports
  <2>2. /\ UNCHANGED <<life, sock, http, linked, cur>>
        /\ ep'[c].mask = ep[c].mask
        /\ chan'[c].revents
             = IF c \in Reported(l) THEN Reports(sock[c], ep[c].mask) ELSE chan[c].revents
    BY <1>3, PollLeaves
  <2>3. life[c] = "open"
    BY <1>3 DEF OnReadyList
  <2>4. NotCur(c)
    BY <1>3, PollLeaves
  <2> QED
    BY <2>1, <2>2, <2>3, <2>4 DEF Closing, NotCur, HalfClosed
<1>4. ASSUME NEW l \in Loop, SwallowEvents(l, c) PROVE Closing(c)'
  <2>1. /\ life[c] = "open" /\ NotCur(c) /\ UNCHANGED <<life, sock, ep, http, linked, cur>>
        /\ chan'[c].revents = {}
    BY <1>4, EventsLeave
  <2> QED
    BY <2>1 DEF Closing, NotCur, HalfClosed
<1>5. ASSUME NEW l \in Loop, HandleEvents(l, c) PROVE Closing(c)'
  <2>1. /\ life[c] = "open" /\ UNCHANGED <<life, sock, ep, http>>
        /\ chan'[c].revents = chan[c].revents
        /\ cur'[l] = c /\ \A k \in Loop : cur'[k] = c => k = l
        /\ pc'[l] = "read" => "in" \in chan[c].revents
    BY <1>5, EventsLeave
  <2> QED
    BY <2>1 DEF Closing, NotCur
<1>6. ASSUME NEW l \in Loop, NewEvent(l, c) PROVE Closing(c)'
  <2>1. life[c] = "queued"
    BY <1>6 DEF NewEvent, IInv, Queues
  <2>2. http[c].state = "connected" /\ chan[c].revents = {}
    BY <2>1 DEF AllWatched, Watched, Closing
  <2>3. chan'[c].revents = {} /\ http' = http /\ cur' = cur
    BY <1>6, <2>2, LoopTypes DEF NewEvent, Chan
  <2>4. \A k \in Loop : cur[k] # c
    BY <2>1 DEF IInv, CallbackTargetAlive
  <2> QED
    BY <2>2, <2>3, <2>4 DEF Closing, HalfClosed
<1>7. ASSUME NEW l \in Loop, Expire(l, c) PROVE Closing(c)'
  <2>1. Gone(c)
    BY <1>7, ExpireIsGone
  <2>2. life'[c] = "closed" /\ chan'[c].revents = {}
    BY <1>0, <2>1, LoopTypes DEF Gone, NewChannel
  <2> QED
    BY <2>2 DEF Closing
<1>8. ASSUME NEW l \in Loop, cur[l] = c, HandleRead(l) \/ HandleWrite(l)
      PROVE  Closing(c)'
  <2>1. /\ life[c] = "open" /\ UNCHANGED <<life, ep, cur>> /\ pc'[l] = "conn"
        /\ \A k \in Loop : cur[k] = c => k = l
        /\ chan'[c].revents = chan[c].revents
        /\ sock'[c].fin = sock[c].fin
        /\ http'[c].state = "disconnecting"
             => \/ http[c].state = "disconnecting"
                \/ pc[l] = "read" /\ sock[c].fin
    BY <1>8, HandlerLeaves
  <2>2. ~NotCur(c)'
    BY <1>8, <2>1 DEF NotCur
  <2>3. pc[l] = "read" => "out" \notin ep[c].mask
    BY <1>8, <2>1 DEF Closing, IInv, Masks
  <2> QED
    BY <2>1, <2>2, <2>3 DEF Closing
<1>9. ASSUME NEW l \in Loop, cur[l] = c, HandleConn(l) PROVE Closing(c)'
  BY <1>9, ConnClosing
<1> QED
  BY <1>1, <1>2, <1>3, <1>4, <1>5, <1>6, <1>7, <1>8, <1>9 DEF Own

AllClosing == \A c \in Conn : Closing(c)

LEMMA AlwaysClosing == SafeSpec => [](IInv /\ AllWatched /\ AllClosing)
<1>1. Init => AllClosing
  BY DEF Init, AllClosing, Closing, NewChannel
<1>2. IInv /\ AllWatched /\ AllClosing /\ [Next]_vars => AllClosing'
  <2> SUFFICES ASSUME IInv, AllWatched, AllClosing, [Next]_vars, NEW c \in Conn
               PROVE  Closing(c)'
    BY DEF AllClosing
  <2>1. IInv' /\ Closing(c)
    BY NextInv DEF AllClosing
  <2> QED
    BY <2>1, OwnOrSame, OwnClosing, SameClosing
<1> QED
  BY <1>1, <1>2, AlwaysWatched, InitInv, NextInv, NextWatched, PTL DEF SafeSpec

\* A stranded connection stays stranded in its own steps, none of which handles it.
LEMMA OwnStranded ==
  ASSUME IInv, NEW c \in Conn, Closing(c), Stranded(c), Own(c)
  PROVE  Stranded(c)'
<1>0. /\ life[c] = "open" /\ HalfClosed(c) /\ timers[c] = 0 /\ "out" \notin ep[c].mask
      /\ ep[c].rdy => sock[c].rst
      /\ \A l \in Loop : cur[l] # c /\ (c \in ret[l] => Swallowed(chan[c].revents))
      /\ sock[c].fin
  BY DEF Stranded, Closing, HalfClosed
<1>1. CASE Client(c)
  <2>1. /\ UNCHANGED <<chan, http, timers, cur, ret>>
        /\ life'[c] = life[c] /\ ep'[c].mask = ep[c].mask
        /\ sock[c].rst => sock'[c].rst
        /\ sock'[c].rst \/ ep'[c].rdy = ep[c].rdy
    BY <1>0, <1>1, ClientChanges
  <2> QED
    BY <1>0, <2>1 DEF Stranded, HalfClosed
<1>2. CASE Accept(c)
  BY <1>0, <1>2 DEF Accept
<1>3. ASSUME NEW l \in Loop, Poll(l), c \in OnReadyList(l) PROVE Stranded(c)'
  <2>1. /\ ep[c].rdy /\ UNCHANGED <<life, sock, http, timers, cur>>
        /\ \A k \in Loop : c \in ret'[k] => k = l /\ c \in Reported(l)
        /\ ep'[c].mask = ep[c].mask /\ ep'[c].rdy = FALSE
        /\ chan'[c].revents
             = IF c \in Reported(l) THEN Reports(sock[c], ep[c].mask) ELSE chan[c].revents
    BY <1>3, PollLeaves
  <2>2. Swallowed(Reports(sock[c], ep[c].mask))
    BY <1>0, <2>1 DEF Reports, Ready, Swallowed
  <2> QED
    BY <1>0, <2>1, <2>2 DEF Stranded, HalfClosed
<1>4. ASSUME NEW l \in Loop, SwallowEvents(l, c) PROVE Stranded(c)'
  <2>1. /\ UNCHANGED <<life, sock, ep, http, timers, cur>>
        /\ \A k \in Loop : c \notin ret'[k]
    BY <1>4, EventsLeave
  <2> QED
    BY <1>0, <2>1 DEF Stranded, HalfClosed
<1>5. ASSUME NEW l \in Loop, HandleEvents(l, c) PROVE FALSE
  BY <1>0, <1>5 DEF HandleEvents
<1>6. ASSUME NEW l \in Loop, NewEvent(l, c) PROVE FALSE
  BY <1>0, <1>6 DEF NewEvent, IInv, Queues
<1>7. ASSUME NEW l \in Loop, Expire(l, c) PROVE FALSE
  BY <1>0, <1>7, ExpireIsGone DEF IInv, Timers
<1> QED
  BY <1>0, <1>1, <1>2, <1>3, <1>4, <1>5, <1>6, <1>7 DEF Own

LEMMA SameStranded ==
  ASSUME IInv, IInv', NEW c \in Conn, Stranded(c), Same(c)
  PROVE  Stranded(c)'
<1>1. timers'[c] = timers[c]
  BY DEF IInv, Timers, Same
<1> QED
  BY <1>1 DEF Stranded, Same, HalfClosed

-----------------------------------------------------------------------------
(* Nobody is left in the backlog.                                          *)

\* A descriptor was forgotten, and acceptChannel_ with it.
Lost == \E c \in Conn : life[c] = "leaked"

\* The listening socket is watched for input, and is on the ready list whenever
\* somebody waits and the accepting thread is not about to look.
Listening ==
  \/ Lost
  \/ /\ acc.mask = {"in"} /\ acc.lastEvents = {"in"}
     /\ acc.at = "conn" => acc.events = {"in"}
     /\ acc.at \in {"poll", "conn"} /\ Backlog # {} => acc.rdy \/ starved

\* Nothing but the listening socket and the accepting thread decides who is in
\* the backlog.
LEMMA LoopsLeaveBacklog ==
  ASSUME IInv, NEW l \in Loop, LoopStep(l)
  PROVE  /\ UNCHANGED <<acc, starved>>
         /\ \A c \in Conn : \/ life'[c] = life[c]
                            \/ life[c] \in {"queued", "open"} /\ life'[c] \in {"open", "closed"}
<1> USE DEF acceptVars
<1>1. life \in [Conn -> {"new", "backlog", "queued", "open", "closed", "leaked"}]
  BY DEF IInv, TypeOK
<1>2. CASE \/ Poll(l) \/ HandleRead(l) \/ HandleWrite(l) \/ StartPending(l) \/ EndRound(l)
           \/ \E c \in Conn : SwallowEvents(l, c) \/ HandleEvents(l, c)
  BY <1>2 DEF Poll, HandleRead, HandleWrite, StartPending, EndRound, SwallowEvents,
              HandleEvents
<1>3. ASSUME NEW d \in Conn, life[d] = "open", Close(d)
      PROVE  \A c \in Conn : \/ life'[c] = life[c]
                             \/ life[c] = "open" /\ life'[c] = "closed"
  BY <1>1, <1>3 DEF Close, Release
<1>4. CASE HandleConn(l)
  <2>1. PICK d \in Conn : d = cur[l] /\ life[d] = "open"
    BY <1>4, CurOpen DEF HandleConn
  <2>2. Rearm(l, d) \/ KeepHalfClosed(d) \/ CloseNow(d)
    BY <1>4, <2>1 DEF HandleConn
  <2> QED
    BY <1>3, <1>4, <2>1, <2>2 DEF HandleConn, Rearm, KeepHalfClosed, CloseNow
<1>5. ASSUME NEW d \in Conn, NewEvent(l, d)
      PROVE  \A c \in Conn : \/ life'[c] = life[c]
                             \/ life[c] = "queued" /\ life'[c] = "open"
  <2>1. life[d] = "queued"
    BY <1>5 DEF NewEvent, IInv, Queues
  <2> QED
    BY <1>1, <1>5, <2>1 DEF NewEvent
<1>6. ASSUME NEW d \in Conn, Expire(l, d)
      PROVE  \A c \in Conn : \/ life'[c] = life[c]
                             \/ life[c] = "open" /\ life'[c] = "closed"
  <2>1. life[d] = "open" /\ Close(d)
    BY <1>6 DEF Expire, IInv, Timers
  <2> QED
    BY <1>3, <2>1
<1>7. CASE \E d \in Conn : NewEvent(l, d)
  BY <1>5, <1>7 DEF NewEvent
<1>8. CASE \E d \in Conn : Expire(l, d)
  BY <1>6, <1>8 DEF Expire
<1> QED
  BY <1>2, <1>4, <1>7, <1>8 DEF LoopStep

LEMMA NextListening == IInv /\ Listening /\ [Next]_vars => Listening'
<1> SUFFICES ASSUME IInv, Listening, [Next]_vars PROVE Listening'
  OBVIOUS
<1>0. /\ acc \in AccType /\ starved \in BOOLEAN
      /\ life \in [Conn -> {"new", "backlog", "queued", "open", "closed", "leaked"}]
  BY DEF IInv, TypeOK, AccType
<1>1. CASE /\ UNCHANGED <<acc, starved>>
           /\ \A c \in Conn : \/ life'[c] = life[c]
                              \/ life[c] \in {"queued", "open"} /\ life'[c] \in {"open", "closed"}
  BY <1>1 DEF Listening, Lost, Backlog
<1>2. ASSUME NEW c \in Conn, Connect(c) PROVE Listening'
  <2>1. Lost => Lost'
    BY <1>0, <1>2 DEF Lost, Connect
  <2>2. /\ acc'.mask = acc.mask /\ acc'.lastEvents = acc.lastEvents
        /\ acc'.at = acc.at /\ acc'.events = acc.events
        /\ acc.mask = {"in"} => acc'.rdy
    <3>1. acc' = [acc EXCEPT !.rdy = acc.rdy \/ "in" \in acc.mask]
      BY <1>2 DEF Connect
    <3>2. acc.mask = {"in"} => acc' = [acc EXCEPT !.rdy = TRUE]
      <4>1. ASSUME acc.mask = {"in"} PROVE acc' = [acc EXCEPT !.rdy = TRUE]
        <5>1. (acc.rdy \/ "in" \in acc.mask) = TRUE
          BY <4>1
        <5> QED
          BY <3>1, <5>1
      <4> QED
        BY <4>1
    <3> QED
      BY <1>0, <3>1, <3>2 DEF AccType
  <2> QED
    BY <2>1, <2>2 DEF Listening
<1>3. CASE AcceptPoll
  <2>1. Lost => Lost'
    BY <1>3 DEF Lost, AcceptPoll
  <2>2. Backlog' = Backlog
    BY <1>3 DEF Backlog, AcceptPoll
  <2>3. /\ acc'.mask = acc.mask /\ acc'.lastEvents = acc.lastEvents
        /\ acc'.at = (IF Backlog = {} THEN "poll" ELSE "accept")
    BY <1>0, <1>3 DEF AcceptPoll, AccType
  <2> QED
    BY <2>1, <2>2, <2>3 DEF Listening
<1>4. ASSUME NEW c \in Conn, Accept(c) PROVE Listening'
  <2>1. PICK fd \in FreeFds : Refused(c) \/ Leaked(c, fd) \/ Handed(c, fd)
    BY <1>4 DEF Accept
  <2>2. acc.at = "accept" /\ life[c] = "backlog"
    BY <1>4 DEF Accept
  <2>3. CASE Leaked(c, fd)
    BY <1>0, <2>3 DEF Leaked, Listening, Lost
  <2>4. CASE Refused(c) \/ Handed(c, fd)
    <3>1. acc' = acc /\ (Lost => Lost')
      BY <1>0, <2>2, <2>4 DEF Refused, Handed, Lost
    <3> QED
      BY <2>2, <3>1 DEF Listening
  <2> QED
    BY <2>1, <2>3, <2>4
<1>5. CASE AcceptEnds
  <2>1. Lost => Lost'
    BY <1>5 DEF Lost, AcceptEnds
  <2>2. Backlog' = Backlog /\ starved' = (Backlog # {})
    BY <1>5 DEF Backlog, AcceptEnds
  <2>3. /\ acc'.mask = acc.mask /\ acc'.lastEvents = acc.lastEvents
        /\ acc'.events = {"in"}
    BY <1>0, <1>5 DEF AcceptEnds, AccType
  <2> QED
    BY <2>1, <2>2, <2>3 DEF Listening
<1>6. CASE HandThisConn
  <2>1. Lost => Lost'
    BY <1>6 DEF Lost, HandThisConn
  <2>2. Backlog' = Backlog /\ starved' = starved /\ acc.at = "conn"
    BY <1>6 DEF Backlog, HandThisConn
  <2>3. ASSUME acc.events = {"in"}, acc.lastEvents = {"in"}
        PROVE  /\ acc'.mask = {"in"} /\ acc'.lastEvents = {"in"}
               /\ acc'.rdy = acc.rdy /\ acc'.at = "poll"
    BY <1>0, <1>6, <2>3 DEF HandThisConn, AccType
  <2> QED
    BY <2>1, <2>2, <2>3 DEF Listening
<1>7. CASE \E l \in Loop : LoopStep(l)
  BY <1>1, <1>7, LoopsLeaveBacklog
<1>8. CASE UNCHANGED vars
  BY <1>1, <1>8 DEF vars, acceptVars
<1>9. CASE AcceptStep
  BY <1>3, <1>4, <1>5, <1>6, <1>9 DEF AcceptStep
<1>10. CASE \E c \in Conn : Client(c) \/ TimeOut(c)
  <2>1. ASSUME NEW c \in Conn, Send(c) \/ Finish(c) \/ Reset(c) \/ Drain(c) \/ TimeOut(c)
        PROVE  Listening'
    BY <1>1, <2>1 DEF Send, Finish, Reset, Drain, TimeOut, acceptVars
  <2> QED
    BY <1>2, <1>10, <2>1 DEF Client
<1>11. CASE ClockWraps
  BY <1>1, <1>11 DEF ClockWraps, acceptVars
<1> QED
  BY <1>7, <1>8, <1>9, <1>10, <1>11 DEF Next

-----------------------------------------------------------------------------
(* The theorems.                                                           *)

\* The state of the server keeps its shape, for any clients, loops and failures.
THEOREM TypeCorrect == SafeSpec => []TypeOK
<1>1. IInv => TypeOK
  BY DEF IInv
<1> QED
  BY <1>1, Invariant, PTL

\* A Channel never calls an HttpData that is gone (HttpData.cpp:70).
THEOREM CallbacksAlive == SafeSpec => []CallbackTargetAlive
<1>1. IInv => CallbackTargetAlive
  BY DEF IInv
<1> QED
  BY <1>1, Invariant, PTL

\* However many loops there are and however fast a descriptor is used again, no
\* table leads to a connection that had it before (Epoll.cpp:76).
THEOREM TablesAreCoherent == SafeSpec => []TablesCoherent
<1>1. IInv => TablesCoherent
  BY DEF IInv
<1> QED
  BY <1>1, Invariant, PTL

\* Every open connection that is not being handled has exactly one timer, half
\* closed ones excepted, even when epoll_ctl has failed for it (HttpData.cpp:223).
THEOREM TimersAreHeld == SafeSpec => []TimerHeld
<1>1. IInv => TimerHeld
  BY DEF IInv, Timers, TimerHeld, Handled, NotCur
<1> QED
  BY <1>1, Invariant, PTL

\* With an edge trigger an event is reported once, and handleConn sets a new mask
\* between two events.  Still no input and no room to send goes unnoticed
\* (HttpData.cpp:222-257), with any number of clients, loops and failures, except
\* on the stranded connections.
THEOREM NothingIsMissed == SafeSpec => []NothingMissed
<1>1. IInv /\ AllWatched /\ AllClosing => NothingMissed
  <2> SUFFICES ASSUME IInv, AllWatched, AllClosing, NEW c \in Conn,
                      life[c] = "open", ~Handled(c), ~sock[c].rst, ~Unregistered(c)
               PROVE  /\ (~http[c].out /\ (sock[c].rx \/ sock[c].fin)) => ep[c].rdy
                      /\ http[c].out => \/ ep[c].rdy
                                        \/ /\ sock[c].full
                                           /\ "out" \in ep[c].mask /\ ep[c].armed
                                        \/ Stranded(c)
    BY DEF NothingMissed
  <2>1. Stage(c) = "idle"
    BY StagesAlways DEF Stages
  <2>2. Calm(http[c]) /\ Fits(sock[c], ep[c], chan[c], http[c], "idle")
    BY <2>1 DEF AllWatched, Watched
  <2>3. CASE http[c].state = "connected"
    BY <2>2, <2>3 DEF Fits
  <2>4. CASE http[c].state = "disconnecting" /\ http[c].out
    <3>1. \A l \in Loop : cur[l] # c /\ c \notin ret[l]
      BY DEF Handled
    <3>2. "out" \notin ep[c].mask /\ ~linked[c]
      BY <2>4, <3>1 DEF AllClosing, Closing, NotCur, HalfClosed
    <3>3. timers[c] = 0
      BY <3>2 DEF IInv, Timers
    <3>4. ~ep[c].rdy => Stranded(c)
      BY <2>4, <3>1, <3>2, <3>3 DEF Stranded, HalfClosed
    <3> QED
      BY <2>4, <3>4
  <2> QED
    BY <2>2, <2>3, <2>4 DEF Calm
<1> QED
  BY <1>1, AlwaysClosing, PTL

\* Once a half-closed connection is left without EPOLLOUT and without a timer
\* (HttpData.cpp:252-253), nothing its client does has it handled again: it is
\* never closed, and the rest of the response is never sent.
THEOREM StrandedStays == SafeSpec => StrandedForGood
<1>1. IInv /\ AllWatched /\ AllClosing /\ [Next]_vars
        => \A c \in Conn : Stranded(c) => Stranded(c)'
  <2> SUFFICES ASSUME IInv, AllClosing, [Next]_vars, NEW c \in Conn, Stranded(c)
               PROVE  Stranded(c)'
    OBVIOUS
  <2>1. IInv' /\ Closing(c)
    BY NextInv DEF AllClosing
  <2> QED
    BY <2>1, OwnOrSame, OwnStranded, SameStranded
<1> QED
  BY <1>1, AlwaysClosing, PTL DEF SafeSpec, StrandedForGood

\* Whoever is in the backlog while the accepting thread waits will wake it
\* (Server.cpp:50), apart from the two failures NoneLeftWaiting names.
THEOREM NobodyLeftWaiting == SafeSpec => []NoneLeftWaiting
<1>1. Init => Listening
  BY DEF Init, Listening, Backlog
<1>2. IInv /\ Listening => NoneLeftWaiting
  BY DEF Listening, NoneLeftWaiting, Lost
<1> QED
  BY <1>1, <1>2, NextListening, InitInv, NextInv, PTL DEF SafeSpec
=============================================================================
