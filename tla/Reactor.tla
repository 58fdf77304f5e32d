------------------------------ MODULE Reactor ------------------------------
(***************************************************************************)
(* The life of a connection in webd: Server accepts it and hands it to one *)
(* of the loops (Server.cpp, EventLoopThreadPool.cpp); that loop's Epoll   *)
(* keeps it in fd2chan_ and fd2http_ (Epoll.cpp), its Channel dispatches   *)
(* the events (Channel.h), and HttpData reads, answers, re-arms and closes *)
(* it (HttpData.cpp); its timer closes it when it is idle (Timer.cpp).     *)
(*                                                                         *)
(* Concurrent are the accepting thread, the threads of the loops and the   *)
(* peers.  Data is reduced to what the control depends on: unread input,   *)
(* unsent output, a full send buffer.  What the parser makes of the input  *)
(* is any of the outcomes handleRead tells apart.  A shared_ptr keeps an   *)
(* HttpData alive while a functor, fd2http_ or a timer node that was not   *)
(* cleared refers to it; its destructor closes the descriptor.             *)
(*                                                                         *)
(* Other threads open files, so a descriptor the accepting thread is given *)
(* may be one it does not serve, or there may be none.  epoll_ctl, and the *)
(* fcntl on a new socket, may fail MaxFaults times.                        *)
(*                                                                         *)
(* Left out: the queueing inside a loop, which EventLoop models.           *)
(***************************************************************************)
EXTENDS Integers, FiniteSets

FS == INSTANCE FiniteSetsExt

CONSTANTS Conn,      \* the connections clients make
          None,
          NumLoops,  \* IO loops (threadNum)
          Fd,        \* descriptors the process may be given
          MAXFDS,    \* those below it are served
          MaxMoves,  \* bound on what clients do once connected, and on the
                     \* wraps of the clock
          MaxFaults, \* bound on the failures of epoll_ctl and fcntl
          Traffic    \* whether other connections keep every loop busy

ASSUME ReactorAssumption ==
  /\ None \notin Conn
  /\ NumLoops \in Nat \ {0}
  /\ Fd \subseteq Nat
  /\ MAXFDS \in Nat
  /\ MaxMoves \in Nat
  /\ MaxFaults \in Nat
  /\ Traffic \in BOOLEAN

Loop == 0..(NumLoops - 1)

VARIABLES
  life,      \* of a connection: "new", "backlog", "queued", "open", "closed";
             \* "leaked" when handNewConn forgot its descriptor
  sock,      \* its socket: unread data, peer's FIN, reset, full send buffer
  moves,     \* times a client has done something once connected, or the clock
             \* has wrapped
  ep,        \* the kernel's epoll entry: mask, whether armed, on the ready list
  chan,      \* Channel: events_, lastEvents_, revents_ while it is handled
  http,      \* HttpData: fd_, loop_, connectionState_, error_, outBuffer_ # ""
  timers,    \* timer nodes that still refer to the connection
  linked,    \* whether timer_ points to one of them
  due,       \* whether one of them has expired
  endless,   \* whether one of them was overtaken by a wrap of the clock, and
             \* will never expire
  fd2chan, fd2http,  \* the tables of each loop's Epoll
  acc,       \* the accepting thread in its round, the epoll entry of the
             \* listening socket and acceptChannel_
  starved,   \* accept failed, and nobody has connected since (history)
  faults,    \* failures so far
  next,      \* next_ of EventLoopThreadPool
  pending,   \* newEvent functors queued for each loop
  functors,  \* those swapped out by doPendingFunctors
  pc,        \* of each loop: "poll", "events", "read", "write", "conn",
             \* "pending" (doPendingFunctors, handleExpired)
  cur,       \* the connection whose Channel is in handleEvents
  ret        \* active channels still to be handled

timerVars == <<timers, linked, due, endless>>
tableVars == <<fd2chan, fd2http>>
acceptVars == <<acc, starved, next, pending>>
loopVars == <<functors, pc, cur, ret>>
vars == <<life, sock, moves, faults, ep, chan, http, timerVars, tableVars,
          acceptVars, loopVars>>

Idle == [mask |-> {}, armed |-> FALSE, rdy |-> FALSE]
NewSocket == [rx |-> FALSE, fin |-> FALSE, rst |-> FALSE, full |-> FALSE]
NewChannel == [events |-> {}, lastEvents |-> {}, revents |-> {}]
NewHttpData == [fd |-> 0, loop |-> 0, state |-> "connected", error |-> FALSE,
                out |-> FALSE]

Init ==
  /\ life = [c \in Conn |-> "new"]
  /\ sock = [c \in Conn |-> NewSocket]
  /\ moves = 0
  /\ ep = [c \in Conn |-> Idle]
  /\ chan = [c \in Conn |-> NewChannel]
  /\ http = [c \in Conn |-> NewHttpData]
  /\ timers = [c \in Conn |-> 0]
  /\ linked = [c \in Conn |-> FALSE]
  /\ due = [c \in Conn |-> FALSE]
  /\ endless = [c \in Conn |-> FALSE]
  /\ fd2chan = [l \in Loop |-> [f \in Fd |-> None]]
  /\ fd2http = [l \in Loop |-> [f \in Fd |-> None]]
  /\ acc = [at |-> "poll", mask |-> {"in"}, rdy |-> FALSE, events |-> {"in"},
            lastEvents |-> {"in"}]
  /\ starved = FALSE
  /\ faults = 0
  /\ next = 0
  /\ pending = [l \in Loop |-> {}]
  /\ functors = [l \in Loop |-> {}]
  /\ pc = [l \in Loop |-> "poll"]
  /\ cur = [l \in Loop |-> None]
  /\ ret = [l \in Loop |-> {}]

\* The descriptor of the connection is open.
Alive(c) == life[c] \in {"queued", "open"}

-----------------------------------------------------------------------------
(* The kernel: a socket's readiness and the epoll entry.                   *)

Ready(s) ==
  (IF s.rx \/ s.fin \/ s.rst THEN {"in"} ELSE {})
    \cup (IF ~s.full \/ s.rst THEN {"out"} ELSE {})
    \cup (IF s.rst THEN {"err", "hup"} ELSE {})

\* What an armed entry reports.
Reports(s, mask) == Ready(s) \cap (mask \cup {"err", "hup"})

\* EPOLL_CTL_ADD and EPOLL_CTL_MOD look at the socket at once.
Armed(s, mask) == [mask |-> mask, armed |-> TRUE, rdy |-> Reports(s, mask) # {}]

\* A wakeup of the socket for any of these bits puts the entry on the ready list.
Edge(c, bits) ==
  ep' = [ep EXCEPT ![c].rdy = @ \/ (ep[c].armed /\ bits \cap ep[c].mask # {})]

-----------------------------------------------------------------------------
(* The clients.                                                            *)

Connect(c) ==
  /\ life[c] = "new"
  /\ life' = [life EXCEPT ![c] = "backlog"]
  /\ acc' = [acc EXCEPT !.rdy = @ \/ "in" \in acc.mask]
  /\ starved' = FALSE
  /\ UNCHANGED <<sock, moves, faults, ep, chan, http, timerVars, tableVars, next, pending,
                 loopVars>>

\* What a client does in the backlog is as if done once it is accepted.
Connected(c) == Alive(c) /\ ~sock[c].rst

\* The FIN may come with the last of the data.  It and a reset wake the entry
\* whatever it asked for.
Send(c) ==
  /\ Connected(c) /\ ~sock[c].fin /\ ~sock[c].rx
  /\ moves < MaxMoves
  /\ moves' = moves + 1
  /\ \E last \in BOOLEAN :
        /\ sock' = [sock EXCEPT ![c].rx = TRUE, ![c].fin = last]
        /\ Edge(c, IF last THEN ep[c].mask ELSE {"in"})
  /\ UNCHANGED <<life, faults, chan, http, timerVars, tableVars, acceptVars, loopVars>>

Finish(c) ==
  /\ Connected(c) /\ ~sock[c].fin
  /\ moves < MaxMoves
  /\ moves' = moves + 1
  /\ sock' = [sock EXCEPT ![c].fin = TRUE]
  /\ Edge(c, ep[c].mask)
  /\ UNCHANGED <<life, faults, chan, http, timerVars, tableVars, acceptVars, loopVars>>

Reset(c) ==
  /\ Connected(c)
  /\ moves < MaxMoves
  /\ moves' = moves + 1
  /\ sock' = [sock EXCEPT ![c].rst = TRUE]
  /\ Edge(c, ep[c].mask)
  /\ UNCHANGED <<life, faults, chan, http, timerVars, tableVars, acceptVars, loopVars>>

\* The client reads what it was sent, and the send buffer has room again.
Drain(c) ==
  /\ Connected(c) /\ sock[c].full
  /\ moves < MaxMoves
  /\ moves' = moves + 1
  /\ sock' = [sock EXCEPT ![c].full = FALSE]
  /\ Edge(c, {"out"})
  /\ UNCHANGED <<life, faults, chan, http, timerVars, tableVars, acceptVars,
                 loopVars>>

Client(c) == Connect(c) \/ Send(c) \/ Finish(c) \/ Reset(c) \/ Drain(c)

-----------------------------------------------------------------------------
(* The accepting thread: a round of its loop, with the listening channel.  *)

Backlog == {c \in Conn : life[c] = "backlog"}

\* handNewConn never closes a descriptor it could not make non-blocking.
FreeFds == Fd \ {http[c].fd : c \in {d \in Conn : Alive(d) \/ life[d] = "leaked"}}

\* Mutant of NextLoop: the reduction is forgotten.
NextLoopUnreduced == next + 1

\* getNextLoop: round robin.
NextLoop == (next + 1) % NumLoops

AcceptPoll ==
  /\ acc.at = "poll"
  /\ acc.rdy
  /\ acc' = IF Backlog = {} THEN [acc EXCEPT !.rdy = FALSE]
            ELSE [acc EXCEPT !.rdy = FALSE, !.at = "accept", !.events = {}]
  /\ UNCHANGED <<life, http, starved, faults, next, pending>>

\* What becomes of the connection a descriptor was given to.
Refused(c) ==
  /\ life' = [life EXCEPT ![c] = "closed"]
  /\ UNCHANGED <<http, pending, acc, faults>>

Leaked(c, fd) ==
  /\ faults < MaxFaults
  /\ faults' = faults + 1
  /\ life' = [life EXCEPT ![c] = "leaked"]
  /\ http' = [http EXCEPT ![c].fd = fd]
  /\ acc' = [acc EXCEPT !.at = "conn"]
  /\ UNCHANGED pending

Handed(c, fd) ==
  /\ life' = [life EXCEPT ![c] = "queued"]
  /\ http' = [http EXCEPT ![c].fd = fd, ![c].loop = next]
  /\ pending' = [pending EXCEPT ![next] = @ \cup {c}]
  /\ UNCHANGED <<acc, faults>>

\* Mutant of Accept: one connection per event, as with a level trigger.
AcceptOne(c) ==
  /\ acc.at = "accept"
  /\ life[c] = "backlog"
  /\ next' = NextLoop
  /\ \E fd \in FreeFds :
        /\ fd = FS!Min(FreeFds)
        /\ life' = [life EXCEPT ![c] = "queued"]
        /\ http' = [http EXCEPT ![c].fd = fd, ![c].loop = next]
        /\ pending' = [pending EXCEPT ![next] = @ \cup {c}]
        /\ acc' = [acc EXCEPT !.at = "conn", !.events = {"in"}]
  /\ UNCHANGED <<starved, faults>>

\* One turn of the loop of handNewConn: the lowest descriptor, or a higher one
\* if files are open.  The loop is chosen before the limit is looked at, so a
\* refused connection takes a turn too.
Accept(c) ==
  /\ acc.at = "accept"
  /\ life[c] = "backlog"
  /\ next' = NextLoop
  /\ \E fd \in FreeFds :
        \/ fd >= MAXFDS /\ Refused(c)
        \/ fd < MAXFDS /\ fd = FS!Min(FreeFds) /\ (Leaked(c, fd) \/ Handed(c, fd))
  /\ UNCHANGED starved

\* accept finds nobody, or no descriptor.
AcceptEnds ==
  /\ acc.at = "accept"
  /\ starved' = (Backlog # {})
  /\ acc' = [acc EXCEPT !.at = "conn", !.events = {"in"}]
  /\ UNCHANGED <<life, http, faults, next, pending>>

\* handThisConn: epoll_mod, which looks at the socket only if the mask changed.
HandThisConn ==
  /\ acc.at = "conn"
  /\ LET mask == acc.events
     IN acc' = [acc EXCEPT !.at = "poll", !.lastEvents = mask, !.mask = mask,
                           !.rdy = IF acc.lastEvents = mask THEN @
                                   ELSE "in" \in mask /\ Backlog # {}]
  /\ UNCHANGED <<life, http, starved, faults, next, pending>>

AcceptStep ==
  /\ AcceptPoll \/ AcceptEnds \/ HandThisConn \/ \E c \in Conn : Accept(c)
  /\ UNCHANGED <<sock, moves, ep, chan, timerVars, tableVars, loopVars>>

-----------------------------------------------------------------------------
(* Timers and tables.                                                      *)

\* Mutant of AddTimer: the connection is registered with a time out of 0.
AddTimerNever(c) == UNCHANGED timerVars

\* TimerManager::addTimer and linkTimer.
AddTimer(c) ==
  /\ timers' = [timers EXCEPT ![c] = @ + 1]
  /\ linked' = [linked EXCEPT ![c] = TRUE]
  /\ due' = [due EXCEPT ![c] = @ /\ timers[c] > 0]
  /\ endless' = [endless EXCEPT ![c] = @ /\ timers[c] > 0]

\* seperateTimer: the node timer_ points to lets go of the connection.
ClearTimer(c) ==
  /\ timers' = [timers EXCEPT ![c] = IF linked[c] THEN @ - 1 ELSE @]
  /\ linked' = [linked EXCEPT ![c] = FALSE]
  /\ due' = [due EXCEPT ![c] = @ /\ timers'[c] > 0]
  /\ endless' = [endless EXCEPT ![c] = @ /\ timers'[c] > 0]

\* seperateTimer, then addTimer.
RenewTimer(c) ==
  /\ timers' = [timers EXCEPT ![c] = IF linked[c] THEN @ ELSE @ + 1]
  /\ linked' = [linked EXCEPT ![c] = TRUE]
  /\ due' = [due EXCEPT ![c] = @ /\ ~linked[c] /\ timers[c] > 0]
  /\ endless' = [endless EXCEPT ![c] = @ /\ ~linked[c] /\ timers[c] > 0]

\* Time passes, and a node of the connection expires.
TimeOut(c) ==
  /\ timers[c] > 0
  /\ ~due[c]
  /\ ~endless[c]
  /\ due' = [due EXCEPT ![c] = TRUE]
  /\ UNCHANGED <<life, sock, moves, faults, ep, chan, http, timers, linked, endless,
                 tableVars, acceptVars, loopVars>>

\* The clock that isValid compares with, reduced modulo 10^7, falls back to 0.
\* A node not yet due then has an expiredTime_ of at least 10^7, which the clock
\* never reaches; one that was due and not yet swept becomes due again later.
ClockWraps ==
  /\ moves < MaxMoves
  /\ moves' = moves + 1
  /\ endless' = [c \in Conn |-> endless[c] \/ (timers[c] > 0 /\ ~due[c])]
  /\ due' = [c \in Conn |-> FALSE]
  /\ UNCHANGED <<life, sock, faults, ep, chan, http, timers, linked, tableVars,
                 acceptVars, loopVars>>

\* The HttpData, of which h is left, is destroyed with its Channel and its
\* descriptor when no fd2http_ and no timer node refers to it any more.
Release(c, h) ==
  LET held == timers'[c] > 0 \/ \E l \in Loop, f \in Fd : fd2http'[l][f] = c
  IN IF held
     THEN http' = [http EXCEPT ![c] = h] /\ UNCHANGED <<life, sock, chan>>
     ELSE /\ life' = [life EXCEPT ![c] = "closed"]
          /\ sock' = [sock EXCEPT ![c] = NewSocket]
          /\ chan' = [chan EXCEPT ![c] = NewChannel]
          /\ http' = [http EXCEPT ![c] = NewHttpData]

\* Mutant of Close: epoll_del leaves fd2chan_ alone.
CloseKeepingChannel(c) ==
  LET h == http[c]
  IN /\ ep' = [ep EXCEPT ![c] = Idle]
     /\ fd2http' = [fd2http EXCEPT ![h.loop][h.fd] = None]
     /\ Release(c, [h EXCEPT !.state = "disconnected"])
     /\ UNCHANGED fd2chan

\* HttpData::handleClose and Epoll::epoll_del.
Close(c) ==
  LET h == http[c]
  IN /\ ep' = [ep EXCEPT ![c] = Idle]
     /\ fd2chan' = [fd2chan EXCEPT ![h.loop][h.fd] = None]
     /\ fd2http' = [fd2http EXCEPT ![h.loop][h.fd] = None]
     /\ Release(c, [h EXCEPT !.state = "disconnected"])

-----------------------------------------------------------------------------
(* A loop: epoll_wait.                                                     *)

OnReadyList(l) == {c \in Conn : life[c] = "open" /\ http[c].loop = l /\ ep[c].rdy}

\* epoll_wait returns it; getEventsRequest drops what fd2chan_ does not know.
Returned(l) == {c \in OnReadyList(l) :
                  ep[c].armed /\ Reports(sock[c], ep[c].mask) # {}}

Reported(l) == {c \in Returned(l) : fd2chan[l][http[c].fd] = c}

\* Epoll::poll: one look at the ready list, and getEventsRequest.  It returns
\* when something is reported, a functor has woken the loop, or another
\* connection is active.
Poll(l) ==
  /\ pc[l] = "poll"
  /\ OnReadyList(l) # {} \/ pending[l] # {} \/ Traffic
  /\ ret' = [ret EXCEPT ![l] = Reported(l)]
  /\ chan' = [c \in Conn |->
                IF c \in Reported(l)
                THEN [chan[c] EXCEPT !.events = {},
                                     !.revents = Reports(sock[c], ep[c].mask)]
                ELSE chan[c]]
  /\ ep' = [c \in Conn |->
              IF c \in OnReadyList(l)
              THEN [ep[c] EXCEPT !.rdy = FALSE,
                                 !.armed = @ /\ ~(/\ c \in Returned(l)
                                                  /\ "oneshot" \in ep[c].mask)]
              ELSE ep[c]]
  /\ \/ /\ Reported(l) # {} \/ pending[l] # {} \/ Traffic
        /\ pc' = [pc EXCEPT ![l] = "events"]
     \/ /\ Reported(l) = {} /\ pending[l] = {}
        /\ UNCHANGED pc
  /\ UNCHANGED <<life, sock, moves, faults, http, timerVars, tableVars, acceptVars,
                 functors, cur>>

-----------------------------------------------------------------------------
(* A loop: Channel::handleEvents.                                          *)

\* Mutant of Swallowed: an error alone does not end the dispatch.
SwallowedHangUp(revents) == "hup" \in revents /\ "in" \notin revents

\* A hang-up without input, or an error: nothing is called, not even the
\* connection handler.
Swallowed(revents) ==
  ("hup" \in revents /\ "in" \notin revents) \/ "err" \in revents

\* Mutant of SwallowEvents: the timer is cleared before the dispatch, as the
\* line commented out in getEventsRequest did.
SwallowEventsUntimed(l, c) ==
  /\ pc[l] = "events"
  /\ c \in ret[l]
  /\ Swallowed(chan[c].revents)
  /\ chan' = [chan EXCEPT ![c].events = {}, ![c].revents = {}]
  /\ ret' = [ret EXCEPT ![l] = @ \ {c}]
  /\ ClearTimer(c)
  /\ UNCHANGED <<life, sock, moves, faults, ep, http, tableVars, acceptVars, functors,
                 pc, cur>>

SwallowEvents(l, c) ==
  /\ pc[l] = "events"
  /\ c \in ret[l]
  /\ Swallowed(chan[c].revents)
  /\ chan' = [chan EXCEPT ![c].events = {}, ![c].revents = {}]
  /\ ret' = [ret EXCEPT ![l] = @ \ {c}]
  /\ UNCHANGED <<life, sock, moves, faults, ep, http, timerVars, tableVars, acceptVars,
                 functors, pc, cur>>

HandleEvents(l, c) ==
  /\ pc[l] = "events"
  /\ c \in ret[l]
  /\ ~Swallowed(chan[c].revents)
  /\ chan' = [chan EXCEPT ![c].events = {}]
  /\ ret' = [ret EXCEPT ![l] = @ \ {c}]
  /\ cur' = [cur EXCEPT ![l] = c]
  /\ pc' = [pc EXCEPT ![l] = IF "in" \in chan[c].revents THEN "read" ELSE "write"]
  /\ UNCHANGED <<life, sock, moves, faults, ep, http, timerVars, tableVars, acceptVars,
                 functors>>

-----------------------------------------------------------------------------
(* A loop: the handlers of HttpData.  A result is the HttpData, the socket *)
(* and the events_ a handler leaves, and whether it called reset().        *)

Result(h, s, ev) == [http |-> h, sock |-> s, events |-> ev, reset |-> FALSE]

\* handleWrite: all is sent, or the send buffer fills up, or the write fails.
WriteResults(r) ==
  IF r.http.error \/ r.http.state = "disconnected" \/ ~r.http.out THEN {r}
  ELSE IF r.sock.rst THEN {[r EXCEPT !.http.error = TRUE, !.events = {}]}
  ELSE {[r EXCEPT !.sock.full = TRUE, !.events = @ \cup {"out"}]}
         \cup (IF r.sock.full THEN {} ELSE {[r EXCEPT !.http.out = FALSE]})

\* The end of handleRead for an unfinished request.
AgainResults(r) ==
  {IF w.http.error THEN w ELSE [w EXCEPT !.events = @ \cup {"in"}]
     : w \in WriteResults(r)}

\* handleError: the request is refused.
Fail(r) == [r EXCEPT !.http.error = TRUE]

\* The end of handleRead for an answered request.  What follows it in
\* inBuffer_ is parsed at once, unless the client has finished.
AnswerResults(r) ==
  LET w == {IF x.http.error THEN x ELSE [x EXCEPT !.reset = TRUE]
              : x \in WriteResults([r EXCEPT !.http.out = TRUE])}
      more == {x \in w : x.reset /\ x.http.state = "connected"}
  IN w \cup {[x EXCEPT !.events = @ \cup {"in"}] : x \in more}
       \cup {Fail(x) : x \in more}

\* handleRead: the socket is read until it is empty, then parsed.
ReadResults(c) ==
  LET s == [sock[c] EXCEPT !.rx = FALSE]
      r == Result(http[c], s, chan[c].events)
      finished == [r EXCEPT !.http.state = "disconnecting"]
      parsed == IF s.fin THEN finished ELSE r
  IN IF s.rst THEN {Fail(r)}
     ELSE IF http[c].state = "disconnecting" THEN AgainResults(r)
     ELSE IF s.fin /\ ~sock[c].rx THEN AgainResults(finished)
     ELSE AgainResults(parsed) \cup {Fail(parsed)} \cup AnswerResults(parsed)

Leave(c, r) ==
  /\ http' = [http EXCEPT ![c] = r.http]
  /\ sock' = [sock EXCEPT ![c] = r.sock]
  /\ chan' = [chan EXCEPT ![c].events = r.events]

\* reset() clears the timer, as handleConn will in any case.
HandleRead(l) ==
  /\ pc[l] = "read"
  /\ \E r \in ReadResults(cur[l]) :
        /\ Leave(cur[l], r)
        /\ IF r.reset THEN ClearTimer(cur[l]) ELSE UNCHANGED timerVars
  /\ pc' = [pc EXCEPT ![l] = IF "out" \in chan[cur[l]].revents THEN "write"
                             ELSE "conn"]
  /\ UNCHANGED <<life, moves, faults, ep, tableVars, acceptVars, functors, cur, ret>>

HandleWrite(l) ==
  /\ pc[l] = "write"
  /\ LET c == cur[l]
     IN \E r \in WriteResults(Result(http[c], sock[c], chan[c].events)) : Leave(c, r)
  /\ pc' = [pc EXCEPT ![l] = "conn"]
  /\ UNCHANGED <<life, moves, faults, ep, timerVars, tableVars, acceptVars, functors,
                 cur, ret>>

\* Mutant of NextEvents: EPOLLONESHOT is set again, as in the lines commented
\* out in handleConn.
NextEventsOneShot(events) ==
  {"oneshot"} \cup (IF events = {} THEN {"in"}
                    ELSE IF {"in", "out"} \subseteq events THEN {"out"} ELSE events)

\* The mask handleConn asks for next.
NextEvents(events) ==
  IF events = {} THEN {"in"}
  ELSE IF {"in", "out"} \subseteq events THEN {"out"} ELSE events

\* epoll_ctl for connection c of loop l: it takes effect, or the channel is
\* forgotten.
Control(l, c, mask) ==
  \/ /\ ep' = [ep EXCEPT ![c] = Armed(sock[c], mask)]
     /\ fd2chan' = [fd2chan EXCEPT ![l][http[c].fd] = c]
     /\ UNCHANGED faults
  \/ /\ faults < MaxFaults
     /\ faults' = faults + 1
     /\ fd2chan' = [fd2chan EXCEPT ![l][http[c].fd] = None]
     /\ UNCHANGED ep

\* handleConn, connected: re-arm and give a new timer.  epoll_mod leaves the
\* kernel alone when the mask is the one it has.
Rearm(l, c) ==
  LET mask == NextEvents(chan[c].events)
  IN /\ RenewTimer(c)
     /\ chan' = [chan EXCEPT ![c] = [events |-> mask, lastEvents |-> mask,
                                      revents |-> {}]]
     /\ IF chan[c].lastEvents = mask THEN UNCHANGED <<ep, fd2chan, faults>>
        ELSE Control(l, c, mask)
     /\ UNCHANGED <<life, sock, http, fd2http>>

\* handleConn, the client has finished and output is left.
KeepHalfClosed(c) ==
  /\ ClearTimer(c)
  /\ chan' = [chan EXCEPT ![c].events = {"out"}, ![c].revents = {}]
  /\ UNCHANGED <<life, sock, ep, http, tableVars, faults>>

CloseNow(c) ==
  /\ ClearTimer(c)
  /\ Close(c)
  /\ UNCHANGED faults

HandleConn(l) ==
  /\ pc[l] = "conn"
  /\ LET c == cur[l]
         h == http[c]
     IN \/ ~h.error /\ h.state = "connected" /\ Rearm(l, c)
        \/ /\ ~h.error /\ h.state = "disconnecting" /\ "out" \in chan[c].events
           /\ KeepHalfClosed(c)
        \/ /\ \/ h.error
              \/ h.state = "disconnected"
              \/ h.state = "disconnecting" /\ "out" \notin chan[c].events
           /\ CloseNow(c)
  /\ pc' = [pc EXCEPT ![l] = "events"]
  /\ cur' = [cur EXCEPT ![l] = None]
  /\ UNCHANGED <<moves, acceptVars, functors, ret>>

-----------------------------------------------------------------------------
(* A loop: doPendingFunctors and handleExpired.                            *)

StartPending(l) ==
  /\ pc[l] = "events"
  /\ ret[l] = {}
  /\ functors' = [functors EXCEPT ![l] = pending[l]]
  /\ pending' = [pending EXCEPT ![l] = {}]
  /\ pc' = [pc EXCEPT ![l] = "pending"]
  /\ UNCHANGED <<life, sock, moves, faults, ep, chan, http, timerVars, tableVars, acc,
                 starved, next, cur, ret>>

DEFAULT_EVENT == {"in", "oneshot"}

\* HttpData::newEvent and Epoll::epoll_add.
NewEvent(l, c) ==
  /\ pc[l] = "pending"
  /\ c \in functors[l]
  /\ functors' = [functors EXCEPT ![l] = @ \ {c}]
  /\ life' = [life EXCEPT ![c] = "open"]
  /\ AddTimer(c)
  /\ chan' = [chan EXCEPT ![c].events = DEFAULT_EVENT,
                          ![c].lastEvents = DEFAULT_EVENT]
  /\ Control(l, c, DEFAULT_EVENT)
  /\ fd2http' = [fd2http EXCEPT ![l][http[c].fd] = c]
  /\ UNCHANGED <<sock, moves, http, acceptVars, pc, cur, ret>>

\* Mutant of Sweeping: the timers are also swept before the events are handled.
SweepingEarly(l) == pc[l] \in {"events", "pending"} /\ functors[l] = {}

\* handleExpired comes last in a round, after doPendingFunctors.
Sweeping(l) == pc[l] = "pending" /\ functors[l] = {}

\* The destructor of an expired node closes the connection it refers to.
Expire(l, c) ==
  /\ Sweeping(l)
  /\ http[c].loop = l
  /\ due[c]
  /\ timers' = [timers EXCEPT ![c] = @ - 1]
  /\ linked' = [linked EXCEPT ![c] = FALSE]
  /\ due' = [due EXCEPT ![c] = FALSE]
  /\ endless' = [endless EXCEPT ![c] = FALSE]
  /\ Close(c)
  /\ UNCHANGED <<moves, faults, acceptVars, loopVars>>

\* The sweep stops when no node that is due is left.
EndRound(l) ==
  /\ pc[l] = "pending" /\ functors[l] = {}
  /\ ~ \E c \in Conn : http[c].loop = l /\ due[c]
  /\ pc' = [pc EXCEPT ![l] = "poll"]
  /\ UNCHANGED <<life, sock, moves, faults, ep, chan, http, timerVars, tableVars,
                 acceptVars, functors, cur, ret>>

LoopStep(l) ==
  \/ Poll(l) \/ HandleRead(l) \/ HandleWrite(l) \/ HandleConn(l)
  \/ StartPending(l) \/ EndRound(l)
  \/ \E c \in Conn : SwallowEvents(l, c) \/ HandleEvents(l, c) \/ NewEvent(l, c)
                       \/ Expire(l, c)

Next ==
  \/ \E c \in Conn : Client(c) \/ TimeOut(c)
  \/ ClockWraps
  \/ AcceptStep
  \/ \E l \in Loop : LoopStep(l)

SafeSpec == Init /\ [][Next]_vars

\* The threads are scheduled, and time passes, so that a node expires unless the
\* clock wraps first; a client owes nothing.
Spec ==
  /\ SafeSpec
  /\ \A l \in Loop : WF_vars(LoopStep(l))
  /\ WF_vars(AcceptStep)
  /\ \A c \in Conn : WF_vars(TimeOut(c))

-----------------------------------------------------------------------------
(* Properties.                                                             *)

Bits == {"in", "out", "err", "hup"}
Mask == {"in", "out", "oneshot"}

\* The shape of the state.
TypeOK ==
  /\ life \in [Conn -> {"new", "backlog", "queued", "open", "closed", "leaked"}]
  /\ sock \in [Conn -> [rx : BOOLEAN, fin : BOOLEAN, rst : BOOLEAN, full : BOOLEAN]]
  /\ moves \in Nat
  /\ ep \in [Conn -> [mask : SUBSET Mask, armed : BOOLEAN, rdy : BOOLEAN]]
  /\ chan \in [Conn -> [events : SUBSET Mask, lastEvents : SUBSET Mask,
                        revents : SUBSET Bits]]
  /\ http \in [Conn -> [fd : Nat, loop : Loop,
                        state : {"connected", "disconnecting", "disconnected"},
                        error : BOOLEAN, out : BOOLEAN]]
  /\ timers \in [Conn -> Nat]
  /\ linked \in [Conn -> BOOLEAN]
  /\ due \in [Conn -> BOOLEAN]
  /\ endless \in [Conn -> BOOLEAN]
  /\ fd2chan \in [Loop -> [Fd -> Conn \cup {None}]]
  /\ fd2http \in [Loop -> [Fd -> Conn \cup {None}]]
  /\ acc \in [at : {"poll", "accept", "conn"}, mask : SUBSET {"in"}, rdy : BOOLEAN,
              events : SUBSET {"in"}, lastEvents : SUBSET {"in"}]
  /\ starved \in BOOLEAN
  /\ faults \in 0..MaxFaults
  /\ next \in Loop
  /\ pending \in [Loop -> SUBSET Conn]
  /\ functors \in [Loop -> SUBSET Conn]
  /\ pc \in [Loop -> {"poll", "events", "read", "write", "conn", "pending"}]
  /\ cur \in [Loop -> Conn \cup {None}]
  /\ ret \in [Loop -> SUBSET Conn]

Handled(c) == \E l \in Loop : c \in ret[l] \/ cur[l] = c

\* The callbacks a Channel holds point to its HttpData by a raw this
\* (HttpData.cpp:70): whenever a loop is about to call one, or is inside one,
\* that HttpData exists and belongs to the loop.
CallbackTargetAlive ==
  \A l \in Loop, c \in Conn :
    (c \in ret[l] \/ cur[l] = c) => life[c] = "open" /\ http[c].loop = l

\* No client is left waiting: when the accepting thread is back in epoll_wait,
\* the listening socket is on the ready list as long as somebody is in its
\* backlog (Server.cpp:50), apart from two failures.  After accept has failed
\* they wait for the next client, and after fcntl has failed for ever.
NoneLeftWaiting ==
  (acc.at = "poll" /\ Backlog # {})
    => acc.rdy \/ starved \/ \E c \in Conn : life[c] = "leaked"

\* A descriptor number is used again as soon as it is closed: no table of any
\* loop still leads from it to the connection that had it before
\* (Epoll.cpp:76).  An open connection is in the tables of its own loop; only
\* when epoll_ctl has failed is it in fd2http_ alone (Epoll.cpp:53, 67).
TablesCoherent ==
  /\ \A l \in Loop, f \in Fd :
        /\ fd2chan[l][f] \in {fd2http[l][f]} \cup (IF faults > 0 THEN {None} ELSE {})
        /\ \A c \in Conn :
              fd2http[l][f] = c => life[c] = "open" /\ http[c].fd = f /\ http[c].loop = l
  /\ \A c \in Conn :
        life[c] = "open" => fd2http[http[c].loop][http[c].fd] = c

HalfClosed(c) == http[c].state = "disconnecting" /\ http[c].out

\* epoll_ctl failed for it.
Unregistered(c) == fd2chan[http[c].loop][http[c].fd] # c

\* What handleConn makes of a half-closed connection whose output did not fit
\* into the send buffer (HttpData.cpp:252-253): EPOLLOUT is put into events_ and
\* not passed to the poller, the timer has been cleared, and no event that would
\* call a handler is under way.
Stranded(c) ==
  /\ life[c] = "open"
  /\ HalfClosed(c)
  /\ timers[c] = 0
  /\ "out" \notin ep[c].mask
  /\ ep[c].rdy => sock[c].rst
  /\ \A l \in Loop : cur[l] # c /\ (c \in ret[l] => Swallowed(chan[c].revents))

\* Nothing else calls back a connection that is not being handled, so
\* edge-triggered epoll must still have something for it (HttpData.cpp:222-257):
\* unread input or the client's FIN when no output is left, room to send when
\* there is some, and when there is no room, an armed entry that asks for it.
\* The stranded ones have none, and what is left of their response is never
\* sent.  Connections that were reset or lost by epoll_ctl wait for their timer.
NothingMissed ==
  \A c \in Conn :
    (life[c] = "open" /\ ~Handled(c) /\ ~sock[c].rst /\ ~Unregistered(c))
      => /\ (~http[c].out /\ (sock[c].rx \/ sock[c].fin)) => ep[c].rdy
         /\ http[c].out => \/ ep[c].rdy
                           \/ sock[c].full /\ "out" \in ep[c].mask /\ ep[c].armed
                           \/ Stranded(c)

\* There is no way out for a stranded connection: whatever its client does, reads
\* the response, or resets the connection, and however long it takes, no handler
\* is called for it, the rest of its response is never sent, and its descriptor
\* stays open (HttpData.cpp:252-253, Channel.h:94-110).
StrandedForGood == [][\A c \in Conn : Stranded(c) => Stranded(c)']_vars

\* An open connection that is not being handled has a timer, which is all that
\* can end a silent or a lost one; half-closed connections with output are
\* excepted.  And it has no other: a node that timer_ does not reach, and
\* seperateTimer (HttpData.cpp:91) cannot clear, would close an active one.
TimerHeld ==
  \A c \in Conn :
    /\ timers[c] = (IF linked[c] THEN 1 ELSE 0)
    /\ (life[c] = "open" /\ ~Handled(c) /\ ~HalfClosed(c)) => linked[c]

\* Every connection that was accepted is closed in the end, apart from two kinds
\* the code keeps for ever: the stranded ones, and those whose timer node the
\* clock has overtaken (Timer.cpp:22, 41-51).  Each is made once, so again and
\* again there are no others left.
Reaped == []<>(\A c \in Conn : Alive(c) => Stranded(c) \/ endless[c])
=============================================================================
