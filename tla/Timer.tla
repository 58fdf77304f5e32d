------------------------------- MODULE Timer -------------------------------
(***************************************************************************)
(* TimerManager and TimerNode (src/src/Timer.cpp): a heap of nodes ordered *)
(* by expiredTime_, swept by handleExpiredEvent at the end of a round of   *)
(* the event loop.                                                         *)
(*                                                                         *)
(* Time is counted in milliseconds: now is the real time, a variable of    *)
(* the model only; clock is what the code computes from gettimeofday,      *)
(* (tv_sec % 10000) * 1000 + tv_usec / 1000, which falls back to 0 every   *)
(* Wrap milliseconds (10^7 in the code).  Time passes between any two      *)
(* steps, within a sweep too.  A node is cleared by HttpData::seperateTimer*)
(* and stays in the heap until it reaches the top.                         *)
(***************************************************************************)
EXTENDS Integers

CONSTANTS Node,     \* heap nodes, reused once popped and freed
          Timeout,  \* the time outs in use (DEFAULT_..., KEEP_ALIVE_... )
          Wrap,     \* period of the code's clock
          MaxNow    \* bound on the real time explored

ASSUME TimerAssumption ==
  /\ Timeout \subseteq Nat
  /\ Wrap \in Nat \ {0}
  /\ MaxNow \in Nat

VARIABLES now, clock,
          timerNodeQueue,  \* the nodes in the heap
          node,            \* [born, timeout, expiredTime, deleted]
          pc               \* "idle", or "sweep" inside handleExpiredEvent

vars == <<now, clock, timerNodeQueue, node, pc>>

TimerNode == [born : Nat, timeout : Nat, expiredTime : Nat, deleted : BOOLEAN]

Init ==
  /\ clock \in 0..(Wrap - 1)
  /\ now = clock
  /\ timerNodeQueue = {}
  /\ node = [n \in Node |->
              [born |-> 0, timeout |-> 0, expiredTime |-> 0, deleted |-> TRUE]]
  /\ pc = "idle"

\* A millisecond passes.
Tick ==
  /\ now < MaxNow
  /\ now' = now + 1
  /\ clock' = IF clock = Wrap - 1 THEN 0 ELSE clock + 1
  /\ UNCHANGED <<timerNodeQueue, node, pc>>

\* Mutant of Expiry: the sum is reduced to the range of the clock as well.
ExpiryWrapped(timeout) == (clock + timeout) % Wrap

\* What the constructor stores in expiredTime_.
Expiry(timeout) == clock + timeout

\* addTimer, called by the handlers of the round and not during the sweep.
AddTimer(n, timeout) ==
  /\ pc = "idle"
  /\ n \notin timerNodeQueue
  /\ timerNodeQueue' = timerNodeQueue \cup {n}
  /\ node' = [node EXCEPT ![n] = [born |-> now, timeout |-> timeout,
                                  expiredTime |-> Expiry(timeout),
                                  deleted |-> FALSE]]
  /\ UNCHANGED <<now, clock, pc>>

\* clearReq: the node lets go of its connection and is marked deleted.
ClearReq(n) ==
  /\ pc = "idle"
  /\ n \in timerNodeQueue
  /\ node' = [node EXCEPT ![n].deleted = TRUE]
  /\ UNCHANGED <<now, clock, timerNodeQueue, pc>>

\* Mutant of IsTop: TimerCmp with < for >, the heap has its latest node on top.
IsLatest(n) ==
  /\ n \in timerNodeQueue
  /\ \A m \in timerNodeQueue : node[n].expiredTime >= node[m].expiredTime

\* The nodes top() may be: those with the least expiredTime_.
IsTop(n) ==
  /\ n \in timerNodeQueue
  /\ \A m \in timerNodeQueue : node[n].expiredTime <= node[m].expiredTime

\* isValid, as the test it makes.
IsValid(n) == clock < node[n].expiredTime

StartSweep ==
  /\ pc = "idle"
  /\ pc' = "sweep"
  /\ UNCHANGED <<now, clock, timerNodeQueue, node>>

PopDeleted(n) ==
  /\ pc = "sweep"
  /\ IsTop(n)
  /\ node[n].deleted
  /\ timerNodeQueue' = timerNodeQueue \ {n}
  /\ UNCHANGED <<now, clock, node, pc>>

\* The node is out of the heap, so its destructor closes the connection.
PopExpired(n) ==
  /\ pc = "sweep"
  /\ IsTop(n)
  /\ ~node[n].deleted
  /\ ~IsValid(n)
  /\ timerNodeQueue' = timerNodeQueue \ {n}
  /\ node' = [node EXCEPT ![n].deleted = TRUE]
  /\ UNCHANGED <<now, clock, pc>>

\* The heap is empty, or its top is neither deleted nor expired.
EndSweep ==
  /\ pc = "sweep"
  /\ \/ timerNodeQueue = {}
     \/ \E n \in timerNodeQueue : IsTop(n) /\ ~node[n].deleted /\ IsValid(n)
  /\ pc' = "idle"
  /\ UNCHANGED <<now, clock, timerNodeQueue, node>>

Next ==
  \/ Tick
  \/ \E n \in Node, t \in Timeout : AddTimer(n, t)
  \/ \E n \in Node : ClearReq(n) \/ PopDeleted(n) \/ PopExpired(n)
  \/ StartSweep
  \/ EndSweep

Spec == Init /\ [][Next]_vars

-----------------------------------------------------------------------------
(* Properties.                                                             *)

\* The shape of the state.
TypeOK ==
  /\ now \in Nat
  /\ clock \in 0..(Wrap - 1)
  /\ timerNodeQueue \subseteq Node
  /\ node \in [Node -> TimerNode]
  /\ pc \in {"idle", "sweep"}

Age(n) == now - node[n].born

\* Since n was made the code's clock has not fallen back to 0.
SameCycle(n) == Age(n) <= clock

\* The sweep pops a node whose connection it then closes (isValid,
\* Timer.cpp:41) only when the time out it was made with has really passed,
\* even if the code's clock wrapped in between.
NoEarlyExpiry ==
  [][\A n \in timerNodeQueue :
        (n \notin timerNodeQueue' /\ ~node[n].deleted)
          => Age(n) >= node[n].timeout]_vars

\* handleExpiredEvent (Timer.cpp:79) stops at a node that may stay: it leaves
\* no node, deleted or not, whose time out has passed, apart from those made
\* before the clock last wrapped.
SweepComplete ==
  [][(pc = "sweep" /\ pc' = "idle")
        => \A n \in timerNodeQueue : SameCycle(n) => Age(n) < node[n].timeout]_vars
=============================================================================
