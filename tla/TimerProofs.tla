---------------------------- MODULE TimerProofs ----------------------------
(***************************************************************************)
(* Proofs about Timer for any set of nodes, of time outs and any period of *)
(* the code's clock, and without a bound on time.                          *)
(***************************************************************************)
EXTENDS Timer, TLAPS

\* The state keeps its shape in every step.
THEOREM TypeCorrect == Spec => []TypeOK
<1>1. Init => TypeOK
  BY TimerAssumption DEF Init, TypeOK, TimerNode
<1>2. TypeOK /\ [Next]_vars => TypeOK'
  <2> SUFFICES ASSUME TypeOK, [Next]_vars PROVE TypeOK'
    OBVIOUS
  <2> USE TimerAssumption DEF TypeOK, TimerNode
  <2>1. CASE Tick
    BY <2>1 DEF Tick
  <2>2. ASSUME NEW n \in Node, NEW t \in Timeout, AddTimer(n, t) PROVE TypeOK'
    <3>1. [born |-> now, timeout |-> t, expiredTime |-> Expiry(t),
           deleted |-> FALSE] \in TimerNode
      BY DEF Expiry
    <3> QED
      BY <2>2, <3>1 DEF AddTimer
  <2>3. ASSUME NEW n \in Node, ClearReq(n) PROVE TypeOK'
    BY <2>3 DEF ClearReq
  <2>4. ASSUME NEW n \in Node, PopDeleted(n) PROVE TypeOK'
    BY <2>4 DEF PopDeleted
  <2>5. ASSUME NEW n \in Node, PopExpired(n) PROVE TypeOK'
    BY <2>5 DEF PopExpired
  <2>6. CASE StartSweep
    BY <2>6 DEF StartSweep
  <2>7. CASE EndSweep
    BY <2>7 DEF EndSweep
  <2>8. CASE UNCHANGED vars
    BY <2>8 DEF vars
  <2> QED
    BY <2>1, <2>2, <2>3, <2>4, <2>5, <2>6, <2>7, <2>8 DEF Next
<1> QED
  BY <1>1, <1>2, PTL DEF Spec

\* What ties the two clocks to a node's expiredTime_: the code's clock is
\* never ahead of the node's real age, and exact until it falls back.
ClockInv ==
  \A n \in timerNodeQueue :
    /\ node[n].born <= now
    /\ clock + node[n].timeout <= node[n].expiredTime + Age(n)
    /\ SameCycle(n) => clock + node[n].timeout = node[n].expiredTime + Age(n)

\* ClockInv survives the wrap of the clock: falling back only widens its
\* inequality, and leaves no node in the same cycle.
LEMMA ClockInvCorrect == Spec => []ClockInv
<1>1. Init => ClockInv
  BY DEF Init, ClockInv
<1>2. TypeOK /\ ClockInv /\ [Next]_vars => ClockInv'
  <2> SUFFICES ASSUME TypeOK, ClockInv, [Next]_vars PROVE ClockInv'
    OBVIOUS
  <2> USE TimerAssumption DEF TypeOK, TimerNode, ClockInv, SameCycle, Age
  <2>1. CASE Tick
    BY <2>1 DEF Tick
  <2>2. ASSUME NEW n \in Node, NEW t \in Timeout, AddTimer(n, t) PROVE ClockInv'
    BY <2>2 DEF AddTimer, Expiry
  <2>3. ASSUME NEW n \in Node, ClearReq(n) PROVE ClockInv'
    BY <2>3 DEF ClearReq
  <2>4. ASSUME NEW n \in Node, PopDeleted(n) PROVE ClockInv'
    BY <2>4 DEF PopDeleted
  <2>5. ASSUME NEW n \in Node, PopExpired(n) PROVE ClockInv'
    BY <2>5 DEF PopExpired
  <2>6. CASE StartSweep
    BY <2>6 DEF StartSweep
  <2>7. CASE EndSweep
    BY <2>7 DEF EndSweep
  <2>8. CASE UNCHANGED vars
    BY <2>8 DEF vars
  <2> QED
    BY <2>1, <2>2, <2>3, <2>4, <2>5, <2>6, <2>7, <2>8 DEF Next
<1> QED
  BY <1>1, <1>2, TypeCorrect, PTL DEF Spec

\* No connection is closed by its timer before its time out has really
\* passed, whatever the wraps of the code's clock.
THEOREM ExpiryNotEarly == Spec => NoEarlyExpiry
<1>1. TypeOK /\ ClockInv /\ [Next]_vars
        => [\A n \in timerNodeQueue :
              (n \notin timerNodeQueue' /\ ~node[n].deleted)
                => Age(n) >= node[n].timeout]_vars
  <2> SUFFICES ASSUME TypeOK, ClockInv, Next,
                      NEW n \in timerNodeQueue, n \notin timerNodeQueue',
                      ~node[n].deleted
               PROVE  Age(n) >= node[n].timeout
    BY DEF vars
  <2>1. PopExpired(n)
    BY DEF Next, Tick, AddTimer, ClearReq, PopDeleted, PopExpired, StartSweep,
           EndSweep
  <2>2. clock >= node[n].expiredTime
    BY <2>1, TimerAssumption DEF PopExpired, IsValid, TypeOK, TimerNode
  <2> QED
    BY <2>2, TimerAssumption DEF ClockInv, Age, TypeOK, TimerNode
<1> QED
  BY <1>1, TypeCorrect, ClockInvCorrect, PTL DEF Spec, NoEarlyExpiry

\* A sweep leaves no node whose time out has passed, unless the code's clock
\* wrapped since the node was made.
THEOREM SweepIsComplete == Spec => SweepComplete
<1>1. TypeOK /\ ClockInv /\ [Next]_vars
        => [(pc = "sweep" /\ pc' = "idle")
              => \A n \in timerNodeQueue :
                    SameCycle(n) => Age(n) < node[n].timeout]_vars
  <2> SUFFICES ASSUME TypeOK, ClockInv, Next, pc = "sweep", pc' = "idle",
                      NEW n \in timerNodeQueue, SameCycle(n)
               PROVE  Age(n) < node[n].timeout
    BY DEF vars
  <2>1. EndSweep
    BY DEF Next, Tick, AddTimer, ClearReq, PopDeleted, PopExpired, StartSweep
  <2>2. PICK top \in timerNodeQueue : IsTop(top) /\ IsValid(top)
    BY <2>1 DEF EndSweep
  <2>3. clock < node[n].expiredTime
    BY <2>2, TimerAssumption DEF IsTop, IsValid, TypeOK, TimerNode
  <2> QED
    BY <2>3, TimerAssumption DEF ClockInv, Age, TypeOK, TimerNode
<1> QED
  BY <1>1, TypeCorrect, ClockInvCorrect, PTL DEF Spec, SweepComplete
=============================================================================
