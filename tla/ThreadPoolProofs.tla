-------------------------- MODULE ThreadPoolProofs --------------------------
(***************************************************************************)
(* Theorems about ThreadPool: for any number of tasks, workers, adders and *)
(* destroyers and any size of the queue, the ring stays coherent, no task  *)
(* is left to sleeping workers, the pool is freed last, and every step is  *)
(* one of WorkQueue or none.                                               *)
(***************************************************************************)
EXTENDS ThreadPool, FiniteSetTheorems, SequenceTheorems, TLAPS

\* What % does below twice the size of the ring, which is all it is used for.
LEMMA ModBelowTwice ==
  ASSUME NEW a \in Nat, a < 2 * QueueSize
  PROVE  a % QueueSize = IF a < QueueSize THEN a ELSE a - QueueSize
  BY ThreadPoolAssumption

\* The i-th place from h, without %.
LEMMA AtIs ==
  ASSUME NEW h \in Slot, NEW i \in 0..QueueSize
  PROVE  /\ (h + i) % QueueSize
              = IF h + i < QueueSize THEN h + i ELSE (h + i) - QueueSize
         /\ (h + i) % QueueSize \in Slot
<1>1. QueueSize \in Nat \ {0}
  BY ThreadPoolAssumption
<1>2. h + i \in Nat /\ h + i < 2 * QueueSize
  BY <1>1 DEF Slot
<1>3. (h + i) % QueueSize
        = IF h + i < QueueSize THEN h + i ELSE (h + i) - QueueSize
  BY <1>2, ModBelowTwice
<1>4. QED
  BY <1>1, <1>2, <1>3 DEF Slot

-----------------------------------------------------------------------------
(* The inductive invariant.  A task a worker runs is never None because    *)
(* the slot it took was filled, which is what RingCoherent says.           *)

RunningHasTask == \A w \in Worker : worker[w] = "running" => task[w] # None

RingType ==
  /\ queue \in [Slot -> Task \cup {None}]
  /\ head \in Slot /\ tail \in Slot
  /\ count \in 0..QueueSize

\* The initial ring is coherent.
LEMMA InitRing ==
  ASSUME Init
  PROVE  RingType /\ RingCoherent
<1>1. QueueSize \in Nat \ {0}
  BY ThreadPoolAssumption
<1>2. RingType
  BY <1>1 DEF Init, RingType, Slot
<1>3. tail = At(count)
  <2>1. 0 \in Slot /\ 0 \in 0..QueueSize
    BY <1>1 DEF Slot
  <2>2. QED
    BY <1>1, <2>1, AtIs DEF Init, At
<1>4. \A i \in Slot : queue[At(i)] # None <=> i < count
  <2> SUFFICES ASSUME NEW i \in Slot
               PROVE  queue[At(i)] = None /\ ~(i < count)
    OBVIOUS
  <2>1. At(i) \in Slot
    BY <1>1, <1>2, AtIs DEF At, RingType, Slot
  <2>2. QED
    BY <1>1, <2>1 DEF Init, Slot
<1>5. QED
  BY <1>2, <1>3, <1>4 DEF RingCoherent

\* Adding a task to a ring that is not full.
LEMMA PutKeepsRing ==
  ASSUME RingType, RingCoherent, NEW t \in Task, ~Full, Put(t)
  PROVE  RingType' /\ RingCoherent'
<1>1. QueueSize \in Nat \ {0}
  BY ThreadPoolAssumption
<1>2. /\ queue' = [queue EXCEPT ![tail] = t]
      /\ tail' = (tail + 1) % QueueSize
      /\ count' = count + 1
      /\ head' = head
  BY DEF Put
<1>3. count < QueueSize /\ count \in Slot /\ count + 1 \in 0..QueueSize
  BY <1>1 DEF RingType, Full, Slot
<1>4. tail = IF head + count < QueueSize THEN head + count ELSE (head + count) - QueueSize
  BY <1>1, <1>3, AtIs DEF RingCoherent, RingType, At, Slot
<1>5. tail' = IF tail + 1 < QueueSize THEN tail + 1 ELSE (tail + 1) - QueueSize
  <2>1. 1 \in 0..QueueSize
    BY <1>1
  <2>2. QED
    BY <1>2, <2>1, AtIs DEF RingType
<1>6. At(count + 1) = IF head + (count + 1) < QueueSize
                      THEN head + (count + 1) ELSE (head + (count + 1)) - QueueSize
  BY <1>3, AtIs DEF RingType, At
<1>7. tail' = At(count + 1) /\ tail' \in Slot
  BY <1>1, <1>3, <1>4, <1>5, <1>6 DEF RingType, Slot
<1>8. RingType'
  BY <1>1, <1>2, <1>3, <1>7 DEF RingType
<1>9. ASSUME NEW i \in Slot
      PROVE  queue'[At(i)] # None <=> i < count + 1
  <2>1. /\ At(i) = IF head + i < QueueSize THEN head + i ELSE (head + i) - QueueSize
        /\ At(i) \in Slot
    BY <1>1, AtIs DEF RingType, At, Slot
  <2>2. At(i) = tail <=> i = count
    BY <1>1, <1>3, <1>4, <2>1 DEF RingType, Slot
  <2>3. queue[At(i)] # None <=> i < count
    BY DEF RingCoherent
  <2>4. t # None
    BY ThreadPoolAssumption
  <2>5. CASE i = count
    <3>1. queue'[At(i)] = t
      BY <1>2, <2>1, <2>2, <2>5 DEF RingType
    <3>2. QED
      BY <1>3, <2>4, <2>5, <3>1 DEF Slot
  <2>6. CASE i # count
    <3>1. queue'[At(i)] = queue[At(i)]
      BY <1>2, <2>1, <2>2, <2>6 DEF RingType
    <3>2. i < count <=> i < count + 1
      BY <1>3, <2>6 DEF Slot
    <3>3. QED
      BY <2>3, <3>1, <3>2
  <2>7. QED
    BY <2>5, <2>6
<1>10. RingCoherent'
  BY <1>2, <1>7, <1>9 DEF RingCoherent, At
<1>11. QED
  BY <1>8, <1>10

\* When head moves on, the place of a task is one nearer to it.
LEMMA TakeShifts ==
  ASSUME RingType, head' = (head + 1) % QueueSize, NEW i \in Slot
  PROVE  /\ At(i)' \in Slot
         /\ i + 1 < QueueSize => At(i)' = At(i + 1) /\ At(i)' # head
         /\ i + 1 = QueueSize => At(i)' = head
<1>1. QueueSize \in Nat \ {0}
  BY ThreadPoolAssumption
<1>2. head' = (IF head + 1 < QueueSize THEN head + 1 ELSE (head + 1) - QueueSize)
      /\ head' \in Slot
  <2>1. 1 \in 0..QueueSize
    BY <1>1
  <2>2. QED
    BY <2>1, AtIs DEF RingType
<1>3. i \in 0..QueueSize /\ i + 1 \in 0..QueueSize
  BY <1>1 DEF Slot
<1>4. At(i)' = (IF head' + i < QueueSize THEN head' + i ELSE (head' + i) - QueueSize)
      /\ At(i)' \in Slot
  BY <1>2, <1>3, AtIs DEF At
<1>5. At(i + 1) = IF head + (i + 1) < QueueSize
                  THEN head + (i + 1) ELSE (head + (i + 1)) - QueueSize
  BY <1>3, AtIs DEF RingType, At
<1>6. QED
  BY <1>1, <1>2, <1>4, <1>5 DEF RingType, Slot

\* Taking the first task of a ring that is not empty.
LEMMA TakeKeepsRing ==
  ASSUME RingType, RingCoherent, count # 0,
         queue' = [queue EXCEPT ![head] = None],
         head' = (head + 1) % QueueSize,
         count' = count - 1,
         tail' = tail
  PROVE  RingType' /\ RingCoherent' /\ queue[head] \in Task
<1>1. QueueSize \in Nat \ {0}
  BY ThreadPoolAssumption
<1>2. count \in 1..QueueSize /\ count - 1 \in Slot
  BY <1>1 DEF RingType, Slot
<1>3. head' = (IF head + 1 < QueueSize THEN head + 1 ELSE (head + 1) - QueueSize)
      /\ head' \in Slot
  <2>1. 1 \in 0..QueueSize
    BY <1>1
  <2>2. QED
    BY <2>1, AtIs DEF RingType
<1>4. RingType'
  BY <1>1, <1>2, <1>3 DEF RingType, Slot
<1>5. ASSUME NEW i \in Slot
      PROVE  /\ At(i)' \in Slot
             /\ i + 1 < QueueSize => At(i)' = At(i + 1) /\ At(i)' # head
             /\ i + 1 = QueueSize => At(i)' = head
  BY TakeShifts
<1>6. tail' = At(count)'
  <2>0. count - 1 \in 0..QueueSize
    BY <1>1, <1>2 DEF Slot
  <2>1. (head' + (count - 1)) % QueueSize
          = IF head' + (count - 1) < QueueSize
            THEN head' + (count - 1) ELSE (head' + (count - 1)) - QueueSize
    BY <1>3, <2>0, AtIs
  <2>2. tail = IF head + count < QueueSize THEN head + count ELSE (head + count) - QueueSize
    BY <1>1, <1>2, AtIs DEF RingCoherent, RingType, At, Slot
  <2>3. tail = (head' + (count - 1)) % QueueSize
    BY <1>1, <1>2, <1>3, <2>1, <2>2 DEF RingType, Slot
  <2>4. QED
    BY <2>3 DEF At
<1>7. ASSUME NEW i \in Slot
      PROVE  (queue[At(i)])' # None <=> i < count - 1
  <2>1. CASE i + 1 < QueueSize
    <3>1. (queue[At(i)])' = queue[At(i + 1)]
      BY <1>5, <2>1 DEF RingType
    <3>2. i + 1 \in Slot
      BY <1>1, <2>1 DEF Slot
    <3>3. queue[At(i + 1)] # None <=> i + 1 < count
      BY <3>2 DEF RingCoherent
    <3>4. QED
      BY <1>2, <3>1, <3>3 DEF Slot
  <2>2. CASE i + 1 = QueueSize
    <3>1. (queue[At(i)])' = None
      BY <1>5, <2>2 DEF RingType
    <3>2. QED
      BY <1>1, <1>2, <2>2, <3>1 DEF Slot
  <2>3. QED
    BY <1>1, <2>1, <2>2 DEF Slot
<1>8. queue[head] \in Task
  <2>1. 0 \in Slot /\ 0 < count
    BY <1>1, <1>2 DEF Slot
  <2>2. At(0) = head
    <3>1. head \in Slot /\ 0 \in 0..QueueSize
      BY <1>1 DEF RingType
    <3>2. (head + 0) % QueueSize = IF head + 0 < QueueSize THEN head + 0 ELSE (head + 0) - QueueSize
      BY <3>1, AtIs
    <3>3. QED
      BY <1>1, <3>1, <3>2 DEF At, Slot
  <2>3. QED
    BY <2>1, <2>2 DEF RingCoherent, RingType
<1>9. RingCoherent'
  <2>1. \A i \in Slot : queue'[(head' + i) % QueueSize] # None <=> i < count'
    BY <1>7 DEF At
  <2>2. QED
    BY <1>6, <2>1 DEF RingCoherent, At
<1>10. QED
  BY <1>4, <1>8, <1>9

-----------------------------------------------------------------------------

\* What is not the ring keeps its shape.
RestType ==
  /\ shutdown \in {"no", "immediate", "graceful"}
  /\ started \in Int
  /\ lock \in BOOLEAN
  /\ worker \in [Worker -> {"lock", "waiting", "running", "ended"}]
  /\ task \in [Worker -> Task \cup {None}]
  /\ adder \in [Adder -> Task \cup {None}]
  /\ added \subseteq Task
  /\ destroyer \in [Destroyer -> {"idle", "call", "join", "free", "done"}]
  /\ refused \subseteq Task
  /\ done \subseteq Task

IInv == RingType /\ RingCoherent /\ RestType /\ RunningHasTask

\* The inductive invariant has the shape of the state in it.
LEMMA IInvTypeOK == IInv => TypeOK
  BY DEF IInv, RingType, RestType, TypeOK

\* It holds of the pool threadpool_create makes.
LEMMA InitIInv == Init => IInv
<1> SUFFICES ASSUME Init PROVE IInv
  OBVIOUS
<1>1. Cardinality(Worker) \in Int
  BY ThreadPoolAssumption, FS_CardinalityType
<1>2. RestType
  BY <1>1 DEF Init, RestType
<1>3. RunningHasTask
  BY DEF Init, RunningHasTask
<1>4. QED
  BY <1>2, <1>3, InitRing DEF IInv

\* Waking one waiting thread leaves the running ones alone.
LEMMA SignalKeeps ==
  ASSUME RestType, Signal
  PROVE  /\ worker' \in [Worker -> {"lock", "waiting", "running", "ended"}]
         /\ \A w \in Worker : worker'[w] = "running" => worker[w] = "running"
<1>1. CASE Waiting = {}
  BY <1>1 DEF RestType, Signal
<1>2. CASE Waiting # {}
  <2>1. PICK v \in Worker : worker' = [worker EXCEPT ![v] = "lock"]
    BY <1>2 DEF Signal, Waiting
  <2>2. QED
    BY <2>1 DEF RestType
<1>3. QED
  BY <1>1, <1>2

\* Nothing the ring consists of changes.
LEMMA RingUnchanged ==
  ASSUME RingType, RingCoherent, UNCHANGED ringVars
  PROVE  RingType' /\ RingCoherent'
  BY DEF ringVars, RingType, RingCoherent, At

\* Adding keeps the invariant.
LEMMA AdderKeeps ==
  ASSUME IInv, NEW a \in Adder, Add(a) \/ \E t \in Task : CallAdd(a, t)
  PROVE  IInv'
<1> USE DEF IInv
<1>1. CASE \E t \in Task : CallAdd(a, t)
  <2>1. UNCHANGED ringVars /\ RestType'
    BY <1>1 DEF CallAdd, RestType
  <2>2. RunningHasTask'
    BY <1>1 DEF CallAdd, RunningHasTask
  <2>3. QED
    BY <2>1, <2>2, RingUnchanged
<1>2. CASE Add(a)
  <2>1. adder[a] \in Task /\ adder' \in [Adder -> Task \cup {None}]
    BY <1>2 DEF Add, RestType
  <2>2. CASE Refuses
    <3>1. UNCHANGED ringVars /\ RestType'
      BY <1>2, <2>1, <2>2 DEF Add, RestType, ringVars
    <3>2. RunningHasTask'
      BY <1>2, <2>2 DEF Add, RunningHasTask
    <3>3. QED
      BY <3>1, <3>2, RingUnchanged
  <2>3. CASE ~Refuses
    <3>1. Put(adder[a]) /\ UNCHANGED <<refused, shutdown, started, lock, task,
                                       added, destroyer, done>>
      BY <1>2, <2>3 DEF Add
    <3>2. Signal /\ ~Full
      BY <2>3, <3>1 DEF Put, Refuses
    <3>3. RingType' /\ RingCoherent'
      BY <2>1, <3>1, <3>2, PutKeepsRing
    <3>4. RestType'
      BY <2>1, <3>1, <3>2, SignalKeeps DEF RestType
    <3>5. RunningHasTask'
      BY <3>1, <3>2, SignalKeeps DEF RunningHasTask
    <3>6. QED
      BY <3>3, <3>4, <3>5
  <2>4. QED
    BY <2>2, <2>3
<1>3. QED
  BY <1>1, <1>2

\* A step of a worker, or its waking up for nothing, keeps the invariant.
LEMMA WorkerKeeps ==
  ASSUME IInv, NEW w \in Worker, WorkerStep(w) \/ SpuriousWakeup(w)
  PROVE  IInv'
<1> USE DEF IInv
<1>1. CASE Wait(w)
  <2>1. UNCHANGED ringVars /\ RestType' /\ RunningHasTask'
    BY <1>1 DEF Wait, RestType, RunningHasTask
  <2>2. QED
    BY <2>1, RingUnchanged
<1>2. CASE SpuriousWakeup(w)
  <2>1. UNCHANGED ringVars /\ RestType' /\ RunningHasTask'
    BY <1>2 DEF SpuriousWakeup, RestType, RunningHasTask
  <2>2. QED
    BY <2>1, RingUnchanged
<1>3. CASE End(w)
  <2>1. UNCHANGED ringVars /\ RestType' /\ RunningHasTask'
    BY <1>3 DEF End, RestType, RunningHasTask
  <2>2. QED
    BY <2>1, RingUnchanged
<1>4. CASE Take(w)
  <2>1. count # 0
    BY <1>4 DEF Take, WaitsForTask, Ends, RestType
  <2>2. RingType' /\ RingCoherent' /\ queue[head] \in Task
    BY <1>4, <2>1, TakeKeepsRing DEF Take
  <2>3. RestType'
    BY <1>4, <2>2 DEF Take, RestType
  <2>4. queue[head] # None
    BY <2>2, ThreadPoolAssumption
  <2>5. RunningHasTask'
    BY <1>4, <2>4 DEF Take, RestType, RunningHasTask
  <2>6. QED
    BY <2>2, <2>3, <2>5
<1>5. CASE Run(w)
  <2>1. task[w] \in Task
    BY <1>5 DEF Run, RestType, RunningHasTask
  <2>2. UNCHANGED ringVars /\ RestType'
    BY <1>5, <2>1 DEF Run, RestType
  <2>3. RunningHasTask'
    BY <1>5 DEF Run, RestType, RunningHasTask
  <2>4. QED
    BY <2>2, <2>3, RingUnchanged
<1>6. QED
  BY <1>1, <1>2, <1>3, <1>4, <1>5 DEF WorkerStep

\* A step of threadpool_destroy or threadpool_free keeps the invariant.
LEMMA DestroyerKeeps ==
  ASSUME IInv, NEW x \in Destroyer, CallDestroy(x) \/ DestroyerStep(x)
  PROVE  IInv'
<1> USE DEF IInv
<1>1. CASE CallDestroy(x)
  <2>1. UNCHANGED ringVars /\ RestType' /\ RunningHasTask'
    BY <1>1 DEF CallDestroy, RestType, RunningHasTask
  <2>2. QED
    BY <2>1, RingUnchanged
<1>2. ASSUME NEW how \in {"immediate", "graceful"}, Destroy(x, how)
      PROVE  IInv'
  <2>1. UNCHANGED ringVars /\ RestType'
    BY <1>2 DEF Destroy, Broadcast, RestType
  <2>2. RunningHasTask'
    BY <1>2 DEF Destroy, Broadcast, RunningHasTask
  <2>3. QED
    BY <2>1, <2>2, RingUnchanged
<1>3. CASE DestroyAgain(x)
  <2>1. UNCHANGED ringVars /\ RestType' /\ RunningHasTask'
    BY <1>3 DEF DestroyAgain, RestType, RunningHasTask
  <2>2. QED
    BY <2>1, RingUnchanged
<1>4. CASE Join(x)
  <2>1. UNCHANGED ringVars /\ RestType' /\ RunningHasTask'
    BY <1>4 DEF Join, RestType, RunningHasTask
  <2>2. QED
    BY <2>1, RingUnchanged
<1>5. CASE Free(x)
  <2>1. UNCHANGED ringVars /\ RestType' /\ RunningHasTask'
    BY <1>5 DEF Free, RestType, RunningHasTask
  <2>2. QED
    BY <2>1, RingUnchanged
<1>6. QED
  BY <1>1, <1>2, <1>3, <1>4, <1>5 DEF DestroyerStep

\* Every step keeps the invariant.
LEMMA NextIInv == IInv /\ [Next]_vars => IInv'
<1> SUFFICES ASSUME IInv, [Next]_vars PROVE IInv'
  OBVIOUS
<1>1. CASE Next
  BY <1>1, AdderKeeps, WorkerKeeps, DestroyerKeeps DEF Next
<1>2. CASE UNCHANGED vars
  <2>1. UNCHANGED ringVars /\ RestType' /\ RunningHasTask'
    BY <1>2 DEF vars, IInv, RestType, RunningHasTask
  <2>2. QED
    BY <2>1, RingUnchanged DEF IInv
<1>3. QED
  BY <1>1, <1>2

\* The state keeps its shape: head, tail and count stay inside the ring, and
\* what a worker takes or an adder brings is a task.
THEOREM TypeCorrect == SafeSpec => []TypeOK
<1>1. IInv /\ [Next]_vars => IInv'
  BY NextIInv
<1>2. QED
  BY InitIInv, <1>1, IInvTypeOK, PTL DEF SafeSpec

\* For any number of threads and any queue_size, the tasks in the ring are the
\* count slots from head on, and the next one goes behind them.
THEOREM RingIsCoherent == SafeSpec => []RingCoherent
<1>1. IInv /\ [Next]_vars => IInv'
  BY NextIInv
<1>2. IInv => RingCoherent
  BY DEF IInv
<1>3. QED
  BY InitIInv, <1>1, <1>2, PTL DEF SafeSpec

-----------------------------------------------------------------------------
(* The workers on their way to the mutex, counted.                         *)

AtDoor == {w \in Worker : worker[w] = "lock"}

LEMMA AtDoorType == IsFiniteSet(AtDoor) /\ Cardinality(AtDoor) \in Nat
<1>1. AtDoor \in SUBSET Worker
  BY DEF AtDoor
<1>2. QED
  BY <1>1, ThreadPoolAssumption, FS_Subset, FS_CardinalityType

\* One worker more comes to the mutex.
LEMMA OneMoreAtDoor ==
  ASSUME RestType, NEW w \in Worker, worker[w] # "lock",
         worker' = [worker EXCEPT ![w] = "lock"]
  PROVE  Cardinality(AtDoor') = Cardinality(AtDoor) + 1
<1>1. AtDoor' = AtDoor \cup {w} /\ w \notin AtDoor
  BY DEF AtDoor, RestType
<1>2. QED
  BY <1>1, AtDoorType, FS_AddElement

\* A worker leaves the mutex for the task it took.
LEMMA OneLessAtDoor ==
  ASSUME RestType, NEW w \in Worker, worker[w] = "lock",
         worker' = [worker EXCEPT ![w] = "running"]
  PROVE  Cardinality(AtDoor') = Cardinality(AtDoor) - 1
<1>1. AtDoor' = AtDoor \ {w} /\ w \in AtDoor
  BY DEF AtDoor, RestType
<1>2. QED
  BY <1>1, AtDoorType, FS_RemoveElement

\* Adding a task wakes a sleeping worker for it.
LEMMA AdderSignals ==
  ASSUME IInv, NoLostSignal, NEW a \in Adder,
         Add(a) \/ \E t \in Task : CallAdd(a, t)
  PROVE  NoLostSignal'
<1>1. CASE \E t \in Task : CallAdd(a, t)
  BY <1>1 DEF CallAdd, ringVars, NoLostSignal, Waiting
<1>2. CASE Add(a) /\ Refuses
  BY <1>2 DEF Add, ringVars, NoLostSignal, Waiting
<1>3. CASE Add(a) /\ ~Refuses
  <2>1. Signal /\ count' = count + 1 /\ shutdown' = shutdown
    BY <1>3 DEF Add, Put
  <2>2. CASE Waiting = {}
    BY <2>1, <2>2 DEF Signal, NoLostSignal, Waiting
  <2>3. CASE Waiting # {}
    <3>1. PICK w \in Waiting : worker' = [worker EXCEPT ![w] = "lock"]
      BY <2>1, <2>3 DEF Signal
    <3>2. Cardinality(AtDoor') = Cardinality(AtDoor) + 1
      BY <3>1, OneMoreAtDoor DEF Waiting, IInv
    <3>3. shutdown = "no" /\ count <= Cardinality(AtDoor)
      BY <2>3 DEF NoLostSignal, AtDoor
    <3>4. count' <= Cardinality(AtDoor')
      BY <2>1, <3>2, <3>3, AtDoorType DEF IInv, RingType
    <3>5. QED
      BY <2>1, <3>3, <3>4 DEF NoLostSignal, AtDoor
  <2>4. QED
    BY <2>2, <2>3
<1>4. QED
  BY <1>1, <1>2, <1>3

\* A worker only goes to sleep when there is nothing to do, and only takes one
\* task when it leaves the mutex.
LEMMA WorkerSignals ==
  ASSUME IInv, NoLostSignal, NEW w \in Worker, WorkerStep(w) \/ SpuriousWakeup(w)
  PROVE  NoLostSignal'
<1>1. CASE Wait(w)
  <2>1. count' = 0 /\ shutdown' = "no"
    BY <1>1 DEF Wait, WaitsForTask, ringVars
  <2>2. Cardinality(AtDoor') \in Nat
    <3>1. AtDoor' \in SUBSET Worker
      BY DEF AtDoor
    <3>2. QED
      BY <3>1, ThreadPoolAssumption, FS_Subset, FS_CardinalityType
  <2>3. QED
    BY <2>1, <2>2 DEF NoLostSignal, AtDoor
<1>2. CASE SpuriousWakeup(w) \/ Run(w)
  <2>1. /\ worker[w] # "lock" /\ worker' = [worker EXCEPT ![w] = "lock"]
        /\ count' = count /\ shutdown' = shutdown
    BY <1>2 DEF SpuriousWakeup, Run, ringVars
  <2>2. Cardinality(AtDoor') = Cardinality(AtDoor) + 1
    BY <2>1, OneMoreAtDoor DEF IInv
  <2>3. Waiting' \subseteq Waiting
    BY <2>1 DEF Waiting, IInv, RestType
  <2>4. count <= Cardinality(AtDoor) => count' <= Cardinality(AtDoor')
    BY <2>1, <2>2, AtDoorType DEF IInv, RingType
  <2>5. QED
    BY <2>1, <2>3, <2>4 DEF NoLostSignal, AtDoor
<1>3. CASE End(w)
  <2>1. Waiting = {}
    BY <1>3 DEF End, Ends, NoLostSignal
  <2>2. Waiting' = {}
    BY <1>3, <2>1 DEF End, Waiting, IInv, RestType
  <2>3. QED
    BY <2>2 DEF NoLostSignal
<1>4. CASE Take(w)
  <2>1. /\ worker[w] = "lock" /\ worker' = [worker EXCEPT ![w] = "running"]
        /\ count' = count - 1 /\ shutdown' = shutdown
    BY <1>4 DEF Take
  <2>2. Cardinality(AtDoor') = Cardinality(AtDoor) - 1
    BY <2>1, OneLessAtDoor DEF IInv
  <2>3. Waiting' \subseteq Waiting
    BY <2>1 DEF Waiting, IInv, RestType
  <2>4. count <= Cardinality(AtDoor) => count' <= Cardinality(AtDoor')
    BY <2>1, <2>2, AtDoorType DEF IInv, RingType
  <2>5. QED
    BY <2>1, <2>3, <2>4 DEF NoLostSignal, AtDoor
<1>5. QED
  BY <1>1, <1>2, <1>3, <1>4 DEF WorkerStep

\* The first threadpool_destroy wakes everybody.
LEMMA DestroyerSignals ==
  ASSUME IInv, NoLostSignal, NEW x \in Destroyer, CallDestroy(x) \/ DestroyerStep(x)
  PROVE  NoLostSignal'
<1>1. ASSUME NEW how \in {"immediate", "graceful"}, Destroy(x, how)
      PROVE  NoLostSignal'
  <2>1. Waiting' = {}
    BY <1>1 DEF Destroy, Broadcast, Waiting
  <2>2. QED
    BY <2>1 DEF NoLostSignal
<1>2. CASE CallDestroy(x) \/ DestroyAgain(x) \/ Join(x) \/ Free(x)
  <2>1. UNCHANGED <<worker, count, shutdown>>
    BY <1>2 DEF CallDestroy, DestroyAgain, Join, Free, ringVars
  <2>2. QED
    BY <2>1 DEF NoLostSignal, Waiting
<1>3. QED
  BY <1>1, <1>2 DEF DestroyerStep

\* No task is left to sleeping workers, however many there are: the signals of
\* threadpool_add, the broadcast of threadpool_destroy and the test before
\* pthread_cond_wait leave no task in the ring that nobody comes for.
THEOREM NoSignalIsLost == SafeSpec => []NoLostSignal
<1>1. Init => NoLostSignal
  BY DEF Init, NoLostSignal, Waiting
<1>2. IInv /\ NoLostSignal /\ [Next]_vars => NoLostSignal'
  <2> SUFFICES ASSUME IInv, NoLostSignal, [Next]_vars PROVE NoLostSignal'
    OBVIOUS
  <2>1. CASE Next
    BY <2>1, AdderSignals, WorkerSignals, DestroyerSignals DEF Next
  <2>2. CASE UNCHANGED vars
    BY <2>2 DEF vars, ringVars, NoLostSignal, Waiting
  <2>3. QED
    BY <2>1, <2>2
<1>3. IInv /\ [Next]_vars => IInv'
  BY NextIInv
<1>4. QED
  BY InitIInv, <1>1, <1>2, <1>3, PTL DEF SafeSpec

-----------------------------------------------------------------------------
(* started counts the workers that have not ended, and a worker that has   *)
(* ended does not come back: what threadpool_destroy joined stays joined.  *)

Alive == {w \in Worker : worker[w] # "ended"}

StartedCounts == started = Cardinality(Alive)

FreeingJoined == \A x \in Destroyer : destroyer[x] = "free" => Alive = {}

LEMMA AliveType == IsFiniteSet(Alive) /\ Cardinality(Alive) \in Nat
<1>1. Alive \in SUBSET Worker
  BY DEF Alive
<1>2. QED
  BY <1>1, ThreadPoolAssumption, FS_Subset, FS_CardinalityType

\* Every step but End leaves the set of the living alone; End takes one away,
\* and counts it.
LEMMA AliveSteps ==
  ASSUME IInv, StartedCounts, [Next]_vars
  PROVE  Alive' \subseteq Alive /\ StartedCounts'
<1>1. CASE UNCHANGED <<worker, started>>
  BY <1>1 DEF Alive, StartedCounts
<1>2. ASSUME Alive' = Alive, started' = started
      PROVE  Alive' \subseteq Alive /\ StartedCounts'
  BY <1>2 DEF StartedCounts
<1>3. ASSUME Signal, started' = started
      PROVE  Alive' \subseteq Alive /\ StartedCounts'
  <2>1. CASE Waiting = {}
    BY <1>1, <1>3, <2>1 DEF Signal
  <2>2. CASE Waiting # {}
    <3>1. PICK w \in Waiting : worker' = [worker EXCEPT ![w] = "lock"]
      BY <1>3, <2>2 DEF Signal
    <3>2. Alive' = Alive
      BY <3>1 DEF Alive, Waiting, IInv, RestType
    <3>3. QED
      BY <1>2, <1>3, <3>2
  <2>3. QED
    BY <2>1, <2>2
<1>4. ASSUME NEW a \in Adder, Add(a) \/ \E t \in Task : CallAdd(a, t)
      PROVE  Alive' \subseteq Alive /\ StartedCounts'
  <2>1. started' = started /\ (Signal \/ UNCHANGED worker)
    BY <1>4 DEF Add, Put, CallAdd
  <2>2. QED
    BY <1>1, <1>3, <2>1
<1>5. ASSUME NEW w \in Worker, WorkerStep(w) \/ SpuriousWakeup(w)
      PROVE  Alive' \subseteq Alive /\ StartedCounts'
  <2>1. CASE Wait(w) \/ Take(w) \/ Run(w) \/ SpuriousWakeup(w)
    <3>1. started' = started
      BY <2>1 DEF Wait, Take, Run, SpuriousWakeup
    <3>2. Alive' = Alive
      BY <2>1 DEF Wait, Take, Run, SpuriousWakeup, Alive, IInv, RestType
    <3>3. QED
      BY <1>2, <3>1, <3>2
  <2>2. CASE End(w)
    <3>1. worker[w] = "lock" /\ worker' = [worker EXCEPT ![w] = "ended"]
          /\ started' = started - 1
      BY <2>2 DEF End
    <3>2. Alive' = Alive \ {w} /\ w \in Alive
      BY <3>1 DEF Alive, IInv, RestType
    <3>3. Cardinality(Alive') = Cardinality(Alive) - 1
      BY <3>2, AliveType, FS_RemoveElement
    <3>4. QED
      BY <3>1, <3>2, <3>3 DEF StartedCounts
  <2>3. QED
    BY <1>5, <2>1, <2>2 DEF WorkerStep
<1>6. ASSUME NEW x \in Destroyer, CallDestroy(x) \/ DestroyerStep(x)
      PROVE  Alive' \subseteq Alive /\ StartedCounts'
  <2>1. ASSUME NEW how \in {"immediate", "graceful"}, Destroy(x, how)
        PROVE  Alive' \subseteq Alive /\ StartedCounts'
    <3>1. Alive' = Alive /\ started' = started
      BY <2>1 DEF Destroy, Broadcast, Waiting, Alive
    <3>2. QED
      BY <1>2, <3>1
  <2>2. CASE CallDestroy(x) \/ DestroyAgain(x) \/ Join(x) \/ Free(x)
    <3>1. UNCHANGED <<worker, started>>
      BY <2>2 DEF CallDestroy, DestroyAgain, Join, Free
    <3>2. QED
      BY <1>1, <3>1
  <2>3. QED
    BY <1>6, <2>1, <2>2 DEF DestroyerStep
<1>7. CASE Next
  BY <1>4, <1>5, <1>6, <1>7 DEF Next
<1>8. CASE UNCHANGED vars
  BY <1>1, <1>8 DEF vars
<1>9. QED
  BY <1>7, <1>8

\* threadpool_free is only reached through the joins.
LEMMA DestroyerFrees ==
  ASSUME IInv, [Next]_vars, NEW x \in Destroyer, destroyer'[x] = "free"
  PROVE  destroyer[x] = "free" \/ Alive = {}
<1>1. CASE UNCHANGED destroyer
  BY <1>1
<1>2. ASSUME NEW y \in Destroyer, CallDestroy(y) \/ DestroyerStep(y)
      PROVE  destroyer[x] = "free" \/ Alive = {}
  <2>1. CASE Join(y)
    BY <2>1 DEF Join, Joined, Alive
  <2>2. CASE CallDestroy(y) \/ DestroyAgain(y) \/ Free(y)
    BY <2>2 DEF CallDestroy, DestroyAgain, Free, IInv, RestType
  <2>3. ASSUME NEW how \in {"immediate", "graceful"}, Destroy(y, how)
        PROVE  destroyer[x] = "free"
    BY <2>3 DEF Destroy, IInv, RestType
  <2>4. QED
    BY <1>2, <2>1, <2>2, <2>3 DEF DestroyerStep
<1>3. ASSUME NEW a \in Adder, Add(a) \/ \E t \in Task : CallAdd(a, t)
      PROVE  UNCHANGED destroyer
  BY <1>3 DEF Add, CallAdd
<1>4. ASSUME NEW w \in Worker, WorkerStep(w) \/ SpuriousWakeup(w)
      PROVE  UNCHANGED destroyer
  BY <1>4 DEF WorkerStep, Wait, End, Take, Run, SpuriousWakeup
<1>5. QED
  BY <1>1, <1>2, <1>3, <1>4 DEF Next, vars

\* The mutex and the condition variable are freed when every worker has ended,
\* and started says so: threadpool_free is not refused for a live worker.
THEOREM FreedAfterLastWorker == SafeSpec => []FreedLast
<1>1. Init => StartedCounts /\ FreeingJoined
  <2> SUFFICES ASSUME Init PROVE StartedCounts /\ FreeingJoined
    OBVIOUS
  <2>1. Alive = Worker
    BY DEF Init, Alive
  <2>2. QED
    BY <2>1 DEF Init, StartedCounts, FreeingJoined
<1>2. IInv /\ StartedCounts /\ FreeingJoined /\ [Next]_vars
        => StartedCounts' /\ FreeingJoined'
  <2> SUFFICES ASSUME IInv, StartedCounts, FreeingJoined, [Next]_vars
               PROVE  StartedCounts' /\ FreeingJoined'
    OBVIOUS
  <2>1. Alive' \subseteq Alive /\ StartedCounts'
    BY AliveSteps
  <2>2. \A x \in Destroyer : destroyer'[x] = "free" => Alive = {}
    BY DestroyerFrees DEF FreeingJoined
  <2>3. QED
    BY <2>1, <2>2 DEF FreeingJoined
<1>3. StartedCounts /\ FreeingJoined => FreedLast
  <2> SUFFICES ASSUME StartedCounts, FreeingJoined, NEW x \in Destroyer,
                      destroyer[x] = "free"
               PROVE  started = 0 /\ \A w \in Worker : worker[w] = "ended"
    BY DEF FreedLast
  <2>1. Alive = {}
    BY DEF FreeingJoined
  <2>2. QED
    BY <2>1, FS_EmptySet DEF StartedCounts, Alive
<1>4. IInv /\ [Next]_vars => IInv'
  BY NextIInv
<1>5. QED
  BY InitIInv, <1>1, <1>2, <1>3, <1>4, PTL DEF SafeSpec

-----------------------------------------------------------------------------
(* A task is in one place: with the adder that brings it, in one slot of   *)
(* the ring, with one worker, or done.                                     *)

AddingFresh ==
  \A a \in Adder : adder[a] # None =>
    /\ adder[a] \in added /\ adder[a] \notin done
    /\ \A i \in Slot : queue[i] # adder[a]
    /\ \A w \in Worker : task[w] # adder[a]
    /\ \A b \in Adder : adder[b] = adder[a] => b = a

QueuedOnce ==
  \A i \in Slot : queue[i] # None =>
    /\ queue[i] \in added /\ queue[i] \notin done
    /\ \A w \in Worker : task[w] # queue[i]
    /\ \A j \in Slot : queue[j] = queue[i] => j = i

TakenOnce ==
  \A w \in Worker : task[w] # None =>
    /\ worker[w] = "running"
    /\ task[w] \in added /\ task[w] \notin done
    /\ \A v \in Worker : task[v] = task[w] => v = w

OnePlace == AddingFresh /\ QueuedOnce /\ TakenOnce /\ done \subseteq added

LEMMA InitOnePlace == Init => OnePlace
  BY DEF Init, OnePlace, AddingFresh, QueuedOnce, TakenOnce

\* Waking a worker takes no task from one that runs.
LEMMA SignalKeepsRunning ==
  ASSUME IInv, Signal, NEW w \in Worker, worker[w] = "running"
  PROVE  worker'[w] = "running"
  BY DEF Signal, Waiting, IInv, RestType

\* A task on its way into the ring.
LEMMA AdderKeepsOnePlace ==
  ASSUME IInv, OnePlace, NEW a \in Adder,
         Add(a) \/ \E t \in Task : CallAdd(a, t)
  PROVE  OnePlace'
<1> USE DEF OnePlace
<1>1. ASSUME NEW t \in Task, CallAdd(a, t)
      PROVE  OnePlace'
  <2>1. /\ t \notin added /\ t # None
        /\ adder' = [adder EXCEPT ![a] = t] /\ added' = added \cup {t}
        /\ UNCHANGED <<queue, task, worker, done>>
    BY <1>1, ThreadPoolAssumption DEF CallAdd, ringVars
  <2>2. /\ t \notin done /\ \A i \in Slot : queue[i] # t
        /\ \A w \in Worker : task[w] # t
        /\ \A b \in Adder : adder[b] # t
    BY <2>1 DEF AddingFresh, QueuedOnce, TakenOnce
  <2>3. AddingFresh'
    BY <2>1, <2>2 DEF AddingFresh, IInv, RestType
  <2>4. QueuedOnce' /\ TakenOnce' /\ done' \subseteq added'
    BY <2>1 DEF QueuedOnce, TakenOnce
  <2>5. QED
    BY <2>3, <2>4
<1>2. CASE Add(a)
  <2>1. /\ adder[a] # None /\ adder' = [adder EXCEPT ![a] = None]
        /\ UNCHANGED <<added, done, task>>
    BY <1>2 DEF Add
  <2>2. CASE Refuses
    <3>1. UNCHANGED <<queue, worker>>
      BY <1>2, <2>2 DEF Add, ringVars
    <3>2. QED
      BY <2>1, <3>1 DEF AddingFresh, QueuedOnce, TakenOnce, IInv, RestType
  <2>3. CASE ~Refuses
    <3>1. Signal /\ tail \in Slot /\ queue' = [queue EXCEPT ![tail] = adder[a]]
      BY <1>2, <2>3 DEF Add, Put, IInv, RingType
    <3>2. \A i \in Slot : queue'[i] = IF i = tail THEN adder[a] ELSE queue[i]
      BY <3>1 DEF IInv, RingType
    <3>3. \A b \in Adder : adder'[b] = IF b = a THEN None ELSE adder[b]
      BY <2>1 DEF IInv, RestType
    <3>4. AddingFresh'
      BY <2>1, <3>2, <3>3 DEF AddingFresh
    <3>5. QueuedOnce'
      BY <2>1, <3>2 DEF AddingFresh, QueuedOnce
    <3>6. TakenOnce'
      BY <2>1, <3>1, SignalKeepsRunning DEF TakenOnce
    <3>7. QED
      BY <2>1, <3>4, <3>5, <3>6
  <2>4. QED
    BY <2>2, <2>3
<1>3. QED
  BY <1>1, <1>2

\* A task on its way out of the ring, and done.
LEMMA WorkerKeepsOnePlace ==
  ASSUME IInv, OnePlace, NEW w \in Worker, WorkerStep(w) \/ SpuriousWakeup(w)
  PROVE  OnePlace'
<1> USE DEF OnePlace
<1>1. CASE Wait(w) \/ End(w) \/ SpuriousWakeup(w)
  <2>1. UNCHANGED <<queue, task, adder, added, done>> /\ worker[w] # "running"
    BY <1>1 DEF Wait, End, SpuriousWakeup, ringVars
  <2>2. \A v \in Worker : worker[v] = "running" => worker'[v] = "running"
    BY <1>1, <2>1 DEF Wait, End, SpuriousWakeup, IInv, RestType
  <2>3. AddingFresh' /\ QueuedOnce' /\ TakenOnce'
    BY <2>1, <2>2 DEF AddingFresh, QueuedOnce, TakenOnce
  <2>4. QED
    BY <2>1, <2>3
<1>2. CASE Take(w)
  <2>1. count # 0
    BY <1>2 DEF Take, WaitsForTask, Ends, IInv, RestType
  <2>2. queue[head] \in Task /\ queue[head] # None
    BY <1>2, <2>1, TakeKeepsRing, ThreadPoolAssumption DEF Take, IInv
  <2>3. /\ UNCHANGED <<adder, added, done>> /\ head \in Slot
        /\ task' = [task EXCEPT ![w] = queue[head]]
        /\ queue' = [queue EXCEPT ![head] = None]
        /\ worker' = [worker EXCEPT ![w] = "running"]
    BY <1>2 DEF Take, IInv, RingType
  <2>4. \A i \in Slot : queue'[i] = IF i = head THEN None ELSE queue[i]
    BY <2>3 DEF IInv, RingType
  <2>5. \A v \in Worker : task'[v] = IF v = w THEN queue[head] ELSE task[v]
    BY <2>3 DEF IInv, RestType
  <2>6. \A v \in Worker : worker'[v] = IF v = w THEN "running" ELSE worker[v]
    BY <2>3 DEF IInv, RestType
  <2>7. AddingFresh'
    BY <2>2, <2>3, <2>4, <2>5 DEF AddingFresh
  <2>8. QueuedOnce'
    BY <2>2, <2>3, <2>4, <2>5 DEF QueuedOnce
  <2>9. TakenOnce'
    BY <2>2, <2>3, <2>5, <2>6 DEF QueuedOnce, TakenOnce
  <2>10. QED
    BY <2>3, <2>7, <2>8, <2>9
<1>3. CASE Run(w)
  <2>1. task[w] # None
    BY <1>3 DEF Run, IInv, RunningHasTask
  <2>2. /\ UNCHANGED <<queue, adder, added>>
        /\ done' = done \cup {task[w]}
        /\ task' = [task EXCEPT ![w] = None]
        /\ worker' = [worker EXCEPT ![w] = "lock"]
    BY <1>3 DEF Run, ringVars
  <2>3. \A v \in Worker : task'[v] = IF v = w THEN None ELSE task[v]
    BY <2>2 DEF IInv, RestType
  <2>4. \A v \in Worker : worker'[v] = IF v = w THEN "lock" ELSE worker[v]
    BY <2>2 DEF IInv, RestType
  <2>5. AddingFresh' /\ QueuedOnce'
    BY <2>1, <2>2, <2>3 DEF AddingFresh, QueuedOnce
  <2>6. TakenOnce' /\ done' \subseteq added'
    BY <2>1, <2>2, <2>3, <2>4 DEF TakenOnce
  <2>7. QED
    BY <2>5, <2>6
<1>4. QED
  BY <1>1, <1>2, <1>3 DEF WorkerStep

LEMMA DestroyerKeepsOnePlace ==
  ASSUME IInv, OnePlace, NEW x \in Destroyer, CallDestroy(x) \/ DestroyerStep(x)
  PROVE  OnePlace'
<1>1. UNCHANGED <<queue, task, adder, added, done>>
  BY DEF CallDestroy, DestroyerStep, Destroy, DestroyAgain, Join, Free, ringVars
<1>2. \A w \in Worker : worker[w] = "running" => worker'[w] = "running"
  BY DEF CallDestroy, DestroyerStep, Destroy, Broadcast, Waiting, DestroyAgain, Join, Free
<1>3. QED
  BY <1>1, <1>2 DEF OnePlace, AddingFresh, QueuedOnce, TakenOnce

LEMMA NextOnePlace == IInv /\ OnePlace /\ [Next]_vars => OnePlace'
<1> SUFFICES ASSUME IInv, OnePlace, [Next]_vars PROVE OnePlace'
  OBVIOUS
<1>1. CASE Next
  BY <1>1, AdderKeepsOnePlace, WorkerKeepsOnePlace, DestroyerKeepsOnePlace DEF Next
<1>2. CASE UNCHANGED vars
  BY <1>2 DEF vars, ringVars, OnePlace, AddingFresh, QueuedOnce, TakenOnce
<1>3. QED
  BY <1>1, <1>2

-----------------------------------------------------------------------------
(* The refinement of WorkQueue.                                            *)

\* What the ring holds, in order, and the tasks that are being run.
Line == [i \in 1..count |-> queue[At(i - 1)]]

Taken == {task[w] : w \in Worker} \ {None}

\* The places of the waiting tasks.
LEMMA PlaceOf ==
  ASSUME RingType, RingCoherent, NEW i \in 1..count
  PROVE  At(i - 1) \in Slot /\ (At(i - 1) # At(count) \/ count = QueueSize)
<1>1. QueueSize \in Nat \ {0} /\ count \in 0..QueueSize
  BY ThreadPoolAssumption DEF RingType
<1>2. i - 1 \in 0..QueueSize /\ i - 1 < count /\ i - 1 \in Nat
  BY <1>1
<1>3. /\ At(i - 1) = IF head + (i - 1) < QueueSize
                     THEN head + (i - 1) ELSE (head + (i - 1)) - QueueSize
      /\ At(i - 1) \in Slot
  BY <1>2, AtIs DEF RingType, At
<1>4. At(count) = IF head + count < QueueSize
                  THEN head + count ELSE (head + count) - QueueSize
  BY AtIs DEF RingType, At
<1>5. QED
  BY <1>1, <1>2, <1>3, <1>4 DEF RingType, Slot

\* The waiting tasks are a sequence of them.
LEMMA LineType ==
  ASSUME RingType, RingCoherent
  PROVE  /\ Line \in Seq(Task) /\ Len(Line) = count
         /\ \A i \in 1..count : /\ At(i - 1) \in Slot
                                /\ Line[i] = queue[At(i - 1)]
<1>1. QueueSize \in Nat \ {0} /\ count \in 0..QueueSize
  BY ThreadPoolAssumption DEF RingType
<1>2. ASSUME NEW i \in 1..count
      PROVE  At(i - 1) \in Slot /\ queue[At(i - 1)] \in Task
  <2>1. i - 1 \in Slot /\ i - 1 \in 0..QueueSize /\ i - 1 < count
    BY <1>1 DEF Slot
  <2>2. At(i - 1) \in Slot
    BY <2>1, AtIs DEF RingType, At
  <2>3. queue[At(i - 1)] # None
    BY <2>1 DEF RingCoherent
  <2>4. QED
    BY <2>2, <2>3 DEF RingType
<1>3. Line \in [1..count -> Task]
  BY <1>2 DEF Line
<1>4. Line \in Seq(Task)
  BY <1>1, <1>3, SeqDef
<1>5. Len(Line) = count
  BY <1>1, <1>3, <1>4, LenProperties
<1>6. QED
  BY <1>2, <1>4, <1>5 DEF Line

LineOK ==
  /\ Line \in Seq(Task) /\ Len(Line) = count
  /\ \A i \in 1..count : At(i - 1) \in Slot /\ Line[i] = queue[At(i - 1)]

LEMMA LineAlways == RingType /\ RingCoherent => LineOK
  BY LineType DEF LineOK

\* threadpool_add puts the task at the end of the line.
LEMMA PutAppends ==
  ASSUME RingType, RingCoherent, NEW t \in Task, ~Full, Put(t)
  PROVE  Line' = Append(Line, t)
<1>1. QueueSize \in Nat \ {0} /\ count \in Nat /\ count < QueueSize
  BY ThreadPoolAssumption DEF RingType, Full
<1>2. /\ queue' = [queue EXCEPT ![tail] = t] /\ tail \in Slot
      /\ count' = count + 1 /\ head' = head /\ tail = At(count)
  BY DEF Put, RingType, RingCoherent
<1>3. RingType' /\ RingCoherent'
  BY PutKeepsRing
<1>4. /\ Line' \in Seq(Task) /\ Len(Line') = count + 1
      /\ \A i \in 1..(count + 1) : /\ At(i - 1)' \in Slot
                                   /\ Line'[i] = queue'[At(i - 1)']
  <2>1. LineOK'
    BY <1>3, LineAlways, PTL
  <2>2. QED
    BY <1>2, <2>1 DEF LineOK
<1>5. /\ Append(Line, t) \in Seq(Task) /\ Len(Append(Line, t)) = count + 1
      /\ \A i \in 1..count : Append(Line, t)[i] = Line[i]
      /\ Append(Line, t)[count + 1] = t
  BY LineType, AppendProperties
<1>6. ASSUME NEW i \in 1..(count + 1)
      PROVE  Line'[i] = Append(Line, t)[i]
  <2>1. At(i - 1)' = At(i - 1) /\ At(i - 1) \in Slot
    BY <1>2, <1>4 DEF At
  <2>2. CASE i = count + 1
    <3>1. At(i - 1) = tail
      BY <1>1, <1>2, <2>2
    <3>2. QED
      BY <1>2, <1>4, <1>5, <2>1, <2>2, <3>1 DEF RingType
  <2>3. CASE i # count + 1
    <3>1. i \in 1..count
      BY <1>1, <2>3
    <3>2. At(i - 1) # tail
      BY <1>1, <1>2, <3>1, PlaceOf
    <3>3. queue'[At(i - 1)] = queue[At(i - 1)]
      BY <1>2, <2>1, <3>2 DEF RingType
    <3>4. QED
      BY <1>4, <1>5, <2>1, <3>1, <3>3, LineType
  <2>4. QED
    BY <2>2, <2>3
<1>7. QED
  BY <1>4, <1>5, <1>6, SeqEqual

\* A worker takes the first task of the line.
LEMMA TakeTails ==
  ASSUME RingType, RingCoherent, count # 0,
         queue' = [queue EXCEPT ![head] = None],
         head' = (head + 1) % QueueSize,
         count' = count - 1,
         tail' = tail
  PROVE  Line # <<>> /\ Line' = Tail(Line) /\ queue[head] = Head(Line)
<1>1. QueueSize \in Nat \ {0} /\ count \in 1..QueueSize /\ head \in Slot
  BY ThreadPoolAssumption DEF RingType
<1>2. /\ Line \in Seq(Task) /\ Len(Line) = count
      /\ \A i \in 1..count : Line[i] = queue[At(i - 1)]
  BY LineType
<1>3. Line # <<>>
  BY <1>1, <1>2, EmptySeq
<1>4. RingType' /\ RingCoherent'
  BY TakeKeepsRing
<1>5. /\ Line' \in Seq(Task) /\ Len(Line') = count - 1
      /\ \A i \in 1..(count - 1) : Line'[i] = queue'[At(i - 1)']
  <2>1. LineOK'
    BY <1>4, LineAlways, PTL
  <2>2. QED
    BY <2>1 DEF LineOK
<1>6. /\ Tail(Line) \in Seq(Task) /\ Len(Tail(Line)) = count - 1
      /\ \A i \in 1..(count - 1) : Tail(Line)[i] = Line[i + 1]
  BY <1>2, <1>3, HeadTailProperties
<1>7. ASSUME NEW i \in 1..(count - 1)
      PROVE  Line'[i] = Tail(Line)[i]
  <2>1. i - 1 \in Slot /\ (i - 1) + 1 < QueueSize /\ (i - 1) + 1 = i
    BY <1>1 DEF Slot
  <2>2. At(i - 1)' = At(i) /\ At(i - 1)' # head /\ At(i - 1)' \in Slot
    BY <2>1, TakeShifts
  <2>3. Line'[i] = queue[At(i)]
    BY <1>5, <2>2 DEF RingType
  <2>4. i + 1 \in 1..count /\ (i + 1) - 1 = i
    BY <1>1
  <2>5. Line[i + 1] = queue[At(i)]
    BY <1>2, <2>4
  <2>6. QED
    BY <1>6, <2>3, <2>5
<1>8. Line' = Tail(Line)
  BY <1>5, <1>6, <1>7, SeqEqual
<1>9. At(0) = head
  <2>1. 0 \in 0..QueueSize /\ head + 0 < QueueSize /\ head + 0 = head
    BY <1>1 DEF Slot
  <2>2. QED
    BY <1>1, <2>1, AtIs DEF At
<1>10. queue[head] = Head(Line)
  <2>1. 1 \in 1..count /\ 1 - 1 = 0
    BY <1>1
  <2>2. Line[1] = queue[head]
    BY <1>2, <1>9, <2>1
  <2>3. Head(Line) = Line[1]
    OBVIOUS
  <2>4. QED
    BY <2>2, <2>3
<1>11. QED
  BY <1>3, <1>8, <1>10

\* A task that is being added is not in the line yet.
LEMMA NotInLine ==
  ASSUME IInv, NEW t, \A i \in Slot : queue[i] # t
  PROVE  \A i \in DOMAIN Line : Line[i] # t
  BY LineType DEF IInv, Line

\* The steps of a thread that adds are steps of the abstract queue.
LEMMA AdderRefines ==
  ASSUME IInv, OnePlace, NEW a \in Adder,
         Add(a) \/ \E t \in Task : CallAdd(a, t)
  PROVE  WQ!Next \/ UNCHANGED WQ!vars
<1>1. CASE \E t \in Task : CallAdd(a, t)
  BY <1>1 DEF CallAdd, ringVars, WQ!vars, At
<1>2. CASE Add(a) /\ Refuses
  BY <1>2 DEF Add, ringVars, WQ!vars, At
<1>3. CASE Add(a) /\ ~Refuses
  <2>1. /\ Put(adder[a]) /\ ~Full /\ shutdown = "no"
        /\ adder[a] \in Task /\ adder[a] # None
        /\ UNCHANGED <<shutdown, task, done>>
    BY <1>3 DEF Add, Refuses, IInv, RestType
  <2>2. Line' = Append(Line, adder[a])
    BY <2>1, PutAppends DEF IInv
  <2>3. Len(Line) < QueueSize
    BY <2>1, LineType, ThreadPoolAssumption DEF IInv, RingType, Full
  <2>4. adder[a] \notin Taken \cup done
    BY <2>1 DEF Taken, OnePlace, AddingFresh
  <2>5. \A i \in DOMAIN Line : Line[i] # adder[a]
    BY <2>1, NotInLine DEF OnePlace, AddingFresh
  <2>6. WQ!Accept(adder[a])
    BY <2>1, <2>2, <2>3, <2>4, <2>5 DEF WQ!Accept, Line, Taken
  <2>7. QED
    BY <2>1, <2>6 DEF WQ!Next
<1>4. QED
  BY <1>1, <1>2, <1>3

\* So are those of a worker.
LEMMA WorkerRefines ==
  ASSUME IInv, OnePlace, NEW w \in Worker, WorkerStep(w) \/ SpuriousWakeup(w)
  PROVE  WQ!Next \/ UNCHANGED WQ!vars
<1>1. CASE Wait(w) \/ End(w) \/ SpuriousWakeup(w)
  BY <1>1 DEF Wait, End, SpuriousWakeup, ringVars, WQ!vars, At
<1>2. CASE Take(w)
  <2>1. /\ count # 0 /\ shutdown # "immediate" /\ worker[w] = "lock"
        /\ UNCHANGED <<shutdown, done>>
        /\ task' = [task EXCEPT ![w] = queue[head]]
    BY <1>2 DEF Take, WaitsForTask, Ends, IInv, RestType
  <2>2. Line # <<>> /\ Line' = Tail(Line) /\ queue[head] = Head(Line)
    BY <1>2, <2>1, TakeTails DEF Take, IInv
  <2>3. queue[head] # None
    BY <1>2, <2>1, TakeKeepsRing, ThreadPoolAssumption DEF Take, IInv
  <2>4. \A v \in Worker : task'[v] = IF v = w THEN queue[head] ELSE task[v]
    BY <2>1 DEF IInv, RestType
  <2>5. task[w] = None
    BY <2>1 DEF OnePlace, TakenOnce
  <2>6. Taken' = Taken \cup {Head(Line)}
    BY <2>2, <2>3, <2>4, <2>5 DEF Taken
  <2>7. WQ!Take
    BY <2>1, <2>2, <2>6 DEF WQ!Take, Line, Taken
  <2>8. QED
    BY <2>7 DEF WQ!Next
<1>3. CASE Run(w)
  <2>1. /\ task[w] # None /\ task[w] \in Task
        /\ UNCHANGED <<queue, head, count, shutdown>>
        /\ done' = done \cup {task[w]}
        /\ task' = [task EXCEPT ![w] = None]
    BY <1>3 DEF Run, ringVars, IInv, RunningHasTask, RestType
  <2>2. PICK t \in Task : t = task[w]
    BY <2>1
  <2>3. \A v \in Worker : task'[v] = IF v = w THEN None ELSE task[v]
    BY <2>1 DEF IInv, RestType
  <2>4. \A v \in Worker : task[v] = t => v = w
    BY <2>1, <2>2 DEF OnePlace, TakenOnce
  <2>5. Taken' = Taken \ {t} /\ t \in Taken
    BY <2>1, <2>2, <2>3, <2>4 DEF Taken
  <2>6. Line' = Line
    BY <2>1 DEF Line, At
  <2>7. WQ!Finish(t)
    BY <2>1, <2>2, <2>5, <2>6 DEF WQ!Finish, Line, Taken
  <2>8. QED
    BY <2>7 DEF WQ!Next
<1>4. QED
  BY <1>1, <1>2, <1>3 DEF WorkerStep

\* And those of threadpool_destroy: the first closes the queue.
LEMMA DestroyerRefines ==
  ASSUME NEW x \in Destroyer, CallDestroy(x) \/ DestroyerStep(x)
  PROVE  WQ!Next \/ UNCHANGED WQ!vars
<1>1. CASE CallDestroy(x) \/ DestroyAgain(x) \/ Join(x) \/ Free(x)
  BY <1>1 DEF CallDestroy, DestroyAgain, Join, Free, ringVars, WQ!vars, At
<1>2. ASSUME NEW how \in {"immediate", "graceful"}, Destroy(x, how)
      PROVE  WQ!Next
  BY <1>2 DEF Destroy, ringVars, WQ!Next, WQ!Close, At
<1>3. QED
  BY <1>1, <1>2 DEF DestroyerStep

\* The pool is a first-in first-out queue of tasks with room for queue_size of
\* them: what is accepted is taken once, by one worker, in the order it was
\* accepted in, nothing is accepted after a shutdown, and nothing is taken
\* after an immediate one.
THEOREM PoolImplementsWorkQueue == SafeSpec => ImplementsWorkQueue
<1>1. Init => WQ!Init
  <2> SUFFICES ASSUME Init PROVE WQ!Init
    OBVIOUS
  <2>1. RingType /\ RingCoherent /\ count = 0
    BY InitRing DEF Init
  <2>2. Line = <<>>
    BY <2>1, LineType, EmptySeq
  <2>3. Taken = {}
    BY DEF Init, Taken
  <2>4. QED
    BY <2>2, <2>3 DEF Init, WQ!Init, Line, Taken
<1>2. IInv /\ OnePlace /\ [Next]_vars => [WQ!Next]_(WQ!vars)
  <2> SUFFICES ASSUME IInv, OnePlace, [Next]_vars
               PROVE  WQ!Next \/ UNCHANGED WQ!vars
    OBVIOUS
  <2>1. CASE Next
    BY <2>1, AdderRefines, WorkerRefines, DestroyerRefines DEF Next
  <2>2. CASE UNCHANGED vars
    BY <2>2 DEF vars, ringVars, WQ!vars, At
  <2>3. QED
    BY <2>1, <2>2
<1>3. IInv /\ [Next]_vars => IInv'
  BY NextIInv
<1>4. QED
  BY InitIInv, InitOnePlace, NextOnePlace, <1>1, <1>2, <1>3, PTL
  DEF SafeSpec, ImplementsWorkQueue, WQ!Spec
=============================================================================
