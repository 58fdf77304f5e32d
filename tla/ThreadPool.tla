----------------------------- MODULE ThreadPool -----------------------------
(***************************************************************************)
(* ThreadPool (src/src/ThreadPool.cpp): a ring of tasks under one mutex    *)
(* and one condition variable, the worker threads that take from it, the   *)
(* threads that add to it, and those that destroy it.                      *)
(*                                                                         *)
(* What a thread does between lock and unlock is one step, so the mutex is *)
(* only seen held where the code returns without unlocking it: in          *)
(* threadpool_destroy called a second time, and in threadpool_free, which  *)
(* destroys a mutex it holds (the library refuses that, and the mutex      *)
(* stays held).  A waiting thread may wake up without a signal.            *)
(***************************************************************************)
EXTENDS Integers, FiniteSets

CONSTANTS Task,      \* tasks; each is added at most once
          Worker,    \* the threads of the pool
          Adder,     \* threads that call threadpool_add
          Destroyer, \* threads that call threadpool_destroy, once each
          QueueSize, \* queue_size
          None

ASSUME ThreadPoolAssumption ==
  /\ QueueSize \in Nat \ {0}
  /\ None \notin Task
  /\ IsFiniteSet(Worker)

VARIABLES
  queue, head, tail, count,  \* the ring
  shutdown,                  \* "no", "immediate", "graceful"
  started,                   \* workers that have not ended
  lock,                      \* TRUE once somebody keeps the mutex
  worker,   \* "lock": on its way to the mutex, "waiting", "running", "ended"
  task,     \* the task a worker runs
  adder,    \* the task an adder is adding, or None
  added,    \* tasks some thread has called threadpool_add for
  destroyer,\* "idle", "call", "join", "free", "done"
  refused,  \* tasks threadpool_add refused
  done      \* tasks that have been run

ringVars == <<queue, head, tail, count>>
vars == <<ringVars, shutdown, started, lock, worker, task, adder, added,
          destroyer, refused, done>>

Slot == 0..(QueueSize - 1)

\* The pool as threadpool_create leaves it.
Init ==
  /\ queue = [i \in Slot |-> None]
  /\ head = 0 /\ tail = 0 /\ count = 0
  /\ shutdown = "no"
  /\ started = Cardinality(Worker)
  /\ lock = FALSE
  /\ worker = [w \in Worker |-> "lock"]
  /\ task = [w \in Worker |-> None]
  /\ adder = [a \in Adder |-> None]
  /\ added = {}
  /\ destroyer = [x \in Destroyer |-> "idle"]
  /\ refused = {}
  /\ done = {}

Waiting == {w \in Worker : worker[w] = "waiting"}

\* pthread_cond_signal
Signal ==
  IF Waiting = {} THEN UNCHANGED worker
  ELSE \E w \in Waiting : worker' = [worker EXCEPT ![w] = "lock"]

\* Mutant of Broadcast: one waiting thread is woken.
BroadcastToOne == Signal

\* pthread_cond_broadcast
Broadcast ==
  worker' = [w \in Worker |-> IF w \in Waiting THEN "lock" ELSE worker[w]]

-----------------------------------------------------------------------------
(* threadpool_add.                                                         *)

CallAdd(a, t) ==
  /\ adder[a] = None
  /\ t \notin added
  /\ adder' = [adder EXCEPT ![a] = t]
  /\ added' = added \cup {t}
  /\ UNCHANGED <<ringVars, shutdown, started, lock, worker, task, destroyer,
                 refused, done>>

Full == count = QueueSize

\* Mutant of Put: the signal is only sent when the queue was empty.
PutSignalsFirst(t) ==
  /\ queue' = [queue EXCEPT ![tail] = t]
  /\ tail' = (tail + 1) % QueueSize
  /\ count' = count + 1
  /\ UNCHANGED head
  /\ IF count = 0 THEN Signal ELSE UNCHANGED worker

Put(t) ==
  /\ queue' = [queue EXCEPT ![tail] = t]
  /\ tail' = (tail + 1) % QueueSize
  /\ count' = count + 1
  /\ UNCHANGED head
  /\ Signal

\* Mutant of Refuses: the shutdown is not looked at.
RefusesWhenFull == Full

Refuses == Full \/ shutdown # "no"

\* The body of threadpool_add.
Add(a) ==
  /\ adder[a] # None
  /\ ~lock
  /\ IF Refuses
     THEN /\ refused' = refused \cup {adder[a]}
          /\ UNCHANGED <<ringVars, worker>>
     ELSE Put(adder[a]) /\ UNCHANGED refused
  /\ adder' = [adder EXCEPT ![a] = None]
  /\ UNCHANGED <<shutdown, started, lock, task, added, destroyer, done>>

-----------------------------------------------------------------------------
(* threadpool_thread.                                                      *)

\* The mutex is locked, and the condition variable was not worth waiting for.
WaitsForTask == count = 0 /\ shutdown = "no"

\* Mutant of Ends: a graceful shutdown does not wait for the queue to empty.
EndsAtOnce == shutdown # "no"

Ends == shutdown = "immediate" \/ (shutdown = "graceful" /\ count = 0)

Wait(w) ==
  /\ worker[w] = "lock" /\ ~lock
  /\ WaitsForTask
  /\ worker' = [worker EXCEPT ![w] = "waiting"]
  /\ UNCHANGED <<ringVars, shutdown, started, lock, task, adder, added,
                 destroyer, refused, done>>

SpuriousWakeup(w) ==
  /\ worker[w] = "waiting"
  /\ worker' = [worker EXCEPT ![w] = "lock"]
  /\ UNCHANGED <<ringVars, shutdown, started, lock, task, adder, added,
                 destroyer, refused, done>>

End(w) ==
  /\ worker[w] = "lock" /\ ~lock
  /\ Ends
  /\ started' = started - 1
  /\ worker' = [worker EXCEPT ![w] = "ended"]
  /\ UNCHANGED <<ringVars, shutdown, lock, task, adder, added, destroyer,
                 refused, done>>

\* Mutant of Take: head is wrapped one slot early.
TakeWrappingEarly(w) ==
  /\ worker[w] = "lock" /\ ~lock
  /\ ~WaitsForTask /\ ~Ends
  /\ task' = [task EXCEPT ![w] = queue[head]]
  /\ queue' = [queue EXCEPT ![head] = None]
  /\ head' = IF head + 2 >= QueueSize THEN 0 ELSE head + 1
  /\ count' = count - 1
  /\ worker' = [worker EXCEPT ![w] = "running"]
  /\ UNCHANGED <<tail, shutdown, started, lock, adder, added, destroyer,
                 refused, done>>

Take(w) ==
  /\ worker[w] = "lock" /\ ~lock
  /\ ~WaitsForTask /\ ~Ends
  /\ task' = [task EXCEPT ![w] = queue[head]]
  /\ queue' = [queue EXCEPT ![head] = None]
  /\ head' = (head + 1) % QueueSize
  /\ count' = count - 1
  /\ worker' = [worker EXCEPT ![w] = "running"]
  /\ UNCHANGED <<tail, shutdown, started, lock, adder, added, destroyer,
                 refused, done>>

\* The task returns, outside the mutex.
Run(w) ==
  /\ worker[w] = "running"
  /\ done' = done \cup {task[w]}
  /\ task' = [task EXCEPT ![w] = None]
  /\ worker' = [worker EXCEPT ![w] = "lock"]
  /\ UNCHANGED <<ringVars, shutdown, started, lock, adder, added, destroyer,
                 refused>>

-----------------------------------------------------------------------------
(* threadpool_destroy and threadpool_free.                                 *)

CallDestroy(x) ==
  /\ destroyer[x] = "idle"
  /\ destroyer' = [destroyer EXCEPT ![x] = "call"]
  /\ UNCHANGED <<ringVars, shutdown, started, lock, worker, task, adder, added,
                 refused, done>>

\* The first destroy, up to the unlock.
Destroy(x, how) ==
  /\ destroyer[x] = "call" /\ ~lock
  /\ shutdown = "no"
  /\ shutdown' = how
  /\ Broadcast
  /\ destroyer' = [destroyer EXCEPT ![x] = "join"]
  /\ UNCHANGED <<ringVars, started, lock, task, adder, added, refused, done>>

\* A later one finds the pool shut down, and returns with the mutex held.
DestroyAgain(x) ==
  /\ destroyer[x] = "call" /\ ~lock
  /\ shutdown # "no"
  /\ lock' = TRUE
  /\ destroyer' = [destroyer EXCEPT ![x] = "done"]
  /\ UNCHANGED <<ringVars, shutdown, started, worker, task, adder, added,
                 refused, done>>

\* Mutant of Joined: one worker is enough.
JoinedOne == \E w \in Worker : worker[w] = "ended"

Joined == \A w \in Worker : worker[w] = "ended"

Join(x) ==
  /\ destroyer[x] = "join"
  /\ Joined
  /\ destroyer' = [destroyer EXCEPT ![x] = "free"]
  /\ UNCHANGED <<ringVars, shutdown, started, lock, worker, task, adder, added,
                 refused, done>>

\* threadpool_free, which keeps the mutex.
Free(x) ==
  /\ destroyer[x] = "free"
  /\ \/ started > 0 /\ UNCHANGED lock
     \/ started <= 0 /\ ~lock /\ lock' = TRUE
  /\ destroyer' = [destroyer EXCEPT ![x] = "done"]
  /\ UNCHANGED <<ringVars, shutdown, started, worker, task, adder, added,
                 refused, done>>

-----------------------------------------------------------------------------

WorkerStep(w) == Wait(w) \/ End(w) \/ Take(w) \/ Run(w)

DestroyerStep(x) ==
  \/ \E how \in {"immediate", "graceful"} : Destroy(x, how)
  \/ DestroyAgain(x) \/ Join(x) \/ Free(x)

Next ==
  \/ \E a \in Adder : Add(a) \/ \E t \in Task : CallAdd(a, t)
  \/ \E w \in Worker : WorkerStep(w) \/ SpuriousWakeup(w)
  \/ \E x \in Destroyer : CallDestroy(x) \/ DestroyerStep(x)

SafeSpec == Init /\ [][Next]_vars

\* Every thread is scheduled, and tasks return.
Spec ==
  /\ SafeSpec
  /\ \A w \in Worker : WF_vars(WorkerStep(w))
  /\ \A a \in Adder : WF_vars(Add(a))
  /\ \A x \in Destroyer : WF_vars(DestroyerStep(x))

-----------------------------------------------------------------------------
(* Properties.                                                             *)

\* The shape of the state.
TypeOK ==
  /\ queue \in [Slot -> Task \cup {None}]
  /\ head \in Slot /\ tail \in Slot
  /\ count \in 0..QueueSize
  /\ shutdown \in {"no", "immediate", "graceful"}
  /\ started \in Int
  /\ lock \in BOOLEAN
  /\ worker \in [Worker -> {"lock", "waiting", "running", "ended"}]
  /\ task \in [Worker -> Task \cup {None}]
  /\ adder \in [Adder -> Task \cup {None}]
  /\ added \subseteq Task
  /\ destroyer \in [Destroyer -> {"idle", "call", "join", "free", "done"}]
  /\ refused \subseteq Task
  /\ done \subseteq Task

\* The place of the i-th waiting task.
At(i) == (head + i) % QueueSize

\* The ring holds count tasks from head on and nothing else, and tail is
\* where the next one goes (ThreadPool.cpp:65-79, 150-155).
RingCoherent ==
  /\ tail = At(count)
  /\ \A i \in Slot : queue[At(i)] # None <=> i < count

\* No task is left to sleeping workers: while one sleeps, as many are on their
\* way to the ring as tasks wait in it, and none sleeps through a shutdown
\* (ThreadPool.cpp:82, 109, 142).
NoLostSignal ==
  Waiting # {} =>
    /\ shutdown = "no"
    /\ count <= Cardinality({w \in Worker : worker[w] = "lock"})

\* The mutex and the condition variable are only destroyed when no worker can
\* use them any more (ThreadPool.cpp:115-134).
FreedLast ==
  \A x \in Destroyer :
    destroyer[x] = "free" => started = 0 /\ \A w \in Worker : worker[w] = "ended"

\* The pool does what WorkQueue says, its queue being what the ring holds.
WQ == INSTANCE WorkQueue WITH
        Capacity <- QueueSize,
        waiting <- [i \in 1..count |-> queue[At(i - 1)]],
        running <- {task[w] : w \in Worker} \ {None},
        finished <- done,
        closed <- shutdown

ImplementsWorkQueue == WQ!Spec

\* A task that was accepted is run, unless an immediate shutdown drops it; and
\* threadpool_destroy returns (ThreadPool.cpp:109, 115-119, 145).  Both are
\* said of a pool that is destroyed once: DestroyAgain keeps the mutex, and
\* workers, adders and the first destroyer then wait for it for ever.
Accepted(t) ==
  \/ \E i \in Slot : queue[i] = t
  \/ \E w \in Worker : task[w] = t

DestroyedTwice ==
  \E x, y \in Destroyer : x # y /\ "idle" \notin {destroyer[x], destroyer[y]}

TasksRun ==
  \A t \in Task :
    Accepted(t) ~> (t \in done \/ shutdown = "immediate" \/ DestroyedTwice)

DestroyReturns ==
  \A x \in Destroyer :
    destroyer[x] = "call" ~> (destroyer[x] = "done" \/ DestroyedTwice)
=============================================================================
