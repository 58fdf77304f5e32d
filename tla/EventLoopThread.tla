-------------------------- MODULE EventLoopThread --------------------------
(***************************************************************************)
(* The life of an IO thread: EventLoopThread (src/src/EventLoopThread.cpp),*)
(* the Thread it starts (base/Thread.cpp, base/CountDownLatch.cpp), and    *)
(* the EventLoop that lives on the stack of threadFunc.  EventLoop's       *)
(* actions are the steps of that loop, and of the owner when it calls it.  *)
(*                                                                         *)
(* The owner creates the EventLoopThread, calls startLoop, uses the loop   *)
(* (queueInLoop), and destroys the object; nothing else in webd calls      *)
(* quit(), so a loop ends only because of that.                            *)
(***************************************************************************)
EXTENDS EventLoop

CONSTANT Owner

ASSUME EventLoopThreadAssumption == Owner \in Caller

VARIABLES
  owner,   \* "new", "latch", "latched", "cond", "waiting",
           \* "started", "quit", "wakeup", "join", "gone"
  thread,  \* "none", "created", "func", "loop", "leaving", "ended"
  latch,   \* count_ of Thread's latch_
  loop_,   \* whether loop_ points to the loop
  alive    \* whether the EventLoop exists

lifeVars == <<owner, thread, latch, loop_, alive>>

LifeInit ==
  /\ Init
  /\ owner = "new"
  /\ thread = "none"
  /\ latch = 1
  /\ loop_ = FALSE
  /\ alive = FALSE

-----------------------------------------------------------------------------
(* The owner: startLoop.                                                   *)

\* Thread::start, up to pthread_create.
Start ==
  /\ owner = "new"
  /\ owner' = "latch"
  /\ thread' = "created"
  /\ UNCHANGED <<vars, latch, loop_, alive>>

\* pthread_create fails: Thread::start returns, and startLoop goes on to wait
\* for a loop_ that nobody will set.
StartFails ==
  /\ owner = "new"
  /\ owner' = "cond"
  /\ UNCHANGED <<vars, thread, latch, loop_, alive>>

\* CountDownLatch::wait
LatchWait ==
  /\ owner = "latch"
  /\ owner' = IF latch > 0 THEN "latched" ELSE "cond"
  /\ UNCHANGED <<vars, thread, latch, loop_, alive>>

\* Mutant of CondWait: the latch is trusted, and loop_ is not waited for.
CondWaitSkipped ==
  /\ owner = "cond"
  /\ owner' = "started"
  /\ UNCHANGED <<vars, thread, latch, loop_, alive>>

\* The wait for loop_ in startLoop.
CondWait ==
  /\ owner = "cond"
  /\ owner' = IF loop_ THEN "started" ELSE "waiting"
  /\ UNCHANGED <<vars, thread, latch, loop_, alive>>

\* A condition variable may let go without a notify.
Spurious ==
  /\ \/ owner = "latched" /\ owner' = "latch"
     \/ owner = "waiting" /\ owner' = "cond"
  /\ UNCHANGED <<vars, thread, latch, loop_, alive>>

\* The owner hands functors to the loop startLoop returned.
OwnerQueues ==
  /\ owner = "started"
  /\ \E t \in Task : QueueInLoop(Owner, t)
  /\ UNCHANGED lifeVars

OwnerWakes ==
  /\ owner = "started"
  /\ CallerWakeup(Owner)
  /\ UNCHANGED lifeVars

-----------------------------------------------------------------------------
(* The owner: the destructor.                                              *)

Destroy ==
  /\ owner = "started"
  /\ caller[Owner] = "idle"
  /\ owner' = IF loop_ THEN "quit" ELSE "gone"
  /\ UNCHANGED <<vars, thread, latch, loop_, alive>>

\* loop_->quit(), up to its wakeup.
OwnerQuits ==
  /\ owner = "quit"
  /\ Quit(Owner)
  /\ owner' = "wakeup"
  /\ UNCHANGED <<thread, latch, loop_, alive>>

OwnerWakesLoop ==
  /\ owner = "wakeup"
  /\ CallerWakeup(Owner)
  /\ owner' = "join"
  /\ UNCHANGED <<thread, latch, loop_, alive>>

Join ==
  /\ owner = "join"
  /\ thread = "ended"
  /\ owner' = "gone"
  /\ UNCHANGED <<vars, thread, latch, loop_, alive>>

-----------------------------------------------------------------------------
(* The thread: ThreadData::runInThread and threadFunc.                     *)

CountDown ==
  /\ thread = "created"
  /\ latch' = latch - 1
  /\ owner' = IF owner = "latched" THEN "latch" ELSE owner
  /\ thread' = "func"
  /\ UNCHANGED <<vars, loop_, alive>>

\* Mutant of Publish: the notify is forgotten.
PublishSilently ==
  /\ thread = "func"
  /\ alive' = TRUE
  /\ loop_' = TRUE
  /\ thread' = "loop"
  /\ UNCHANGED <<vars, owner, latch>>

\* The EventLoop is made, loop_ is set and the owner notified.
Publish ==
  /\ thread = "func"
  /\ alive' = TRUE
  /\ loop_' = TRUE
  /\ owner' = IF owner = "waiting" THEN "cond" ELSE owner
  /\ thread' = "loop"
  /\ UNCHANGED <<vars, latch>>

\* loop.loop(); no handler or functor of webd calls quit().
RunLoop ==
  /\ thread = "loop"
  /\ LoopStep
  /\ quit' # quit => pc = "start"
  /\ UNCHANGED lifeVars

LeaveLoop ==
  /\ thread = "loop" /\ pc = "exited"
  /\ loop_' = FALSE
  /\ thread' = "leaving"
  /\ UNCHANGED <<vars, owner, latch, alive>>

\* threadFunc returns, and its EventLoop is destroyed.
ReturnFromThread ==
  /\ thread = "leaving"
  /\ alive' = FALSE
  /\ thread' = "ended"
  /\ UNCHANGED <<vars, owner, latch, loop_>>

SocketEvent == alive /\ IoEvent /\ UNCHANGED lifeVars

-----------------------------------------------------------------------------

OwnerStep ==
  \/ Start \/ LatchWait \/ CondWait \/ OwnerWakes \/ OwnerQuits \/ OwnerWakesLoop
  \/ Join

ThreadStep ==
  CountDown \/ Publish \/ RunLoop \/ LeaveLoop \/ ReturnFromThread

LifeNext ==
  OwnerStep \/ StartFails \/ Spurious \/ OwnerQueues \/ Destroy \/ ThreadStep \/ SocketEvent

allVars == <<vars, lifeVars>>

\* Both threads are scheduled; the owner may keep the loop for ever.
LifeSpec ==
  /\ LifeInit /\ [][LifeNext]_allVars
  /\ WF_allVars(OwnerStep) /\ WF_allVars(ThreadStep)

-----------------------------------------------------------------------------
(* Properties.                                                             *)

\* The shape of the state.
LifeTypeOK ==
  /\ TypeOK
  /\ owner \in {"new", "latch", "latched", "cond", "waiting", "started", "quit",
                "wakeup", "join", "gone"}
  /\ thread \in {"none", "created", "func", "loop", "leaving", "ended"}
  /\ latch \in {0, 1}
  /\ loop_ \in BOOLEAN
  /\ alive \in BOOLEAN

\* startLoop returns a loop that exists, it exists until the destructor has
\* asked it to quit, and the object is gone only when its thread no longer
\* uses it (EventLoopThread.cpp:31, 42-46).
Lifetimes ==
  /\ owner \in {"started", "quit"} => loop_ /\ alive
  /\ owner = "gone" => thread = "ended" /\ ~alive

\* startLoop returns once the thread was created (EventLoopThread.cpp:42).
StartReturns == owner = "latch" ~> owner = "started"

\* A loop that has been entered is ended by the destructor.
DestructorEndsLoop == (owner = "quit" /\ looping) ~> owner = "gone"

\* The destructor ends the loop of its thread (EventLoopThread.cpp:26).
DestructorReturns == owner = "quit" ~> owner = "gone"
=============================================================================
