-------------------------- MODULE EventLoopProofs --------------------------
(***************************************************************************)
(* Proofs about EventLoop for any set of functors and of callers: the type *)
(* invariant, no lost wakeup, no lost quit, and that the loop implements   *)
(* the safety part of TaskQueue.  Then about EventLoopThread: the loop in  *)
(* its thread is an EventLoop, so that what was proved of every EventLoop  *)
(* holds of it; and the loop is there while its owner may use it.          *)
(***************************************************************************)
EXTENDS EventLoopThread, SequenceTheorems, TLAPS

\* The state keeps its shape in every step (looping_ and
\* callingPendingFunctors_ mark loop() and doPendingFunctors exactly).
THEOREM TypeCorrect == SafeSpec => []TypeOK
<1>1. ASSUME Init PROVE TypeOK
  <2> USE <1>1 DEF Init
  <2>1. /\ pendingFunctors \in Seq(Task) /\ functors \in Seq(Task)
        /\ done \in Seq(Task) /\ submitted \subseteq Task
    OBVIOUS
  <2>2. caller \in [Caller -> {"idle", "wakeup"}]
    OBVIOUS
  <2>3. quit \in BOOLEAN /\ wakeReady \in BOOLEAN /\ ioReady \in BOOLEAN
    OBVIOUS
  <2> QED
    BY <2>1, <2>2, <2>3 DEF TypeOK
<1>2. TypeOK /\ [Next]_vars => TypeOK'
  <2> SUFFICES ASSUME TypeOK, [Next]_vars PROVE TypeOK'
    OBVIOUS
  <2> USE DEF TypeOK, loopVars, queueVars, wakeVars
  <2>1. ASSUME NEW c \in Caller, NEW t \in Task, QueueInLoop(c, t)
        PROVE TypeOK'
    BY <2>1 DEF QueueInLoop, Push
  <2>2. ASSUME NEW c \in Caller, Quit(c) PROVE TypeOK'
    BY <2>2 DEF Quit
  <2>3. ASSUME NEW c \in Caller, CallerWakeup(c) PROVE TypeOK'
    BY <2>3 DEF CallerWakeup, Wakeup
  <2>4. CASE IoEvent
    BY <2>4 DEF IoEvent
  <2>5. CASE StartLoop
    BY <2>5 DEF StartLoop
  <2>6. CASE CheckQuit
    <3>1. CASE quit
      BY <2>6, <3>1 DEF CheckQuit
    <3>2. CASE ~quit
      BY <2>6, <3>2 DEF CheckQuit
    <3> QED
      BY <3>1, <3>2
  <2>7. CASE Poll
    BY <2>7 DEF Poll, Active
  <2>8. CASE HandleWakeup
    BY <2>8 DEF HandleWakeup
  <2>9. ASSUME Body
        PROVE  /\ pendingFunctors' \in Seq(Task)
               /\ submitted' \subseteq Task
               /\ eventfd' \in Nat
               /\ wakeReady' \in BOOLEAN
               /\ quit' \in BOOLEAN
    <3>1. ASSUME NEW t \in Task, LoopQueues(t)
          PROVE  /\ pendingFunctors' \in Seq(Task)
                 /\ submitted' \subseteq Task
                 /\ quit' = quit
      BY <3>1 DEF LoopQueues, Push
    <3>2. ASSUME NEW t \in Task, LoopQueues(t)
          PROVE eventfd' \in Nat /\ wakeReady' \in BOOLEAN
      <4>1. CASE callingPendingFunctors
        <5>1. eventfd' = eventfd + 1 /\ wakeReady' = TRUE
          BY <3>2, <4>1, Zenon DEF LoopQueues, Wakeup
        <5> QED
          BY <5>1
      <4>2. CASE ~callingPendingFunctors
        BY <3>2, <4>2 DEF LoopQueues
      <4> QED
        BY <4>1, <4>2
    <3> QED
      BY <2>9, <3>1, <3>2 DEF Body, LoopQuits
  <2>10. CASE HandleIo
    BY <2>9, <2>10 DEF HandleIo
  <2>11. CASE StartPending
    BY <2>11 DEF StartPending
  <2>12. CASE RunFunctor
    BY <2>9, <2>12 DEF RunFunctor
  <2>13. CASE FinishPending
    BY <2>13 DEF FinishPending
  <2>14. CASE UNCHANGED vars
    BY <2>14 DEF vars
  <2> QED
    BY <2>1, <2>2, <2>3, <2>4, <2>5, <2>6, <2>7, <2>8, <2>10, <2>11, <2>12,
       <2>13, <2>14 DEF Next, LoopStep, CallerStep
<1> QED
  BY <1>1, <1>2, PTL DEF SafeSpec

-----------------------------------------------------------------------------
(* No lost wakeup.                                                         *)

\* WakeupPending is inductive once TypeOK ties callingPendingFunctors_ to
\* doPendingFunctors: every push outside the handlers is announced.
LEMMA WakeupPendingStep == TypeOK /\ WakeupPending /\ [Next]_vars => WakeupPending'
<1> SUFFICES ASSUME TypeOK, WakeupPending, [Next]_vars PROVE WakeupPending'
  OBVIOUS
<1> USE DEF TypeOK, WakeupPending, Signalled, loopVars, queueVars, wakeVars
<1>1. ASSUME NEW c \in Caller, NEW t \in Task, QueueInLoop(c, t)
      PROVE WakeupPending'
  BY <1>1 DEF QueueInLoop, Push
<1>2. ASSUME NEW c \in Caller, Quit(c) PROVE WakeupPending'
  BY <1>2 DEF Quit
<1>3. ASSUME NEW c \in Caller, CallerWakeup(c) PROVE WakeupPending'
  BY <1>3 DEF CallerWakeup, Wakeup
<1>4. CASE IoEvent
  BY <1>4 DEF IoEvent
<1>5. CASE StartLoop
  BY <1>5 DEF StartLoop
<1>6. CASE CheckQuit
  BY <1>6 DEF CheckQuit
<1>7. CASE Poll
  BY <1>7 DEF Poll, Active
<1>8. CASE HandleWakeup
  BY <1>8 DEF HandleWakeup
<1>9. CASE HandleIo
  BY <1>9 DEF HandleIo
<1>10. CASE StartPending
  BY <1>10 DEF StartPending
<1>11. CASE RunFunctor
  <2>1. ASSUME NEW t \in Task, LoopQueues(t) PROVE wakeReady' /\ eventfd' > 0
    <3>1. callingPendingFunctors
      BY <1>11 DEF RunFunctor
    <3> QED
      BY <2>1, <3>1 DEF LoopQueues, Wakeup
  <2>2. CASE \E t \in Task : LoopQueues(t)
    BY <2>1, <2>2
  <2>3. CASE ~ \E t \in Task : LoopQueues(t)
    BY <1>11, <2>3 DEF RunFunctor, Body, LoopQuits
  <2> QED
    BY <2>2, <2>3
<1>12. CASE FinishPending
  BY <1>12 DEF FinishPending
<1>13. CASE UNCHANGED vars
  BY <1>13 DEF vars
<1> QED
  BY <1>1, <1>2, <1>3, <1>4, <1>5, <1>6, <1>7, <1>8, <1>9, <1>10, <1>11,
     <1>12, <1>13 DEF Next, LoopStep, CallerStep

\* A functor left in pendingFunctors_ when the loop goes back to epoll_wait
\* has a wakeup there or on its way, whatever the callers do meanwhile.
THEOREM NoLostWakeup == SafeSpec => []WakeupPending
<1>1. Init => WakeupPending
  BY DEF Init, WakeupPending, Signalled
<1> QED
  BY <1>1, WakeupPendingStep, TypeCorrect, PTL DEF SafeSpec

-----------------------------------------------------------------------------
(* No lost quit.                                                           *)

\* A loop in epoll_wait after quit_ was set has a wakeup coming.
THEOREM NoLostQuit == SafeSpec => []QuitSignalled
<1>1. Init => QuitSignalled
  BY DEF Init, QuitSignalled
<1>2. TypeOK /\ QuitSignalled /\ [Next]_vars => QuitSignalled'
  <2> SUFFICES ASSUME TypeOK, QuitSignalled, [Next]_vars PROVE QuitSignalled'
    OBVIOUS
  <2> USE DEF TypeOK, QuitSignalled, Signalled, loopVars, queueVars, wakeVars
  <2>1. ASSUME NEW c \in Caller, NEW t \in Task, QueueInLoop(c, t)
        PROVE QuitSignalled'
    BY <2>1 DEF QueueInLoop
  <2>2. ASSUME NEW c \in Caller, Quit(c) PROVE QuitSignalled'
    BY <2>2 DEF Quit
  <2>3. ASSUME NEW c \in Caller, CallerWakeup(c) PROVE QuitSignalled'
    BY <2>3 DEF CallerWakeup, Wakeup
  <2>4. CASE IoEvent
    BY <2>4 DEF IoEvent
  <2>5. CASE Poll
    BY <2>5 DEF Poll, Active
  <2>6. CASE UNCHANGED vars
    BY <2>6 DEF vars
  <2>7. ASSUME StartLoop \/ CheckQuit \/ HandleWakeup \/ HandleIo \/ StartPending
                 \/ RunFunctor \/ FinishPending
        PROVE ~(pc' = "poll" /\ quit')
    BY <2>7 DEF StartLoop, CheckQuit, HandleWakeup, HandleIo, StartPending,
                RunFunctor, FinishPending
  <2> QED
    BY <2>1, <2>2, <2>3, <2>4, <2>5, <2>6, <2>7 DEF Next, LoopStep, CallerStep
<1> QED
  BY <1>1, <1>2, TypeCorrect, PTL DEF SafeSpec

-----------------------------------------------------------------------------
(* The loop implements TaskQueue.                                          *)

\* Appending to the shared vector appends to the abstract queue.
LEMMA PushAppends ==
  ASSUME NEW t \in Task, pendingFunctors \in Seq(Task), functors \in Seq(Task)
  PROVE  functors \o Append(pendingFunctors, t)
           = Append(functors \o pendingFunctors, t)
  OBVIOUS

\* Taking the first functor of the local vector takes it from the abstract queue.
LEMMA RunTakesHead ==
  ASSUME pendingFunctors \in Seq(Task), functors \in Seq(Task), functors # <<>>
  PROVE  /\ functors \o pendingFunctors # <<>>
         /\ Head(functors \o pendingFunctors) = Head(functors)
         /\ Tail(functors \o pendingFunctors) = Tail(functors) \o pendingFunctors
         /\ Tail(functors) \in Seq(Task)
  OBVIOUS

\* Every step of the loop and of its callers is a step of TaskQueue or
\* invisible to it: functors run once, in the order of the calls, and none
\* after loop() has returned.
THEOREM ImplementsTaskQueue == SafeSpec => TQ!SafeSpec
<1>1. Init => TQ!Init
  BY DEF Init, TQ!Init
<1>2. TypeOK /\ [Next]_vars => [TQ!Next]_(TQ!vars)
  <2> SUFFICES ASSUME TypeOK, [Next]_vars PROVE TQ!Next \/ UNCHANGED TQ!vars
    OBVIOUS
  <2> USE DEF TypeOK, loopVars, queueVars, wakeVars
  <2>1. ASSUME NEW t \in Task, Push(t), UNCHANGED <<functors, done>>,
               (pc' = "exited") = (pc = "exited")
        PROVE TQ!Next
    BY <2>1, PushAppends DEF Push, TQ!Next, TQ!Submit
  <2>2. ASSUME UNCHANGED <<functors, pendingFunctors, done>>,
               (pc' = "exited") = (pc = "exited")
        PROVE UNCHANGED TQ!vars
    BY <2>2 DEF TQ!vars
  <2>3. ASSUME NEW c \in Caller, NEW t \in Task, QueueInLoop(c, t) PROVE TQ!Next
    BY <2>1, <2>3 DEF QueueInLoop
  <2>4. ASSUME NEW c \in Caller, Quit(c) PROVE UNCHANGED TQ!vars
    BY <2>2, <2>4 DEF Quit
  <2>5. ASSUME NEW c \in Caller, CallerWakeup(c) PROVE UNCHANGED TQ!vars
    BY <2>2, <2>5 DEF CallerWakeup
  <2>6. ASSUME IoEvent \/ StartLoop \/ Poll \/ HandleWakeup \/ FinishPending
        PROVE UNCHANGED TQ!vars
    BY <2>2, <2>6 DEF IoEvent, StartLoop, Poll, HandleWakeup, FinishPending
  <2>7. CASE CheckQuit
    BY <2>7 DEF CheckQuit, TQ!Next, TQ!Stop, TQ!vars
  <2>8. CASE HandleIo
    BY <2>1, <2>2, <2>8 DEF HandleIo, Body, LoopQueues, LoopQuits
  <2>9. CASE StartPending
    <3>1. functors = <<>> /\ pendingFunctors' = <<>> /\ functors' = pendingFunctors
      BY <2>9 DEF StartPending
    <3>2. functors' \o pendingFunctors' = functors \o pendingFunctors
      BY <3>1, ConcatEmptySeq
    <3> QED
      BY <2>9, <3>2 DEF StartPending, TQ!vars
  <2>10. CASE RunFunctor
    <3>1. /\ functors \o pendingFunctors # <<>>
          /\ done' = Append(done, Head(functors \o pendingFunctors))
          /\ functors' = Tail(functors) /\ functors' \in Seq(Task)
          /\ pc = "run" /\ pc' = "run"
      BY <2>10, RunTakesHead DEF RunFunctor
    <3>2. CASE UNCHANGED pendingFunctors
      <4>1. functors' \o pendingFunctors' = Tail(functors \o pendingFunctors)
        BY <2>10, <3>2, RunTakesHead DEF RunFunctor
      <4> QED
        BY <3>1, <4>1 DEF TQ!Next, TQ!Run
    <3>3. ASSUME NEW t \in Task, Push(t) PROVE TQ!Next
      <4>1. functors' \o pendingFunctors'
              = Append(Tail(functors) \o pendingFunctors, t)
        BY <3>1, <3>3 DEF Push
      <4>2. functors' \o pendingFunctors'
              = Append(Tail(functors \o pendingFunctors), t)
        BY <2>10, <4>1, RunTakesHead DEF RunFunctor
      <4> QED
        BY <3>1, <4>2 DEF TQ!Next, TQ!Run
    <3> QED
      BY <2>10, <3>2, <3>3 DEF RunFunctor, Body, LoopQueues, LoopQuits
  <2>11. CASE UNCHANGED vars
    BY <2>2, <2>11 DEF vars
  <2> QED
    BY <2>3, <2>4, <2>5, <2>6, <2>7, <2>8, <2>9, <2>10, <2>11
       DEF Next, LoopStep, CallerStep
<1> QED
  BY <1>1, <1>2, TypeCorrect, PTL DEF SafeSpec, TQ!SafeSpec

-----------------------------------------------------------------------------
(* The loop in its thread.                                                 *)

LifeSafeSpec == LifeInit /\ [][LifeNext]_allVars

\* What the owner and the thread do to the loop are steps of EventLoop.
LEMMA LifeStep == [LifeNext]_allVars => [Next]_vars
<1> SUFFICES ASSUME [LifeNext]_allVars PROVE [Next]_vars
  OBVIOUS
<1>1. Owner \in Caller
  BY EventLoopThreadAssumption
<1>2. ASSUME CallerStep(Owner) PROVE Next
  BY <1>1, <1>2 DEF Next
<1>3. CASE OwnerQueues
  BY <1>2, <1>3 DEF OwnerQueues, CallerStep
<1>4. CASE OwnerWakes
  BY <1>2, <1>4 DEF OwnerWakes, CallerStep
<1>5. CASE OwnerQuits
  BY <1>2, <1>5 DEF OwnerQuits, CallerStep
<1>6. CASE OwnerWakesLoop
  BY <1>2, <1>6 DEF OwnerWakesLoop, CallerStep
<1>7. CASE RunLoop
  BY <1>7 DEF RunLoop, Next
<1>8. CASE SocketEvent
  BY <1>8 DEF SocketEvent, Next
<1>9. CASE UNCHANGED vars
  BY <1>9
<1> QED
  BY <1>3, <1>4, <1>5, <1>6, <1>7, <1>8, <1>9
     DEF LifeNext, OwnerStep, ThreadStep, Start, StartFails, LatchWait, CondWait,
         Spurious, Destroy, Join, CountDown, Publish, LeaveLoop, ReturnFromThread,
         allVars

\* The loop startLoop hands out behaves as EventLoop says, from before its
\* thread exists until after it has ended (EventLoopThread.cpp:49-64).
THEOREM LoopInItsThread == LifeSafeSpec => SafeSpec
<1>1. LifeInit => Init
  BY DEF LifeInit
<1> QED
  BY <1>1, LifeStep, PTL DEF LifeSafeSpec, SafeSpec

-----------------------------------------------------------------------------
(* Lifetimes.                                                              *)

\* Where the thread is: loop_ and the EventLoop exist exactly while it is in
\* loop(), and the EventLoop until it has left threadFunc.
ThreadInv ==
  /\ thread \in {"none", "created", "func", "loop", "leaving", "ended"}
  /\ owner = "new" => thread = "none"
  /\ loop_ <=> thread = "loop"
  /\ alive <=> thread \in {"loop", "leaving"}

\* Where the owner is: until its destructor has called quit() nobody has, and
\* the loop it was given has not ended.
OwnerInv ==
  /\ owner \in {"started", "quit"} => thread = "loop"
  /\ owner \notin {"wakeup", "join", "gone"} => ~quit /\ pc # "exited"
  /\ owner = "gone" => thread = "ended"

LifeInv == ThreadInv /\ OwnerInv

LEMMA LifeInvStep == LifeInv /\ [LifeNext]_allVars => LifeInv'
<1> SUFFICES ASSUME LifeInv, [LifeNext]_allVars PROVE LifeInv'
  OBVIOUS
<1> USE DEF LifeInv, ThreadInv, OwnerInv, lifeVars, vars, loopVars
<1>1. CASE Start
  BY <1>1 DEF Start
<1>2. CASE StartFails
  BY <1>2 DEF StartFails
<1>3. CASE LatchWait
  BY <1>3 DEF LatchWait
<1>4. CASE CondWait
  BY <1>4 DEF CondWait
<1>5. CASE Spurious
  BY <1>5 DEF Spurious
<1>6. CASE OwnerQueues
  BY <1>6 DEF OwnerQueues, QueueInLoop
<1>7. CASE OwnerWakes
  BY <1>7 DEF OwnerWakes, CallerWakeup
<1>8. CASE Destroy
  BY <1>8 DEF Destroy
<1>9. CASE OwnerQuits
  BY <1>9 DEF OwnerQuits, Quit
<1>10. CASE OwnerWakesLoop
  BY <1>10 DEF OwnerWakesLoop, CallerWakeup
<1>11. CASE Join
  BY <1>11 DEF Join
<1>12. CASE CountDown
  BY <1>12 DEF CountDown
<1>13. CASE Publish
  BY <1>13 DEF Publish
<1>14. CASE RunLoop
  <2>1. ~quit => ~quit' /\ (pc # "exited" => pc' # "exited")
    BY <1>14 DEF RunLoop, LoopStep, StartLoop, CheckQuit, Poll, HandleWakeup,
       HandleIo, StartPending, RunFunctor, FinishPending
  <2> QED
    BY <1>14, <2>1 DEF RunLoop
<1>15. CASE LeaveLoop
  BY <1>15 DEF LeaveLoop
<1>16. CASE ReturnFromThread
  BY <1>16 DEF ReturnFromThread
<1>17. CASE SocketEvent
  BY <1>17 DEF SocketEvent, IoEvent
<1>18. CASE UNCHANGED allVars
  BY <1>18 DEF allVars
<1> QED
  BY <1>1, <1>2, <1>3, <1>4, <1>5, <1>6, <1>7, <1>8, <1>9, <1>10, <1>11, <1>12,
     <1>13, <1>14, <1>15, <1>16, <1>17, <1>18 DEF LifeNext, OwnerStep, ThreadStep

\* The loop startLoop returns is there, and its thread inside loop(), until the
\* destructor has called quit(); the object goes only after its thread
\* (EventLoopThread.cpp:31, 42-46).
THEOREM LoopOutlivesItsUse == LifeSafeSpec => []Lifetimes
<1>1. LifeInit => LifeInv
  BY DEF LifeInit, Init, LifeInv, ThreadInv, OwnerInv
<1>2. LifeInv => Lifetimes
  BY DEF LifeInv, ThreadInv, OwnerInv, Lifetimes
<1> QED
  BY <1>1, <1>2, LifeInvStep, PTL DEF LifeSafeSpec

-----------------------------------------------------------------------------
(* The shape of the state.                                                 *)

LatchInv ==
  /\ latch \in {0, 1}
  /\ thread \in {"none", "created"} => latch = 1
  /\ owner \in {"new", "latch", "latched", "cond", "waiting", "started", "quit",
                "wakeup", "join", "gone"}
  /\ loop_ \in BOOLEAN
  /\ alive \in BOOLEAN

LEMMA LatchInvStep == ThreadInv /\ LatchInv /\ [LifeNext]_allVars => LatchInv'
<1> SUFFICES ASSUME ThreadInv, LatchInv, [LifeNext]_allVars PROVE LatchInv'
  OBVIOUS
<1> USE DEF ThreadInv, LatchInv, lifeVars
<1>1. CASE OwnerStep
  BY <1>1 DEF OwnerStep, Start, LatchWait, CondWait, OwnerWakes, OwnerQuits,
     OwnerWakesLoop, Join
<1>2. CASE ThreadStep
  <2>1. CASE CountDown
    BY <2>1 DEF CountDown
  <2>2. CASE Publish
    BY <2>2 DEF Publish
  <2>3. CASE RunLoop
    BY <2>3 DEF RunLoop
  <2>4. CASE LeaveLoop \/ ReturnFromThread
    BY <2>4 DEF LeaveLoop, ReturnFromThread
  <2> QED
    BY <1>2, <2>1, <2>2, <2>3, <2>4 DEF ThreadStep
<1>3. CASE StartFails \/ Spurious \/ OwnerQueues \/ Destroy \/ SocketEvent
  BY <1>3 DEF StartFails, Spurious, OwnerQueues, Destroy, SocketEvent
<1>4. CASE UNCHANGED allVars
  BY <1>4 DEF allVars
<1> QED
  BY <1>1, <1>2, <1>3, <1>4 DEF LifeNext

\* The latch of Thread::start counts down once, and loop and thread keep their
\* shape in every step of the two threads.
THEOREM LifeTypeCorrect == LifeSafeSpec => []LifeTypeOK
<1>1. LifeInit => LifeInv /\ LatchInv
  BY DEF LifeInit, Init, LifeInv, ThreadInv, OwnerInv, LatchInv
<1>2. TypeOK /\ LifeInv /\ LatchInv => LifeTypeOK
  BY DEF LifeInv, ThreadInv, LatchInv, LifeTypeOK
<1>3. LifeSafeSpec => []TypeOK
  BY LoopInItsThread, TypeCorrect
<1> QED
  BY <1>1, <1>2, <1>3, LifeInvStep, LatchInvStep, PTL DEF LifeSafeSpec, LifeInv

\* Wherever the thread is, a functor the owner has queued and the loop has not
\* swapped out when it sleeps has its wakeup coming (Server.cpp:80).
THEOREM NoLostWakeupInThread == LifeSafeSpec => []WakeupPending
  BY LoopInItsThread, NoLostWakeup, PTL
=============================================================================
