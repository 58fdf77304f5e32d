----------------------------- MODULE EventLoop -----------------------------
(***************************************************************************)
(* One EventLoop (src/src/EventLoop.cpp): the thread that runs loop() and  *)
(* the threads that call queueInLoop and quit on it.  The mutex makes the  *)
(* push and the swap of pendingFunctors_ atomic; the call of wakeup() after*)
(* the push, and after the store to quit_, is a step of its own.           *)
(*                                                                         *)
(* The eventfd is a kernel counter, and its channel is registered edge     *)
(* triggered: every write puts it on the ready list (wakeReady), epoll_wait*)
(* takes it off, and reports it only if the counter is then positive.      *)
(* Epoll::poll returns only when it has something to report (its time out  *)
(* just waits again), and the sockets of the loop are reduced to one bit,  *)
(* ioReady.  What handleExpired does never touches this state.             *)
(***************************************************************************)
EXTENDS Integers, Sequences

CONSTANTS Task,         \* functors; each is submitted at most once
          Caller,       \* threads other than the loop's own
          MaxQuitCalls  \* bound on calls of quit() from the callers

ASSUME EventLoopAssumption == MaxQuitCalls \in Nat

VARIABLES
  pc,                     \* where loop() is
  looping, quit,          \* looping_, quit_
  callingPendingFunctors, \* callingPendingFunctors_
  pendingFunctors,        \* pendingFunctors_
  functors,               \* what is left of the vector in doPendingFunctors
  ret,                    \* active channels of this round, not yet handled
  eventfd, wakeReady,     \* the wakeup counter and its place on the ready list
  ioReady,                \* some socket of the loop is ready
  caller,                 \* what each caller still has to do
  quitCalls,              \* calls of quit() so far
  submitted, done         \* history: functors handed over, functors run

loopVars == <<pc, looping, callingPendingFunctors, functors, ret, done>>
queueVars == <<pendingFunctors, submitted>>
wakeVars == <<eventfd, wakeReady>>
vars == <<loopVars, queueVars, wakeVars, quit, ioReady, caller, quitCalls>>

Init ==
  /\ pc = "start"
  /\ looping = FALSE
  /\ quit = FALSE
  /\ callingPendingFunctors = FALSE
  /\ pendingFunctors = <<>>
  /\ functors = <<>>
  /\ ret = {}
  /\ eventfd = 0
  /\ wakeReady = FALSE
  /\ ioReady = FALSE
  /\ caller = [c \in Caller |-> "idle"]
  /\ quitCalls = 0
  /\ submitted = {}
  /\ done = <<>>

\* wakeup(): the write raises the counter and, with EPOLLET, reports an edge.
Wakeup == eventfd' = eventfd + 1 /\ wakeReady' = TRUE

Push(t) ==
  /\ t \notin submitted
  /\ submitted' = submitted \cup {t}
  /\ pendingFunctors' = Append(pendingFunctors, t)

-----------------------------------------------------------------------------
(* The callers.                                                            *)

\* queueInLoop up to the unlock.
QueueInLoop(c, t) ==
  /\ caller[c] = "idle"
  /\ Push(t)
  /\ caller' = [caller EXCEPT ![c] = "wakeup"]
  /\ UNCHANGED <<loopVars, wakeVars, quit, ioReady, quitCalls>>

\* Mutant of Quit: quit() without the wakeup.
QuitSilently(c) ==
  /\ caller[c] = "idle"
  /\ quitCalls < MaxQuitCalls
  /\ quitCalls' = quitCalls + 1
  /\ quit' = TRUE
  /\ UNCHANGED <<loopVars, queueVars, wakeVars, ioReady, caller>>

\* quit() up to its wakeup().
Quit(c) ==
  /\ caller[c] = "idle"
  /\ quitCalls < MaxQuitCalls
  /\ quitCalls' = quitCalls + 1
  /\ quit' = TRUE
  /\ caller' = [caller EXCEPT ![c] = "wakeup"]
  /\ UNCHANGED <<loopVars, queueVars, wakeVars, ioReady>>

CallerWakeup(c) ==
  /\ caller[c] = "wakeup"
  /\ Wakeup
  /\ caller' = [caller EXCEPT ![c] = "idle"]
  /\ UNCHANGED <<loopVars, queueVars, quit, ioReady, quitCalls>>

\* Bytes, connections or hang-ups arrive on a socket of the loop.
IoEvent ==
  /\ ~ioReady
  /\ ioReady' = TRUE
  /\ UNCHANGED <<loopVars, queueVars, wakeVars, quit, caller, quitCalls>>

-----------------------------------------------------------------------------
(* The loop thread.                                                        *)

\* Entry of loop(): quit_ is cleared, whatever was stored in it before.
StartLoop ==
  /\ pc = "start"
  /\ pc' = "check"
  /\ looping' = TRUE
  /\ quit' = FALSE
  /\ UNCHANGED <<callingPendingFunctors, functors, ret, done, queueVars,
                 wakeVars, ioReady, caller, quitCalls>>

CheckQuit ==
  /\ pc = "check"
  /\ pc' = IF quit THEN "exited" ELSE "poll"
  /\ looping' = ~quit
  /\ UNCHANGED <<callingPendingFunctors, functors, ret, done, queueVars,
                 wakeVars, quit, ioReady, caller, quitCalls>>

\* The channels epoll_wait reports: an edge whose counter was read meanwhile
\* is dropped.
Active == (IF wakeReady /\ eventfd > 0 THEN {"wakeup"} ELSE {})
            \cup (IF ioReady THEN {"io"} ELSE {})

\* One epoll_wait of Epoll::poll that finds the ready list not empty.
Poll ==
  /\ pc = "poll"
  /\ wakeReady \/ ioReady
  /\ ret' = Active
  /\ wakeReady' = FALSE
  /\ ioReady' = FALSE
  /\ pc' = IF Active = {} THEN "poll" ELSE "handle"
  /\ UNCHANGED <<looping, callingPendingFunctors, functors, done, queueVars,
                 eventfd, quit, caller, quitCalls>>

\* handleRead of the wakeup channel: the read returns the counter and clears it.
HandleWakeup ==
  /\ pc = "handle"
  /\ "wakeup" \in ret
  /\ ret' = ret \ {"wakeup"}
  /\ eventfd' = 0
  /\ UNCHANGED <<pc, looping, callingPendingFunctors, functors, done, queueVars,
                 wakeReady, quit, ioReady, caller, quitCalls>>

\* Mutant of LoopQueues: the test of callingPendingFunctors_ is forgotten.
LoopQueuesSilently(t) == Push(t) /\ UNCHANGED <<wakeVars, quit>>

\* queueInLoop called on the loop thread: it wakes the loop only from inside
\* doPendingFunctors.
LoopQueues(t) ==
  /\ Push(t)
  /\ IF callingPendingFunctors THEN Wakeup ELSE UNCHANGED wakeVars
  /\ UNCHANGED quit

\* quit() called on the loop thread.
LoopQuits == quit' = TRUE /\ UNCHANGED <<queueVars, wakeVars>>

\* What a handler or functor may do to its own loop.
Body ==
  \/ UNCHANGED <<queueVars, wakeVars, quit>>
  \/ \E t \in Task : LoopQueues(t)
  \/ LoopQuits

HandleIo ==
  /\ pc = "handle"
  /\ "io" \in ret
  /\ ret' = ret \ {"io"}
  /\ Body
  /\ UNCHANGED <<pc, looping, callingPendingFunctors, functors, done, ioReady,
                 caller, quitCalls>>

\* Mutant of StartPending: pendingFunctors_ is copied, not swapped.
StartPendingByCopy ==
  /\ pc = "handle"
  /\ ret = {}
  /\ pc' = "run"
  /\ callingPendingFunctors' = TRUE
  /\ functors' = pendingFunctors
  /\ UNCHANGED <<looping, ret, done, queueVars, wakeVars, quit, ioReady,
                 caller, quitCalls>>

\* doPendingFunctors up to the unlock.
StartPending ==
  /\ pc = "handle"
  /\ ret = {}
  /\ pc' = "run"
  /\ callingPendingFunctors' = TRUE
  /\ functors' = pendingFunctors
  /\ pendingFunctors' = <<>>
  /\ UNCHANGED <<looping, ret, done, submitted, wakeVars, quit, ioReady,
                 caller, quitCalls>>

RunFunctor ==
  /\ pc = "run"
  /\ functors # <<>>
  /\ done' = Append(done, Head(functors))
  /\ functors' = Tail(functors)
  /\ Body
  /\ UNCHANGED <<pc, looping, callingPendingFunctors, ret, ioReady, caller,
                 quitCalls>>

\* The end of doPendingFunctors, and handleExpired.
FinishPending ==
  /\ pc = "run"
  /\ functors = <<>>
  /\ pc' = "check"
  /\ callingPendingFunctors' = FALSE
  /\ UNCHANGED <<looping, functors, ret, done, queueVars, wakeVars, quit,
                 ioReady, caller, quitCalls>>

LoopStep ==
  StartLoop \/ CheckQuit \/ Poll \/ HandleWakeup \/ HandleIo \/ StartPending
    \/ RunFunctor \/ FinishPending

CallerStep(c) ==
  (\E t \in Task : QueueInLoop(c, t)) \/ Quit(c) \/ CallerWakeup(c)

Next == LoopStep \/ IoEvent \/ \E c \in Caller : CallerStep(c)

SafeSpec == Init /\ [][Next]_vars

\* The loop thread and a caller inside a call are scheduled; nobody has to
\* call, and no socket has to become ready.
Fairness ==
  /\ WF_vars(LoopStep)
  /\ \A c \in Caller : WF_vars(CallerWakeup(c))

Spec == SafeSpec /\ Fairness

-----------------------------------------------------------------------------
(* Properties.                                                             *)

\* The shape of the state; looping_ holds exactly inside loop(), and
\* callingPendingFunctors_ exactly inside doPendingFunctors (EventLoop.cpp:112,
\* 133), the flags two other functions trust.
TypeOK ==
  /\ pc \in {"start", "check", "poll", "handle", "run", "exited"}
  /\ looping = (pc \notin {"start", "exited"})
  /\ quit \in BOOLEAN
  /\ callingPendingFunctors = (pc = "run")
  /\ pendingFunctors \in Seq(Task)
  /\ functors \in Seq(Task)
  /\ functors # <<>> => pc = "run"
  /\ ret \subseteq {"wakeup", "io"}
  /\ ret # {} => pc = "handle"
  /\ eventfd \in Nat
  /\ wakeReady \in BOOLEAN
  /\ ioReady \in BOOLEAN
  /\ caller \in [Caller -> {"idle", "wakeup"}]
  /\ quitCalls \in Nat
  /\ submitted \subseteq Task
  /\ done \in Seq(Task)

\* A wakeup the loop has not consumed, or a caller about to make one.
Signalled ==
  \/ wakeReady /\ eventfd > 0
  \/ \E c \in Caller : caller[c] = "wakeup"

\* No lost wakeup (queueInLoop, EventLoop.cpp:107): outside the part of a
\* round that still leads to the swap, a queued functor is announced by a
\* wakeup that the next epoll_wait cannot miss.
WakeupPending == (pc # "handle" /\ pendingFunctors # <<>>) => Signalled

\* No lost quit (EventLoop.cpp:147): a loop that is inside epoll_wait after
\* quit_ was set has a wakeup coming, so it cannot sleep through it.
QuitSignalled == (pc = "poll" /\ quit) => Signalled

\* Once loop() has been entered, a quit makes it return.
QuitTakesEffect == (quit /\ pc # "start") ~> (pc = "exited")

TQ == INSTANCE TaskQueue WITH
        queue <- functors \o pendingFunctors, done <- done, stopped <- pc = "exited"

\* Functors run exactly once and in the order they were queued, across the
\* swap and the functors that queue others, and each is run unless the loop
\* returns first.
RunsInOrder == TQ!Spec
=============================================================================
