----------------------------- MODULE TaskQueue -----------------------------
(***************************************************************************)
(* What EventLoop promises the threads that call queueInLoop: every        *)
(* functor handed over is run exactly once, in the order of the calls,     *)
(* until the loop stops, and while the loop runs nobody waits forever.     *)
(***************************************************************************)
EXTENDS Sequences

CONSTANT Task       \* the functors callers may submit

VARIABLES queue,    \* submitted and not yet run, oldest first
          done,     \* run, in order
          stopped   \* the loop has returned

vars == <<queue, done, stopped>>

Init == queue = <<>> /\ done = <<>> /\ stopped = FALSE

Submit(t) == queue' = Append(queue, t) /\ UNCHANGED <<done, stopped>>

\* Running a functor may submit others behind those already waiting.
Run ==
  /\ ~stopped
  /\ queue # <<>>
  /\ done' = Append(done, Head(queue))
  /\ \/ queue' = Tail(queue)
     \/ \E t \in Task : queue' = Append(Tail(queue), t)
  /\ UNCHANGED stopped

Stop == stopped' = TRUE /\ UNCHANGED <<queue, done>>

Next == (\E t \in Task : Submit(t)) \/ Run \/ Stop

SafeSpec == Init /\ [][Next]_vars

Spec == SafeSpec /\ WF_vars(Run)
=============================================================================
