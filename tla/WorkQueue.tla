------------------------------ MODULE WorkQueue ------------------------------
(***************************************************************************)
(* What a ThreadPool promises: a task that is accepted waits in a first-in *)
(* first-out queue of limited length, is taken by one worker, and is run   *)
(* once; after a shutdown nothing more is accepted, and only a graceful    *)
(* one lets what is waiting be taken.                                      *)
(***************************************************************************)
EXTENDS Naturals, Sequences

CONSTANTS Task, Capacity

VARIABLES waiting, running, finished, closed

vars == <<waiting, running, finished, closed>>

Init ==
  /\ waiting = <<>>
  /\ running = {}
  /\ finished = {}
  /\ closed = "no"

\* A task is accepted: it was not accepted before, and there is room.
Accept(t) ==
  /\ closed = "no"
  /\ Len(waiting) < Capacity
  /\ t \notin running \cup finished
  /\ \A i \in DOMAIN waiting : waiting[i] # t
  /\ waiting' = Append(waiting, t)
  /\ UNCHANGED <<running, finished, closed>>

Take ==
  /\ closed # "immediate"
  /\ waiting # <<>>
  /\ waiting' = Tail(waiting)
  /\ running' = running \cup {Head(waiting)}
  /\ UNCHANGED <<finished, closed>>

Finish(t) ==
  /\ t \in running
  /\ running' = running \ {t}
  /\ finished' = finished \cup {t}
  /\ UNCHANGED <<waiting, closed>>

Close(how) ==
  /\ closed = "no"
  /\ closed' = how
  /\ UNCHANGED <<waiting, running, finished>>

Next ==
  \/ \E t \in Task : Accept(t) \/ Finish(t)
  \/ Take
  \/ \E how \in {"immediate", "graceful"} : Close(how)

Spec == Init /\ [][Next]_vars
=============================================================================
