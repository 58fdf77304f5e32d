------------------------------ MODULE LogPipe ------------------------------
(***************************************************************************)
(* What AsyncLogging promises: lines reach the disk in the order they were *)
(* appended, each at most once; lines are only lost by giving up a block of*)
(* the backlog, or of what is being written, and while the logger is open  *)
(* no line waits forever.                                                  *)
(***************************************************************************)
EXTENDS Integers, Sequences

CONSTANT Line

VARIABLES waiting,  \* appended, not yet on disk, oldest first
          disk,     \* on disk
          dropped,  \* given up
          open      \* stop() has not been called

vars == <<waiting, disk, dropped, open>>

Init == waiting = <<>> /\ disk = <<>> /\ dropped = {} /\ open = TRUE

AppendLine ==
  /\ \E l \in Line : waiting' = Append(waiting, l)
  /\ UNCHANGED <<disk, dropped, open>>

\* The first k lines reach the disk, and those at the places from i to j, if
\* any, are given up.
Advance ==
  /\ \E k \in 0..Len(waiting) : \E i \in (k + 1)..(Len(waiting) + 1) :
       \E j \in (i - 1)..Len(waiting) :
        /\ disk' = disk \o SubSeq(waiting, 1, k)
        /\ waiting' = SubSeq(waiting, k + 1, i - 1) \o SubSeq(waiting, j + 1, Len(waiting))
        /\ dropped' = dropped \cup {waiting[n] : n \in i..j}
  /\ waiting' # waiting
  /\ UNCHANGED open

Close == open' = FALSE /\ UNCHANGED <<waiting, disk, dropped>>

Next == AppendLine \/ Advance \/ Close

SafeSpec == Init /\ [][Next]_vars

Spec == SafeSpec /\ WF_vars(open /\ Advance)
=============================================================================
