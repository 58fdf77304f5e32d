------------------------------ MODULE MCTimer ------------------------------
(* A small instance of Timer: a clock of five ticks, over more than two   *)
(* cycles, with time outs shorter and longer than what is left of a cycle. *)
EXTENDS Timer, TLC

CONSTANTS n1, n2, n3

MCNode == {n1, n2, n3}
MCTimeout == {1, 3}
Symmetry == Permutations(MCNode)
=============================================================================
