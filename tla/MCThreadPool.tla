---------------------------- MODULE MCThreadPool ----------------------------
(* A small instance of ThreadPool for TLC. *)
EXTENDS ThreadPool

CONSTANTS t1, t2, t3, w1, w2, a1, a2, x1, x2

MCTask == {t1, t2, t3}
MCWorker == {w1, w2}
MCAdder == {a1, a2}
MCDestroyer == {x1, x2}
=============================================================================
