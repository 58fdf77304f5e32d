---------------------------- MODULE MCEventLoop ----------------------------
(* A small instance of EventLoop for TLC. *)
EXTENDS EventLoop, TLC

CONSTANTS t1, t2, t3, c1, c2

MCTask == {t1, t2, t3}
MCCaller == {c1, c2}
=============================================================================
