------------------------- MODULE MCEventLoopThread -------------------------
(* A small instance of EventLoopThread for TLC. *)
EXTENDS EventLoopThread

CONSTANTS t1, t2

MCTask == {t1, t2}
MCCaller == {Owner}
=============================================================================
