-------------------------- MODULE MCAsyncLogging --------------------------
(* A small instance of AsyncLogging: buffers of two lines and drops beyond *)
(* two collected buffers, so that hand-over, a missing spare and a drop    *)
(* all happen within five lines.                                           *)
EXTENDS AsyncLogging, TLC

MCBuffer == 1..(MaxLines + 5)
=============================================================================
