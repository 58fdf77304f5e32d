--------------------------- MODULE MCSocketBuffer ---------------------------
(* A small instance of SocketBuffer for TLC. *)
EXTENDS SocketBuffer
=============================================================================
