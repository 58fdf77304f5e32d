----------------------------- MODULE MCReactor -----------------------------
(* Small instances of Reactor. *)
EXTENDS Reactor

CONSTANTS c1, c2

MCConn == {c1, c2}
MCOneConn == {c1}
=============================================================================
