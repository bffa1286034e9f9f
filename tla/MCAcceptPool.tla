---------------------------- MODULE MCAcceptPool ----------------------------
(* A small instance of AcceptPool for TLC. *)
EXTENDS AcceptPool

CONSTANTS c1, c2
Two == {c1, c2}
=============================================================================
