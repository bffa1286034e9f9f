----------------------------- MODULE MCForkEcho -----------------------------
(* A small instance of ForkEcho for TLC. *)
EXTENDS ForkEcho

CONSTANTS c1, c2
Two == {c1, c2}
One   == {c1}
=============================================================================
