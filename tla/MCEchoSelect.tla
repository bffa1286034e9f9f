---------------------------- MODULE MCEchoSelect ----------------------------
(* A small instance of EchoSelect for TLC: one client with enough input to     *)
(* fill both directions, one that leaves early, one with no input; descriptors *)
(* 4 to 6, so that the bit of a failed accept is one of them.                  *)
EXTENDS EchoSelect

CONSTANTS c1, c2, c3
MCClients == {c1, c2, c3}
MCEarly   == {c2}
MCInput   == [c \in MCClients |-> CASE c = c1 -> 4 [] c = c2 -> 2 [] c = c3 -> 0]
=============================================================================
