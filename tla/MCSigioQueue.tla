---------------------------- MODULE MCSigioQueue ----------------------------
(* A small instance of SigioQueue for TLC: more datagrams than slots. *)
EXTENDS SigioQueue

CONSTANTS d1, d2, d3, d4
MCDgs == {d1, d2, d3, d4}
=============================================================================
