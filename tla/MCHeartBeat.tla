----------------------------- MODULE MCHeartBeat -----------------------------
(* A small instance of HeartBeat for TLC. *)
EXTENDS HeartBeat

SomeMixes == {{"slow", "torn"}, {"ahead"}, {"crash"}}
=============================================================================
