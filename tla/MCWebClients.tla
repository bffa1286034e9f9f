---------------------------- MODULE MCWebClients ----------------------------
(* A small instance of WebClients for TLC: the three clients, every answer. *)
EXTENDS WebClients

AllProgs   == {"webcli01", "webcli02", "parallel_web"}
AllAnswers == {"data", "empty", "refused"}
=============================================================================
