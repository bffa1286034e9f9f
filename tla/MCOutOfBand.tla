---------------------------- MODULE MCOutOfBand -----------------------------
(* The calls of tcpsend01.c, and one more urgent byte right behind the first. *)
EXTENDS OutOfBand

AllEnds     == <<3, 4, 5, 7, 8, 10>>
UrgentThree == {4, 5, 8}
=============================================================================
