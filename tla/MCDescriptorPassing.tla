------------------------ MODULE MCDescriptorPassing ------------------------
(* Small instances of DescriptorPassing for TLC. *)
EXTENDS DescriptorPassing

CONSTANTS c1, c2, c3, c4
Three == {c1, c2, c3}
Four  == {c1, c2, c3, c4}
=============================================================================
