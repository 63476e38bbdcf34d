------------------------------- MODULE MCGrub -------------------------------
(* An instance of GrubSelector: GRUB and Linux as the writers. *)
EXTENDS GrubSelector
MCWriters == {"grub", "linux"}
=============================================================================
