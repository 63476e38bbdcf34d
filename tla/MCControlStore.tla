--------------------------- MODULE MCControlStore ---------------------------
(* ControlStore with interchangeable writers. *)
EXTENDS ControlStore, TLC

WriterSymmetry == Permutations(Writers)
=============================================================================
