---------------------------- MODULE MCDataVolume ----------------------------
(* DataVolume with the faults and bounds the configuration gives. *)
EXTENDS DataVolume
=============================================================================
