----------------------------- MODULE MCAbSystem -----------------------------
(* Instances of AbSystem: the writers of the Dragon and three releases. *)
EXTENDS AbProgress

CONSTANTS factory, newer, sick

MCWriters == {"uboot", "updater", "supervisor", "host"}
MCImages == {factory, newer, sick}
MCHealthy == {factory, newer}
=============================================================================
