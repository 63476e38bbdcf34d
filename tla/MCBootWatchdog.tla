--------------------------- MODULE MCBootWatchdog ---------------------------
(* BootWatchdog with times given by the configuration. *)
EXTENDS BootWatchdog
=============================================================================
