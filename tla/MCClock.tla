------------------------------ MODULE MCClock ------------------------------
(* Two images, an app that is ahead, and a board that starts at the epoch. *)
EXTENDS Clock
=============================================================================
