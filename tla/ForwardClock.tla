---------------------------- MODULE ForwardClock ----------------------------
(***************************************************************************)
(* What vamos-clock promises to the workloads of the device: a clock that  *)
(* starts at or after the build time of the image and the saved floor,     *)
(* never goes back while they run, and leaves behind a floor that is a     *)
(* time the clock has shown and does not go back either. A boot that has   *)
(* not been able to set its clock promises nothing of it, but keeps the    *)
(* floor from going back.                                                  *)
(***************************************************************************)
EXTENDS Integers

CONSTANTS Builds,    \* the build times of the images that may run
          Lifetime   \* TEN_YEARS: how long after its build an image is used

VARIABLES shown,     \* the time the workloads see, Dark before they run, Blind
                     \* if the clock could not be set
          floor,     \* the saved checkpoint
          build      \* the build time of the running image

Dark == -1
Blind == -2
NoTime == -1

InLifetime(t, b) == b <= t /\ t <= b + Lifetime

Init == shown = Dark /\ floor = NoTime /\ build \in Builds

\* Only a floor outside the lifetime of the image may be lowered.
Rises == InLifetime(floor, build) => floor' >= floor

\* A checkpoint raises the floor to a time that has been shown.
Checkpoint == floor' <= shown' /\ Rises

TurnOn ==
  /\ shown = Dark
  /\ shown' \in Nat /\ shown' >= build
  /\ InLifetime(floor, build) => shown' >= floor
  /\ UNCHANGED <<floor, build>>

Run ==
  /\ shown \in Nat
  /\ shown' \in Nat /\ shown' >= shown
  /\ floor' = floor \/ Checkpoint
  /\ UNCHANGED build

Fail ==
  /\ shown = Dark /\ shown' = Blind
  /\ UNCHANGED <<floor, build>>

RunBlind ==
  /\ shown = Blind /\ shown' = Blind
  /\ InLifetime(floor', build) /\ Rises
  /\ UNCHANGED build

\* Power is off or an image is coming up.
Stop == shown' = Dark /\ build' \in Builds /\ UNCHANGED floor

Next == TurnOn \/ Run \/ Fail \/ RunBlind \/ Stop
Spec == Init /\ [][Next]_<<shown, floor, build>>
=============================================================================
