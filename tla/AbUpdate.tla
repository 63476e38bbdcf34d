------------------------------ MODULE AbUpdate ------------------------------
(***************************************************************************)
(* What the A/B update promises (README.md, "Dragon OTA Updates"): the     *)
(* device keeps a default slot that is known to be good; the other slot is *)
(* changed only while no trial is pending; an armed trial is attempted     *)
(* once; and the attempted slot becomes the default only after it has      *)
(* proved good.                                                            *)
(***************************************************************************)
EXTENDS BootControl

VARIABLES
  default,   \* the slot booted unless a trial is armed
  phase,     \* the phase of the trial of the other slot
  good       \* the slots whose contents have passed a healthy boot

vars == <<default, phase, good>>

Init == default = "a" /\ phase = "stable" /\ good = {"a"}

\* The other slot is rewritten; it may come to hold a release known to be good.
Prepare ==
  /\ phase = "stable"
  /\ good' \in {g \in SUBSET Slots : default \in g}
  /\ UNCHANGED <<default, phase>>

Arm == phase = "stable" /\ phase' = "armed" /\ UNCHANGED <<default, good>>

Try == phase = "armed" /\ phase' = "attempted" /\ UNCHANGED <<default, good>>

Pass ==
  /\ phase = "attempted"
  /\ good' = good \cup {Peer(default)}
  /\ UNCHANGED <<default, phase>>

Commit ==
  /\ phase = "attempted"
  /\ Peer(default) \in good
  /\ default' = Peer(default)
  /\ phase' = "stable"
  /\ UNCHANGED good

Cancel == phase # "stable" /\ phase' = "stable" /\ UNCHANGED <<default, good>>

Next == Prepare \/ Arm \/ Try \/ Pass \/ Commit \/ Cancel

Spec == Init /\ [][Next]_vars
=============================================================================
