---------------------------- MODULE AtomicControl ----------------------------
(***************************************************************************)
(* What the redundant boot-control records promise to every reader: one    *)
(* record that is always readable and that changes in single steps, each   *)
(* to a record that supersedes the one before.  No reader ever sees a      *)
(* selection from before a change that another reader has seen.            *)
(***************************************************************************)
EXTENDS BootControl

VARIABLE control

Init == control = FactoryRecord

Replaced ==
  /\ control' \in Controls
  /\ Supersedes(control', control)

Next == Replaced

Spec == Init /\ [][Next]_control
=============================================================================
