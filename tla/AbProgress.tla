----------------------------- MODULE AbProgress -----------------------------
(***************************************************************************)
(* How far the device is from rest.  Requests and faults apart, every step *)
(* of every program lowers a number: what is left of the boot in progress, *)
(* and, weighing more, the resets that are still owed to a request.  So no *)
(* schedule, fair or not, keeps the programs going without the operator,   *)
(* and no boot loops.                                                      *)
(***************************************************************************)
EXTENDS AbSystem

Bit(b) == IF b THEN 1 ELSE 0

\* A trial boot, armed or under way, may end with the watchdog.
TrialOwed ==
  \/ upd.pc = "arming" \/ Selected(esp).phase = "armed"
  \/ sel.pc = "trial"
  \/ sel.pc \in {"loading", "load", "kernel", "boot"} /\ sel.tag = "trial"
  \/ Running /\ machine.trial /\ machine.dog = "armed"

\* A command may yet arm a trial, and end with a reboot.
Installing == {"cancel", "system", "system-writing", "esp", "esp-writing",
               "install-selector", "selector", "validate"}
ArmOwed == upd.pc = "activate" \/ (upd.activate /\ upd.pc \in Installing)
RebootOwed ==
  \/ upd.pc \in {"request", "reboot"}
  \/ upd.reboot /\ upd.pc \in Installing \cup {"activate", "arming"}

\* The recovery host resets the board when its record is written.
HostOwed == machine.mode = "edl" /\ (~Settled("host") \/ writer["host"].ok)

\* The resets that nobody has to ask for any more.
ResetsOwed == Bit(TrialOwed) + Bit(ArmOwed) + Bit(RebootOwed) + Bit(HostOwed)

-----------------------------------------------------------------------------
\* The steps left to each program, at most.
SelectorRank(mode, pc) ==
  IF mode = "off" THEN 12
  ELSE CASE pc = "probe" -> 11
         [] pc = "usb" -> 10
         [] pc \in {"usb-normal", "usb-edl"} -> 9
         [] pc = "select" -> 8
         [] pc \in {"normal", "edl"} -> 7
         [] pc = "phase" -> 6
         [] pc \in {"trial", "rollback"} -> 5
         [] pc = "loading" -> 4
         [] pc = "load" -> 3
         [] pc = "kernel" -> 2
         [] pc = "boot" -> 1
         [] OTHER -> 0

SupervisorRank(pc) ==
  CASE pc = "off" -> 13
    [] pc = "userspace" -> 12
    [] pc = "userspace-writing" -> 11
    [] pc = "reconcile" -> 10
    [] pc = "reverting" -> 9
    [] pc = "service" -> 8
    [] pc = "health" -> 7
    [] pc = "health-writing" -> 6
    [] pc = "disarm" -> 5
    [] pc = "commit" -> 4
    [] pc = "committing" -> 3
    [] pc \in {"undoing", "save"} -> 2
    [] OTHER -> 0

UpdaterRank(pc) ==
  CASE pc = "cancel" -> 13
    [] pc = "system" -> 12
    [] pc = "system-writing" -> 11
    [] pc = "esp" -> 10
    [] pc = "esp-writing" -> 9
    [] pc = "install-selector" -> 8
    [] pc = "selector" -> 7
    [] pc = "validate" -> 6
    [] pc = "activate" -> 5
    [] pc = "arming" -> 4
    [] pc = "undo" -> 3
    [] pc \in {"request", "undoing"} -> 2
    [] pc = "reboot" -> 1
    [] OTHER -> 0

CopiesLeft(p) ==
  IF Settled(p) THEN 0 ELSE IF writer[p].after = NoSlot THEN 1 ELSE 2

\* A step may set out to write two copies; a boot has fewer than OneBoot steps.
StepsLeft ==
  3 * (SelectorRank(machine.mode, sel.pc) + SupervisorRank(sup.pc) + UpdaterRank(upd.pc))
    + CopiesLeft("uboot") + CopiesLeft("updater") + CopiesLeft("supervisor") + CopiesLeft("host")
OneBoot == 130

Left == OneBoot * ResetsOwed + StepsLeft

\* Nothing but a request or a fault puts the device further from rest: a stable
\* boot is declared healthy without a reset, a trial is reset once at most, and
\* no program waits on another or repeats a step.
RestNears == [][budget' = budget => Left' < Left /\ Left' \in Nat]_vars
=============================================================================
