------------------------------ MODULE AbSystem ------------------------------
(***************************************************************************)
(* One Dragon with its boot firmware, updater, boot supervisor, operator   *)
(* and recovery host: the steps of the programs interleave, every copy of  *)
(* a record is written in a step of its own, and power, media and write    *)
(* faults strike in between.                                               *)
(***************************************************************************)
EXTENDS Selector, Updater, Supervisor

CONSTANT Quiet   \* the operator waits for the boot supervision to finish

ASSUME QuietAssumption == Quiet \in BOOLEAN

vars == <<deviceVars, sel, upd, sup>>

Init ==
  /\ DeviceInit
  /\ sel = NoSelector
  /\ upd = NoUpdate
  /\ sup = NoSupervisor

-----------------------------------------------------------------------------
\* The ESP writes of all programs.  The updater and the supervisor leave an
\* ESP without a kernel alone; to U-Boot a torn ESP may or may not mount.  The
\* installation of a selector, and the host, need every ESP.
Strict(p) == (p = "host") \/ (p = "updater" /\ upd.pc = "selector")
NotTaken(p) == IF Strict(p) THEN Forget(p) ELSE Advance(p, FALSE)

Wrote(p) ==
  /\ ~Settled(p)
  /\ p \in {"updater", "supervisor"} => Bootable(writer[p].at)
  /\ CopyWritten(p)
  /\ UNCHANGED budget

Declined(p) ==
  /\ ~Settled(p)
  /\ p # "host" /\ ~Bootable(writer[p].at)
  /\ NotTaken(p)
  /\ UNCHANGED <<esp, budget>>

Erred(p) == Fault("write") /\ Spoilt(p) /\ NotTaken(p)

CopyStep(p) ==
  /\ Wrote(p) \/ Declined(p) \/ Erred(p)
  /\ UNCHANGED <<image, journal, machine, ghost, sel, upd, sup>>

-----------------------------------------------------------------------------
\* Everything that runs is gone; a record being written may be torn.
Off ==
  /\ machine' = Dark
  /\ sel' = NoSelector /\ upd' = NoUpdate /\ sup' = NoSupervisor
  /\ Outage
  /\ UNCHANGED <<image, journal, ghost>>

PowerOn ==
  /\ machine.mode = "off"
  /\ machine' = [machine EXCEPT !.mode = "uboot"]
  /\ sel' = [sel EXCEPT !.pc = "probe"]
  /\ UNCHANGED <<esp, writer, image, journal, budget, ghost, upd, sup>>

PowerCut == machine.mode # "off" /\ Fault("power") /\ Off

\* reboot -f after a recovery request, install --reboot, or a failed commit.
Reboot ==
  /\ Running
  /\ upd.pc = "reboot" \/ sup.pc = "reboot"
  /\ Off
  /\ UNCHANGED budget

\* The operator restarts a system with no command running, or a board at the
\* prompt.
Restart ==
  /\ \/ Running /\ machine.up /\ upd.pc = "idle" /\ (Quiet => sup.pc = "done")
     \/ machine.mode = "prompt"
  /\ Request
  /\ Off

\* The boot is not declared healthy and the watchdog process stops servicing
\* the timer, or was never started.
WatchdogReset ==
  /\ Running /\ machine.dog = "armed"
  /\ sup.pc \in {"dead", "wait"}
  /\ Off
  /\ UNCHANGED budget

\* A copy whose twin holds the selection is lost while the board is off.
MediaLoss ==
  /\ machine.mode = "off"
  /\ Fault("media")
  /\ \E s \in Slots :
       Expendable(s) /\ esp' = [esp EXCEPT ![s] = Damaged]
  /\ UNCHANGED <<writer, image, journal, machine, ghost, sel, upd, sup>>

-----------------------------------------------------------------------------
\* dragon.py normal over Firehose: both copies must decode; b and then a are
\* written and verified, and the board is reset.
NormalRequest ==
  /\ machine.mode = "edl" /\ Settled("host")
  /\ \A s \in Slots : esp[s] # Damaged
  /\ Request
  /\ StartWrite("host", NormalRequested(Selected(esp)), "b")
  /\ ghost' = [ghost EXCEPT !.normals = 1]
  /\ UNCHANGED <<esp, image, journal, machine, sel, upd, sup>>

EdlExit ==
  /\ machine.mode = "edl" /\ Settled("host")
  /\ \/ writer["host"].ok /\ UNCHANGED budget
     \/ ~writer["host"].ok /\ Request
  /\ Off

-----------------------------------------------------------------------------
Selecting == SelectorNext /\ UNCHANGED <<upd, sup>>
Commanding ==
  /\ Quiet => sup.pc = "done"
  /\ UpdaterCommands
  /\ UNCHANGED <<sel, sup>>
Updating == UpdaterNext /\ UNCHANGED <<sel, sup>>
Supervising == SupervisorNext /\ UNCHANGED <<sel, upd>>

Next ==
  \/ Selecting \/ Commanding \/ Updating \/ Supervising
  \/ \E p \in Writers : CopyStep(p)
  \/ PowerOn \/ PowerCut \/ Reboot \/ Restart \/ WatchdogReset \/ MediaLoss
  \/ NormalRequest \/ EdlExit

Spec == Init /\ [][Next]_vars

\* Programs that have started go on, a reset board starts, and the timer fires;
\* nobody has to make a request, and no fault has to strike.
FairSpec ==
  /\ Spec
  /\ WF_vars(Selecting) /\ WF_vars(Updating) /\ WF_vars(Supervising)
  /\ \A p \in Writers : WF_vars(CopyStep(p))
  /\ WF_vars(PowerOn) /\ WF_vars(Reboot) /\ WF_vars(WatchdogReset)

-----------------------------------------------------------------------------
TypeOK ==
  /\ TypeOKDevice /\ TypeOKSelector /\ TypeOKUpdater /\ TypeOKSupervisor

Known(s) == \E v \in ghost.proven : Sound(s, v)

\* Unless U-Boot's recovery chose it, the default slot holds a complete release
\* that has passed a healthy boot: no install, trial, crash or rollback makes
\* anything else the default.
KnownGoodDefault == Readable(esp) /\ ~ghost.promoted => Known(Selected(esp).active)

\* A trial that the next power-on would start, or has started, is of a slot
\* that holds one complete release ("verifies ... before creating a one-shot
\* trial boot", README.md).
TrialVerified ==
  Readable(esp) /\ Selected(esp).phase # "stable" =>
    \E v \in Images : Sound(Selected(esp).pending, v)

\* One activation starts at most one trial boot, and none once it is cancelled;
\* one EDL request leads to one EDL entry, and one normal request passes the
\* USB host probe once.
OneShot == ghost.trials >= 0 /\ ghost.edls >= 0 /\ ghost.normals >= 0

\* An update the journal calls committed is what the device boots, until
\* U-Boot's recovery gives up on it.
CommittedIsDurable ==
  journal.state = "committed" /\ Readable(esp) /\ ~ghost.overruled =>
    Selected(esp).active = journal.active

\* Every power-on that gets as far as loading a kernel has both copies equal
\* again, whatever tore one of them, unless an ESP is being reinstalled.
BootRestoresCopies ==
  At("kernel") /\ Bootable("a") /\ Bootable("b") => esp["a"] = esp["b"]

\* The device implements the A/B protocol.
Protocol == INSTANCE AbUpdate WITH
  default <- Selected(esp).active,
  phase <- Selected(esp).phase,
  good <- {s \in Slots : Known(s)}
ImplementsAbUpdate == Protocol!Spec

\* Once requests and faults are over, the device ends up in a healthy boot
\* with no command running, in EDL, or at the prompt.
AtRest ==
  \/ machine.mode \in {"edl", "prompt"}
  \/ Running /\ sup.pc = "done" /\ upd.pc = "idle"
Settles == <>[]AtRest

\* A board that has no record left stops in EDL or at the prompt.
BlindBoardStops ==
  machine.mode = "uboot" /\ ~Readable(esp) ~> machine.mode \in {"edl", "prompt"}

\* A trial boot commits or is reset: it is never left running undecided ("must
\* still reset an uncommitted trial instead of leaving it stuck", boot.py).
TrialBoot == Running /\ machine.trial /\ ~machine.up
TrialEnds == TrialBoot ~> machine.mode = "off" \/ journal.state = "committed"

\* When no fault is to come, a trial boot that the journal expects ends with the
\* journal committed if its release is healthy, and otherwise with a stable
\* selector and the journal rolled back, unless a PC on the USB port keeps the
\* reset board in EDL.
ExpectedTrial ==
  /\ TrialBoot /\ budget.faults = MaxFaults
  /\ journal.state \in {"ready", "booting"}
HealthyTrialCommits ==
  ExpectedTrial /\ HealthyBoot ~> journal.state = "committed"
SickTrialRollsBack ==
  ExpectedTrial /\ ~HealthyBoot ~>
    \/ journal.state = "rolled_back" /\ Selected(esp).phase = "stable"
    \/ machine.mode = "edl"

\* Every trial is decided, and the right way: it ends, healthy releases are
\* committed and sick ones rolled back.
TrialsDecided == TrialEnds /\ HealthyTrialCommits /\ SickTrialRollsBack
=============================================================================
