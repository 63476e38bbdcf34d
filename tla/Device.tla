------------------------------- MODULE Device -------------------------------
(***************************************************************************)
(* The state the programs of one Dragon share: the two boot-control        *)
(* copies (ControlStore), the contents of the two slots, the OTA journal   *)
(* on userdata, the running machine, and the budget of faults and operator *)
(* requests that bounds a run.                                             *)
(***************************************************************************)
EXTENDS ControlStore, Integers, FiniteSets

CONSTANTS
  Images,      \* the releases
  Factory,     \* the release a new disk carries
  Healthy,     \* the releases that pass the boot health checks
  Partial,     \* an incomplete partition
  FaultKinds,  \* the faults that may strike, see Fault
  MaxFaults,   \* how many of them, in a whole behaviour
  MaxOps       \* how many requests the operator makes

ASSUME ImagesAssumption ==
  /\ Factory \in Healthy
  /\ Healthy \subseteq Images
  /\ Partial \notin Images
ASSUME WritersAssumption == Writers = {"uboot", "updater", "supervisor", "host"}
ASSUME BudgetAssumption == MaxFaults \in Nat /\ MaxOps \in Nat

VARIABLES
  image,     \* image[s]: what system and ESP partition of slot s hold
  journal,   \* /data/vamos-update/state.json
  machine,   \* what runs, and the volatile state Linux programs share
  budget,    \* faults and requests spent so far
  ghost      \* history the properties refer to

deviceVars == <<esp, writer, image, journal, machine, budget, ghost>>

-----------------------------------------------------------------------------
\* A slot is bootable once its ESP image is complete, and sound when both
\* partitions hold the same release.
Contents == [sys : Images \cup {Partial}, esp : Images \cup {Partial}]
Sound(s, v) == v \in Images /\ image[s] = [sys |-> v, esp |-> v]
Bootable(s) == image[s].esp # Partial

\* The state file of the updater.
JournalStates == {"none", "writing", "verified", "ready", "booting",
                  "committed", "failed", "rolled_back"}
Journals == [state : JournalStates, active : Slots, target : Slots,
             version : Images]
NoJournal == [state |-> "none", active |-> "a", target |-> "b",
              version |-> Factory]

\* mode: what the processor runs.  slot, trial and count are Linux's command
\* line; up is the stage-1 marker; dog is the hardware watchdog; lock is the
\* flock on the update lock file.
Modes == {"off", "uboot", "linux", "edl", "prompt"}
Machines == [mode : Modes, slot : Slots, trial : BOOLEAN, count : Nat,
             up : BOOLEAN, dog : {"armed", "disarmed"},
             lock : {"free", "updater", "supervisor"}]
Dark == [mode |-> "off", slot |-> "a", trial |-> FALSE, count |-> 0,
         up |-> FALSE, dog |-> "armed", lock |-> "free"]

Running == machine.mode = "linux"

\* proven: releases that were sound and healthy when a boot of theirs was
\* declared healthy or committed; promoted: U-Boot's recovery chose the default slot, which has
\* not passed yet; overruled: it did so after the last commit; trials, edls,
\* normals: what may still be used up of the last request.
Ghosts == [proven : SUBSET Images, promoted : BOOLEAN, overruled : BOOLEAN,
           trials : Int, edls : Int, normals : Int]

TypeOKDevice ==
  /\ TypeOKStore
  /\ image \in [Slots -> Contents]
  /\ journal \in Journals
  /\ machine \in Machines
  /\ budget \in [faults : 0..MaxFaults, ops : 0..MaxOps]
  /\ ghost \in Ghosts

\* A disk from build_disk.sh: slot a complete, slot b a kernel without a root.
DeviceInit ==
  /\ StoreInit
  /\ image = [s \in Slots |-> [sys |-> IF s = "a" THEN Factory ELSE Partial,
                               esp |-> Factory]]
  /\ journal = NoJournal
  /\ machine = Dark
  /\ budget = [faults |-> 0, ops |-> 0]
  /\ ghost = [proven |-> {Factory}, promoted |-> FALSE, overruled |-> FALSE,
              trials |-> 0, edls |-> 0, normals |-> 1]

-----------------------------------------------------------------------------
\* Faults: "power" cuts, record "write" errors, kernel "load" errors, "image"
\* write or verification errors, "media" losing a copy at rest, and an "edl"
\* reset that returns.
Fault(kind) ==
  /\ kind \in FaultKinds
  /\ budget.faults < MaxFaults
  /\ budget' = [budget EXCEPT !.faults = @ + 1]

\* Something the operator or an attached PC does.
Request ==
  /\ budget.ops < MaxOps
  /\ budget' = [budget EXCEPT !.ops = @ + 1]
=============================================================================
