----------------------------- MODULE Supervisor -----------------------------
(***************************************************************************)
(* vamos-boot: the boot diagnostics and the reconciliation of the journal  *)
(* in runit stage 1, and in stage 2 the commit service that declares the   *)
(* boot healthy, disarms the hardware watchdog and commits a trial.  The   *)
(* diagnostics take the update lock; the commit and its rollback do not.   *)
(***************************************************************************)
EXTENDS Device

CONSTANT LateDisarm   \* the watchdog process may miss commit's 5 s deadline

ASSUME LateDisarmAssumption == LateDisarm \in BOOLEAN

VARIABLE sup   \* pc: the next step; doc: the journal that commit has loaded

SupervisorSteps ==
  {"off", "dead", "userspace", "userspace-writing", "reconcile", "reverting",
   "service", "health", "health-writing", "disarm", "commit", "committing",
   "undoing", "save", "done", "wait", "reboot"}
TypeOKSupervisor == sup \in [pc : SupervisorSteps, doc : Journals]
NoSupervisor == [pc |-> "off", doc |-> NoJournal]

On(pc) == Running /\ sup.pc = pc /\ Settled("supervisor")
Recorded == writer["supervisor"].ok
Continue(pc) == sup' = [sup EXCEPT !.pc = pc]
Silently == UNCHANGED <<esp, writer, image, journal, machine, budget, ghost>>

\* Broken variant: everything that boots is healthy.
AnyBoot == image[machine.slot].sys # Partial

\* The healthy release of the running slot; any other content fails the
\* health checks or never reaches them.
HealthyBoot == \E v \in Healthy : Sound(machine.slot, v)

-----------------------------------------------------------------------------
\* Linux comes up on the slot's root file system, or panics on a torn one.
StartUp ==
  /\ On("off")
  /\ Continue(IF image[machine.slot].sys = Partial THEN "dead" ELSE "userspace")
  /\ Silently

\* record_stage: only for the boot the record was opened for, and only under
\* the update lock.
ThisBoot ==
  /\ Readable(esp)
  /\ Selected(esp).count = machine.count
  /\ Selected(esp).bslot = machine.slot

RecordStage(stage, pc) ==
  /\ StartWrite("supervisor", Staged(Selected(esp), stage), "b")
  /\ Continue(pc)
  /\ machine' = [machine EXCEPT !.lock = "supervisor"]
  /\ UNCHANGED <<esp, image, journal, budget, ghost>>
\* Broken variant: the lock file stays open.
StageRecordedLocked(pc) ==
  /\ Continue(pc)
  /\ UNCHANGED deviceVars
StageRecorded(pc) ==
  /\ Continue(pc)
  /\ machine' = [machine EXCEPT !.lock = "free"]
  /\ UNCHANGED <<esp, writer, image, journal, budget, ghost>>

\* vamos-boot diagnose: stage 1 goes on whatever becomes of it.
RecordUserspace ==
  /\ On("userspace")
  /\ \/ ThisBoot /\ RecordStage("userspace", "userspace-writing")
     \/ ~ThisBoot /\ Continue("reconcile") /\ Silently

UserspaceRecorded == On("userspace-writing") /\ StageRecorded("reconcile")

\* vamos-boot reconcile: the journal learns what the selector did.
Stage1Done(pc) ==
  /\ Continue(pc)
  /\ machine' = [machine EXCEPT !.up = TRUE]

\* Broken variant: a trial that was never seen booting is not looked after.
PendingBooting == journal.state = "booting"
Pending == journal.state \in {"ready", "booting"}

Reconcile ==
  /\ On("reconcile")
  /\ \/ /\ Pending /\ machine.trial /\ machine.slot = journal.target
        /\ journal' = [journal EXCEPT !.state = "booting"]
        /\ Stage1Done("service")
        /\ UNCHANGED <<esp, writer>>
     \/ /\ Pending /\ machine.slot # journal.target
        /\ StartWrite("supervisor", Stabilised(Previous(esp), machine.slot), "a")
        /\ Continue("reverting")
        /\ UNCHANGED <<esp, journal, machine>>
     \/ /\ Pending => machine.slot = journal.target /\ ~machine.trial
        /\ Stage1Done("service")
        /\ UNCHANGED <<esp, writer, journal>>
  /\ UNCHANGED <<image, budget, ghost>>

Reverted ==
  /\ On("reverting")
  /\ journal' = IF Recorded THEN [journal EXCEPT !.state = "rolled_back"] ELSE journal
  /\ Stage1Done("service")
  /\ UNCHANGED <<esp, writer, image, budget, ghost>>

-----------------------------------------------------------------------------
\* Broken variant: the state before the reconciliation.
TrialReady == journal.state = "ready" /\ journal.target = machine.slot

\* The commit service: the workload must be complete, and a trial must be the
\* one the journal is waiting for.  Otherwise it waits for the watchdog.
TrialExpected ==
  journal.state = "booting" /\ journal.target = machine.slot

Service ==
  /\ On("service")
  /\ IF HealthyBoot /\ (machine.trial => TrialExpected)
     THEN sup' = [sup EXCEPT !.pc = "health", !.doc = journal]
     ELSE Continue("wait")
  /\ Silently

\* Health is recorded while the watchdog still runs.
RecordHealth ==
  /\ On("health")
  /\ \/ ThisBoot /\ machine.lock = "free" /\ RecordStage("healthy", "health-writing")
     \/ ~(ThisBoot /\ machine.lock = "free") /\ Continue("wait") /\ Silently

HealthRecorded ==
  On("health-writing") /\ StageRecorded(IF Recorded THEN "disarm" ELSE "wait")

\* Broken variant: a trial is left as it is.
NoCommit == "done"
AfterDisarm == IF machine.trial THEN "commit" ELSE "done"

\* What this boot has shown.
Passing == {v \in Healthy : Sound(machine.slot, v)}

\* The health marker: the watchdog process disarms the timer and says so.  If
\* it says so late, commit has already given up.
Disarm ==
  /\ On("disarm")
  /\ machine' = [machine EXCEPT !.dog = "disarmed"]
  /\ \/ Continue(AfterDisarm)
     \/ LateDisarm /\ Continue("wait")
  /\ ghost' = [ghost EXCEPT
       !.proven = IF machine.trial THEN @ ELSE @ \cup Passing,
       !.promoted = @ /\ machine.trial]
  /\ UNCHANGED <<esp, writer, image, journal, budget>>

CommitRecord == Stabilised(Previous(esp), machine.slot)

\* commit_boot, without the update lock.
Commit ==
  /\ On("commit")
  /\ StartWrite("supervisor", CommitRecord, "a")
  /\ Continue("committing")
  /\ ghost' = [ghost EXCEPT !.proven = @ \cup Passing]
  /\ UNCHANGED <<esp, image, journal, machine, budget>>

\* Broken variant: the outcome of the writes is not looked at.
CommittedAnyway == On("committing") /\ Continue("save") /\ UNCHANGED deviceVars

\* A commit that no ESP took is rolled back to the previous slot.
Committed ==
  /\ On("committing")
  /\ \/ Recorded /\ Continue("save") /\ UNCHANGED <<esp, writer>>
     \/ /\ ~Recorded
        /\ StartWrite("supervisor", Stabilised(Previous(esp), sup.doc.active), "a")
        /\ Continue("undoing")
        /\ UNCHANGED esp
  /\ UNCHANGED <<image, journal, machine, budget, ghost>>

\* The rollback is followed by a reboot, unless it raises as well.
CommitUndone ==
  On("undoing") /\ Continue(IF Recorded THEN "reboot" ELSE "wait") /\ Silently

\* The journal is saved from the copy that commit loaded at its start.
SaveCommitted ==
  /\ On("save")
  /\ journal' = [sup.doc EXCEPT !.state = "committed", !.active = machine.slot]
  /\ Continue("done")
  /\ ghost' = [ghost EXCEPT !.overruled = FALSE]
  /\ UNCHANGED <<esp, writer, image, machine, budget>>

SupervisorNext ==
  \/ StartUp \/ RecordUserspace \/ UserspaceRecorded \/ Reconcile \/ Reverted
  \/ Service \/ RecordHealth \/ HealthRecorded \/ Disarm
  \/ Commit \/ Committed \/ CommitUndone \/ SaveCommitted
=============================================================================
