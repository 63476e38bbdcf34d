---------------------------- MODULE GrubSelector ----------------------------
(***************************************************************************)
(* The GRUB selector (tools/boot/grub.cfg), the loader an EFI firmware     *)
(* finds on either ESP. It picks a copy of the boot-control record, acts   *)
(* on it and writes its changes to a and then b without a new generation.  *)
(* Linux (update.py) reads and writes the same copies by its own rule.     *)
(* Up to MaxFaults writes fail, loads fail or power cuts strike.           *)
(***************************************************************************)
EXTENDS ControlStore, Integers

CONSTANTS MaxFaults, MaxOps

ASSUME GrubAssumption ==
  /\ Writers = {"grub", "linux"}
  /\ MaxFaults \in Nat /\ MaxOps \in Nat

VARIABLES
  run,      \* [mode, pc, mem, slot, arg]: what runs; GRUB's next step, the
            \* record in its variables, the slot and the kernel argument it chose
  kernel,   \* kernel[s]: GRUB loads the kernel of slot s
  budget,   \* faults and requests spent so far
  ghost     \* history: what is left of the last requests, and the recovery
            \* that ESP a or both took

vars == <<storeVars, run, kernel, budget, ghost>>

Modes == {"off", "grub", "linux", "edl", "halt"}
Dark == [mode |-> "off", pc |-> "start", mem |-> ImageRecord, slot |-> "a",
         arg |-> "none"]

Init ==
  /\ StoreInit
  /\ run = Dark
  /\ kernel = [s \in Slots |-> TRUE]
  /\ budget = [faults |-> 0, ops |-> 0]
  /\ ghost = [trials |-> 0, edls |-> 0, kept |-> NoSlot]

Fault ==
  /\ budget.faults < MaxFaults
  /\ budget' = [budget EXCEPT !.faults = @ + 1]

-----------------------------------------------------------------------------
\* consider_state: as vamosboot picks, but of two copies of one generation and
\* phase the one whose EDL request is consumed wins.
\* Broken variant: without that clause.
SupersedesAlike(x, y) == Supersedes(x, y)
SupersedesGrub(x, y) ==
  \/ Supersedes(x, y)
  \/ x.gen = y.gen /\ Rank(x.phase) = Rank(y.phase) /\ ~x.edl /\ y.edl

\* Without a record GRUB starts from its defaults, which are the image's.
GrubSelected(copy) ==
  IF ~Readable(copy) THEN ImageRecord
  ELSE IF (\A s \in Slots : copy[s] # Damaged) /\ SupersedesGrub(copy["b"], copy["a"])
       THEN copy["b"]
  ELSE IF copy["a"] # Damaged THEN copy["a"] ELSE copy["b"]

At(pc) == run.mode = "grub" /\ run.pc = pc /\ Settled("grub")
Saved == writer["grub"].ok
Go(pc) == run' = [run EXCEPT !.pc = pc]
Choose(slot, arg) == run' = [run EXCEPT !.pc = "boot", !.slot = slot, !.arg = arg]

\* persist_state.
Persist(rec, next) ==
  /\ StartWrite("grub", rec, "a")
  /\ run' = [next EXCEPT !.mem = rec]
  /\ UNCHANGED <<esp, kernel, budget, ghost>>

Consumed(r) == Policy(r, r.gen, r.active, r.pending, r.phase, FALSE, r.normal)

Quietly == UNCHANGED <<storeVars, kernel, budget, ghost>>

Start ==
  /\ At("start")
  /\ LET r == GrubSelected(esp) IN
     IF r.edl THEN Persist(Consumed(r), [run EXCEPT !.pc = "edl"])
     ELSE run' = [run EXCEPT !.pc = "phase", !.mem = r] /\ Quietly

\* The EDL application resets, or is missing or returns.
Edl ==
  /\ At("edl")
  /\ \/ /\ Saved
        /\ run' = [Dark EXCEPT !.mode = "edl"]
        /\ ghost' = [ghost EXCEPT !.edls = @ - 1]
        /\ UNCHANGED <<storeVars, kernel, budget>>
     \/ Saved /\ Fault /\ Go("phase") /\ UNCHANGED <<storeVars, kernel, ghost>>
     \/ ~Saved /\ Go("phase") /\ Quietly

Phase ==
  /\ At("phase")
  /\ CASE run.mem.phase = "armed" ->
            Persist(Attempted(run.mem), [run EXCEPT !.pc = "trial"])
       [] run.mem.phase = "attempted" ->
            Persist(RolledBack(run.mem),
                    [run EXCEPT !.pc = "boot", !.slot = run.mem.active])
       [] run.mem.phase = "stable" -> Choose(run.mem.active, "none") /\ Quietly

\* Broken variant: the trial is started whether or not the attempt is saved.
TrialUnsaved == At("trial") /\ Choose(run.mem.pending, "trial") /\ Quietly
Trial ==
  /\ At("trial")
  /\ IF Saved THEN Choose(run.mem.pending, "trial") ELSE Choose(run.mem.active, "none")
  /\ Quietly

\* linux and boot: the kernel runs, and what was promised of it is used up.
Boot ==
  /\ At("boot") /\ kernel[run.slot]
  /\ run' = [Dark EXCEPT !.mode = "linux", !.slot = run.slot, !.arg = run.arg]
  /\ ghost' = [ghost EXCEPT
       !.trials = IF run.arg = "trial" THEN @ - 1 ELSE @,
       !.kept = IF run.arg = "recovery" /\ esp["a"] = run.mem THEN run.slot ELSE @]
  /\ UNCHANGED <<storeVars, kernel, budget>>

\* The recovery of a stable slot: the other one becomes the active one.
\* Broken variant: the recovery is not recorded as stable.
PromotedOnTrial(r, slot) == Policy(r, r.gen, slot, Peer(slot), "attempted", r.edl, r.normal)
Promoted(r, slot) == Policy(r, r.gen, slot, NoSlot, "stable", r.edl, r.normal)

\* The kernel is missing or does not load.
LoadFails ==
  /\ At("boot")
  /\ kernel[run.slot] => budget.faults < MaxFaults
  /\ budget' = [budget EXCEPT !.faults = IF kernel[run.slot] THEN @ + 1 ELSE @]
  /\ CASE run.arg = "trial" ->
            /\ StartWrite("grub", RolledBack(run.mem), "a")
            /\ run' = [run EXCEPT !.mem = RolledBack(run.mem),
                                  !.slot = run.mem.active, !.arg = "none"]
       [] run.arg = "none" ->
            LET rec == Promoted(run.mem, Peer(run.slot)) IN
            /\ StartWrite("grub", rec, "a")
            /\ run' = [run EXCEPT !.mem = rec, !.slot = rec.active, !.arg = "recovery"]
       [] run.arg = "recovery" ->
            run' = [Dark EXCEPT !.mode = "halt"] /\ UNCHANGED writer
  /\ ghost' = [ghost EXCEPT !.kept = NoSlot]
  /\ UNCHANGED <<esp, kernel>>

-----------------------------------------------------------------------------
\* What Linux writes while it runs.
LinuxWrites(rec) ==
  /\ run.mode = "linux" /\ Settled("linux") /\ Readable(esp)
  /\ budget.ops < MaxOps
  /\ budget' = [budget EXCEPT !.ops = @ + 1]
  /\ StartWrite("linux", rec, "a")
  /\ UNCHANGED <<esp, run>>

\* An installed and activated update, good or not.
Arm ==
  /\ run.arg # "trial"
  /\ LinuxWrites(Armed(Selected(esp), run.slot))
  /\ \E loads \in BOOLEAN : kernel' = [kernel EXCEPT ![Peer(run.slot)] = loads]
  /\ ghost' = [ghost EXCEPT !.trials = 1, !.kept = NoSlot]

\* The trial passed its health checks.
Commit ==
  /\ run.arg = "trial"
  /\ LinuxWrites(Stabilised(Selected(esp), run.slot))
  /\ ghost' = [ghost EXCEPT !.kept = NoSlot]
  /\ UNCHANGED kernel

Request ==
  /\ LinuxWrites(RequestEdl(Selected(esp)))
  /\ ghost' = [ghost EXCEPT !.edls = 1, !.kept = NoSlot]
  /\ UNCHANGED kernel

\* set_usb_mode keeps the request it reads, be it consumed already or not.
SetUsbMode ==
  /\ LinuxWrites(Touched(Selected(esp)))
  /\ ghost' = [ghost EXCEPT !.edls = IF Selected(esp).edl THEN 1 ELSE @, !.kept = NoSlot]
  /\ UNCHANGED kernel

-----------------------------------------------------------------------------
Took(p) == ~Settled(p) /\ CopyWritten(p) /\ UNCHANGED <<run, kernel, budget, ghost>>

\* save_env needs an intact environment block.
Skipped ==
  /\ ~Settled("grub") /\ esp[writer["grub"].at] = Damaged
  /\ Advance("grub", FALSE)
  /\ UNCHANGED <<esp, run, kernel, budget, ghost>>

\* The other ESP carries the selection: a copy is torn only then.
Spare(s) == esp[Peer(s)] = GrubSelected(esp)

\* A failing write leaves the old copy, the new one or neither.
Failed(p) ==
  /\ ~Settled(p) /\ Fault
  /\ LET s == writer[p].at IN
     \E left \in {esp[s], writer[p].rec} \cup (IF Spare(s) THEN {Damaged} ELSE {}) :
       esp' = [esp EXCEPT ![s] = left]
  /\ Advance(p, FALSE)
  /\ UNCHANGED <<run, kernel, ghost>>

PowerOn ==
  /\ run.mode = "off"
  /\ run' = [run EXCEPT !.mode = "grub"]
  /\ Quietly

\* The power goes, and tears the copy that is being written, if any.
PowerCut ==
  /\ run.mode # "off" /\ Fault
  /\ esp' \in {esp} \cup {[esp EXCEPT ![writer[p].at] = Damaged] :
                            p \in {q \in Writers : ~Settled(q) /\ Spare(writer[q].at)}}
  /\ run' = Dark
  /\ writer' = [p \in Writers |-> NoWrite]
  /\ UNCHANGED <<kernel, ghost>>

\* reboot, EDL left by a reset, or the power switch.
Restart ==
  /\ run.mode \in {"linux", "edl", "halt"} /\ \A p \in Writers : Settled(p)
  /\ run' = Dark
  /\ writer' = [p \in Writers |-> NoWrite]
  /\ UNCHANGED <<esp, kernel, budget, ghost>>

Next ==
  \/ Start \/ Edl \/ Phase \/ Trial \/ Boot \/ LoadFails
  \/ Arm \/ Commit \/ Request \/ SetUsbMode
  \/ \E p \in Writers : Took(p) \/ Failed(p)
  \/ Skipped \/ PowerOn \/ PowerCut \/ Restart

Spec == Init /\ [][Next]_vars

-----------------------------------------------------------------------------
\* An activation starts one trial at most and an EDL request is carried out
\* once at most ("the consumed copy wins the tie", grub.cfg), through failing
\* writes and torn copies.  set_usb_mode counts as a request when the copy it
\* reads still carries one.
OneShot == ghost.trials >= 0 /\ ghost.edls >= 0

\* A recovery that ESP a took is what the next boot goes on with, until Linux
\* decides otherwise or it fails itself ("makes that recovery choice persistent").
RecoveryKept ==
  At("phase") /\ ghost.kept # NoSlot =>
    run.mem.active = ghost.kept /\ run.mem.phase = "stable"

\* ESP b alone took the consumption of a request.  GRUB goes by b then and
\* Linux by a; a recovery that b alone took after it is one they disagree about.
Divided ==
  /\ \A s \in Slots : esp[s] # Damaged /\ esp[s].phase = "stable"
  /\ esp["a"].gen = esp["b"].gen
  /\ esp["a"].edl /\ ~esp["b"].edl

\* What GRUB decided is what Linux reads: unless the other slot was recovered,
\* the record that update.py selects gives the slot that boots the role it has.
SameSelection ==
  [][Boot /\ Readable(esp) =>
       LET r == Selected(esp) IN
       CASE run.arg = "trial"    -> r.phase = "attempted" /\ r.pending = run.slot
         [] run.arg = "none"     -> r.active = run.slot \/ Divided
         [] run.arg = "recovery" -> TRUE]_vars
=============================================================================
