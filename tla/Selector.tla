------------------------------ MODULE Selector ------------------------------
(***************************************************************************)
(* U-Boot from power-on to the kernel: the boot script of the Dragon       *)
(* environment (bootcmd, vamos_host_edl, vamos_nvme, vamos_load) around    *)
(* the vamosboot command.  vamosboot reads both ESPs once, keeps the       *)
(* chosen record in memory, and persists every change to b and then a      *)
(* before it acts on it.                                                   *)
(***************************************************************************)
EXTENDS Device

VARIABLE sel   \* pc: the next step; mem: vamosboot's record; slot and tag: its
               \* choice; again: the recovery boot of this power-on is running

SelectorSteps ==
  {"off", "probe", "usb", "usb-normal", "usb-edl", "select", "normal", "edl",
   "phase", "trial", "rollback", "loading", "load", "kernel", "boot",
   "fail", "failed"}
Tags == {"stable", "trial", "recovery"}
TypeOKSelector ==
  sel \in [pc : SelectorSteps, mem : Copies, slot : Slots, tag : Tags,
           again : BOOLEAN]
NoSelector == [pc |-> "off", mem |-> Damaged, slot |-> "a", tag |-> "stable",
               again |-> FALSE]

Chosen == Selected(esp)

At(pc) == machine.mode = "uboot" /\ sel.pc = pc /\ Settled("uboot")
Took == writer["uboot"].ok   \* vamos_persist succeeded: some ESP took it
Goto(pc) == sel' = [sel EXCEPT !.pc = pc]

\* vamosboot works on rec from now on, persists it and goes on at pc.
Persist(rec, pc) ==
  /\ StartWrite("uboot", rec, "b")
  /\ sel' = [sel EXCEPT !.pc = pc, !.mem = rec]
  /\ UNCHANGED <<esp, image, journal, machine, budget, ghost>>

Quietly == UNCHANGED <<esp, writer, image, journal, machine, budget, ghost>>

\* U-Boot hands over or stops.
Leave(mode) ==
  /\ machine' = [machine EXCEPT !.mode = mode]
  /\ sel' = NoSelector
  /\ UNCHANGED <<esp, writer, image, journal>>

\* The edl command resets into EDL; it may also return, and the script goes on.
EnterEdl(next) ==
  \/ Leave("edl") /\ UNCHANGED budget
  \/ Fault("edl") /\ Goto(next) /\ UNCHANGED <<esp, writer, image, journal, machine>>

-----------------------------------------------------------------------------
\* edlprobe finds a PC on the USB port (which someone plugged in) or none.
Probe ==
  /\ At("probe")
  /\ \/ Goto("select") /\ Quietly
     \/ Request /\ Goto("usb") /\ UNCHANGED <<esp, writer, image, journal, machine, ghost>>

\* vamosboot usb-check: a normal request, once consumed, skips EDL; an EDL
\* request is consumed on the way; nothing else keeps a PC from EDL.
UsbCheck ==
  /\ At("usb")
  /\ IF Readable(esp) /\ Chosen.normal THEN Persist(NormalConsumed(Chosen), "usb-normal")
     ELSE IF Readable(esp) /\ Chosen.edl THEN Persist(EdlConsumed(Chosen), "usb-edl")
     ELSE EnterEdl("select") /\ UNCHANGED ghost

\* Broken variant: the PC is passed by whether or not the request was consumed.
UsbNormalAnyway ==
  /\ At("usb-normal")
  /\ ghost' = [ghost EXCEPT !.normals = @ - 1]
  /\ Goto("select")
  /\ UNCHANGED <<esp, writer, image, journal, machine, budget>>

UsbNormal ==
  /\ At("usb-normal")
  /\ \/ /\ Took
        /\ ghost' = [ghost EXCEPT !.normals = @ - 1]
        /\ Goto("select")
        /\ UNCHANGED <<esp, writer, image, journal, machine, budget>>
     \/ ~Took /\ EnterEdl("select") /\ UNCHANGED ghost

UsbEdl == At("usb-edl") /\ EnterEdl("select") /\ UNCHANGED ghost

-----------------------------------------------------------------------------
\* vamosboot without an argument: consume a normal request, then an EDL
\* request, then act on the phase.  Without a record it fails.
Select ==
  /\ At("select")
  /\ \/ ~Readable(esp) /\ Goto("fail") /\ Quietly
     \/ /\ Readable(esp)
        /\ IF Chosen.normal THEN Persist(NormalConsumed(Chosen), "normal")
           ELSE IF Chosen.edl THEN Persist(EdlConsumed(Chosen), "edl")
           ELSE sel' = [sel EXCEPT !.pc = "phase", !.mem = Chosen] /\ Quietly

\* A request that cannot be consumed ends this vamosboot, and the script tries
\* its recovery.
NormalTaken ==
  /\ At("normal")
  /\ IF Took
     THEN Goto("phase") /\ ghost' = [ghost EXCEPT !.normals = @ - 1]
     ELSE Goto("fail") /\ UNCHANGED ghost
  /\ UNCHANGED <<esp, writer, image, journal, machine, budget>>

\* An EDL request that cannot be consumed is ignored for this boot.
EdlTaken ==
  /\ At("edl")
  /\ \/ Took /\ EnterEdl("fail") /\ ghost' = [ghost EXCEPT !.edls = @ - 1]
     \/ ~Took /\ Goto("phase") /\ Quietly

Choose(slot, tag) ==
  sel' = [sel EXCEPT !.pc = "loading", !.slot = slot, !.tag = tag]

\* An armed trial is marked attempted before it is tried; an attempted one
\* that is seen again was not committed and is rolled back.
Phase ==
  /\ At("phase")
  /\ CASE sel.mem.phase = "armed"     -> Persist(Attempted(sel.mem), "trial")
       [] sel.mem.phase = "attempted" -> Persist(RolledBack(sel.mem), "rollback")
       [] sel.mem.phase = "stable"    -> Choose(sel.mem.active, "stable") /\ Quietly

Trial ==
  /\ At("trial")
  /\ IF Took THEN Choose(sel.mem.pending, "trial") ELSE Choose(sel.mem.active, "stable")
  /\ Quietly

Rollback == At("rollback") /\ Choose(sel.mem.active, "stable") /\ Quietly

\* vamosboot fail: an attempted trial falls back to the stable slot, anything
\* else promotes the other slot.  The script gets here once per power-on.
Fail ==
  /\ At("fail") /\ Readable(esp)
  /\ LET onTrial == Chosen.phase = "attempted"
         rec == IF onTrial THEN RolledBack(Chosen) ELSE Recovered(Chosen)
     IN
     /\ StartWrite("uboot", rec, "b")
     /\ sel' = [sel EXCEPT !.pc = "failed", !.mem = rec, !.again = TRUE,
                  !.tag = IF onTrial THEN "stable" ELSE "recovery"]
     /\ ghost' = [ghost EXCEPT !.promoted = @ \/ ~onTrial, !.overruled = @ \/ ~onTrial]
  /\ UNCHANGED <<esp, image, journal, machine, budget>>

\* Broken variant: without a record the selection starts over.
FailStartsOver == At("fail") /\ ~Readable(esp) /\ Goto("select") /\ Quietly

\* Without a record nothing can boot.
FailBlind ==
  /\ At("fail") /\ ~Readable(esp)
  /\ Leave("prompt")
  /\ UNCHANGED <<budget, ghost>>

Failed == At("failed") /\ Choose(sel.mem.active, sel.tag) /\ Quietly

-----------------------------------------------------------------------------
\* The boot is opened in the diagnostics before anything is loaded.
OpenBoot == At("loading") /\ Persist(Loading(sel.mem, sel.slot), "load")

\* The first attempt of a power-on is followed by vamosboot fail, the second
\* by the prompt.
GiveUp ==
  /\ IF sel.again THEN Leave("prompt")
     ELSE Goto("fail") /\ UNCHANGED <<esp, writer, image, journal, machine>>
  /\ UNCHANGED ghost

\* vamos_load: DSPs, secure launch, kernel and device tree from the slot's ESP.
Load ==
  /\ At("load")
  /\ \/ Took /\ Bootable(sel.slot) /\ Goto("kernel") /\ Quietly
     \/ Took /\ Bootable(sel.slot) /\ Fault("load") /\ GiveUp
     \/ ~(Took /\ Bootable(sel.slot)) /\ GiveUp /\ UNCHANGED budget

\* vamosboot kernel: a fresh read, one field changed.
Handoff ==
  /\ At("kernel")
  /\ \/ /\ Readable(esp)
        /\ StartWrite("uboot", Staged(Chosen, "kernel"), "b")
        /\ Goto("boot")
        /\ UNCHANGED <<esp, image, journal, machine, budget, ghost>>
     \/ ~Readable(esp) /\ GiveUp /\ UNCHANGED budget

\* booti: Linux starts with the choice on its command line.
BootLinux ==
  /\ At("boot")
  /\ \/ /\ Took
        /\ machine' = [Dark EXCEPT !.mode = "linux", !.slot = sel.slot,
                         !.trial = sel.tag = "trial", !.count = sel.mem.count]
        /\ ghost' = [ghost EXCEPT !.trials = IF sel.tag = "trial" THEN @ - 1 ELSE @]
        /\ sel' = NoSelector
        /\ UNCHANGED <<esp, writer, image, journal, budget>>
     \/ ~Took /\ GiveUp /\ UNCHANGED budget

SelectorNext ==
  \/ Probe \/ UsbCheck \/ UsbNormal \/ UsbEdl
  \/ Select \/ NormalTaken \/ EdlTaken
  \/ Phase \/ Trial \/ Rollback \/ Fail \/ FailBlind \/ Failed
  \/ OpenBoot \/ Load \/ Handoff \/ BootLinux
=============================================================================
