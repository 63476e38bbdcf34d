--------------------------- MODULE AbSystemProofs ---------------------------
(***************************************************************************)
(* The composed device, for every bound on requests and faults, every set  *)
(* of images and every interleaving of its programs.  First its types, for *)
(* any operator and any faults; then, where the operator waits for the     *)
(* boot supervision and record writes fail only with the power (Orderly),  *)
(* the invariant DeviceInv, the safety properties of the runs and the      *)
(* refinement of AbUpdate; at the end, that nothing goes on for ever.      *)
(*                                                                         *)
(* The power may go between any two steps, so the invariant says of every  *)
(* record that a boot may find (the selected one, and the ones that are    *)
(* being written) that the board can live with it: it is Fit.  The other   *)
(* parts say for each program what it may rely on at each of its steps.    *)
(***************************************************************************)
EXTENDS AbProgress, ControlStoreProofs

\* The record in U-Boot's memory is one from the moment it has read it.
MemInv ==
  /\ sel.pc \notin {"off", "probe", "usb", "select", "fail"} => sel.mem \in Controls
  /\ sel.pc = "trial" => sel.mem.phase = "attempted"

TypeInv == TypeOK /\ MemInv

-----------------------------------------------------------------------------
LEMMA WritersAre ==
  /\ "uboot" \in Writers /\ "updater" \in Writers
  /\ "supervisor" \in Writers /\ "host" \in Writers
BY WritersAssumption

LEMMA PeersAre ==
  \A s \in Slots : Peer(s) \in Slots /\ Peer(s) # s /\ Peer(Peer(s)) = s
BY DEF Slots, Peer

\* What a reader selects is a valid record, and so is what it starts from
\* without one.
LEMMA SelectedIsRecord ==
  ASSUME esp \in [Slots -> Copies]
  PROVE  /\ Readable(esp) => Selected(esp) \in Controls
         /\ Previous(esp) \in Controls
         /\ Readable(esp) => Previous(esp) = Selected(esp)
<1>1. Readable(esp) => Selected(esp) \in Controls
  BY DEF Readable, Selected, Copies, Slots
<1> QED
  BY <1>1, InitialRecords DEF Previous

LEMMA ConstantsTyped ==
  /\ NoSelector \in [pc : SelectorSteps, mem : Copies, slot : Slots, tag : Tags,
                     again : BOOLEAN]
  /\ NoJournal \in Journals
  /\ NoUpdate \in [pc : UpdaterSteps, doc : Journals, activate : BOOLEAN, reboot : BOOLEAN]
  /\ NoSupervisor \in [pc : SupervisorSteps, doc : Journals]
  /\ Dark \in Machines
  /\ NoWrite \in Writing
<1>1. Factory \in Images
  BY ImagesAssumption
<1>2. NoJournal \in Journals
  BY <1>1 DEF NoJournal, Journals, JournalStates, Slots
<1> QED
  BY <1>2 DEF NoSelector, NoUpdate, NoSupervisor, Dark, NoWrite, SelectorSteps, Copies, Slots,
     Tags, UpdaterSteps, SupervisorSteps, Machines, Modes, Writing

LEMMA StartTyped ==
  ASSUME TypeOKStore, NEW p \in Writers, NEW rec \in Controls, NEW first \in Slots,
         StartWrite(p, rec, first), esp' = esp
  PROVE  TypeOKStore'
BY PeersAre DEF TypeOKStore, StartWrite, Writing, Copies

LEMMA OutageTyped == TypeOKStore /\ Outage => TypeOKStore'
<1> SUFFICES ASSUME TypeOKStore, Outage PROVE TypeOKStore'
  OBVIOUS
<1>1. writer' \in [Writers -> Writing]
  BY ConstantsTyped DEF Outage
<1>2. esp' \in [Slots -> Copies]
  BY DEF Outage, TypeOKStore, Copies
<1> QED
  BY <1>1, <1>2 DEF TypeOKStore

LEMMA Frame ==
  /\ TypeOKStore /\ UNCHANGED <<esp, writer>> => TypeOKStore'
  /\ sel' = sel /\ MemInv => MemInv'
BY DEF TypeOKStore, MemInv

LEMMA InitTyped == Init => TypeInv
<1> SUFFICES ASSUME Init PROVE TypeInv
  OBVIOUS
<1>1. TypeOKStore
  BY StoreInitInv DEF Init, DeviceInit, StoreInv
<1>2. image \in [Slots -> Contents] /\ ghost \in Ghosts
  BY ImagesAssumption DEF Init, DeviceInit, Contents, Ghosts
<1>3. budget \in [faults : 0..MaxFaults, ops : 0..MaxOps]
  BY BudgetAssumption DEF Init, DeviceInit
<1>4. sel = NoSelector /\ MemInv
  BY DEF Init, MemInv, NoSelector
<1> QED
  BY <1>1, <1>2, <1>3, <1>4, ConstantsTyped
  DEF Init, DeviceInit, TypeInv, TypeOK, TypeOKDevice, TypeOKSelector, TypeOKUpdater,
      TypeOKSupervisor

\* The budget, the history and the parts of the state, changed field by field.
LEMMA FaultTyped ==
  ASSUME budget \in [faults : 0..MaxFaults, ops : 0..MaxOps],
         Request \/ (\E kind \in FaultKinds : Fault(kind)) \/ UNCHANGED budget
  PROVE  budget' \in [faults : 0..MaxFaults, ops : 0..MaxOps]
BY BudgetAssumption DEF Request, Fault

\* The changes U-Boot makes are records.
LEMMA SelectorRecords ==
  ASSUME NEW r \in Controls
  PROVE  /\ NormalConsumed(r) \in Controls /\ EdlConsumed(r) \in Controls
         /\ r.phase = "armed" => Attempted(r) \in Controls /\ Attempted(r).phase = "attempted"
         /\ r.phase = "attempted" => RolledBack(r) \in Controls
         /\ Recovered(r) \in Controls /\ Staged(r, "kernel") \in Controls
         /\ \A s \in Slots : Loading(r, s) \in Controls
         /\ r.phase \in Phases /\ r.active \in Slots /\ r.count \in Nat
         /\ r.phase # "stable" => r.pending \in Slots
BY ChangeSupersedes, PeersAre
DEF Changes, Controls, ControlRecord, Valid, Attempted, Policy

LEMMA GhostsTyped ==
  ASSUME NEW g \in Ghosts
  PROVE  /\ [g EXCEPT !.normals = @ - 1] \in Ghosts
         /\ [g EXCEPT !.edls = @ - 1] \in Ghosts
         /\ [g EXCEPT !.trials = @ - 1] \in Ghosts
         /\ [g EXCEPT !.trials = @] \in Ghosts
         /\ \A b \in BOOLEAN : [g EXCEPT !.promoted = @ \/ b, !.overruled = @ \/ b] \in Ghosts
<1>1. ASSUME NEW b \in BOOLEAN
      PROVE  [g EXCEPT !.promoted = @ \/ b, !.overruled = @ \/ b] \in Ghosts
  BY DEF Ghosts
<1>2. [g EXCEPT !.normals = @ - 1] \in Ghosts /\ [g EXCEPT !.edls = @ - 1] \in Ghosts
  BY DEF Ghosts
<1>3. [g EXCEPT !.trials = @ - 1] \in Ghosts /\ [g EXCEPT !.trials = @] \in Ghosts
  BY DEF Ghosts
<1> QED
  BY <1>1, <1>2, <1>3

\* Every step of the selector, by its cases.
LEMMA SelectorTyped == TypeInv /\ Selecting => TypeInv'
<1> SUFFICES ASSUME TypeInv, Selecting PROVE TypeInv'
  OBVIOUS
<1> DEFINE Sels == [pc : SelectorSteps, mem : Copies, slot : Slots, tag : Tags,
                    again : BOOLEAN]
           Budgets == [faults : 0..MaxFaults, ops : 0..MaxOps]
           Blank == {"off", "probe", "usb", "select", "fail"}
           Rest == /\ image' = image /\ journal' = journal /\ upd' = upd /\ sup' = sup
           Spent == Request \/ (\E kind \in FaultKinds : Fault(kind)) \/ UNCHANGED budget
<1>0. /\ TypeOKStore /\ image \in [Slots -> Contents] /\ journal \in Journals
      /\ machine \in Machines /\ budget \in Budgets /\ ghost \in Ghosts
      /\ sel \in Sels /\ TypeOKUpdater /\ TypeOKSupervisor
      /\ sel.pc \notin Blank => sel.mem \in Controls
      /\ sel.pc = "trial" => sel.mem.phase = "attempted"
  BY DEF TypeInv, TypeOK, TypeOKDevice, TypeOKSelector, MemInv
<1>r. Readable(esp) => Chosen \in Controls
  BY <1>0, SelectedIsRecord DEF TypeOKStore, Chosen
<1>g. /\ [ghost EXCEPT !.normals = @ - 1] \in Ghosts
      /\ [ghost EXCEPT !.edls = @ - 1] \in Ghosts
      /\ [ghost EXCEPT !.trials = @ - 1] \in Ghosts
      /\ [ghost EXCEPT !.trials = @] \in Ghosts
      /\ \A b \in BOOLEAN : [ghost EXCEPT !.promoted = @ \/ b, !.overruled = @ \/ b] \in Ghosts
  BY <1>0, GhostsTyped
\* It goes on: to a step that does not need the record, or with the record it has.
<1>1. ASSUME sel' \in Sels, sel'.pc # "trial", sel'.pc \notin Blank => sel'.mem \in Controls,
             Rest, UNCHANGED <<esp, writer>>, Spent, machine' \in Machines, ghost' \in Ghosts
      PROVE  TypeInv'
  BY <1>0, <1>1, FaultTyped, Frame
  DEF TypeInv, TypeOK, TypeOKDevice, TypeOKSelector, MemInv, TypeOKUpdater, TypeOKSupervisor
\* It persists a record and keeps it in memory.
<1>2. ASSUME NEW rec \in Controls, StartWrite("uboot", rec, "b"), esp' = esp,
             sel' \in Sels, sel'.pc \notin Blank => sel'.mem \in Controls,
             sel'.pc = "trial" => sel'.mem.phase = "attempted",
             Rest, machine' = machine, budget' = budget, ghost' \in Ghosts
      PROVE  TypeInv'
  <2>1. TypeOKStore'
    BY <1>0, <1>2, StartTyped, WritersAre DEF Slots
  <2> QED
    BY <1>0, <1>2, <2>1
    DEF TypeInv, TypeOK, TypeOKDevice, TypeOKSelector, MemInv, TypeOKUpdater, TypeOKSupervisor
<1>p. ASSUME NEW rec \in Controls, NEW pc \in SelectorSteps, Persist(rec, pc), Rest,
             pc = "trial" => rec.phase = "attempted"
      PROVE  TypeInv'
  <2>1. sel' \in Sels /\ sel'.pc = pc /\ sel'.mem = rec
    BY <1>0, <1>p DEF Persist, Copies
  <2> QED
    BY <1>0, <1>p, <2>1, <1>2 DEF Persist
<1>k. ASSUME NEW pc \in SelectorSteps \ {"trial"}, sel' = [sel EXCEPT !.pc = pc],
             pc \in Blank \/ sel.pc \notin Blank,
             Rest, UNCHANGED <<esp, writer, machine>>, Spent, ghost' \in Ghosts
      PROVE  TypeInv'
  <2>1. sel' \in Sels /\ sel'.pc = pc /\ sel'.mem = sel.mem
    BY <1>0, <1>k
  <2> QED
    BY <1>0, <1>k, <2>1, <1>1
<1>l. ASSUME NEW mode \in Modes, Leave(mode), Rest, Spent, ghost' \in Ghosts
      PROVE  TypeInv'
  <2>1. sel' \in Sels /\ sel'.pc = "off"
    BY <1>l, ConstantsTyped DEF Leave, NoSelector
  <2>2. machine' \in Machines
    BY <1>0, <1>l DEF Leave, Machines
  <2> QED
    BY <1>l, <2>1, <2>2, <1>1 DEF Leave
<1>e. ASSUME NEW next \in {"select", "fail"}, EnterEdl(next), Rest, ghost' \in Ghosts
      PROVE  TypeInv'
  BY <1>e, <1>k, <1>l DEF EnterEdl, Goto, Fault, Modes, SelectorSteps
<1>u. ASSUME GiveUp, Rest, Spent PROVE TypeInv'
  <2>1. ghost' \in Ghosts
    BY <1>0, <1>u DEF GiveUp
  <2> QED
    BY <1>u, <2>1, <1>k, <1>l DEF GiveUp, Goto, Modes, SelectorSteps
<1>c. ASSUME NEW slot \in Slots, NEW tag \in Tags, Choose(slot, tag), Quietly, Rest,
             sel.mem \in Controls
      PROVE  TypeInv'
  <2>1. sel' \in Sels /\ sel'.pc = "loading" /\ sel'.mem = sel.mem
    BY <1>0, <1>c DEF Choose, SelectorSteps
  <2> QED
    BY <1>0, <1>c, <2>1, <1>1 DEF Quietly
<1>q. UNCHANGED <<upd, sup>>
  BY DEF Selecting
<1>3. CASE Probe
  BY <1>0, <1>3, <1>q, <1>k DEF Probe, Goto, Quietly, SelectorSteps
<1>4. CASE UsbCheck
  <2>1. CASE EnterEdl("select") /\ UNCHANGED ghost
    BY <1>0, <1>4, <1>q, <2>1, <1>e DEF UsbCheck, EnterEdl, Leave
  <2> QED
    BY <1>4, <1>q, <2>1, <1>r, <1>p, SelectorRecords DEF UsbCheck, SelectorSteps, Persist
<1>5. CASE UsbNormal
  BY <1>0, <1>5, <1>q, <1>g, <1>k, <1>e, ZenonT(60) DEF UsbNormal, Goto, SelectorSteps, EnterEdl, Leave
<1>6. CASE UsbEdl
  BY <1>0, <1>6, <1>q, <1>e DEF UsbEdl, EnterEdl, Leave
<1>7. CASE Select
  <2>1. CASE ~Readable(esp)
    BY <1>0, <1>7, <1>q, <2>1, <1>k DEF Select, Goto, Quietly, SelectorSteps
  <2>2. CASE Readable(esp) /\ sel' = [sel EXCEPT !.pc = "phase", !.mem = Chosen] /\ Quietly
    <3>1. sel' \in Sels /\ sel'.pc = "phase" /\ sel'.mem \in Controls
      BY <1>0, <2>2, <1>r DEF SelectorSteps, Copies
    <3> QED
      BY <1>0, <1>q, <2>2, <3>1, <1>1 DEF Quietly
  <2> QED
    BY <1>7, <1>q, <2>1, <2>2, <1>r, <1>p, SelectorRecords DEF Select, SelectorSteps, Persist
<1>8. CASE NormalTaken
  BY <1>0, <1>8, <1>q, <1>g, <1>k DEF NormalTaken, At, Goto, SelectorSteps
<1>9. CASE EdlTaken
  <2>1. CASE EnterEdl("fail") /\ ghost' = [ghost EXCEPT !.edls = @ - 1]
    BY <1>0, <1>9, <1>q, <2>1, <1>g, <1>e DEF EnterEdl, Leave
  <2> QED
    BY <1>0, <1>9, <1>q, <2>1, <1>k DEF EdlTaken, At, Goto, Quietly, SelectorSteps
<1>10. CASE Phase
  <2>1. At("phase") /\ sel.mem \in Controls
    BY <1>0, <1>10 DEF Phase, At
  <2>2. sel.mem.phase \in {"armed", "attempted", "stable"}
    BY <2>1, SelectorRecords DEF Phases
  <2>3. CASE sel.mem.phase = "armed"
    BY <1>10, <1>q, <2>1, <2>3, <1>p, SelectorRecords DEF Phase, SelectorSteps, Persist
  <2>4. CASE sel.mem.phase = "attempted"
    BY <1>10, <1>q, <2>1, <2>4, <1>p, SelectorRecords DEF Phase, SelectorSteps, Persist
  <2>5. CASE sel.mem.phase = "stable"
    BY <1>10, <1>q, <2>1, <2>5, <1>c, SelectorRecords DEF Phase, Tags, Quietly
  <2> QED
    BY <2>2, <2>3, <2>4, <2>5
<1>11. CASE Trial
  <2>1. sel.mem \in Controls /\ sel.mem.phase = "attempted"
    BY <1>0, <1>11 DEF Trial, At
  <2> QED
    BY <1>11, <1>q, <2>1, <1>c, SelectorRecords DEF Trial, Tags, Quietly
<1>12. CASE Rollback
  BY <1>0, <1>12, <1>q, <1>c, SelectorRecords DEF Rollback, At, Tags, Quietly
<1>13. CASE Fail
  <2>1. Chosen \in Controls
    BY <1>13, <1>r DEF Fail
  <2> DEFINE onTrial == Chosen.phase = "attempted"
             rec == IF onTrial THEN RolledBack(Chosen) ELSE Recovered(Chosen)
  <2>2. rec \in Controls
    BY <2>1, SelectorRecords
  <2>3. sel' \in Sels /\ sel'.pc = "failed" /\ sel'.mem = rec
    BY <1>0, <1>13, <2>2 DEF Fail, SelectorSteps, Copies, Tags
  <2>4. ghost' \in Ghosts
    BY <1>13, <1>g DEF Fail
  <2> QED
    BY <1>13, <1>q, <2>2, <2>3, <2>4, <1>2 DEF Fail
<1>14. CASE FailBlind
  BY <1>0, <1>14, <1>q, <1>l DEF FailBlind, Leave, Modes
<1>15. CASE Failed
  BY <1>0, <1>15, <1>q, <1>c, SelectorRecords DEF Failed, At, Quietly
<1>16. CASE OpenBoot
  BY <1>0, <1>16, <1>q, <1>p, SelectorRecords DEF OpenBoot, At, SelectorSteps, Persist
<1>17. CASE Load
  <2>1. CASE Goto("kernel") /\ Quietly
    BY <1>0, <1>17, <1>q, <2>1, <1>k DEF Load, At, Goto, Quietly, SelectorSteps
  <2>2. CASE GiveUp
    <3>1. Spent
      BY <1>17, <2>2 DEF Load, Fault, Quietly
    <3>2. Rest
      BY <1>q, <2>2 DEF GiveUp, Leave
    <3> QED
      BY <2>2, <3>1, <3>2, <1>u
  <2> QED
    BY <1>17, <2>1, <2>2 DEF Load
<1>18. CASE Handoff
  <2>1. CASE GiveUp
    BY <1>0, <1>18, <1>q, <2>1, <1>u DEF Handoff, GiveUp, Leave
  <2>2. CASE Readable(esp) /\ StartWrite("uboot", Staged(Chosen, "kernel"), "b")
    <3>1. sel' \in Sels /\ sel'.pc = "boot" /\ sel'.mem = sel.mem /\ sel.mem \in Controls
      BY <1>0, <1>18, <2>2 DEF Handoff, At, Goto, SelectorSteps, GiveUp
    <3> QED
      BY <1>0, <1>18, <1>q, <2>2, <3>1, <1>2, <1>r, SelectorRecords DEF Handoff
  <2> QED
    BY <1>18, <2>1, <2>2 DEF Handoff
<1>19. CASE BootLinux
  <2>1. CASE GiveUp
    BY <1>0, <1>19, <1>q, <2>1, <1>u DEF BootLinux, GiveUp, Leave
  <2>2. CASE Took /\ ~GiveUp
    <3>1. sel' \in Sels /\ sel'.pc = "off"
      <4>1. sel' = NoSelector
        BY <1>19, <2>2 DEF BootLinux
      <4> QED
        BY <4>1, ConstantsTyped DEF NoSelector
    <3>2. machine' \in Machines
      BY <1>0, <1>19, <2>2, ConstantsTyped, SelectorRecords, ZenonT(60) DEF BootLinux, At, Machines, Modes
    <3>3. ghost' \in Ghosts
      BY <1>0, <1>19, <2>2, <1>g DEF BootLinux
    <3> QED
      BY <1>19, <1>q, <2>2, <3>1, <3>2, <3>3, <1>1 DEF BootLinux
  <2> QED
    BY <1>19, <2>1, <2>2 DEF BootLinux
<1> QED
  BY <1>3, <1>4, <1>5, <1>6, <1>7, <1>8, <1>9, <1>10, <1>11, <1>12, <1>13, <1>14, <1>15,
     <1>16, <1>17, <1>18, <1>19 DEF Selecting, SelectorNext

-----------------------------------------------------------------------------
\* The changes the updater and the supervisor make are records.
LEMMA LinuxRecords ==
  ASSUME NEW r \in Controls, NEW s \in Slots
  PROVE  /\ RequestEdl(r) \in Controls /\ Touched(r) \in Controls
         /\ Stabilised(r, s) \in Controls /\ SelectorInstalled(r, s) \in Controls
         /\ Armed(r, s) \in Controls
         /\ Staged(r, "userspace") \in Controls /\ Staged(r, "healthy") \in Controls
BY ChangeSupersedes DEF Changes

Upds == [pc : UpdaterSteps, doc : Journals, activate : BOOLEAN, reboot : BOOLEAN]
Budgets == [faults : 0..MaxFaults, ops : 0..MaxOps]

LEMMA JournalsTyped ==
  ASSUME NEW j \in Journals
  PROVE  /\ \A st \in JournalStates : [j EXCEPT !.state = st] \in Journals
         /\ \A s \in Slots : [j EXCEPT !.state = "committed", !.active = s] \in Journals
         /\ j.target \in Slots /\ j.active \in Slots /\ j.version \in Images
         /\ j.state \in JournalStates
BY DEF Journals, JournalStates

LEMMA MachinesTyped ==
  ASSUME NEW m \in Machines
  PROVE  /\ \A k \in {"free", "updater", "supervisor"} : [m EXCEPT !.lock = k] \in Machines
         /\ \A k \in {"armed", "disarmed"} : [m EXCEPT !.dog = k] \in Machines
         /\ \A k \in Modes : [m EXCEPT !.mode = k] \in Machines
         /\ [m EXCEPT !.up = TRUE] \in Machines
         /\ m.slot \in Slots
BY DEF Machines

LEMMA ImagesTyped ==
  ASSUME image \in [Slots -> Contents], NEW s \in Slots, NEW v \in Images \cup {Partial}
  PROVE  /\ [image EXCEPT ![s].sys = v] \in [Slots -> Contents]
         /\ [image EXCEPT ![s].esp = v] \in [Slots -> Contents]
BY DEF Contents

\* The same of the updater ...
LEMMA UpdaterTyped ==
  TypeInv /\ (Updating \/ Commanding) => TypeInv'
<1> SUFFICES ASSUME TypeInv, Updating \/ Commanding PROVE TypeInv'
  OBVIOUS
<1>0. /\ TypeOKStore /\ image \in [Slots -> Contents] /\ journal \in Journals
      /\ machine \in Machines /\ budget \in Budgets /\ ghost \in Ghosts
      /\ TypeOKSelector /\ upd \in Upds /\ TypeOKSupervisor /\ MemInv
      /\ machine.slot \in Slots /\ Peer(machine.slot) \in Slots
      /\ upd.doc \in Journals /\ upd.doc.target \in Slots /\ upd.doc.version \in Images
  BY MachinesTyped, JournalsTyped, PeersAre
  DEF TypeInv, TypeOK, TypeOKDevice, TypeOKUpdater, Upds, Budgets
<1>r. /\ Readable(esp) => Selected(esp) \in Controls
      /\ Previous(esp) \in Controls
  BY <1>0, SelectedIsRecord DEF TypeOKStore
<1>q. UNCHANGED <<sel, sup>>
  BY DEF Updating, Commanding
<1>g. /\ [ghost EXCEPT !.edls = 1] \in Ghosts
      /\ [ghost EXCEPT !.trials = 1] \in Ghosts /\ [ghost EXCEPT !.trials = 0] \in Ghosts
  BY <1>0 DEF Ghosts
<1> DEFINE Spent == Request \/ (\E kind \in FaultKinds : Fault(kind)) \/ UNCHANGED budget
\* What a step may change, the store apart.
<1>1. ASSUME TypeOKStore', image' \in [Slots -> Contents], journal' \in Journals,
             machine' \in Machines, Spent, ghost' \in Ghosts, upd' \in Upds
      PROVE  TypeInv'
  BY <1>0, <1>1, <1>q, FaultTyped, Frame
  DEF TypeInv, TypeOK, TypeOKDevice, TypeOKSelector, TypeOKUpdater, TypeOKSupervisor, Upds,
      Budgets
<1>s. UNCHANGED <<esp, writer>> => TypeOKStore'
  BY <1>0, Frame
<1>w. ASSUME NEW rec \in Controls, Write(rec) PROVE TypeOKStore'
  BY <1>0, <1>w, StartTyped, WritersAre DEF Write, Slots
<1>p. ASSUME NEW pc \in UpdaterSteps, Proceed(pc) PROVE upd' \in Upds
  BY <1>0, <1>p DEF Proceed, Upds
<1>m. /\ Command => machine' \in Machines /\ Spent
      /\ Release => machine' \in Machines /\ upd' \in Upds
      /\ UNCHANGED machine => machine' \in Machines
  BY <1>0, MachinesTyped, ConstantsTyped DEF Command, Lock, Release, Upds
<1>2. CASE RequestRecovery
  <2>1. TypeOKStore'
    BY <1>2, <1>r, <1>w, <1>0, LinuxRecords DEF RequestRecovery
  <2> QED
    BY <1>0, <1>2, <2>1, <1>p, <1>m, <1>g, <1>1 DEF RequestRecovery, UpdaterSteps
<1>3. CASE SetUsbMode
  <2>1. TypeOKStore'
    BY <1>3, <1>r, <1>w, <1>0, LinuxRecords DEF SetUsbMode
  <2> QED
    BY <1>0, <1>3, <2>1, <1>p, <1>m, <1>1 DEF SetUsbMode, UpdaterSteps
<1>4. CASE Requested
  BY <1>0, <1>4, <1>s, <1>p, <1>m, <1>1 DEF Requested, UpdaterSteps
<1>5. CASE Install
  <2>1. PICK v \in Images, activate \in BOOLEAN, reboot \in BOOLEAN :
          LET doc == [state |-> "writing", active |-> machine.slot,
                      target |-> Peer(machine.slot), version |-> v]
          IN
          /\ upd' = [pc |-> IF Cancels THEN "cancel" ELSE "system",
                     doc |-> doc, activate |-> activate, reboot |-> reboot]
          /\ IF Cancels
             THEN Write(Stabilised(Selected(esp), machine.slot)) /\ UNCHANGED journal
             ELSE SaveJournal(doc) /\ UNCHANGED <<esp, writer>>
    BY <1>5 DEF Install
  <2> DEFINE doc == [state |-> "writing", active |-> machine.slot,
                     target |-> Peer(machine.slot), version |-> v]
  <2>2. doc \in Journals
    BY <1>0 DEF Journals, JournalStates
  <2>3. upd' \in Upds
    BY <2>1, <2>2 DEF Upds, UpdaterSteps
  <2>4. journal' \in Journals
    BY <1>0, <2>1, <2>2 DEF SaveJournal
  <2>5. TypeOKStore'
    BY <1>0, <2>1, <1>r, <1>s, <1>w, LinuxRecords DEF Cancels
  <2> QED
    BY <1>0, <1>5, <2>3, <2>4, <2>5, <1>m, <1>1 DEF Install
<1>6. CASE Cancelled
  BY <1>0, <1>6, <1>s, <1>p, <1>m, <1>g, <1>1 DEF Cancelled, SaveJournal, UpdaterSteps
<1>7. CASE WriteSystem
  BY <1>0, <1>7, <1>s, <1>p, <1>1, ImagesTyped DEF WriteSystem, UpdaterSteps
<1>8. CASE SystemWritten
  BY <1>0, <1>8, <1>s, <1>p, <1>1, ImagesTyped DEF SystemWritten, UpdaterSteps
<1>9. CASE WriteEsp
  <2>1. TypeOKStore'
    BY <1>0, <1>9, InitialRecords DEF WriteEsp, TypeOKStore, Copies
  <2> QED
    BY <1>0, <1>9, <2>1, <1>p, <1>1, ImagesTyped DEF WriteEsp, UpdaterSteps
<1>10. CASE EspWritten
  <2>1. TypeOKStore'
    BY <1>0, <1>10, InitialRecords DEF EspWritten, TypeOKStore, Copies
  <2> QED
    BY <1>0, <1>10, <2>1, <1>p, <1>1, ImagesTyped DEF EspWritten, UpdaterSteps
<1>11. CASE InstallSelector
  <2>1. TypeOKStore'
    BY <1>0, <1>11, <1>r, StartTyped, LinuxRecords, WritersAre DEF InstallSelector
  <2> QED
    BY <1>0, <1>11, <2>1, <1>p, <1>1 DEF InstallSelector, UpdaterSteps
<1>12. CASE SelectorDone
  BY <1>0, <1>12, <1>s, <1>p, <1>1 DEF SelectorDone, UpdaterSteps, deviceVars
<1>13. CASE Validate
  <2>1. journal' \in Journals /\ upd' \in Upds
    BY <1>0, <1>13, JournalsTyped DEF Validate, SaveJournal, Upds, UpdaterSteps, JournalStates
  <2>2. machine' \in Machines
    <3>1. /\ [machine EXCEPT !.lock = @] = machine
          /\ [machine EXCEPT !.lock = "free"] \in Machines
      BY <1>0, MachinesTyped DEF Machines
    <3> QED
      BY <1>0, <1>13, <3>1 DEF Validate
  <2> QED
    BY <1>0, <1>13, <2>1, <2>2, <1>s, <1>1 DEF Validate
<1>14. CASE InstallFails
  BY <1>0, <1>14, <1>s, <1>p, <1>1 DEF InstallFails, UpdaterSteps, Fault
<1>15. CASE Activate
  <2>1. upd' \in Upds
    BY <1>0, <1>15 DEF Activate, Upds, UpdaterSteps
  <2> QED
    BY <1>0, <1>15, <2>1, <1>s, <1>m, <1>1 DEF Activate
<1>16. CASE Arm
  <2>1. TypeOKStore'
    BY <1>0, <1>16, <1>r, <1>s, <1>w, LinuxRecords DEF Arm
  <2> QED
    BY <1>0, <1>16, <2>1, <1>p, <1>m, <1>g, <1>1 DEF Arm, UpdaterSteps
<1>17. CASE ArmDone
  <2>1. journal' \in Journals
    BY <1>0, <1>17, JournalsTyped DEF ArmDone, SaveJournal, JournalStates
  <2> QED
    BY <1>0, <1>17, <2>1, <1>s, <1>p, <1>m, <1>1 DEF ArmDone, UpdaterSteps
<1>18. CASE Undo
  <2>1. TypeOKStore'
    BY <1>0, <1>18, <1>r, <1>w, LinuxRecords DEF Undo
  <2> QED
    BY <1>0, <1>18, <2>1, <1>p, <1>1 DEF Undo, UpdaterSteps
<1>19. CASE Undone
  <2>1. journal' \in Journals
    BY <1>0, <1>19, JournalsTyped DEF Undone, SaveJournal, JournalStates
  <2>2. ghost' \in Ghosts
    BY <1>0, <1>19, <1>g, GhostsTyped DEF Undone
  <2> QED
    BY <1>0, <1>19, <2>1, <2>2, <1>s, <1>m, <1>1 DEF Undone
<1> QED
  BY <1>2, <1>3, <1>4, <1>5, <1>6, <1>7, <1>8, <1>9, <1>10, <1>11, <1>12, <1>13, <1>14, <1>15,
     <1>16, <1>17, <1>18, <1>19 DEF Updating, Commanding, UpdaterNext, UpdaterCommands

Sups == [pc : SupervisorSteps, doc : Journals]

\* ... of the boot supervision ...
LEMMA SupervisorTyped == TypeInv /\ Supervising => TypeInv'
<1> SUFFICES ASSUME TypeInv, Supervising PROVE TypeInv'
  OBVIOUS
<1>0. /\ TypeOKStore /\ image \in [Slots -> Contents] /\ journal \in Journals
      /\ machine \in Machines /\ budget \in Budgets /\ ghost \in Ghosts
      /\ TypeOKSelector /\ TypeOKUpdater /\ sup \in Sups /\ MemInv
      /\ machine.slot \in Slots
      /\ sup.doc \in Journals /\ sup.doc.active \in Slots
  BY MachinesTyped, JournalsTyped
  DEF TypeInv, TypeOK, TypeOKDevice, TypeOKSupervisor, Sups, Budgets
<1>r. /\ Readable(esp) => Selected(esp) \in Controls
      /\ Previous(esp) \in Controls
  BY <1>0, SelectedIsRecord DEF TypeOKStore
<1>q. UNCHANGED <<sel, upd>>
  BY DEF Supervising
<1>g. /\ ghost.proven \cup Passing \in SUBSET Images
      /\ \A v \in SUBSET Images : [ghost EXCEPT !.proven = v] \in Ghosts
      /\ \A v \in SUBSET Images, b \in BOOLEAN :
           [ghost EXCEPT !.proven = v, !.promoted = b] \in Ghosts
      /\ [ghost EXCEPT !.overruled = FALSE] \in Ghosts
      /\ ghost.proven \in SUBSET Images /\ ghost.promoted \in BOOLEAN
      /\ machine.trial \in BOOLEAN
  <2>1. Passing \subseteq Images /\ ghost.proven \in SUBSET Images
    BY <1>0, ImagesAssumption DEF Passing, Ghosts
  <2> QED
    BY <1>0, <2>1 DEF Ghosts, Machines
\* What a step may change, the store apart.
<1>1. ASSUME TypeOKStore', image' = image, journal' \in Journals, machine' \in Machines,
             budget' = budget, ghost' \in Ghosts, sup' \in Sups
      PROVE  TypeInv'
  BY <1>0, <1>1, <1>q, Frame
  DEF TypeInv, TypeOK, TypeOKDevice, TypeOKSelector, TypeOKUpdater, TypeOKSupervisor, Sups,
      Budgets
<1>s. UNCHANGED <<esp, writer>> => TypeOKStore'
  BY <1>0, Frame
<1>w. ASSUME NEW rec \in Controls, NEW first \in Slots,
             StartWrite("supervisor", rec, first), UNCHANGED esp
      PROVE  TypeOKStore'
  BY <1>0, <1>w, StartTyped, WritersAre
<1>p. ASSUME NEW pc \in SupervisorSteps, Continue(pc) PROVE sup' \in Sups
  BY <1>0, <1>p DEF Continue, Sups
<1>k. ASSUME NEW pc \in SupervisorSteps, Continue(pc), Silently PROVE TypeInv'
  BY <1>0, <1>k, <1>s, <1>p, <1>1 DEF Silently
<1>t. ASSUME NEW pc \in SupervisorSteps, NEW stage \in {"userspace", "healthy"},
             Readable(esp), RecordStage(stage, pc)
      PROVE  TypeInv'
  <2>1. TypeOKStore'
    BY <1>t, <1>r, <1>w, LinuxRecords, <1>0 DEF RecordStage, Slots
  <2> QED
    BY <1>0, <1>t, <2>1, <1>p, <1>1, MachinesTyped DEF RecordStage
<1>d. ASSUME NEW pc \in SupervisorSteps, StageRecorded(pc) PROVE TypeInv'
  BY <1>0, <1>d, <1>s, <1>p, <1>1, MachinesTyped DEF StageRecorded
<1>2. CASE StartUp
  BY <1>2, <1>k DEF StartUp, SupervisorSteps
<1>3. CASE RecordUserspace
  BY <1>3, <1>k, <1>t DEF RecordUserspace, ThisBoot, SupervisorSteps
<1>4. CASE UserspaceRecorded
  BY <1>4, <1>d DEF UserspaceRecorded, SupervisorSteps
<1>5. CASE Reconcile
  <2>1. journal' \in Journals
    BY <1>0, <1>5, JournalsTyped DEF Reconcile, JournalStates
  <2>2. machine' \in Machines
    BY <1>0, <1>5, MachinesTyped DEF Reconcile, Stage1Done
  <2>3. sup' \in Sups
    BY <1>0, <1>5, <1>p DEF Reconcile, Stage1Done, SupervisorSteps
  <2>4. TypeOKStore'
    BY <1>0, <1>5, <1>r, <1>s, <1>w, LinuxRecords DEF Reconcile, Slots
  <2> QED
    BY <1>0, <1>5, <2>1, <2>2, <2>3, <2>4, <1>1 DEF Reconcile
<1>6. CASE Reverted
  <2>1. journal' \in Journals
    BY <1>0, <1>6, JournalsTyped DEF Reverted, JournalStates
  <2>2. machine' \in Machines /\ sup' \in Sups
    BY <1>0, <1>6, <1>p, MachinesTyped DEF Reverted, Stage1Done, SupervisorSteps
  <2> QED
    BY <1>0, <1>6, <2>1, <2>2, <1>s, <1>1 DEF Reverted
<1>7. CASE Service
  <2>1. sup' \in Sups
    BY <1>0, <1>7, <1>p DEF Service, SupervisorSteps, Sups
  <2> QED
    BY <1>0, <1>7, <2>1, <1>s, <1>1 DEF Service, Silently
<1>8. CASE RecordHealth
  BY <1>8, <1>k, <1>t DEF RecordHealth, ThisBoot, SupervisorSteps
<1>9. CASE HealthRecorded
  BY <1>9, <1>d DEF HealthRecorded, SupervisorSteps
<1>10. CASE Disarm
  <2>1. ghost' \in Ghosts
    BY <1>0, <1>10, <1>g DEF Disarm
  <2>2. machine' \in Machines /\ sup' \in Sups
    BY <1>0, <1>10, <1>p, MachinesTyped DEF Disarm, AfterDisarm, SupervisorSteps
  <2> QED
    BY <1>0, <1>10, <2>1, <2>2, <1>s, <1>1 DEF Disarm
<1>11. CASE Commit
  <2>1. TypeOKStore'
    BY <1>0, <1>11, <1>r, <1>w, LinuxRecords DEF Commit, CommitRecord, Slots
  <2> QED
    BY <1>0, <1>11, <2>1, <1>g, <1>p, <1>1 DEF Commit, SupervisorSteps
<1>12. CASE Committed
  <2>1. TypeOKStore'
    BY <1>0, <1>12, <1>r, <1>s, <1>w, LinuxRecords DEF Committed, Slots
  <2> QED
    BY <1>0, <1>12, <2>1, <1>p, <1>1 DEF Committed, SupervisorSteps
<1>13. CASE CommitUndone
  BY <1>13, <1>k DEF CommitUndone, SupervisorSteps
<1>14. CASE SaveCommitted
  <2>1. journal' \in Journals
    BY <1>0, <1>14, JournalsTyped DEF SaveCommitted
  <2> QED
    BY <1>0, <1>14, <2>1, <1>s, <1>g, <1>p, <1>1 DEF SaveCommitted, SupervisorSteps
<1> QED
  BY <1>2, <1>3, <1>4, <1>5, <1>6, <1>7, <1>8, <1>9, <1>10, <1>11, <1>12, <1>13, <1>14
  DEF Supervising, SupervisorNext

\* ... of the writes to the ESPs ...
LEMMA CopyTyped ==
  ASSUME TypeInv, NEW p \in Writers, CopyStep(p)
  PROVE  TypeInv'
<1>0. /\ esp \in [Slots -> Copies] /\ writer \in [Writers -> Writing]
      /\ budget \in Budgets /\ MemInv
      /\ writer[p].at \in Slots \cup {NoSlot} /\ writer[p].after \in Slots \cup {NoSlot}
      /\ writer[p].rec \in Copies /\ writer[p].ok \in BOOLEAN /\ Damaged \in Copies
  BY DEF TypeInv, TypeOK, TypeOKDevice, TypeOKStore, Budgets, Writing, Copies
<1>1. ASSUME NEW took \in BOOLEAN, Advance(p, took) PROVE writer' \in [Writers -> Writing]
  <2>1. [rec |-> writer[p].rec, at |-> writer[p].after, after |-> NoSlot,
         ok |-> writer[p].ok \/ took] \in Writing
    BY <1>0 DEF Writing
  <2> QED
    BY <1>0, <1>1, <2>1 DEF Advance
<1>2. Forget(p) => writer' \in [Writers -> Writing]
  BY <1>0, ConstantsTyped DEF Forget
<1>3. esp' \in [Slots -> Copies]
  BY <1>0 DEF CopyStep, Wrote, Declined, Erred, CopyWritten, Spoilt
<1>4. writer' \in [Writers -> Writing]
  BY <1>1, <1>2 DEF CopyStep, Wrote, Declined, Erred, CopyWritten, NotTaken
<1>5. budget' \in Budgets
  BY <1>0, FaultTyped DEF CopyStep, Wrote, Declined, Erred, Budgets, Fault
<1> QED
  BY <1>0, <1>3, <1>4, <1>5, Frame
  DEF CopyStep, TypeInv, TypeOK, TypeOKDevice, TypeOKStore, TypeOKSelector, TypeOKUpdater,
      TypeOKSupervisor, Budgets

Board == \/ PowerOn \/ PowerCut \/ Reboot \/ Restart \/ WatchdogReset \/ MediaLoss
         \/ NormalRequest \/ EdlExit

\* ... and of the board.
LEMMA BoardTyped == TypeInv /\ Board => TypeInv'
<1> SUFFICES ASSUME TypeInv, Board PROVE TypeInv'
  OBVIOUS
<1> USE DEF TypeInv, TypeOK, TypeOKDevice, TypeOKSelector, TypeOKUpdater, TypeOKSupervisor
<1>1. CASE Off /\ (Request \/ (\E kind \in FaultKinds : Fault(kind)) \/ UNCHANGED budget)
  <2>1. MemInv'
    BY <1>1 DEF Off, NoSelector, MemInv
  <2> QED
    BY <1>1, <2>1, OutageTyped, ConstantsTyped, FaultTyped DEF Off
<1>2. CASE PowerOn
  <2>1. MemInv' /\ TypeOKSelector'
    BY <1>2 DEF PowerOn, MemInv, SelectorSteps
  <2> QED
    BY <1>2, <2>1, Frame, MachinesTyped DEF PowerOn, Modes
<1>3. CASE MediaLoss
  <2>1. TypeOKStore'
    BY <1>3 DEF MediaLoss, TypeOKStore, Copies
  <2> QED
    BY <1>3, <2>1, Frame, FaultTyped DEF MediaLoss, Fault
<1>4. CASE NormalRequest
  <2>1. Readable(esp)
    BY <1>4 DEF NormalRequest, Readable, Selected, Slots
  <2>2. NormalRequested(Selected(esp)) \in Controls
    BY <2>1, SelectedIsRecord, ChangeSupersedes DEF TypeOKStore, Changes
  <2>3. TypeOKStore'
    BY <1>4, <2>2, StartTyped, WritersAre DEF NormalRequest, Slots
  <2>4. ghost' \in Ghosts
    BY <1>4 DEF NormalRequest, Ghosts
  <2> QED
    BY <1>4, <2>3, <2>4, Frame, FaultTyped DEF NormalRequest
<1> QED
  BY <1>1, <1>2, <1>3, <1>4
  DEF Board, PowerCut, Reboot, Restart, WatchdogReset, EdlExit, Fault

LEMMA StepTyped == TypeInv /\ [Next]_vars => TypeInv'
<1> SUFFICES ASSUME TypeInv, [Next]_vars PROVE TypeInv'
  OBVIOUS
<1>1. CASE UNCHANGED vars
  BY <1>1, Frame
  DEF vars, deviceVars, TypeInv, TypeOK, TypeOKDevice, TypeOKSelector, TypeOKUpdater,
      TypeOKSupervisor
<1>2. CASE \E p \in Writers : CopyStep(p)
  BY <1>2, CopyTyped
<1>3. CASE Selecting
  BY <1>3, SelectorTyped
<1>4. CASE Commanding \/ Updating
  BY <1>4, UpdaterTyped
<1>5. CASE Supervising
  BY <1>5, SupervisorTyped
<1>6. CASE Board
  BY <1>6, BoardTyped
<1> QED
  BY <1>1, <1>2, <1>3, <1>4, <1>5, <1>6 DEF Next, Board

\* Whatever programs interleave and whatever fails, the records, slots, journal
\* and program states of the device stay within their types; in particular no
\* program ever writes or acts on a record that a reader would refuse.
THEOREM DeviceTypeCorrect == Spec => []TypeOK
<1>1. Init => TypeInv
  BY InitTyped
<1>2. TypeInv /\ [Next]_vars => TypeInv'
  BY StepTyped
<1>3. TypeInv => TypeOK
  BY DEF TypeInv
<1> QED
  BY <1>1, <1>2, <1>3, PTL DEF Spec

-----------------------------------------------------------------------------
\* The operator waits for the boot supervision, and no record write fails by
\* itself; the power may still go in the middle of one.
Orderly == Quiet /\ "write" \notin FaultKinds

SamePolicy(x, y) == x.active = y.active /\ x.pending = y.pending /\ x.phase = y.phase
Releases(im, s) == {v \in Images : im[s] = [sys |-> v, esp |-> v]}
Loads(im, s) == im[s].esp # Partial

\* A record that the next power-on may find: its default is known to be good,
\* its trial is the sound one that the journal is waiting for, and each of its
\* requests can still be used once.
Fit(r, g, j, im) ==
  /\ ~g.promoted => Releases(im, r.active) \cap g.proven # {}
  /\ r.phase # "stable" =>
       /\ Releases(im, r.pending) # {}
       /\ j.target = r.pending
       /\ j.state \in {"verified", "ready", "booting"}
  /\ r.phase = "armed" => g.trials = 1
  /\ r.edl => g.edls = 1
  /\ r.normal => g.normals = 1
  /\ j.state = "committed" /\ ~g.overruled => r.active = j.active

FitInv ==
  /\ Fit(Selected(esp), ghost, journal, image)
  /\ \A p \in Writers : writer[p].at # NoSlot => Fit(writer[p].rec, ghost, journal, image)
  /\ writer["host"].at # NoSlot => SamePolicy(writer["host"].rec, Selected(esp))
  /\ {ghost.trials, ghost.edls, ghost.normals} \subseteq {0, 1}
  /\ \E s \in Slots : Loads(image, s)

\* Only the programs of the running mode are at work, and a write in progress is
\* waited for.
SelWaits == {"usb-normal", "usb-edl", "normal", "edl", "trial", "rollback", "failed",
             "load", "boot"}
UpdWaits == {"request", "cancel", "selector", "arming", "undoing"}
SupWaits == {"userspace-writing", "reverting", "health-writing", "committing"}

ModeInv ==
  /\ machine.mode # "uboot" => sel.pc = "off"
  /\ machine.mode # "linux" => upd.pc = "idle" /\ sup.pc = "off"
  /\ machine.mode # "edl" => writer["host"].at = NoSlot
  /\ writer["uboot"].at # NoSlot => sel.pc \in SelWaits
  /\ writer["updater"].at # NoSlot => upd.pc \in UpdWaits
  /\ writer["supervisor"].at # NoSlot => sup.pc \in SupWaits
  /\ upd.pc # "idle" => sup.pc = "done"
  /\ sup.pc \notin {"undoing", "reboot"}

\* How far write w has come: what some ESP took is selected, and every ESP with
\* a kernel that w is past holds it.
Kept(w, e, im) ==
  /\ w.ok => Selected(e) = w.rec
  /\ w.at = NoSlot => w.after = NoSlot
  /\ \A s \in Slots \ {w.at, w.after} : Loads(im, s) => w.ok /\ e[s] = w.rec

WaitInv ==
  /\ sel.pc \in SelWaits => Kept(writer["uboot"], esp, image)
  /\ upd.pc \in UpdWaits => Kept(writer["updater"], esp, image)
  /\ sup.pc \in SupWaits => Kept(writer["supervisor"], esp, image)

\* What U-Boot has in memory is what it has selected or is writing, and what it
\* boots is the default or the trial of that record.
ChoiceOK ==
  IF sel.tag = "trial"
  THEN sel.mem.phase = "attempted" /\ sel.slot = sel.mem.pending /\ ghost.trials = 1
  ELSE sel.mem.phase = "stable" /\ sel.slot = sel.mem.active

SelInv ==
  LET r == Selected(esp) IN
  /\ sel.pc \in {"phase", "loading", "kernel"} => sel.mem = r
  /\ sel.pc \in SelWaits \ {"boot"} => writer["uboot"].rec = sel.mem
  /\ sel.pc = "boot" => writer["uboot"].rec = Staged(sel.mem, "kernel")
  /\ sel.pc \in {"usb-normal", "usb-edl", "normal", "edl", "load", "boot"} =>
       SamePolicy(sel.mem, r)
  /\ sel.pc \in {"usb-normal", "normal"} => ~sel.mem.normal /\ ghost.normals = 1
  /\ sel.pc = "edl" => ~sel.mem.edl /\ ghost.edls = 1
  /\ sel.pc = "trial" =>
       /\ ghost.trials = 1
       /\ (r.phase = "armed" /\ r.active = sel.mem.active) \/ r = sel.mem
  /\ sel.pc = "rollback" =>
       /\ sel.mem.phase = "stable" /\ r.active = sel.mem.active
       /\ r.phase = "attempted" \/ r = sel.mem
  /\ sel.pc = "failed" => sel.mem.phase = "stable" /\ sel.tag # "trial"
  /\ sel.pc \in {"loading", "load", "kernel", "boot"} => ChoiceOK
  /\ sel.pc \in {"kernel", "boot"} => Loads(image, sel.slot)
  /\ sel.pc = "kernel" /\ (\A s \in Slots : Loads(image, s)) => esp["a"] = esp["b"]

\* Linux runs on the default slot, or on the attempted trial until it is decided.
Decided == sup.pc \in {"save", "done"}
OnTrial == Selected(esp).phase = "attempted" /\ Selected(esp).pending = machine.slot
OnDefault == Selected(esp).phase # "attempted" /\ Selected(esp).active = machine.slot

RunInv ==
  machine.mode = "linux" =>
    /\ Loads(image, machine.slot)
    /\ ~machine.trial \/ Decided => OnDefault
    /\ machine.trial /\ ~Decided => OnTrial \/ (sup.pc = "committing" /\ OnDefault)

Judging == {"health", "health-writing", "disarm", "commit", "committing"}
SupInv ==
  /\ sup.pc \in {"userspace-writing", "health-writing"} =>
       SamePolicy(writer["supervisor"].rec, Selected(esp))
  /\ sup.pc \in {"reverting", "committing"} =>
       /\ writer["supervisor"].rec.phase = "stable"
       /\ writer["supervisor"].rec.active = machine.slot
  /\ sup.pc = "reverting" => ~machine.trial /\ journal.state # "committed"
  /\ sup.pc \in {"commit", "committing", "save"} => machine.trial
  /\ sup.pc \in Judging => Releases(image, machine.slot) \cap Healthy # {}
  /\ sup.pc \in Judging \cup {"save"} /\ machine.trial =>
       journal.state = "booting" /\ sup.doc = journal
  /\ sup.pc = "save" => Selected(esp).phase = "stable"
  /\ sup.pc \in {"committing", "save", "done"} =>
       Releases(image, machine.slot) \cap ghost.proven # {}

\* While the other slot is being rewritten no trial is pending, and the running
\* slot's ESP holds the selected record.
Writes == {"system", "system-writing", "esp", "esp-writing", "install-selector", "selector",
           "validate"}
UpdInv ==
  /\ upd.pc \in UpdWaits => writer["updater"].rec.active = machine.slot
  /\ upd.pc = "request" => SamePolicy(writer["updater"].rec, Selected(esp))
  /\ upd.pc \in {"cancel", "selector", "undoing"} => writer["updater"].rec.phase = "stable"
  /\ upd.pc = "arming" =>
       writer["updater"].rec.phase = "armed" /\ upd.doc.state \in {"verified", "ready"}
  /\ upd.pc \in Writes \cup {"cancel"} =>
       upd.doc.target = Peer(machine.slot) /\ upd.doc.state # "committed"
  /\ upd.pc \in Writes \cup {"activate", "arming"} => journal = upd.doc
  /\ upd.pc \in Writes => Selected(esp).phase = "stable"
  /\ upd.pc \in Writes \ {"selector"} => esp[machine.slot] = Selected(esp)
  /\ upd.pc \in {"install-selector", "selector"} => Loads(image, upd.doc.target)

DeviceInv ==
  /\ StoreInv /\ ModeInv /\ WaitInv /\ FitInv
  /\ SelInv /\ RunInv /\ SupInv /\ UpdInv

-----------------------------------------------------------------------------
\* The changes a program makes to the record it has picked are records that
\* supersede it.
LEMMA Changed ==
  ASSUME NEW r \in Controls
  PROVE  /\ \A s \in Slots : \A x \in {Stabilised(r, s), Armed(r, s), SelectorInstalled(r, s),
                                       Loading(r, s)} :
              x \in Controls /\ Supersedes(x, r)
         /\ \A x \in {RequestEdl(r), Touched(r), NormalConsumed(r), EdlConsumed(r),
                      NormalRequested(r), Recovered(r), Staged(r, "kernel"),
                      Staged(r, "userspace"), Staged(r, "healthy")} :
              x \in Controls /\ Supersedes(x, r)
         /\ r.phase = "armed" => Attempted(r) \in Controls /\ Supersedes(Attempted(r), r)
         /\ r.phase = "attempted" => RolledBack(r) \in Controls /\ Supersedes(RolledBack(r), r)
<1>1. ASSUME NEW s \in Slots
      PROVE  {Stabilised(r, s), Armed(r, s), SelectorInstalled(r, s), Loading(r, s)}
               \subseteq Changes(r)
  BY DEF Changes
<1>2. {RequestEdl(r), Touched(r), NormalConsumed(r), EdlConsumed(r), NormalRequested(r),
       Recovered(r), Staged(r, "kernel"), Staged(r, "userspace"), Staged(r, "healthy")}
        \subseteq Changes(r)
  BY DEF Changes
<1>3. /\ r.phase = "armed" => Attempted(r) \in Changes(r)
      /\ r.phase = "attempted" => RolledBack(r) \in Changes(r)
  BY DEF Changes
<1> QED
  BY <1>1, <1>2, <1>3, ChangeSupersedes

\* A record with the policy of a fit one, and no more requests, is fit.
LEMMA FitAlike ==
  ASSUME NEW r, NEW x, NEW g, NEW j, NEW im, Fit(r, g, j, im),
         SamePolicy(x, r), x.edl => r.edl, x.normal => r.normal
  PROVE  Fit(x, g, j, im)
BY DEF Fit, SamePolicy

\* A write that every ESP has been offered was taken, by every ESP with a kernel.
LEMMA KeptAll ==
  ASSUME NEW w, NEW e, NEW im, Kept(w, e, im), w.at = NoSlot, \E s \in Slots : Loads(im, s)
  PROVE  /\ w.ok /\ Selected(e) = w.rec
         /\ \A s \in Slots : Loads(im, s) => e[s] = w.rec
BY DEF Kept, Slots, NoSlot

LEMMA WriterCases ==
  \A p \in Writers : p \in {"uboot", "updater", "supervisor", "host"}
BY WritersAssumption

\* The selection is always there.
LEMMA SelectionIs ==
  ASSUME StoreInv
  PROVE  Readable(esp) /\ Selected(esp) \in Controls /\ Previous(esp) = Selected(esp)
BY SelectedIsRecord DEF StoreInv, TypeOKStore, AlwaysReadable

\* No write is in progress when a program takes its next step.
LEMMA AllSettled ==
  ASSUME ModeInv,
         \/ machine.mode = "uboot" /\ writer["uboot"].at = NoSlot
         \/ machine.mode = "linux" /\ sup.pc = "done" /\ writer["updater"].at = NoSlot
         \/ machine.mode = "linux" /\ sup.pc # "done" /\ writer["supervisor"].at = NoSlot
         \/ machine.mode = "edl" /\ writer["host"].at = NoSlot
         \/ machine.mode \in {"off", "prompt"}
  PROVE  \A q \in Writers : Settled(q)
BY WriterCases DEF ModeInv, Settled, SelWaits, UpdWaits, SupWaits

\* A step that starts a write, and one that leaves the selection alone.
LEMMA FitStart ==
  ASSUME StoreInv, FitInv, \A q \in Writers : Settled(q),
         NEW p \in Writers, NEW rec \in Controls, NEW first \in Slots,
         Supersedes(rec, Selected(esp)), StartWrite(p, rec, first), esp' = esp,
         Fit(Selected(esp), ghost', journal', image'), Fit(rec, ghost', journal', image'),
         {ghost'.trials, ghost'.edls, ghost'.normals} \subseteq {0, 1},
         \E s \in Slots : Loads(image', s),
         p = "host" => SamePolicy(rec, Selected(esp))
  PROVE  StoreInv' /\ FitInv' /\ Kept(writer'[p], esp', image')
         /\ writer'[p].rec = rec
         /\ \A q \in Writers \ {p} : writer'[q] = writer[q]
<1>1. /\ StoreInv'
      /\ writer'[p] = [rec |-> rec, at |-> first, after |-> Peer(first), ok |-> FALSE]
      /\ \A q \in Writers \ {p} : writer'[q] = writer[q] /\ writer'[q].at = NoSlot
  BY StartKeeps DEF Settled
<1>2. FitInv'
  BY <1>1, WritersAre DEF FitInv
<1>3. Kept(writer'[p], esp', image')
  BY <1>1 DEF Kept, Slots, Peer, NoSlot
<1> QED
  BY <1>1, <1>2, <1>3

\* A step that leaves the selection and the writers alone.
LEMMA FitStays ==
  ASSUME StoreInv, FitInv, \A q \in Writers : Settled(q), writer' = writer,
         esp' \in [Slots -> Copies], Selected(esp') = Selected(esp),
         Fit(Selected(esp), ghost', journal', image'),
         {ghost'.trials, ghost'.edls, ghost'.normals} \subseteq {0, 1},
         \E s \in Slots : Loads(image', s)
  PROVE  StoreInv' /\ FitInv'
<1>1. StoreInv'
  BY SameSelectionKeeps
<1>2. FitInv'
  BY WritersAre DEF FitInv, Settled
<1> QED
  BY <1>1, <1>2

-----------------------------------------------------------------------------
\* One copy of a write: it is written, or left alone because its ESP has no
\* kernel.
LEMMA CopyKeeps ==
  ASSUME Orderly, TypeInv, DeviceInv, NEW p \in Writers, CopyStep(p)
  PROVE  /\ StoreInv' /\ [Atomic!Next]_(Selected(esp))
         /\ writer[p].at # NoSlot
         /\ writer'[p].rec = writer[p].rec
         /\ \A q \in Writers \ {p} : writer'[q] = writer[q]
         /\ Selected(esp') \in {Selected(esp), writer[p].rec}
         /\ Kept(writer[p], esp, image) => Kept(writer'[p], esp', image')
<1>1. /\ StoreInv /\ esp \in [Slots -> Copies] /\ writer \in [Writers -> Writing]
      /\ Readable(esp) /\ OneWriter /\ ModeInv
      /\ \A q \in Writers : WriteAhead(q)
  BY DEF DeviceInv, StoreInv, TypeOKStore, AlwaysReadable
<1>2. /\ Wrote(p) \/ Declined(p)
      /\ writer[p].at # NoSlot /\ image' = image
  BY DEF CopyStep, Wrote, Declined, Erred, Fault, Orderly, Settled
<1> DEFINE s == writer[p].at
           rec == writer[p].rec
<1>3. s \in Slots /\ rec \in Controls
  BY <1>1, <1>2 DEF Writing, WriteAhead, NoSlot
<1>4. CASE Wrote(p)
  <2>1. esp' = [esp EXCEPT ![s] = rec] /\ Advance(p, TRUE)
    BY <1>4 DEF Wrote, CopyWritten
  <2>2. rec \in Copies /\ rec # Damaged
    BY <1>3, DamagedAssumption DEF Copies, Controls
  <2>3. StoreInv' /\ [Atomic!Next]_(Selected(esp))
    BY <1>1, <1>3, <2>1, <2>2, OneCopy
  <2>4. Selected(esp') = rec
    <3>1. CASE Supersedes(rec, Selected(esp))
      BY <1>1, <1>3, <2>1, <3>1, WriteSelects
    <3>2. CASE esp[Peer(s)] = rec /\ Selected(esp) = rec
      BY <1>1, <1>3, <2>1, <2>2, <3>2, LossKeepsSelection
    <3> QED
      BY <1>1, <1>2, <3>1, <3>2 DEF WriteAhead
  <2>5. /\ writer'[p] = [rec |-> rec, at |-> writer[p].after, after |-> NoSlot, ok |-> TRUE]
        /\ \A q \in Writers \ {p} : writer'[q] = writer[q]
    BY <1>1, <2>1 DEF Advance
  <2>6. Kept(writer[p], esp, image) => Kept(writer'[p], esp', image')
    BY <1>1, <1>2, <1>3, <2>1, <2>4, <2>5 DEF Kept
  <2> QED
    BY <1>2, <2>3, <2>4, <2>5, <2>6
<1>5. CASE Declined(p)
  <2>1. p # "host" /\ ~Loads(image, s) /\ esp' = esp /\ NotTaken(p)
    BY <1>5 DEF Declined, Bootable, Loads
  <2>2. ~Strict(p)
    <3> SUFFICES ASSUME p = "updater", upd.pc = "selector" PROVE FALSE
      BY <2>1 DEF Strict
    <3>1. machine.mode = "linux" /\ machine.slot \in Slots
      BY <1>1, MachinesTyped DEF ModeInv, TypeInv, TypeOK, TypeOKDevice
    <3>2. Loads(image, machine.slot) /\ Loads(image, Peer(machine.slot))
      BY <3>1 DEF DeviceInv, UpdInv, RunInv, Writes
    <3> QED
      BY <1>3, <2>1, <3>1, <3>2 DEF Slots, Peer
  <2>3. Advance(p, FALSE)
    BY <2>1, <2>2 DEF NotTaken
  <2>4. esp' = [esp EXCEPT ![s] = esp[s]] /\ esp[s] \in Copies
    BY <1>1, <1>3, <2>1
  <2>5. StoreInv' /\ [Atomic!Next]_(Selected(esp))
    BY <1>1, <1>3, <2>3, <2>4, OneCopy
  <2>6. /\ writer'[p] = [rec |-> rec, at |-> writer[p].after, after |-> NoSlot,
                         ok |-> writer[p].ok]
        /\ \A q \in Writers \ {p} : writer'[q] = writer[q]
    BY <1>1, <2>3 DEF Advance, Writing
  <2>7. Kept(writer[p], esp, image) => Kept(writer'[p], esp', image')
    BY <1>1, <1>2, <1>3, <2>1, <2>6 DEF Kept
  <2> QED
    BY <1>2, <2>1, <2>5, <2>6, <2>7
<1> QED
  BY <1>2, <1>4, <1>5

\* A step of a write keeps the invariant.
LEMMA CopyInv ==
  ASSUME Orderly, TypeInv, DeviceInv, NEW p \in Writers, CopyStep(p)
  PROVE  DeviceInv'
<1>1. /\ StoreInv' /\ writer[p].at # NoSlot
      /\ writer'[p].rec = writer[p].rec
      /\ \A q \in Writers \ {p} : writer'[q] = writer[q]
      /\ Selected(esp') \in {Selected(esp), writer[p].rec}
      /\ Kept(writer[p], esp, image) => Kept(writer'[p], esp', image')
  BY CopyKeeps
<1>2. UNCHANGED <<image, journal, machine, ghost, sel, upd, sup>>
  BY DEF CopyStep
<1>3. /\ StoreInv /\ ModeInv /\ WaitInv /\ FitInv /\ SelInv /\ RunInv /\ SupInv /\ UpdInv
  BY DEF DeviceInv
<1>4. ModeInv'
  BY <1>1, <1>2, <1>3, WritersAre DEF ModeInv
<1>5. FitInv'
  <2>1. Fit(Selected(esp'), ghost', journal', image')
    BY <1>1, <1>2, <1>3 DEF FitInv
  <2>2. \A q \in Writers : writer'[q].at # NoSlot => Fit(writer'[q].rec, ghost', journal', image')
    BY <1>1, <1>2, <1>3 DEF FitInv
  <2>3. writer'["host"].at # NoSlot => SamePolicy(writer'["host"].rec, Selected(esp'))
    BY <1>1, <1>3, WritersAre DEF FitInv, SamePolicy, StoreInv, OneWriter, Settled
  <2> QED
    BY <1>2, <1>3, <2>1, <2>2, <2>3 DEF FitInv
\* Only p is waited for.
<1>6. /\ p = "uboot" => sel.pc \in SelWaits /\ upd.pc \notin UpdWaits /\ sup.pc \notin SupWaits
      /\ p = "updater" => /\ machine.mode = "linux" /\ sel.pc = "off" /\ upd.pc \in UpdWaits
                          /\ sup.pc = "done"
      /\ p = "supervisor" => /\ machine.mode = "linux" /\ sel.pc = "off" /\ upd.pc = "idle"
                             /\ sup.pc \in SupWaits
      /\ p = "host" => machine.mode = "edl" /\ sel.pc = "off" /\ upd.pc = "idle" /\ sup.pc = "off"
  BY <1>1, <1>3, WritersAre DEF ModeInv, SelWaits, UpdWaits, SupWaits
<1>7. WaitInv'
  BY <1>1, <1>2, <1>3, <1>6, WriterCases DEF WaitInv, SelWaits, UpdWaits, SupWaits
<1>8. CASE p = "uboot"
  <2>1. machine.mode = "uboot" /\ upd.pc = "idle" /\ sup.pc = "off"
    BY <1>3, <1>6, <1>8 DEF ModeInv, SelWaits
  <2>2. SelInv'
    BY <1>1, <1>2, <1>3, <1>6, <1>8 DEF SelInv, ChoiceOK, SelWaits, SamePolicy, Staged, Diagnosis
  <2>3. RunInv' /\ SupInv' /\ UpdInv'
    BY <1>2, <2>1 DEF RunInv, SupInv, UpdInv, Judging, Writes, UpdWaits
  <2> QED
    BY <1>1, <1>4, <1>5, <1>7, <2>2, <2>3 DEF DeviceInv
<1>9. CASE p = "updater"
  <2>1. SelInv'
    BY <1>2, <1>6, <1>9 DEF SelInv, SelWaits
  <2>2. OnDefault /\ writer["updater"].rec.active = machine.slot
        /\ (upd.pc = "request" \/ writer["updater"].rec.phase \in {"stable", "armed"})
        /\ upd.pc \in UpdWaits
    BY <1>3, <1>6, <1>9 DEF RunInv, Decided, UpdInv, UpdWaits
  <2>3. OnDefault'
    BY <1>1, <1>2, <1>3, <1>9, <2>2 DEF OnDefault, UpdInv, SamePolicy
  <2>4. RunInv' /\ SupInv'
    BY <1>2, <1>3, <1>6, <1>9, <2>3 DEF RunInv, SupInv, Decided, Judging
  <2>5. UpdInv'
    BY <1>1, <1>2, <1>3, <1>6, <1>9 DEF UpdInv, Writes, UpdWaits, SamePolicy
  <2> QED
    BY <1>1, <1>4, <1>5, <1>7, <2>1, <2>4, <2>5 DEF DeviceInv
<1>10. CASE p = "supervisor"
  <2>1. SelInv' /\ UpdInv'
    BY <1>2, <1>6, <1>10 DEF SelInv, SelWaits, UpdInv, UpdWaits, Writes
  <2>2. ~Decided
    BY <1>6, <1>10 DEF Decided, SupWaits
  <2>3. RunInv'
    BY <1>1, <1>2, <1>3, <1>6, <1>10, <2>2
    DEF RunInv, SupInv, Decided, OnTrial, OnDefault, SupWaits, SamePolicy
  <2>4. SupInv'
    BY <1>1, <1>2, <1>3, <1>6, <1>10 DEF SupInv, Judging, SupWaits, SamePolicy
  <2> QED
    BY <1>1, <1>4, <1>5, <1>7, <2>1, <2>3, <2>4 DEF DeviceInv
<1>11. CASE p = "host"
  <2>1. SelInv' /\ UpdInv' /\ RunInv' /\ SupInv'
    BY <1>2, <1>6, <1>11
    DEF SelInv, SelWaits, UpdInv, UpdWaits, Writes, RunInv, SupInv, Judging
  <2> QED
    BY <1>1, <1>4, <1>5, <1>7, <2>1 DEF DeviceInv
<1> QED
  BY <1>8, <1>9, <1>10, <1>11, WriterCases

-----------------------------------------------------------------------------
\* What a step of the firmware has to keep: the programs of Linux are not running.
LEMMA FirmwareFrame ==
  ASSUME ModeInv, machine.mode = "uboot", upd' = upd, sup' = sup,
         \A q \in Writers \ {"uboot"} : writer'[q] = writer[q],
         StoreInv', FitInv', SelInv',
         machine'.mode \in {"uboot", "edl", "prompt"},
         machine'.mode # "uboot" => sel'.pc = "off",
         sel'.pc \in SelWaits => Kept(writer'["uboot"], esp', image'),
         writer'["uboot"].at # NoSlot => sel'.pc \in SelWaits
  PROVE  DeviceInv'
<1>1. /\ upd.pc = "idle" /\ sup.pc = "off"
      /\ \A q \in Writers \ {"uboot"} : writer'[q].at = NoSlot
  BY WriterCases DEF ModeInv, UpdWaits, SupWaits
<1>2. ModeInv' /\ WaitInv'
  BY <1>1, WritersAre DEF ModeInv, WaitInv, UpdWaits, SupWaits
<1>3. RunInv' /\ SupInv' /\ UpdInv'
  BY <1>1 DEF RunInv, SupInv, UpdInv, Judging, UpdWaits, Writes
<1> QED
  BY <1>2, <1>3 DEF DeviceInv

\* U-Boot goes on without a write, or stops ...
LEMMA FirmwareGoes ==
  ASSUME DeviceInv, machine.mode = "uboot", writer["uboot"].at = NoSlot,
         UNCHANGED <<esp, writer, image, journal, upd, sup>>,
         Fit(Selected(esp), ghost', journal, image),
         {ghost'.trials, ghost'.edls, ghost'.normals} \subseteq {0, 1},
         SelInv', sel'.pc \notin SelWaits,
         machine'.mode \in {"uboot", "edl", "prompt"},
         machine'.mode # "uboot" => sel'.pc = "off"
  PROVE  DeviceInv'
<1>1. StoreInv /\ ModeInv /\ FitInv /\ \A q \in Writers : Settled(q)
  BY AllSettled DEF DeviceInv
<1>2. StoreInv' /\ FitInv'
  <2>1. esp' \in [Slots -> Copies] /\ Selected(esp') = Selected(esp)
    BY <1>1 DEF StoreInv, TypeOKStore
  <2>2. \E s \in Slots : Loads(image', s)
    BY <1>1 DEF FitInv
  <2>3. Fit(Selected(esp), ghost', journal', image')
    OBVIOUS
  <2> QED
    BY <1>1, <2>1, <2>2, <2>3, FitStays
<1> QED
  BY <1>1, <1>2, FirmwareFrame

\* ... or sets out to persist a record.
LEMMA FirmwareWrites ==
  ASSUME DeviceInv, machine.mode = "uboot", writer["uboot"].at = NoSlot,
         UNCHANGED <<esp, image, journal, machine, upd, sup>>,
         NEW rec \in Controls, Supersedes(rec, Selected(esp)),
         StartWrite("uboot", rec, "b"),
         Fit(Selected(esp), ghost', journal, image), Fit(rec, ghost', journal, image),
         {ghost'.trials, ghost'.edls, ghost'.normals} \subseteq {0, 1},
         writer'["uboot"].rec = rec => SelInv', sel'.pc \in SelWaits
  PROVE  DeviceInv'
<1>1. StoreInv /\ ModeInv /\ FitInv /\ \A q \in Writers : Settled(q)
  BY AllSettled DEF DeviceInv
<1>2. (\E s \in Slots : Loads(image', s)) /\ "b" \in Slots
  BY <1>1 DEF FitInv, Slots
<1>3. Fit(Selected(esp), ghost', journal', image') /\ Fit(rec, ghost', journal', image')
  OBVIOUS
<1>4. /\ StoreInv' /\ FitInv' /\ Kept(writer'["uboot"], esp', image')
      /\ writer'["uboot"].rec = rec
      /\ \A q \in Writers \ {"uboot"} : writer'[q] = writer[q]
  BY <1>1, <1>2, <1>3, FitStart, WritersAre
<1> QED
  BY <1>1, <1>4, FirmwareFrame

\* Everything that runs is gone.
LEMMA OffInv == DeviceInv /\ Off => DeviceInv'
<1> SUFFICES ASSUME DeviceInv, Off PROVE DeviceInv'
  OBVIOUS
<1>1. StoreInv /\ FitInv /\ Outage /\ UNCHANGED <<image, journal, ghost>>
  BY DEF DeviceInv, Off
<1>2. esp' \in [Slots -> Copies] /\ Selected(esp') = Selected(esp)
  BY <1>1, OutageKeeps
<1>3. \A q \in Writers : writer'[q] = NoWrite
  BY <1>1 DEF Outage
<1>4. StoreInv'
  BY <1>1, StoreStep DEF StoreNext
<1>5. FitInv'
  BY <1>1, <1>2, <1>3, WritersAre DEF FitInv, NoWrite
<1>6. machine'.mode = "off" /\ sel'.pc = "off" /\ upd'.pc = "idle" /\ sup'.pc = "off"
  BY DEF Off, Dark, NoSelector, NoUpdate, NoSupervisor
<1>7. ModeInv'
  BY <1>3, <1>6, WritersAre DEF ModeInv, NoWrite
<1>8. WaitInv' /\ SelInv' /\ RunInv' /\ SupInv' /\ UpdInv'
  BY <1>6 DEF WaitInv, SelInv, RunInv, SupInv, UpdInv, SelWaits, UpdWaits, SupWaits, Judging,
     Writes
<1> QED
  BY <1>4, <1>5, <1>7, <1>8 DEF DeviceInv

\* The board keeps it: power, resets, lost copies and the recovery host.
LEMMA BoardInv == TypeInv /\ DeviceInv /\ Board => DeviceInv'
<1> SUFFICES ASSUME TypeInv, DeviceInv, Board PROVE DeviceInv'
  OBVIOUS
<1>0. StoreInv /\ ModeInv /\ FitInv /\ SelInv
  BY DEF DeviceInv
<1>1. CASE Off
  BY <1>1, OffInv
<1>2. CASE PowerOn
  <2>1. /\ UNCHANGED <<esp, writer, image, journal, ghost, upd, sup>>
        /\ machine'.mode = "uboot" /\ sel'.pc = "probe" /\ machine.mode = "off"
    BY <1>2 DEF PowerOn, TypeInv, TypeOK, TypeOKDevice, Machines, TypeOKSelector
  <2>2. \A q \in Writers : Settled(q)
    BY <1>0, <2>1, AllSettled
  <2>3. StoreInv' /\ FitInv'
    BY <1>0, <2>1 DEF StoreInv, TypeOKStore, AlwaysReadable, OneWriter, Settled, WriteAhead,
       FitInv
  <2>4. ModeInv'
    BY <1>0, <2>1, <2>2, WritersAre DEF ModeInv, Settled
  <2>5. upd'.pc = "idle" /\ sup'.pc = "off"
    BY <1>0, <2>1 DEF ModeInv
  <2>6. WaitInv' /\ SelInv' /\ RunInv' /\ SupInv' /\ UpdInv'
    BY <2>1, <2>5 DEF WaitInv, SelInv, RunInv, SupInv, UpdInv, SelWaits, UpdWaits, SupWaits,
       Judging, Writes
  <2> QED
    BY <2>3, <2>4, <2>6 DEF DeviceInv
<1>3. CASE MediaLoss
  <2>1. /\ UNCHANGED <<writer, image, journal, machine, ghost, sel, upd, sup>>
        /\ machine.mode = "off"
    BY <1>3 DEF MediaLoss
  <2>2. PICK s \in Slots : Overwrite(s, Damaged)
    BY <1>3 DEF MediaLoss, Overwrite
  <2>3. esp' \in [Slots -> Copies] /\ Selected(esp') = Selected(esp)
    BY <1>0, <2>2, OverwriteKeeps
  <2>4. /\ \A q \in Writers : Settled(q)
        /\ sel.pc = "off" /\ upd.pc = "idle" /\ sup.pc = "off"
    BY <1>0, <2>1, AllSettled DEF ModeInv
  <2>5. StoreInv' /\ FitInv'
    BY <1>0, <2>1, <2>3, <2>4, FitStays DEF FitInv
  <2>6. ModeInv'
    BY <1>0, <2>1 DEF ModeInv
  <2>7. WaitInv' /\ SelInv' /\ RunInv' /\ SupInv' /\ UpdInv'
    BY <2>1, <2>4 DEF WaitInv, SelInv, RunInv, SupInv, UpdInv, SelWaits, UpdWaits, SupWaits,
       Judging, Writes
  <2> QED
    BY <2>5, <2>6, <2>7 DEF DeviceInv
<1>4. CASE NormalRequest
  <2>1. /\ UNCHANGED <<esp, image, journal, machine, sel, upd, sup>>
        /\ machine.mode = "edl" /\ writer["host"].at = NoSlot
        /\ ghost' = [ghost EXCEPT !.normals = 1]
        /\ StartWrite("host", NormalRequested(Selected(esp)), "b")
    BY <1>4 DEF NormalRequest, Settled
  <2> DEFINE rec == NormalRequested(Selected(esp))
  <2>2. rec \in Controls /\ Supersedes(rec, Selected(esp)) /\ SamePolicy(rec, Selected(esp))
        /\ ~rec.edl
    BY <1>0, SelectionIs, Changed DEF NormalRequested, Policy, SamePolicy
  <2>3. /\ \A q \in Writers : Settled(q)
        /\ sel.pc = "off" /\ upd.pc = "idle" /\ sup.pc = "off"
    BY <1>0, <2>1, AllSettled DEF ModeInv
  <2>4. /\ ghost'.promoted = ghost.promoted /\ ghost'.proven = ghost.proven
        /\ ghost'.trials = ghost.trials /\ ghost'.overruled = ghost.overruled
        /\ ghost'.edls = ghost.edls /\ ghost'.normals = 1
    BY <2>1 DEF TypeInv, TypeOK, TypeOKDevice, Ghosts
  <2>5. Fit(Selected(esp), ghost', journal', image') /\ Fit(rec, ghost', journal', image')
    BY <1>0, <2>1, <2>2, <2>4 DEF FitInv, Fit, SamePolicy
  <2>6. /\ StoreInv' /\ FitInv'
        /\ \A q \in Writers \ {"host"} : writer'[q] = writer[q]
    <3>1. {ghost'.trials, ghost'.edls, ghost'.normals} \subseteq {0, 1}
      BY <1>0, <2>4 DEF FitInv
    <3>2. \E s \in Slots : Loads(image', s)
      BY <1>0, <2>1 DEF FitInv
    <3> QED
      BY <1>0, <2>1, <2>2, <2>3, <2>5, <3>1, <3>2, FitStart, WritersAre DEF Slots
  <2>7. ModeInv'
    BY <1>0, <2>1, <2>6, WritersAre DEF ModeInv
  <2>8. WaitInv' /\ SelInv' /\ RunInv' /\ SupInv' /\ UpdInv'
    BY <2>1, <2>3 DEF WaitInv, SelInv, RunInv, SupInv, UpdInv, SelWaits, UpdWaits, SupWaits,
       Judging, Writes
  <2> QED
    BY <2>6, <2>7, <2>8 DEF DeviceInv
<1> QED
  BY <1>1, <1>2, <1>3, <1>4 DEF Board, PowerCut, Reboot, Restart, WatchdogReset, EdlExit

-----------------------------------------------------------------------------
\* U-Boot.  After a wait, the record it persisted is the selected one.
LEMMA TookIs ==
  ASSUME DeviceInv, writer["uboot"].at = NoSlot, sel.pc \in SelWaits
  PROVE  /\ Took /\ Selected(esp) = writer["uboot"].rec
         /\ \A s \in Slots : Loads(image, s) => esp[s] = Selected(esp)
BY KeptAll DEF DeviceInv, WaitInv, FitInv, Took

\* What no step of U-Boot touches.
LEMMA SelectorFrame ==
  ASSUME TypeInv, Selecting
  PROVE  /\ machine.mode = "uboot" /\ writer["uboot"].at = NoSlot
         /\ UNCHANGED <<esp, image, journal, upd, sup>>
         /\ ghost'.proven = ghost.proven
         /\ Fail \/ ghost'.promoted = ghost.promoted
<1>1. UNCHANGED <<upd, sup>> /\ SelectorNext
  BY DEF Selecting
<1>2. \E pc \in SelectorSteps : At(pc)
  BY <1>1 DEF SelectorNext, SelectorSteps, Probe, UsbCheck, UsbNormal, UsbEdl, Select,
     NormalTaken, EdlTaken, Phase, Trial, Rollback, Fail, FailBlind, Failed, OpenBoot, Load,
     Handoff, BootLinux
<1>3. machine.mode = "uboot" /\ writer["uboot"].at = NoSlot
  BY <1>2 DEF At, Settled
<1>4. UNCHANGED <<esp, image, journal>>
  <2>1. CASE Probe \/ UsbCheck \/ UsbNormal \/ UsbEdl \/ Select \/ NormalTaken \/ EdlTaken
    BY <2>1 DEF Probe, UsbCheck, UsbNormal, UsbEdl, Select, NormalTaken, EdlTaken, Quietly,
       Leave, EnterEdl, Persist
  <2>2. CASE Trial \/ Rollback \/ Fail \/ FailBlind \/ Failed \/ OpenBoot
    BY <2>2 DEF Trial, Rollback, Fail, FailBlind, Failed, OpenBoot, Quietly, Leave, Persist
  <2>3. CASE Load \/ Handoff \/ BootLinux
    BY <2>3 DEF Load, Handoff, BootLinux, Quietly, Leave, GiveUp
  <2>4. CASE Phase
    <3>1. sel.mem.phase \in {"armed", "attempted", "stable"}
      BY <2>4 DEF Phase, At, TypeInv, MemInv, Controls, ControlRecord, Phases
    <3> QED
      BY <2>4, <3>1 DEF Phase, Quietly, Persist
  <2> QED
    BY <1>1, <2>1, <2>2, <2>3, <2>4 DEF SelectorNext
<1>5. ghost'.proven = ghost.proven /\ (Fail \/ ghost'.promoted = ghost.promoted)
  <2>0. ghost \in Ghosts
    BY DEF TypeInv, TypeOK, TypeOKDevice
  <2>1. CASE Probe \/ UsbCheck \/ UsbEdl \/ Select
    BY <2>0, <2>1 DEF Probe, UsbCheck, UsbEdl, Select, Quietly, Persist
  <2>2. CASE UsbNormal \/ NormalTaken \/ EdlTaken
    BY <2>0, <2>2 DEF UsbNormal, NormalTaken, EdlTaken, Quietly, Ghosts
  <2>3. CASE Trial \/ Rollback \/ FailBlind \/ Failed \/ OpenBoot
    BY <2>0, <2>3 DEF Trial, Rollback, FailBlind, Failed, OpenBoot, Quietly, Persist
  <2>4. CASE Fail
    BY <2>0, <2>4 DEF Fail, Ghosts
  <2>5. CASE Load \/ Handoff \/ BootLinux
    BY <2>0, <2>5 DEF Load, Handoff, BootLinux, Quietly, GiveUp, Ghosts
  <2>6. CASE Phase
    <3>1. sel.mem.phase \in {"armed", "attempted", "stable"}
      BY <2>6 DEF Phase, At, TypeInv, MemInv, Controls, ControlRecord, Phases
    <3> QED
      BY <2>0, <2>6, <3>1 DEF Phase, Quietly, Persist
  <2> QED
    BY <1>1, <2>1, <2>2, <2>3, <2>4, <2>5, <2>6 DEF SelectorNext
<1> QED
  BY <1>1, <1>3, <1>4, <1>5

\* The selector keeps it.
LEMMA SelectorInv == TypeInv /\ DeviceInv /\ Selecting => DeviceInv'
<1> SUFFICES ASSUME TypeInv, DeviceInv, Selecting PROVE DeviceInv'
  OBVIOUS
<1> DEFINE r == Selected(esp)
           Idle == {"off", "probe", "usb", "select", "fail"}
           Counts(g) == {g.trials, g.edls, g.normals} \subseteq {0, 1}
           Spent(g) == Fit(r, g, journal, image) /\ Counts(g)
<1>0. /\ machine.mode = "uboot" /\ writer["uboot"].at = NoSlot
      /\ UNCHANGED <<upd, sup, image, journal>>
  BY SelectorFrame
<1>1. /\ r \in Controls /\ Readable(esp) /\ SelInv /\ Spent(ghost)
  BY SelectionIs DEF DeviceInv, FitInv
<1>2. /\ sel \in [pc : SelectorSteps, mem : Copies, slot : Slots, tag : Tags, again : BOOLEAN]
      /\ ghost \in Ghosts /\ machine \in Machines
  BY DEF TypeInv, TypeOK, TypeOKDevice, TypeOKSelector
<1>3. /\ ~r.normal => Spent([ghost EXCEPT !.normals = 0])
      /\ ~r.edl => Spent([ghost EXCEPT !.edls = 0])
      /\ r.phase # "armed" => Spent([ghost EXCEPT !.trials = 0])
  BY <1>1, <1>2 DEF Fit, Ghosts
\* The next step, or mode, needs nothing of the record.
<1>4. ASSUME sel'.pc \in Idle, UNCHANGED <<esp, writer>>, Spent(ghost'),
             machine'.mode \in {"uboot", "edl", "prompt"},
             machine'.mode # "uboot" => sel'.pc = "off"
      PROVE  DeviceInv'
  <2>1. SelInv' /\ sel'.pc \notin SelWaits
    BY <1>4 DEF SelInv, SelWaits
  <2> QED
    BY <1>0, <1>4, <2>1, FirmwareGoes
<1>5. ASSUME NEW pc \in Idle, Goto(pc), UNCHANGED <<esp, writer, machine>>, Spent(ghost')
      PROVE  DeviceInv'
  <2>1. sel'.pc = pc /\ machine'.mode = "uboot"
    BY <1>0, <1>2, <1>5 DEF Goto
  <2> QED
    BY <1>4, <1>5, <2>1
<1>6. ASSUME NEW mode \in {"edl", "prompt"}, Leave(mode), Spent(ghost') PROVE DeviceInv'
  <2>1. sel'.pc = "off" /\ machine'.mode = mode
    BY <1>2, <1>6 DEF Leave, NoSelector, Machines
  <2> QED
    BY <1>4, <1>6, <2>1 DEF Leave
<1>7. ASSUME NEW next \in Idle, EnterEdl(next), Spent(ghost') PROVE DeviceInv'
  BY <1>5, <1>6, <1>7 DEF EnterEdl
<1>8. GiveUp => DeviceInv'
  BY <1>1, <1>5, <1>6 DEF GiveUp
\* It persists a change that keeps the policy of the selected record.
<1>9. ASSUME NEW rec \in Controls, NEW pc \in SelWaits, Persist(rec, pc), Supersedes(rec, r),
             SamePolicy(rec, r), rec.edl => r.edl, rec.normal => r.normal,
             pc \in {"usb-normal", "usb-edl", "normal", "edl"},
             pc \in {"usb-normal", "normal"} => ~rec.normal /\ ghost.normals = 1,
             pc = "edl" => ~rec.edl /\ ghost.edls = 1
      PROVE  DeviceInv'
  <2>1. Fit(rec, ghost, journal, image)
    BY <1>1, <1>9, FitAlike
  <2>2. sel'.pc = pc /\ sel'.mem = rec
    BY <1>2, <1>9 DEF Persist
  <2>3. writer'["uboot"].rec = rec => SelInv'
    BY <1>9, <2>2 DEF SelInv, SelWaits, Persist, SamePolicy
  <2> QED
    BY <1>0, <1>1, <1>9, <2>1, <2>2, <2>3, FirmwareWrites DEF Persist
<1>10. /\ r.normal => ghost.normals = 1
       /\ r.edl => ghost.edls = 1
  BY <1>1 DEF Fit
<1>11. LET n == NormalConsumed(r)
           d == EdlConsumed(r)
       IN /\ n \in Controls /\ Supersedes(n, r) /\ SamePolicy(n, r) /\ ~n.normal /\ ~n.edl
          /\ d \in Controls /\ Supersedes(d, r) /\ SamePolicy(d, r) /\ ~d.edl
          /\ d.normal = r.normal
  BY <1>1, Changed DEF NormalConsumed, EdlConsumed, Policy, SamePolicy
<1>12. CASE Probe
  BY <1>1, <1>5, <1>12 DEF Probe, Quietly
<1>13. CASE UsbCheck
  <2>1. CASE r.normal /\ Persist(NormalConsumed(r), "usb-normal")
    BY <1>9, <1>10, <1>11, <2>1 DEF SelWaits
  <2>2. CASE r.edl /\ Persist(EdlConsumed(r), "usb-edl")
    BY <1>9, <1>10, <1>11, <2>2 DEF SelWaits
  <2>3. CASE EnterEdl("select") /\ UNCHANGED ghost
    BY <1>1, <1>7, <2>3
  <2> QED
    BY <1>1, <1>13, <2>1, <2>2, <2>3 DEF UsbCheck, Chosen
<1>14. CASE UsbNormal
  <2>1. sel.pc = "usb-normal"
    BY <1>14 DEF UsbNormal, At
  <2>2. Took /\ r = sel.mem /\ ~sel.mem.normal /\ ghost.normals = 1
    BY <1>0, <1>1, <2>1, TookIs DEF SelInv, SelWaits
  <2>3. ghost' = [ghost EXCEPT !.normals = 0] /\ Goto("select")
        /\ UNCHANGED <<esp, writer, machine>>
    BY <1>14, <2>2 DEF UsbNormal
  <2> QED
    BY <1>3, <1>5, <2>2, <2>3
<1>15. CASE UsbEdl
  BY <1>1, <1>7, <1>15 DEF UsbEdl
<1>16. CASE Select
  <2>1. CASE r.normal /\ Persist(NormalConsumed(r), "normal")
    BY <1>9, <1>10, <1>11, <2>1 DEF SelWaits
  <2>2. CASE r.edl /\ Persist(EdlConsumed(r), "edl")
    BY <1>9, <1>10, <1>11, <2>2 DEF SelWaits
  <2>3. CASE sel' = [sel EXCEPT !.pc = "phase", !.mem = r] /\ Quietly
    <3>1. sel'.pc = "phase" /\ sel'.mem = r
      BY <1>2, <2>3
    <3>2. SelInv' /\ sel'.pc \notin SelWaits
      BY <2>3, <3>1 DEF SelInv, SelWaits, Quietly
    <3> QED
      BY <1>0, <1>1, <2>3, <3>2, FirmwareGoes DEF Quietly
  <2> QED
    BY <1>1, <1>16, <2>1, <2>2, <2>3 DEF Select, Chosen
<1>17. CASE NormalTaken
  <2>1. sel.pc = "normal"
    BY <1>17 DEF NormalTaken, At
  <2>2. Took /\ r = sel.mem /\ ~sel.mem.normal /\ ghost.normals = 1
    BY <1>0, <1>1, <2>1, TookIs DEF SelInv, SelWaits
  <2>3. ghost' = [ghost EXCEPT !.normals = 0] /\ Goto("phase")
        /\ UNCHANGED <<esp, writer, machine>>
    BY <1>17, <2>2 DEF NormalTaken
  <2>4. sel'.pc = "phase" /\ sel'.mem = sel.mem
    BY <1>2, <2>3 DEF Goto
  <2>5. SelInv' /\ sel'.pc \notin SelWaits
    BY <2>2, <2>3, <2>4 DEF SelInv, SelWaits
  <2> QED
    BY <1>0, <1>3, <2>2, <2>3, <2>5, FirmwareGoes
<1>18. CASE EdlTaken
  <2>1. sel.pc = "edl"
    BY <1>18 DEF EdlTaken, At
  <2>2. Took /\ r = sel.mem /\ ~sel.mem.edl /\ ghost.edls = 1
    BY <1>0, <1>1, <2>1, TookIs DEF SelInv, SelWaits
  <2>3. ghost' = [ghost EXCEPT !.edls = 0] /\ EnterEdl("fail")
    BY <1>18, <2>2 DEF EdlTaken
  <2> QED
    BY <1>3, <1>7, <2>2, <2>3
<1>19. CASE Phase
  <2>1. sel.mem = r /\ r.phase \in {"armed", "attempted", "stable"}
    BY <1>1, <1>19 DEF Phase, At, SelInv, Controls, ControlRecord, Phases
  <2>2. CASE r.phase = "armed"
    <3> DEFINE rec == Attempted(r)
    <3>1. /\ rec \in Controls /\ Supersedes(rec, r) /\ SamePolicy(rec, [r EXCEPT !.phase = "attempted"])
          /\ rec.edl = r.edl /\ rec.normal = r.normal
      BY <1>1, <2>2, Changed DEF Attempted, Policy, SamePolicy, Controls, ControlRecord
    <3>2. Fit(rec, ghost, journal, image) /\ ghost.trials = 1
      BY <1>1, <2>2, <3>1 DEF Fit, SamePolicy, Controls, ControlRecord
    <3>3. Persist(rec, "trial")
      BY <1>19, <2>1, <2>2 DEF Phase
    <3>4. sel'.pc = "trial" /\ sel'.mem = rec
      BY <1>2, <3>3 DEF Persist
    <3>5. writer'["uboot"].rec = rec => SelInv'
      BY <1>1, <2>2, <3>1, <3>2, <3>3, <3>4
      DEF SelInv, SelWaits, Persist, SamePolicy, Controls, ControlRecord
    <3> QED
      BY <1>0, <1>1, <3>1, <3>2, <3>3, <3>4, <3>5, FirmwareWrites DEF Persist, SelWaits
  <2>3. CASE r.phase = "attempted"
    <3> DEFINE rec == RolledBack(r)
    <3>1. /\ rec \in Controls /\ Supersedes(rec, r) /\ rec.phase = "stable"
          /\ rec.active = r.active /\ rec.edl = r.edl /\ rec.normal = r.normal
      BY <1>1, <2>3, Changed DEF RolledBack, Policy
    <3>2. Fit(rec, ghost, journal, image)
      BY <1>1, <3>1 DEF Fit
    <3>3. Persist(rec, "rollback")
      BY <1>19, <2>1, <2>3 DEF Phase
    <3>4. sel'.pc = "rollback" /\ sel'.mem = rec
      BY <1>2, <3>3 DEF Persist
    <3>5. writer'["uboot"].rec = rec => SelInv'
      BY <2>3, <3>1, <3>3, <3>4 DEF SelInv, SelWaits, Persist
    <3> QED
      BY <1>0, <1>1, <3>1, <3>2, <3>3, <3>4, <3>5, FirmwareWrites DEF Persist, SelWaits
  <2>4. CASE r.phase = "stable"
    <3>1. Choose(r.active, "stable") /\ Quietly
      BY <1>19, <2>1, <2>4 DEF Phase
    <3>2. /\ sel'.pc = "loading" /\ sel'.mem = r /\ sel'.slot = r.active
          /\ sel'.tag = "stable"
      BY <1>2, <2>1, <3>1 DEF Choose
    <3>3. SelInv' /\ sel'.pc \notin SelWaits
      BY <2>4, <3>1, <3>2 DEF SelInv, SelWaits, Quietly, ChoiceOK
    <3> QED
      BY <1>0, <1>1, <3>1, <3>3, FirmwareGoes DEF Quietly
  <2> QED
    BY <2>1, <2>2, <2>3, <2>4
\* It has persisted the record it goes on with.
<1>20. ASSUME NEW slot, NEW tag, sel.pc \in {"trial", "rollback", "failed"},
              Choose(slot, tag), Quietly, r = sel.mem,
              IF tag = "trial"
              THEN r.phase = "attempted" /\ slot = r.pending /\ ghost.trials = 1
              ELSE r.phase = "stable" /\ slot = r.active
       PROVE  DeviceInv'
  <2>1. /\ sel'.pc = "loading" /\ sel'.mem = r /\ sel'.slot = slot /\ sel'.tag = tag
    BY <1>2, <1>20 DEF Choose
  <2>2. SelInv' /\ sel'.pc \notin SelWaits
    BY <1>20, <2>1 DEF SelInv, SelWaits, Quietly, ChoiceOK
  <2> QED
    BY <1>0, <1>1, <1>20, <2>2, FirmwareGoes DEF Quietly
<1>21. CASE Trial
  <2>1. sel.pc = "trial" /\ sel.mem.phase = "attempted"
    BY <1>21 DEF Trial, At, TypeInv, MemInv
  <2>2. Took /\ r = sel.mem /\ ghost.trials = 1
    BY <1>0, <1>1, <2>1, TookIs DEF SelInv, SelWaits
  <2> QED
    BY <1>20, <1>21, <2>1, <2>2 DEF Trial
<1>22. CASE Rollback
  <2>1. sel.pc = "rollback"
    BY <1>22 DEF Rollback, At
  <2>2. r = sel.mem /\ r.phase = "stable"
    BY <1>0, <1>1, <2>1, TookIs DEF SelInv, SelWaits
  <2> QED
    BY <1>20, <1>22, <2>1, <2>2 DEF Rollback
<1>23. CASE Failed
  <2>1. sel.pc = "failed"
    BY <1>23 DEF Failed, At
  <2>2. r = sel.mem /\ r.phase = "stable" /\ sel.tag # "trial"
    BY <1>0, <1>1, <2>1, TookIs DEF SelInv, SelWaits
  <2> QED
    BY <1>20, <1>23, <2>1, <2>2 DEF Failed
<1>24. CASE Fail
  <2> DEFINE onTrial == r.phase = "attempted"
             rec == IF onTrial THEN RolledBack(r) ELSE Recovered(r)
  <2>1. /\ rec \in Controls /\ Supersedes(rec, r) /\ rec.phase = "stable"
        /\ rec.edl = r.edl /\ rec.normal = r.normal /\ (onTrial => rec.active = r.active)
    BY <1>1, Changed DEF RolledBack, Recovered, Policy
  <2>2. /\ StartWrite("uboot", rec, "b")
        /\ UNCHANGED <<esp, image, journal, machine>>
        /\ ghost' = [ghost EXCEPT !.promoted = @ \/ ~onTrial, !.overruled = @ \/ ~onTrial]
    BY <1>24 DEF Fail, Chosen
  <2>3. sel'.pc = "failed" /\ sel'.mem = rec /\ sel'.tag # "trial"
    BY <1>2, <1>24 DEF Fail, Chosen
  <2>4. /\ ghost'.promoted = (ghost.promoted \/ ~onTrial)
        /\ ghost'.overruled = (ghost.overruled \/ ~onTrial)
        /\ ghost'.trials = ghost.trials /\ ghost'.edls = ghost.edls
        /\ ghost'.normals = ghost.normals /\ ghost'.proven = ghost.proven
    BY <1>2, <2>2 DEF Ghosts
  <2>5. Spent(ghost')
    BY <1>1, <2>4 DEF Fit
  <2>6. Fit(rec, ghost', journal, image)
    BY <1>1, <2>1, <2>4 DEF Fit
  <2>7. writer'["uboot"].rec = rec => SelInv'
    BY <2>1, <2>3 DEF SelInv, SelWaits
  <2>8. sel'.pc \in SelWaits
    BY <2>3 DEF SelWaits
  <2> HIDE DEF rec
  <2> QED
    BY <1>0, <2>1, <2>2, <2>5, <2>6, <2>7, <2>8, FirmwareWrites
<1>25. CASE FailBlind
  BY <1>1, <1>25 DEF FailBlind
<1>26. CASE OpenBoot
  <2> DEFINE rec == Loading(r, sel.slot)
  <2>1. sel.mem = r /\ ChoiceOK
    BY <1>1, <1>26 DEF OpenBoot, At, SelInv
  <2>2. /\ rec \in Controls /\ Supersedes(rec, r) /\ SamePolicy(rec, r)
        /\ rec.edl = r.edl /\ rec.normal = r.normal
    BY <1>1, <1>2, Changed DEF Loading, Diagnosis, SamePolicy
  <2>3. Fit(rec, ghost, journal, image)
    BY <1>1, <2>2, FitAlike
  <2>4. Persist(rec, "load")
    BY <1>26, <2>1 DEF OpenBoot
  <2>5. sel'.pc = "load" /\ sel'.mem = rec /\ sel'.slot = sel.slot /\ sel'.tag = sel.tag
    BY <1>2, <2>4 DEF Persist
  <2>6. writer'["uboot"].rec = rec => SelInv'
    BY <2>1, <2>2, <2>4, <2>5 DEF SelInv, SelWaits, Persist, SamePolicy, ChoiceOK
  <2> QED
    BY <1>0, <1>1, <2>2, <2>3, <2>4, <2>5, <2>6, FirmwareWrites DEF Persist, SelWaits
<1>27. CASE Load
  <2>1. sel.pc = "load"
    BY <1>27 DEF Load, At
  <2>2. r = sel.mem /\ ChoiceOK /\ \A s \in Slots : Loads(image, s) => esp[s] = r
    BY <1>0, <1>1, <2>1, TookIs DEF SelInv, SelWaits
  <2>3. CASE Loads(image, sel.slot) /\ Goto("kernel") /\ Quietly
    <3>1. /\ sel'.pc = "kernel" /\ sel'.mem = sel.mem /\ sel'.slot = sel.slot
          /\ sel'.tag = sel.tag
      BY <1>2, <2>3 DEF Goto
    <3>2. SelInv' /\ sel'.pc \notin SelWaits
      BY <2>2, <2>3, <3>1 DEF SelInv, SelWaits, Quietly, ChoiceOK, Slots
    <3> QED
      BY <1>0, <1>1, <2>3, <3>2, FirmwareGoes DEF Quietly
  <2> QED
    BY <1>8, <1>27, <2>3 DEF Load, Bootable, Loads
<1>28. CASE Handoff
  <2> DEFINE rec == Staged(r, "kernel")
  <2>1. sel.mem = r /\ ChoiceOK /\ Loads(image, sel.slot)
    BY <1>1, <1>28 DEF Handoff, At, SelInv
  <2>2. /\ rec \in Controls /\ Supersedes(rec, r) /\ SamePolicy(rec, r)
        /\ rec.edl = r.edl /\ rec.normal = r.normal
    BY <1>1, Changed DEF Staged, Diagnosis, SamePolicy
  <2>3. Fit(rec, ghost, journal, image)
    BY <1>1, <2>2, FitAlike
  <2>4. /\ StartWrite("uboot", rec, "b") /\ Goto("boot")
        /\ UNCHANGED <<esp, image, journal, machine, ghost>>
    BY <1>1, <1>28 DEF Handoff, Chosen
  <2>5. sel'.pc = "boot" /\ sel'.mem = r /\ sel'.slot = sel.slot /\ sel'.tag = sel.tag
    BY <1>2, <2>1, <2>4 DEF Goto
  <2>6. writer'["uboot"].rec = rec => SelInv'
    BY <2>1, <2>4, <2>5 DEF SelInv, SelWaits, SamePolicy, ChoiceOK
  <2> QED
    BY <1>0, <1>1, <2>2, <2>3, <2>4, <2>5, <2>6, FirmwareWrites DEF SelWaits
<1>29. CASE BootLinux
  <2>1. sel.pc = "boot"
    BY <1>29 DEF BootLinux, At
  <2>2. Took /\ r = Staged(sel.mem, "kernel") /\ ChoiceOK /\ Loads(image, sel.slot)
    BY <1>0, <1>1, <2>1, TookIs DEF SelInv, SelWaits
  <2>3. r.phase = sel.mem.phase /\ r.active = sel.mem.active /\ r.pending = sel.mem.pending
    BY <2>2 DEF Staged, Diagnosis
  <2>4. /\ machine' = [Dark EXCEPT !.mode = "linux", !.slot = sel.slot,
                         !.trial = sel.tag = "trial", !.count = sel.mem.count]
        /\ ghost' = [ghost EXCEPT !.trials = IF sel.tag = "trial" THEN @ - 1 ELSE @]
        /\ sel' = NoSelector
        /\ UNCHANGED <<esp, writer>>
    BY <1>29, <2>2 DEF BootLinux
  <2>5. Spent(ghost')
    <3>1. CASE sel.tag = "trial"
      BY <1>1, <1>2, <1>3, <2>2, <2>3, <2>4, <3>1 DEF ChoiceOK
    <3>2. CASE sel.tag # "trial"
      BY <1>1, <1>2, <2>4, <3>2 DEF Ghosts
    <3> QED
      BY <3>1, <3>2
  <2>6. /\ machine'.mode = "linux" /\ machine'.slot = sel.slot
        /\ machine'.trial = (sel.tag = "trial")
    BY <2>4 DEF Dark
  <2>7. /\ ModeInv /\ upd.pc = "idle" /\ sup.pc = "off" /\ sel'.pc = "off"
        /\ \A q \in Writers : Settled(q)
    BY <1>0, <2>4, AllSettled DEF DeviceInv, ModeInv, NoSelector
  <2>8. StoreInv' /\ FitInv'
    <3>1. StoreInv /\ FitInv /\ esp' \in [Slots -> Copies] /\ Selected(esp') = r
      BY <2>4 DEF DeviceInv, StoreInv, TypeOKStore
    <3>2. \E s \in Slots : Loads(image', s)
      BY <1>0, <3>1 DEF FitInv
    <3> QED
      BY <1>0, <2>4, <2>5, <2>7, <3>1, <3>2, FitStays
  <2>9. ModeInv'
    BY <1>0, <2>4, <2>6, <2>7, WritersAre DEF ModeInv, Settled
  <2>10. RunInv'
    BY <1>0, <2>2, <2>3, <2>4, <2>6, <2>7 DEF RunInv, Decided, OnDefault, OnTrial, ChoiceOK
  <2>11. WaitInv' /\ SelInv' /\ SupInv' /\ UpdInv'
    BY <1>0, <2>7 DEF WaitInv, SelInv, SupInv, UpdInv, SelWaits, UpdWaits, SupWaits, Judging,
       Writes
  <2> QED
    BY <2>8, <2>9, <2>10, <2>11 DEF DeviceInv
<1> QED
  BY <1>12, <1>13, <1>14, <1>15, <1>16, <1>17, <1>18, <1>19, <1>21, <1>22, <1>23, <1>24,
     <1>25, <1>26, <1>27, <1>28, <1>29 DEF Selecting, SelectorNext

-----------------------------------------------------------------------------
\* What a step of the updater has to keep: it runs on a decided boot of the
\* default slot.
SameBoot ==
  /\ machine'.mode = machine.mode /\ machine'.slot = machine.slot
  /\ machine'.trial = machine.trial

\* What a step of the updater has to keep, and what it keeps by touching nothing else.
LEMMA UpdaterFrame ==
  ASSUME DeviceInv, machine.mode = "linux", sup.pc = "done", sup' = sup, sel' = sel, SameBoot,
         \A q \in Writers \ {"updater"} : writer'[q] = writer[q],
         StoreInv', FitInv', UpdInv', Selected(esp') = Selected(esp),
         image'[machine.slot] = image[machine.slot], ghost'.proven = ghost.proven,
         upd'.pc \in UpdWaits => Kept(writer'["updater"], esp', image'),
         writer'["updater"].at # NoSlot => upd'.pc \in UpdWaits
  PROVE  DeviceInv'
<1>1. /\ ModeInv /\ RunInv /\ SupInv /\ sel.pc = "off"
  BY DEF DeviceInv, ModeInv
<1>2. ModeInv'
  BY <1>1, WritersAre DEF ModeInv, SameBoot
<1>3. WaitInv' /\ SelInv'
  BY <1>1 DEF WaitInv, SelInv, SelWaits, SupWaits
<1>4. RunInv' /\ SupInv'
  BY <1>1 DEF RunInv, SupInv, Decided, OnDefault, SameBoot, Loads, Releases, Judging
<1> QED
  BY <1>2, <1>3, <1>4 DEF DeviceInv

\* The command goes on without a write ...
LEMMA UpdaterGoes ==
  ASSUME DeviceInv, machine.mode = "linux", sup.pc = "done", writer["updater"].at = NoSlot,
         UNCHANGED <<esp, writer, image, sel, sup>>, SameBoot,
         Fit(Selected(esp), ghost', journal', image), ghost'.proven = ghost.proven,
         {ghost'.trials, ghost'.edls, ghost'.normals} \subseteq {0, 1},
         UpdInv', upd'.pc \notin UpdWaits
  PROVE  DeviceInv'
<1>1. StoreInv /\ ModeInv /\ FitInv /\ \A q \in Writers : Settled(q)
  BY AllSettled DEF DeviceInv
<1>2. esp' \in [Slots -> Copies] /\ Selected(esp') = Selected(esp)
  BY <1>1 DEF StoreInv, TypeOKStore
<1>3. (\E s \in Slots : Loads(image', s)) /\ Fit(Selected(esp), ghost', journal', image')
  BY <1>1 DEF FitInv
<1>4. StoreInv' /\ FitInv'
  BY <1>1, <1>2, <1>3, FitStays
<1> QED
  BY <1>2, <1>4, UpdaterFrame

\* ... or sets out to write a record ...
LEMMA UpdaterWrites ==
  ASSUME DeviceInv, machine.mode = "linux", sup.pc = "done", writer["updater"].at = NoSlot,
         UNCHANGED <<esp, image, journal, sel, sup>>, SameBoot,
         NEW rec \in Controls, Supersedes(rec, Selected(esp)), NEW first \in Slots,
         StartWrite("updater", rec, first),
         Fit(Selected(esp), ghost', journal, image), Fit(rec, ghost', journal, image),
         ghost'.proven = ghost.proven,
         {ghost'.trials, ghost'.edls, ghost'.normals} \subseteq {0, 1},
         writer'["updater"].rec = rec => UpdInv', upd'.pc \in UpdWaits
  PROVE  DeviceInv'
<1>1. StoreInv /\ ModeInv /\ FitInv /\ \A q \in Writers : Settled(q)
  BY AllSettled DEF DeviceInv
<1>2. \E s \in Slots : Loads(image', s)
  BY <1>1 DEF FitInv
<1>3. Fit(Selected(esp), ghost', journal', image') /\ Fit(rec, ghost', journal', image')
  OBVIOUS
<1>4. /\ StoreInv' /\ FitInv' /\ Kept(writer'["updater"], esp', image')
      /\ writer'["updater"].rec = rec
      /\ \A q \in Writers \ {"updater"} : writer'[q] = writer[q]
  BY <1>1, <1>2, <1>3, FitStart, WritersAre
<1> QED
  BY <1>4, UpdaterFrame

\* ... or to write the other slot: nothing the device runs on or would boot is
\* touched.
LEMMA UpdaterInstalls ==
  ASSUME TypeInv, DeviceInv, machine.mode = "linux", sup.pc = "done",
         writer["updater"].at = NoSlot,
         UNCHANGED <<writer, journal, machine, ghost, sel, sup>>,
         upd.pc \in {"system", "system-writing", "esp", "esp-writing"},
         NEW copy, copy \in {esp[upd.doc.target], Damaged, ImageRecord},
         esp' = [esp EXCEPT ![upd.doc.target] = copy],
         \A s \in Slots \ {upd.doc.target} : image'[s] = image[s],
         upd'.doc = upd.doc,
         upd'.pc \in Writes \ {"selector"},
         upd'.pc = "install-selector" => Loads(image', upd.doc.target)
  PROVE  DeviceInv'
<1> DEFINE t == upd.doc.target
           r == Selected(esp)
<1>1. StoreInv /\ ModeInv /\ FitInv /\ RunInv /\ UpdInv /\ \A q \in Writers : Settled(q)
  BY AllSettled DEF DeviceInv
<1>2. /\ machine.slot \in Slots /\ t \in Slots /\ t = Peer(machine.slot) /\ t # machine.slot
      /\ machine.slot = Peer(t)
      /\ esp[machine.slot] = r /\ r.phase = "stable" /\ r.active = machine.slot
      /\ Loads(image, machine.slot) /\ upd.doc.state # "committed" /\ journal = upd.doc
  BY <1>1, MachinesTyped, PeersAre
  DEF UpdInv, RunInv, Decided, OnDefault, Writes, TypeInv, TypeOK, TypeOKDevice
<1>3. Overwrite(t, copy)
  BY <1>2 DEF Overwrite, Expendable
<1>4. esp' \in [Slots -> Copies] /\ Selected(esp') = r
  BY <1>1, <1>2, <1>3, OverwriteKeeps
<1>5. image'[machine.slot] = image[machine.slot] /\ Loads(image', machine.slot)
  BY <1>2 DEF Loads
<1>6. Fit(r, ghost', journal', image')
  BY <1>1, <1>2, <1>5, ZenonT(60) DEF FitInv, Fit, Releases
<1>7. StoreInv' /\ FitInv'
  <2>1. (\E s \in Slots : Loads(image', s))
        /\ {ghost'.trials, ghost'.edls, ghost'.normals} \subseteq {0, 1}
    BY <1>1, <1>2, <1>5 DEF FitInv
  <2> QED
    BY <1>1, <1>4, <1>6, <2>1, FitStays
<1>8. esp'[machine.slot] = esp[machine.slot]
  BY <1>1, <1>2 DEF StoreInv, TypeOKStore
<1>9. UpdInv'
  BY <1>2, <1>4, <1>8 DEF UpdInv, Writes, UpdWaits
<1>10. upd'.pc \notin UpdWaits
  BY DEF Writes, UpdWaits
<1> QED
  BY <1>1, <1>4, <1>5, <1>7, <1>9, <1>10, UpdaterFrame DEF SameBoot, Settled

\* After a wait, the record the updater wrote is the selected one.
LEMMA AcceptedIs ==
  ASSUME DeviceInv, writer["updater"].at = NoSlot, upd.pc \in UpdWaits
  PROVE  /\ Accepted /\ Selected(esp) = writer["updater"].rec
         /\ \A s \in Slots : Loads(image, s) => esp[s] = Selected(esp)
BY KeptAll DEF DeviceInv, WaitInv, FitInv, Accepted

\* The updater and its commands keep it, when the operator waits.
LEMMA UpdaterInv == Orderly /\ TypeInv /\ DeviceInv /\ (Updating \/ Commanding) => DeviceInv'
<1> SUFFICES ASSUME Orderly, TypeInv, DeviceInv, Updating \/ Commanding PROVE DeviceInv'
  OBVIOUS
<1> DEFINE r == Selected(esp)
           home == machine.slot
           Counts(g) == {g.trials, g.edls, g.normals} \subseteq {0, 1}
           Spent(g) == Fit(r, g, journal, image) /\ Counts(g)
<1>1. /\ r \in Controls /\ Readable(esp) /\ Previous(esp) = r
      /\ UpdInv /\ Spent(ghost) /\ ModeInv /\ RunInv /\ SupInv
  BY SelectionIs DEF DeviceInv, FitInv
<1>2. /\ upd \in Upds /\ ghost \in Ghosts /\ machine \in Machines /\ journal \in Journals
      /\ image \in [Slots -> Contents] /\ esp \in [Slots -> Copies]
      /\ home \in Slots /\ upd.doc \in Journals
      /\ upd.doc.target \in Slots /\ upd.doc.version \in Images
      /\ upd.doc.state \in JournalStates
  BY MachinesTyped, JournalsTyped DEF TypeInv, TypeOK, TypeOKDevice, TypeOKStore, TypeOKUpdater,
     Upds
<1>3. UNCHANGED <<sel, sup>>
  BY DEF Updating, Commanding
\* A command runs on a decided boot of the default slot.
<1>4. ASSUME machine.mode = "linux", sup.pc = "done"
      PROVE  /\ r.active = home /\ r.phase # "attempted" /\ Loads(image, home)
             /\ Releases(image, home) \cap ghost.proven # {}
  BY <1>1, <1>4 DEF RunInv, SupInv, Decided, OnDefault
<1>c. ASSUME Command, Commanding
      PROVE  /\ machine.mode = "linux" /\ sup.pc = "done" /\ writer["updater"].at = NoSlot
             /\ SameBoot
  <2>1. machine.mode = "linux" /\ sup.pc = "done" /\ upd.pc = "idle"
        /\ machine' = [machine EXCEPT !.lock = "updater"]
    BY <1>c DEF Command, Lock, Running, Commanding, Orderly
  <2> QED
    BY <1>1, <1>2, <2>1 DEF ModeInv, UpdWaits, SameBoot, Machines
<1>i. ASSUME NEW pc, In(pc), pc # "idle"
      PROVE  /\ machine.mode = "linux" /\ sup.pc = "done" /\ writer["updater"].at = NoSlot
             /\ upd.pc = pc
  BY <1>1, <1>i DEF In, Running, ModeInv, Settled
<1>k. /\ UNCHANGED machine => SameBoot
      /\ Release => SameBoot /\ upd'.pc = "idle"
  BY <1>2 DEF SameBoot, Release, NoUpdate, Machines
<1>p. \A pc : Proceed(pc) => upd'.pc = pc /\ upd'.doc = upd.doc
  BY <1>2 DEF Proceed, Upds
\* A record with the running slot as its stable default is fit.
<1>s. ASSUME NEW rec, rec.active = home, rec.phase = "stable", rec.edl => r.edl,
             rec.normal => r.normal, machine.mode = "linux", sup.pc = "done"
      PROVE  Fit(rec, ghost, journal, image)
  BY <1>1, <1>4, <1>s DEF Fit
<1>5. CASE RequestRecovery /\ Commanding
  <2> DEFINE rec == RequestEdl(r)
  <2>1. Command /\ Write(rec) /\ Proceed("request") /\ ghost' = [ghost EXCEPT !.edls = 1]
        /\ UNCHANGED <<image, journal>>
    BY <1>5 DEF RequestRecovery
  <2>2. /\ rec \in Controls /\ Supersedes(rec, r) /\ SamePolicy(rec, r) /\ ~rec.normal
    BY <1>1, Changed DEF RequestEdl, Policy, SamePolicy
  <2>3. /\ ghost'.promoted = ghost.promoted /\ ghost'.overruled = ghost.overruled
        /\ ghost'.trials = ghost.trials /\ ghost'.edls = 1
        /\ ghost'.normals = ghost.normals /\ ghost'.proven = ghost.proven
    BY <1>2, <2>1 DEF Ghosts
  <2>4. Spent(ghost') /\ Fit(rec, ghost', journal, image)
    BY <1>1, <2>2, <2>3 DEF Fit, SamePolicy
  <2>5. upd'.pc = "request" /\ esp' = esp /\ StartWrite("updater", rec, "a")
    BY <1>p, <2>1 DEF Write
  <2>6. writer'["updater"].rec = rec => UpdInv'
    BY <1>4, <1>5, <1>c, <2>1, <2>2, <2>5 DEF UpdInv, UpdWaits, Writes, SameBoot, SamePolicy
  <2> QED
    BY <1>3, <1>5, <1>c, <2>1, <2>2, <2>3, <2>4, <2>5, <2>6, UpdaterWrites DEF UpdWaits, Slots
<1>6. CASE SetUsbMode /\ Commanding
  <2> DEFINE rec == Touched(r)
  <2>1. Command /\ Write(rec) /\ Proceed("request") /\ UNCHANGED <<image, journal, ghost>>
    BY <1>6 DEF SetUsbMode
  <2>2. /\ rec \in Controls /\ Supersedes(rec, r) /\ SamePolicy(rec, r)
        /\ rec.edl = r.edl /\ rec.normal = r.normal
    BY <1>1, Changed DEF Touched, Policy, SamePolicy
  <2>3. Fit(rec, ghost, journal, image)
    BY <1>1, <2>2, FitAlike
  <2>4. upd'.pc = "request" /\ esp' = esp /\ StartWrite("updater", rec, "a")
    BY <1>p, <2>1 DEF Write
  <2>5. writer'["updater"].rec = rec => UpdInv'
    BY <1>4, <1>6, <1>c, <2>1, <2>2, <2>4 DEF UpdInv, UpdWaits, Writes, SameBoot, SamePolicy
  <2> QED
    BY <1>1, <1>3, <1>6, <1>c, <2>1, <2>2, <2>3, <2>4, <2>5, UpdaterWrites DEF UpdWaits, Slots
\* It goes on with the journal as it is, or ends.
<1>g. ASSUME machine.mode = "linux", sup.pc = "done", writer["updater"].at = NoSlot, SameBoot,
             UNCHANGED <<esp, writer, image, journal, ghost>>,
             upd'.pc \in {"idle", "undo", "reboot"}
      PROVE  DeviceInv'
  <2>1. UpdInv' /\ upd'.pc \notin UpdWaits
    BY <1>g DEF UpdInv, UpdWaits, Writes
  <2> QED
    BY <1>1, <1>3, <1>g, <2>1, UpdaterGoes
<1>7. CASE Requested
  BY <1>7, <1>i, <1>k, <1>p, <1>g DEF Requested
<1>8. CASE Install /\ Commanding
  <2> DEFINE rec == Stabilised(r, home)
  <2>1. /\ Command /\ Write(rec) /\ UNCHANGED <<image, journal, ghost>>
        /\ upd'.pc = "cancel" /\ upd'.doc.state = "writing" /\ upd'.doc.target = Peer(home)
    BY <1>1, <1>8 DEF Install, Cancels
  <2>2. /\ rec \in Controls /\ Supersedes(rec, r) /\ rec.active = home /\ rec.phase = "stable"
        /\ ~rec.edl /\ ~rec.normal
    BY <1>1, <1>2, Changed DEF Stabilised, Policy
  <2>3. Fit(rec, ghost, journal, image)
    BY <1>8, <1>c, <1>s, <2>1, <2>2
  <2>4. esp' = esp /\ StartWrite("updater", rec, "a")
    BY <2>1 DEF Write
  <2>5. writer'["updater"].rec = rec => UpdInv'
    BY <1>8, <1>c, <2>1, <2>2 DEF UpdInv, UpdWaits, Writes, SameBoot
  <2> HIDE DEF rec
  <2> QED
    BY <1>1, <1>3, <1>8, <1>c, <2>1, <2>2, <2>3, <2>4, <2>5, UpdaterWrites DEF UpdWaits, Slots
<1>9. CASE Cancelled
  <2>1. /\ machine.mode = "linux" /\ sup.pc = "done" /\ writer["updater"].at = NoSlot
        /\ upd.pc = "cancel"
    BY <1>9, <1>i DEF Cancelled
  <2>2. /\ Accepted /\ r.phase = "stable" /\ esp[home] = r
        /\ upd.doc.target = Peer(home) /\ upd.doc.state # "committed"
    BY <1>1, <1>4, <2>1, <1>2, AcceptedIs DEF UpdInv, UpdWaits
  <2>3. /\ journal' = upd.doc /\ upd'.pc = "system" /\ upd'.doc = upd.doc
        /\ ghost' = [ghost EXCEPT !.trials = 0] /\ UNCHANGED <<esp, writer, image, machine>>
    BY <1>9, <1>p, <2>2 DEF Cancelled, SaveJournal
  <2>4. /\ ghost'.promoted = ghost.promoted /\ ghost'.overruled = ghost.overruled
        /\ ghost'.trials = 0 /\ ghost'.edls = ghost.edls
        /\ ghost'.normals = ghost.normals /\ ghost'.proven = ghost.proven
    BY <1>2, <2>3 DEF Ghosts
  <2>5. Fit(r, ghost', journal', image) /\ Counts(ghost')
    BY <1>1, <2>2, <2>3, <2>4 DEF Fit
  <2>6. UpdInv' /\ upd'.pc \notin UpdWaits
    BY <2>2, <2>3 DEF UpdInv, UpdWaits, Writes
  <2> QED
    BY <1>3, <1>k, <2>1, <2>3, <2>4, <2>5, <2>6, UpdaterGoes
<1>10. CASE WriteSystem
  <2>1. /\ machine.mode = "linux" /\ sup.pc = "done" /\ writer["updater"].at = NoSlot
        /\ upd.pc = "system"
    BY <1>10, <1>i DEF WriteSystem
  <2>2. esp' = [esp EXCEPT ![upd.doc.target] = esp[upd.doc.target]]
    BY <1>2, <1>10 DEF WriteSystem
  <2>3. /\ upd'.pc = "system-writing" /\ upd'.doc = upd.doc
        /\ \A s \in Slots \ {upd.doc.target} : image'[s] = image[s]
    BY <1>2, <1>10, <1>p DEF WriteSystem
  <2> QED
    BY <1>3, <1>10, <2>1, <2>2, <2>3, UpdaterInstalls DEF WriteSystem, Writes
<1>11. CASE SystemWritten
  <2>1. /\ machine.mode = "linux" /\ sup.pc = "done" /\ writer["updater"].at = NoSlot
        /\ upd.pc = "system-writing"
    BY <1>11, <1>i DEF SystemWritten
  <2>2. esp' = [esp EXCEPT ![upd.doc.target] = esp[upd.doc.target]]
    BY <1>2, <1>11 DEF SystemWritten
  <2>3. /\ upd'.pc = "esp" /\ upd'.doc = upd.doc
        /\ \A s \in Slots \ {upd.doc.target} : image'[s] = image[s]
    BY <1>2, <1>11, <1>p DEF SystemWritten
  <2> QED
    BY <1>3, <1>11, <2>1, <2>2, <2>3, UpdaterInstalls DEF SystemWritten, Writes
<1>12. CASE WriteEsp
  <2>1. /\ machine.mode = "linux" /\ sup.pc = "done" /\ writer["updater"].at = NoSlot
        /\ upd.pc = "esp"
    BY <1>12, <1>i DEF WriteEsp
  <2>2. PICK copy \in {esp[upd.doc.target], Damaged, ImageRecord} :
          esp' = [esp EXCEPT ![upd.doc.target] = copy]
    BY <1>12 DEF WriteEsp
  <2>3. /\ upd'.pc = "esp-writing" /\ upd'.doc = upd.doc
        /\ \A s \in Slots \ {upd.doc.target} : image'[s] = image[s]
    BY <1>2, <1>12, <1>p DEF WriteEsp
  <2> QED
    BY <1>3, <1>12, <2>1, <2>2, <2>3, UpdaterInstalls DEF WriteEsp, Writes
<1>13. CASE EspWritten
  <2>1. /\ machine.mode = "linux" /\ sup.pc = "done" /\ writer["updater"].at = NoSlot
        /\ upd.pc = "esp-writing"
    BY <1>13, <1>i DEF EspWritten
  <2>2. /\ upd'.pc = "install-selector" /\ upd'.doc = upd.doc
        /\ \A s \in Slots \ {upd.doc.target} : image'[s] = image[s]
    BY <1>2, <1>13, <1>p DEF EspWritten
  <2>3. Loads(image', upd.doc.target)
    BY <1>2, <1>13, ImagesAssumption DEF EspWritten, Loads, Contents
  <2> QED
    BY <1>3, <1>13, <2>1, <2>2, <2>3, UpdaterInstalls DEF EspWritten, Writes
<1>14. CASE InstallSelector
  <2> DEFINE rec == SelectorInstalled(r, home)
  <2>1. /\ machine.mode = "linux" /\ sup.pc = "done" /\ writer["updater"].at = NoSlot
        /\ upd.pc = "install-selector"
    BY <1>14, <1>i DEF InstallSelector
  <2>2. /\ StartWrite("updater", rec, home) /\ upd'.pc = "selector" /\ upd'.doc = upd.doc
        /\ UNCHANGED <<esp, image, journal, machine, ghost>>
    BY <1>1, <1>14, <1>p DEF InstallSelector
  <2>3. /\ rec \in Controls /\ Supersedes(rec, r) /\ rec.active = home /\ rec.phase = "stable"
        /\ rec.edl = r.edl /\ rec.normal = r.normal
    BY <1>1, <1>2, Changed DEF SelectorInstalled, Policy
  <2>4. Fit(rec, ghost, journal, image)
    BY <1>s, <2>1, <2>3
  <2>5. writer'["updater"].rec = rec => UpdInv'
    BY <1>1, <2>1, <2>2, <2>3 DEF UpdInv, UpdWaits, Writes
  <2> HIDE DEF rec
  <2> QED
    BY <1>1, <1>2, <1>3, <1>k, <2>1, <2>2, <2>3, <2>4, <2>5, UpdaterWrites DEF UpdWaits
<1>15. CASE SelectorDone
  <2>1. /\ machine.mode = "linux" /\ sup.pc = "done" /\ writer["updater"].at = NoSlot
        /\ upd.pc = "selector"
    BY <1>15, <1>i DEF SelectorDone
  <2>2. Accepted /\ r.phase = "stable" /\ esp[home] = r
    BY <1>1, <1>2, <1>4, <2>1, AcceptedIs DEF UpdInv, UpdWaits
  <2>3. /\ upd'.pc = "validate" /\ upd'.doc = upd.doc
        /\ UNCHANGED <<esp, writer, image, journal, machine, ghost>>
    BY <1>15, <1>p, <2>2 DEF SelectorDone, deviceVars
  <2>4. UpdInv' /\ upd'.pc \notin UpdWaits
    BY <1>1, <2>1, <2>2, <2>3 DEF UpdInv, UpdWaits, Writes
  <2> QED
    BY <1>1, <1>3, <1>k, <2>1, <2>3, <2>4, UpdaterGoes
<1>16. CASE Validate
  <2>1. /\ machine.mode = "linux" /\ sup.pc = "done" /\ writer["updater"].at = NoSlot
        /\ upd.pc = "validate"
    BY <1>16, <1>i DEF Validate
  <2>2. r.phase = "stable"
    BY <1>1, <2>1 DEF UpdInv, Writes
  <2>3. /\ journal' = upd'.doc /\ journal'.state = "verified"
        /\ upd'.pc \in {"activate", "idle"}
        /\ UNCHANGED <<esp, writer, image, ghost>>
    BY <1>2, <1>16 DEF Validate, SaveJournal, Upds, Journals
  <2>4. SameBoot
    BY <1>2, <1>16 DEF Validate, SameBoot, Machines
  <2>5. Fit(r, ghost', journal', image) /\ Counts(ghost')
    BY <1>1, <2>2, <2>3 DEF Fit
  <2>6. UpdInv' /\ upd'.pc \notin UpdWaits
    BY <2>3 DEF UpdInv, UpdWaits, Writes
  <2> QED
    BY <1>3, <2>1, <2>3, <2>4, <2>5, <2>6, UpdaterGoes
<1>17. CASE InstallFails
  <2>1. /\ machine.mode = "linux" /\ sup.pc = "done" /\ writer["updater"].at = NoSlot
    BY <1>17, <1>i DEF InstallFails
  <2> QED
    BY <1>17, <1>g, <1>k, <1>p, <2>1 DEF InstallFails
<1>18. CASE Activate /\ Commanding
  <2>1. /\ Command /\ UNCHANGED <<esp, writer, image, journal, ghost>>
        /\ upd'.pc = "activate" /\ upd'.doc = journal
    BY <1>18 DEF Activate
  <2>2. UpdInv' /\ upd'.pc \notin UpdWaits
    BY <2>1 DEF UpdInv, UpdWaits, Writes
  <2> QED
    BY <1>1, <1>3, <1>18, <1>c, <2>1, <2>2, UpdaterGoes
<1>19. CASE Arm
  <2>1. /\ machine.mode = "linux" /\ sup.pc = "done" /\ writer["updater"].at = NoSlot
        /\ upd.pc = "activate"
    BY <1>19, <1>i DEF Arm
  <2>2. CASE Release /\ UNCHANGED <<esp, writer, ghost>>
    BY <1>19, <1>g, <1>k, <2>1, <2>2 DEF Arm
  <2>3. CASE Staging(upd.doc) /\ Write(Armed(r, home)) /\ Proceed("arming")
             /\ ghost' = [ghost EXCEPT !.trials = 1] /\ UNCHANGED machine
    <3> DEFINE rec == Armed(r, home)
    <3>1. /\ rec \in Controls /\ Supersedes(rec, r) /\ rec.active = home
          /\ rec.phase = "armed" /\ rec.pending = Peer(home) /\ ~rec.edl /\ ~rec.normal
      BY <1>1, <1>2, Changed DEF Armed, Policy
    <3>2. /\ StartWrite("updater", rec, "a") /\ upd'.pc = "arming" /\ upd'.doc = upd.doc
          /\ UNCHANGED <<esp, image, journal>>
      BY <1>19, <1>p, <2>3 DEF Arm, Write
    <3>3. /\ journal = upd.doc /\ upd.doc.state \in {"verified", "ready"}
          /\ upd.doc.target = Peer(home) /\ Releases(image, Peer(home)) # {}
      BY <1>1, <2>1, <2>3 DEF UpdInv, Staging, Sound, Releases
    <3>4. /\ ghost'.promoted = ghost.promoted /\ ghost'.overruled = ghost.overruled
          /\ ghost'.trials = 1 /\ ghost'.edls = ghost.edls
          /\ ghost'.normals = ghost.normals /\ ghost'.proven = ghost.proven
      BY <1>2, <2>3 DEF Ghosts
    <3>5. Spent(ghost')
      BY <1>1, <3>4 DEF Fit
    <3>6. Fit(rec, ghost', journal, image)
      BY <1>1, <1>4, <2>1, <3>1, <3>3, <3>4 DEF Fit
    <3>7. writer'["updater"].rec = rec => UpdInv'
      BY <2>3, <3>1, <3>2, <3>3 DEF UpdInv, UpdWaits, Writes
    <3> HIDE DEF rec
    <3> QED
      BY <1>3, <1>k, <2>1, <2>3, <3>1, <3>2, <3>4, <3>5, <3>6, <3>7, UpdaterWrites
      DEF UpdWaits, Slots
  <2> QED
    BY <1>1, <1>19, <2>2, <2>3 DEF Arm
<1>20. CASE ArmDone
  <2>1. /\ machine.mode = "linux" /\ sup.pc = "done" /\ writer["updater"].at = NoSlot
        /\ upd.pc = "arming"
    BY <1>20, <1>i DEF ArmDone
  <2>2. Accepted /\ journal = upd.doc /\ upd.doc.state \in {"verified", "ready"}
    BY <1>1, <2>1, AcceptedIs DEF UpdInv, UpdWaits
  <2>3. /\ journal' = [upd.doc EXCEPT !.state = "ready"]
        /\ (Proceed("reboot") /\ UNCHANGED machine) \/ Release
        /\ UNCHANGED <<esp, writer, image, ghost>>
    BY <1>20, <2>2 DEF ArmDone, SaveJournal
  <2>4. journal'.state = "ready" /\ journal'.target = journal.target
    BY <1>2, <2>2, <2>3 DEF Journals
  <2>5. Fit(r, ghost', journal', image) /\ Counts(ghost')
    BY <1>1, <2>3, <2>4 DEF Fit
  <2>6. SameBoot /\ upd'.pc \in {"reboot", "idle"}
    BY <1>k, <1>p, <2>3
  <2>7. UpdInv' /\ upd'.pc \notin UpdWaits
    BY <2>6 DEF UpdInv, UpdWaits, Writes
  <2> QED
    BY <1>3, <2>1, <2>3, <2>5, <2>6, <2>7, UpdaterGoes
<1>21. CASE Undo
  <2> DEFINE rec == Stabilised(r, home)
  <2>1. /\ machine.mode = "linux" /\ sup.pc = "done" /\ writer["updater"].at = NoSlot
    BY <1>21, <1>i DEF Undo
  <2>2. /\ StartWrite("updater", rec, "a") /\ upd'.pc = "undoing"
        /\ UNCHANGED <<esp, image, journal, machine, ghost>>
    BY <1>1, <1>21, <1>p DEF Undo, Write
  <2>3. /\ rec \in Controls /\ Supersedes(rec, r) /\ rec.active = home /\ rec.phase = "stable"
        /\ ~rec.edl /\ ~rec.normal
    BY <1>1, <1>2, Changed DEF Stabilised, Policy
  <2>4. Fit(rec, ghost, journal, image)
    BY <1>s, <2>1, <2>3
  <2>5. writer'["updater"].rec = rec => UpdInv'
    BY <2>2, <2>3 DEF UpdInv, UpdWaits, Writes
  <2> HIDE DEF rec
  <2> QED
    BY <1>1, <1>3, <1>k, <2>1, <2>2, <2>3, <2>4, <2>5, UpdaterWrites DEF UpdWaits, Slots
<1>22. CASE Undone
  <2>1. /\ machine.mode = "linux" /\ sup.pc = "done" /\ writer["updater"].at = NoSlot
        /\ upd.pc = "undoing"
    BY <1>22, <1>i DEF Undone
  <2>2. Accepted /\ r.phase = "stable"
    BY <1>1, <2>1, AcceptedIs DEF UpdInv, UpdWaits
  <2>3. /\ journal' = [upd.doc EXCEPT !.state = "failed"] /\ Release
        /\ ghost' = [ghost EXCEPT !.trials = 0] /\ UNCHANGED <<esp, writer, image>>
    BY <1>2, <1>22, <2>2 DEF Undone, SaveJournal
  <2>4. journal'.state = "failed"
    BY <1>2, <2>3 DEF Journals
  <2>5. /\ ghost'.promoted = ghost.promoted /\ ghost'.overruled = ghost.overruled
        /\ ghost'.trials = 0 /\ ghost'.edls = ghost.edls
        /\ ghost'.normals = ghost.normals /\ ghost'.proven = ghost.proven
    BY <1>2, <2>3 DEF Ghosts
  <2>6. Fit(r, ghost', journal', image) /\ Counts(ghost')
    BY <1>1, <2>2, <2>4, <2>5 DEF Fit
  <2>7. SameBoot /\ UpdInv' /\ upd'.pc \notin UpdWaits
    BY <1>k, <2>3 DEF UpdInv, UpdWaits, Writes
  <2> QED
    BY <1>3, <2>1, <2>3, <2>5, <2>6, <2>7, UpdaterGoes
<1> QED
  BY <1>5, <1>6, <1>7, <1>8, <1>9, <1>10, <1>11, <1>12, <1>13, <1>14, <1>15, <1>16, <1>17,
     <1>18, <1>19, <1>20, <1>21, <1>22
  DEF Updating, Commanding, UpdaterNext, UpdaterCommands

-----------------------------------------------------------------------------
\* What a step of the supervisor has to keep: no command is running, and the
\* selection stays.
LEMMA SupervisorFrame ==
  ASSUME DeviceInv, machine.mode = "linux", sup.pc # "done", sel' = sel, upd' = upd, SameBoot,
         \A q \in Writers \ {"supervisor"} : writer'[q] = writer[q],
         StoreInv', FitInv', RunInv', SupInv',
         sup'.pc \notin {"undoing", "reboot"},
         sup'.pc \in SupWaits => Kept(writer'["supervisor"], esp', image'),
         writer'["supervisor"].at # NoSlot => sup'.pc \in SupWaits
  PROVE  DeviceInv'
<1>1. ModeInv /\ sel.pc = "off" /\ upd.pc = "idle"
  BY DEF DeviceInv, ModeInv
<1>2. ModeInv'
  BY <1>1, WritersAre DEF ModeInv, SameBoot
<1>3. WaitInv' /\ SelInv' /\ UpdInv'
  BY <1>1 DEF WaitInv, SelInv, UpdInv, SelWaits, UpdWaits, Writes
<1> QED
  BY <1>2, <1>3 DEF DeviceInv

\* A step of the supervision that starts no write ...
LEMMA SupervisorGoes ==
  ASSUME DeviceInv, machine.mode = "linux", sup.pc # "done", writer["supervisor"].at = NoSlot,
         UNCHANGED <<esp, writer, image, sel, upd>>, SameBoot,
         Fit(Selected(esp), ghost', journal', image),
         {ghost'.trials, ghost'.edls, ghost'.normals} \subseteq {0, 1},
         RunInv', SupInv', sup'.pc \notin SupWaits \cup {"undoing", "reboot"}
  PROVE  DeviceInv'
<1>1. StoreInv /\ ModeInv /\ FitInv /\ \A q \in Writers : Settled(q)
  BY AllSettled DEF DeviceInv
<1>2. esp' \in [Slots -> Copies] /\ Selected(esp') = Selected(esp)
  BY <1>1 DEF StoreInv, TypeOKStore
<1>3. (\E s \in Slots : Loads(image', s)) /\ Fit(Selected(esp), ghost', journal', image')
  BY <1>1 DEF FitInv
<1>4. StoreInv' /\ FitInv'
  BY <1>1, <1>2, <1>3, FitStays
<1> QED
  BY <1>4, SupervisorFrame

\* ... and one that does.
LEMMA SupervisorWrites ==
  ASSUME DeviceInv, machine.mode = "linux", sup.pc # "done", writer["supervisor"].at = NoSlot,
         UNCHANGED <<esp, image, journal, sel, upd>>, SameBoot,
         NEW rec \in Controls, Supersedes(rec, Selected(esp)), NEW first \in Slots,
         StartWrite("supervisor", rec, first),
         Fit(Selected(esp), ghost', journal, image), Fit(rec, ghost', journal, image),
         {ghost'.trials, ghost'.edls, ghost'.normals} \subseteq {0, 1},
         RunInv', writer'["supervisor"].rec = rec => SupInv', sup'.pc \in SupWaits
  PROVE  DeviceInv'
<1>1. StoreInv /\ ModeInv /\ FitInv /\ \A q \in Writers : Settled(q)
  BY AllSettled DEF DeviceInv
<1>2. \E s \in Slots : Loads(image', s)
  BY <1>1 DEF FitInv
<1>3. Fit(Selected(esp), ghost', journal', image') /\ Fit(rec, ghost', journal', image')
  OBVIOUS
<1>4. /\ StoreInv' /\ FitInv' /\ Kept(writer'["supervisor"], esp', image')
      /\ writer'["supervisor"].rec = rec
      /\ \A q \in Writers \ {"supervisor"} : writer'[q] = writer[q]
  BY <1>1, <1>2, <1>3, FitStart, WritersAre
<1>5. sup'.pc \notin {"undoing", "reboot"}
  BY DEF SupWaits
<1> QED
  BY <1>4, <1>5, SupervisorFrame

\* After a wait, the record the supervisor wrote is the selected one.
LEMMA RecordedIs ==
  ASSUME DeviceInv, writer["supervisor"].at = NoSlot, sup.pc \in SupWaits
  PROVE  Recorded /\ Selected(esp) = writer["supervisor"].rec
BY KeptAll DEF DeviceInv, WaitInv, FitInv, Recorded

\* The boot supervision keeps it.
LEMMA SupervisorInv == TypeInv /\ DeviceInv /\ Supervising => DeviceInv'
<1> SUFFICES ASSUME TypeInv, DeviceInv, Supervising PROVE DeviceInv'
  OBVIOUS
<1> DEFINE r == Selected(esp)
           home == machine.slot
           Counts(g) == {g.trials, g.edls, g.normals} \subseteq {0, 1}
           Spent(g) == Fit(r, g, journal, image) /\ Counts(g)
<1>1. /\ r \in Controls /\ Readable(esp) /\ Previous(esp) = r
      /\ Spent(ghost) /\ ModeInv /\ RunInv /\ SupInv
  BY SelectionIs DEF DeviceInv, FitInv
<1>2. /\ sup \in Sups /\ ghost \in Ghosts /\ machine \in Machines /\ journal \in Journals
      /\ esp \in [Slots -> Copies] /\ home \in Slots /\ sup.doc \in Journals
  BY MachinesTyped DEF TypeInv, TypeOK, TypeOKDevice, TypeOKStore, TypeOKSupervisor, Sups
<1>3. UNCHANGED <<sel, upd>>
  BY DEF Supervising
<1>o. ASSUME NEW pc, On(pc), pc # "done"
      PROVE  /\ machine.mode = "linux" /\ sup.pc = pc /\ sup.pc # "done"
             /\ writer["supervisor"].at = NoSlot
  BY <1>o DEF On, Running, Settled
<1>c. \A pc : Continue(pc) => sup'.pc = pc /\ sup'.doc = sup.doc
  BY <1>2 DEF Continue, Sups
<1>m. /\ UNCHANGED machine => SameBoot
      /\ \A v : machine' = [machine EXCEPT !.lock = v] => SameBoot
      /\ \A v : machine' = [machine EXCEPT !.dog = v] => SameBoot
      /\ machine' = [machine EXCEPT !.up = TRUE] => SameBoot
  BY <1>2 DEF SameBoot, Machines
\* Undecided before and after, with the selection as it is.
<1>r. ASSUME SameBoot, UNCHANGED <<esp, image>>, machine.mode = "linux",
             sup.pc \notin {"committing", "save", "done"},
             sup'.pc \notin {"save", "done"}
      PROVE  RunInv'
  BY <1>1, <1>r DEF RunInv, SameBoot, Decided, OnTrial, OnDefault
\* It goes on to a step that nothing is known of.
<1>g. ASSUME machine.mode = "linux", sup.pc \notin {"committing", "save", "done"},
             writer["supervisor"].at = NoSlot,
             SameBoot, UNCHANGED <<esp, writer, image, journal, ghost>>,
             sup'.pc \in {"dead", "userspace", "reconcile", "service", "wait"}
      PROVE  DeviceInv'
  <2>1. SupInv' /\ sup'.pc \notin SupWaits \cup {"undoing", "reboot"}
    BY <1>g DEF SupInv, SupWaits, Judging
  <2>2. RunInv'
    BY <1>g, <1>r
  <2> QED
    BY <1>1, <1>3, <1>g, <2>1, <2>2, SupervisorGoes
\* It records a stage: the policy of the record stays.
<1>w. ASSUME NEW stage \in {"userspace", "healthy"},
             NEW pc \in {"userspace-writing", "health-writing"}, RecordStage(stage, pc),
             machine.mode = "linux", sup.pc \in {"userspace", "health"},
             sup.pc = "userspace" => pc = "userspace-writing",
             writer["supervisor"].at = NoSlot
      PROVE  DeviceInv'
  <2> DEFINE rec == Staged(r, stage)
  <2>1. /\ StartWrite("supervisor", rec, "b") /\ sup'.pc = pc /\ sup'.doc = sup.doc
        /\ SameBoot /\ UNCHANGED <<esp, image, journal, ghost>>
    BY <1>w, <1>c, <1>m DEF RecordStage
  <2>2. /\ rec \in Controls /\ Supersedes(rec, r) /\ SamePolicy(rec, r)
        /\ rec.edl = r.edl /\ rec.normal = r.normal
    BY <1>1, Changed DEF Staged, Diagnosis, SamePolicy
  <2>3. Fit(rec, ghost, journal, image)
    BY <1>1, <2>2, FitAlike
  <2>4. RunInv'
    BY <1>w, <1>r, <2>1
  <2>5. writer'["supervisor"].rec = rec => SupInv'
    BY <1>1, <1>w, <2>1, <2>2 DEF SupInv, Judging, SameBoot
  <2> HIDE DEF rec
  <2> QED
    BY <1>1, <1>3, <1>w, <2>1, <2>2, <2>3, <2>4, <2>5, SupervisorWrites DEF SupWaits, Slots
<1>4. CASE StartUp
  BY <1>4, <1>o, <1>c, <1>m, <1>g DEF StartUp, Silently
<1>5. CASE RecordUserspace
  <2>1. CASE Continue("reconcile") /\ Silently
    BY <1>5, <1>o, <1>c, <1>m, <1>g, <2>1 DEF RecordUserspace, Silently
  <2> QED
    BY <1>5, <1>o, <1>w, <2>1 DEF RecordUserspace
<1>6. CASE UserspaceRecorded
  BY <1>6, <1>o, <1>c, <1>m, <1>g DEF UserspaceRecorded, StageRecorded
<1>7. CASE Reconcile
  <2>1. machine.mode = "linux" /\ sup.pc = "reconcile" /\ writer["supervisor"].at = NoSlot
    BY <1>7, <1>o DEF Reconcile
  <2>2. CASE /\ Pending /\ machine.trial /\ home = journal.target
             /\ journal' = [journal EXCEPT !.state = "booting"]
             /\ Stage1Done("service") /\ UNCHANGED <<esp, writer>>
    <3>1. journal'.state = "booting" /\ journal'.target = journal.target
      BY <1>2, <2>2 DEF Journals
    <3>2. sup'.pc = "service" /\ SameBoot /\ UNCHANGED <<image, ghost>>
      BY <1>7, <1>c, <1>m, <2>2 DEF Reconcile, Stage1Done
    <3>3. Fit(r, ghost', journal', image)
      BY <1>1, <3>1, <3>2 DEF Fit
    <3>4. RunInv'
      BY <1>r, <2>1, <2>2, <3>2
    <3>5. SupInv' /\ sup'.pc \notin SupWaits \cup {"undoing", "reboot"}
      BY <3>2 DEF SupInv, SupWaits, Judging
    <3> QED
      BY <1>1, <1>3, <2>1, <2>2, <3>2, <3>3, <3>4, <3>5, SupervisorGoes
  <2>3. CASE /\ Pending /\ home # journal.target
             /\ StartWrite("supervisor", Stabilised(r, home), "a")
             /\ Continue("reverting") /\ UNCHANGED <<esp, journal, machine>>
    <3> DEFINE rec == Stabilised(r, home)
    <3>1. /\ rec \in Controls /\ Supersedes(rec, r) /\ rec.active = home
          /\ rec.phase = "stable" /\ ~rec.edl /\ ~rec.normal
      BY <1>1, <1>2, Changed DEF Stabilised, Policy
    <3>2. journal.state # "committed"
      BY <2>3 DEF Pending
\* A trial is of the slot that the journal waits for.
    <3>3. ~machine.trial /\ r.active = home
      BY <1>1, <2>1, <2>3 DEF RunInv, Decided, OnTrial, OnDefault, Fit
    <3>4. Fit(rec, ghost, journal, image)
      BY <1>1, <3>1, <3>2, <3>3 DEF Fit
    <3>5. sup'.pc = "reverting" /\ SameBoot /\ UNCHANGED <<image, ghost>>
      BY <1>7, <1>c, <1>m, <2>3 DEF Reconcile
    <3>6. RunInv'
      BY <1>r, <2>1, <2>3, <3>5
    <3>7. writer'["supervisor"].rec = rec => SupInv'
      BY <2>3, <3>1, <3>2, <3>3, <3>5 DEF SupInv, Judging, SameBoot
    <3> HIDE DEF rec
    <3> QED
      BY <1>1, <1>3, <2>1, <2>3, <3>1, <3>4, <3>5, <3>6, <3>7, SupervisorWrites
      DEF SupWaits, Slots, rec
  <2>4. CASE Stage1Done("service") /\ UNCHANGED <<esp, writer, journal>>
    BY <1>7, <1>c, <1>m, <1>g, <2>1, <2>4 DEF Reconcile, Stage1Done
  <2> QED
    BY <1>1, <1>7, <2>2, <2>3, <2>4 DEF Reconcile
<1>8. CASE Reverted
  <2>1. machine.mode = "linux" /\ sup.pc = "reverting" /\ writer["supervisor"].at = NoSlot
    BY <1>8, <1>o DEF Reverted
  <2>2. Recorded /\ r.phase = "stable"
    BY <1>1, <2>1, RecordedIs DEF SupInv, SupWaits
  <2>3. journal' = [journal EXCEPT !.state = "rolled_back"]
        /\ UNCHANGED <<esp, writer, image, ghost>>
    BY <1>8, <2>2 DEF Reverted
  <2>4. journal'.state = "rolled_back"
    BY <1>2, <2>3 DEF Journals
  <2>5. sup'.pc = "service" /\ SameBoot
    BY <1>8, <1>c, <1>m DEF Reverted, Stage1Done
  <2>6. Fit(r, ghost', journal', image)
    BY <1>1, <2>2, <2>3, <2>4 DEF Fit
  <2>7. RunInv'
    BY <1>r, <2>1, <2>3, <2>5
  <2>8. SupInv' /\ sup'.pc \notin SupWaits \cup {"undoing", "reboot"}
    BY <2>5 DEF SupInv, SupWaits, Judging
  <2> QED
    BY <1>1, <1>3, <2>1, <2>3, <2>5, <2>6, <2>7, <2>8, SupervisorGoes
\* It goes on judging this boot.
<1>j. ASSUME machine.mode = "linux", sup.pc \notin {"committing", "save", "done"},
             writer["supervisor"].at = NoSlot, SameBoot,
             UNCHANGED <<esp, writer, image, journal, ghost>>,
             sup'.pc \in {"health", "disarm"},
             Releases(image, home) \cap Healthy # {},
             machine.trial => journal.state = "booting" /\ sup'.doc = journal
      PROVE  DeviceInv'
  <2>1. SupInv' /\ sup'.pc \notin SupWaits \cup {"undoing", "reboot"}
    BY <1>j DEF SupInv, SupWaits, Judging, SameBoot
  <2>2. RunInv'
    BY <1>j, <1>r
  <2> QED
    BY <1>1, <1>3, <1>j, <2>1, <2>2, SupervisorGoes
<1>9. CASE Service
  <2>1. /\ machine.mode = "linux" /\ sup.pc = "service" /\ writer["supervisor"].at = NoSlot
        /\ SameBoot /\ UNCHANGED <<esp, writer, image, journal, ghost>>
    BY <1>9, <1>o, <1>m DEF Service, Silently
  <2>2. CASE /\ HealthyBoot /\ (machine.trial => TrialExpected)
             /\ sup' = [sup EXCEPT !.pc = "health", !.doc = journal]
    <3>1. sup'.pc = "health" /\ sup'.doc = journal
      BY <1>2, <2>2 DEF Sups
    <3>2. Releases(image, home) \cap Healthy # {}
      BY <2>2 DEF HealthyBoot, Sound, Releases
    <3> QED
      BY <1>j, <2>1, <2>2, <3>1, <3>2 DEF TrialExpected
  <2>3. CASE Continue("wait")
    BY <1>c, <1>g, <2>1, <2>3
  <2> QED
    BY <1>9, <2>2, <2>3 DEF Service
<1>10. CASE RecordHealth
  <2>1. CASE Continue("wait") /\ Silently
    BY <1>10, <1>o, <1>c, <1>m, <1>g, <2>1 DEF RecordHealth, Silently
  <2> QED
    BY <1>10, <1>o, <1>w, <2>1 DEF RecordHealth
<1>11. CASE HealthRecorded
  <2>1. /\ machine.mode = "linux" /\ sup.pc = "health-writing"
        /\ writer["supervisor"].at = NoSlot
    BY <1>11, <1>o DEF HealthRecorded
  <2>2. Recorded
    BY <2>1, RecordedIs DEF SupWaits
  <2>3. /\ sup'.pc = "disarm" /\ sup'.doc = sup.doc /\ SameBoot
        /\ UNCHANGED <<esp, writer, image, journal, ghost>>
    BY <1>11, <1>c, <1>m, <2>2 DEF HealthRecorded, StageRecorded
  <2> QED
    BY <1>1, <1>j, <2>1, <2>3 DEF SupInv, Judging
\* What a boot has shown only adds to what is known.
<1>p. Passing = Releases(image, home) \cap Healthy
  BY ImagesAssumption DEF Passing, Sound, Releases
<1>12. CASE Disarm
  <2>1. /\ machine.mode = "linux" /\ sup.pc = "disarm" /\ writer["supervisor"].at = NoSlot
    BY <1>12, <1>o DEF Disarm
  <2>2. /\ SameBoot /\ UNCHANGED <<esp, writer, image, journal>>
        /\ sup'.doc = sup.doc
        /\ sup'.pc \in {IF machine.trial THEN "commit" ELSE "done", "wait"}
    BY <1>12, <1>c, <1>m DEF Disarm, AfterDisarm
  <2>3. Releases(image, home) \cap Healthy # {}
        /\ (machine.trial => journal.state = "booting" /\ sup.doc = journal)
    BY <1>1, <2>1 DEF SupInv, Judging
  <2>4. /\ ghost'.overruled = ghost.overruled
        /\ ghost'.trials = ghost.trials /\ ghost'.edls = ghost.edls
        /\ ghost'.normals = ghost.normals /\ ghost.proven \subseteq ghost'.proven
        /\ machine.trial => ghost'.promoted = ghost.promoted
        /\ ~machine.trial => Releases(image, home) \cap ghost'.proven # {}
    BY <1>2, <1>12, <1>p, <2>3 DEF Disarm, Ghosts, Machines
  <2>5. ~machine.trial => r.active = home /\ r.phase # "attempted"
    BY <1>1, <2>1 DEF RunInv, OnDefault
  <2>6. Fit(r, ghost', journal, image)
    BY <1>1, <2>4, <2>5 DEF Fit
  <2>7. RunInv'
    BY <1>1, <2>1, <2>2, <2>5 DEF RunInv, Decided, OnTrial, OnDefault, SameBoot
  <2>8. SupInv' /\ sup'.pc \notin SupWaits \cup {"undoing", "reboot"}
    BY <2>2, <2>3, <2>4 DEF SupInv, SupWaits, Judging, SameBoot
  <2> QED
    BY <1>1, <1>3, <2>1, <2>2, <2>4, <2>6, <2>7, <2>8, SupervisorGoes
<1>13. CASE Commit
  <2> DEFINE rec == Stabilised(r, home)
  <2>1. /\ machine.mode = "linux" /\ sup.pc = "commit" /\ writer["supervisor"].at = NoSlot
        /\ machine.trial /\ journal.state = "booting" /\ sup.doc = journal
        /\ Releases(image, home) \cap Healthy # {}
    BY <1>1, <1>13, <1>o DEF Commit, SupInv, Judging
  <2>2. /\ StartWrite("supervisor", rec, "a") /\ sup'.pc = "committing" /\ sup'.doc = sup.doc
        /\ SameBoot /\ UNCHANGED <<esp, image, journal>>
    BY <1>1, <1>13, <1>c, <1>m DEF Commit, CommitRecord
  <2>3. /\ ghost'.overruled = ghost.overruled /\ ghost'.promoted = ghost.promoted
        /\ ghost'.trials = ghost.trials /\ ghost'.edls = ghost.edls
        /\ ghost'.normals = ghost.normals /\ ghost.proven \subseteq ghost'.proven
        /\ Releases(image, home) \cap ghost'.proven # {}
    BY <1>2, <1>13, <1>p, <2>1 DEF Commit, Ghosts
  <2>4. /\ rec \in Controls /\ Supersedes(rec, r) /\ rec.active = home
        /\ rec.phase = "stable" /\ ~rec.edl /\ ~rec.normal
    BY <1>1, <1>2, Changed DEF Stabilised, Policy
  <2>5. Spent(ghost') /\ Fit(rec, ghost', journal, image)
    BY <1>1, <2>1, <2>3, <2>4 DEF Fit
  <2>6. RunInv'
    BY <1>r, <2>1, <2>2
  <2>7. writer'["supervisor"].rec = rec => SupInv'
    BY <2>1, <2>2, <2>3, <2>4 DEF SupInv, Judging, SameBoot
  <2> HIDE DEF rec
  <2> QED
    BY <1>3, <2>1, <2>2, <2>4, <2>5, <2>6, <2>7, SupervisorWrites DEF SupWaits, Slots
<1>14. CASE Committed
  <2>1. /\ machine.mode = "linux" /\ sup.pc = "committing"
        /\ writer["supervisor"].at = NoSlot /\ machine.trial
        /\ journal.state = "booting" /\ sup.doc = journal
        /\ Releases(image, home) \cap ghost.proven # {}
    BY <1>1, <1>14, <1>o DEF Committed, SupInv, Judging
  <2>2. Recorded /\ r.phase = "stable" /\ r.active = home
    BY <1>1, <2>1, RecordedIs DEF SupInv, SupWaits
  <2>3. /\ sup'.pc = "save" /\ sup'.doc = sup.doc /\ SameBoot
        /\ UNCHANGED <<esp, writer, image, journal, ghost>>
    BY <1>14, <1>c, <1>m, <2>2 DEF Committed
  <2>4. RunInv'
    BY <1>1, <2>1, <2>2, <2>3 DEF RunInv, Decided, OnDefault, SameBoot
  <2>5. SupInv' /\ sup'.pc \notin SupWaits \cup {"undoing", "reboot"}
    BY <2>1, <2>2, <2>3 DEF SupInv, SupWaits, Judging, SameBoot
  <2> QED
    BY <1>1, <1>3, <2>1, <2>3, <2>4, <2>5, SupervisorGoes
<1>15. CASE CommitUndone
  BY <1>1, <1>15, <1>o DEF CommitUndone, ModeInv
<1>16. CASE SaveCommitted
  <2>1. /\ machine.mode = "linux" /\ sup.pc = "save" /\ writer["supervisor"].at = NoSlot
        /\ r.phase = "stable" /\ Releases(image, home) \cap ghost.proven # {}
    BY <1>1, <1>16, <1>o DEF SaveCommitted, SupInv
  <2>2. r.active = home
    BY <1>1, <2>1 DEF RunInv, Decided, OnDefault
  <2>3. /\ journal' = [sup.doc EXCEPT !.state = "committed", !.active = home]
        /\ sup'.pc = "done" /\ SameBoot /\ UNCHANGED <<esp, writer, image>>
        /\ ghost' = [ghost EXCEPT !.overruled = FALSE]
    BY <1>16, <1>c, <1>m DEF SaveCommitted
  <2>4. journal'.active = home
    BY <1>2, <2>3 DEF Journals
  <2>5. /\ ghost'.promoted = ghost.promoted
        /\ ghost'.trials = ghost.trials /\ ghost'.edls = ghost.edls
        /\ ghost'.normals = ghost.normals /\ ghost'.proven = ghost.proven
    BY <1>2, <2>3 DEF Ghosts
  <2>6. Fit(r, ghost', journal', image) /\ Counts(ghost')
    BY <1>1, <2>1, <2>2, <2>4, <2>5 DEF Fit
  <2>7. RunInv'
    BY <1>1, <2>1, <2>2, <2>3 DEF RunInv, Decided, OnDefault, SameBoot
  <2>8. SupInv' /\ sup'.pc \notin SupWaits \cup {"undoing", "reboot"}
    BY <2>1, <2>3, <2>5 DEF SupInv, SupWaits, Judging, SameBoot
  <2> QED
    BY <1>3, <2>1, <2>3, <2>6, <2>7, <2>8, SupervisorGoes
<1> QED
  BY <1>4, <1>5, <1>6, <1>7, <1>8, <1>9, <1>10, <1>11, <1>12, <1>13, <1>14, <1>15, <1>16
  DEF Supervising, SupervisorNext

-----------------------------------------------------------------------------
LEMMA InitInv == Init => DeviceInv
<1> SUFFICES ASSUME Init PROVE DeviceInv
  OBVIOUS
<1>1. StoreInit /\ StoreInv /\ Selected(esp) = FactoryRecord
  BY StoreInitInv DEF Init, DeviceInit
<1>2. /\ machine.mode = "off" /\ sel.pc = "off" /\ upd.pc = "idle" /\ sup.pc = "off"
      /\ \A p \in Writers : writer[p].at = NoSlot
  BY <1>1 DEF Init, DeviceInit, Dark, NoSelector, NoUpdate, NoSupervisor, StoreInit, NoWrite
<1>3. /\ Selected(esp).active = "a" /\ Selected(esp).phase = "stable"
      /\ ~Selected(esp).edl
  BY <1>1 DEF FactoryRecord, ImageRecord, Policy
<1>4. Factory \in Images /\ Factory # Partial
  BY ImagesAssumption
<1>5. Factory \in Releases(image, "a") /\ Loads(image, "a")
  BY <1>4 DEF Init, DeviceInit, Releases, Loads, Slots
<1>6. FitInv
  BY <1>2, <1>3, <1>5, WritersAre DEF Init, DeviceInit, FitInv, Fit, NoJournal, Slots
<1>7. ModeInv
  BY <1>2, WritersAre DEF ModeInv
<1>8. WaitInv /\ SelInv /\ RunInv /\ SupInv /\ UpdInv
  BY <1>2 DEF WaitInv, SelInv, RunInv, SupInv, UpdInv, SelWaits, UpdWaits, SupWaits, Judging,
     Writes
<1> QED
  BY <1>1, <1>6, <1>7, <1>8 DEF DeviceInv

LEMMA StepInv == Orderly /\ TypeInv /\ DeviceInv /\ [Next]_vars => DeviceInv'
<1> SUFFICES ASSUME Orderly, TypeInv, DeviceInv, [Next]_vars PROVE DeviceInv'
  OBVIOUS
<1>1. CASE UNCHANGED vars
  <2>1. UNCHANGED <<esp, writer, image, journal, machine, ghost, sel, upd, sup>>
    BY <1>1 DEF vars, deviceVars
  <2>2. StoreInv'
    BY <2>1, StoreStep DEF DeviceInv, storeVars
  <2>3. FitInv' /\ ModeInv' /\ WaitInv'
    BY <2>1 DEF DeviceInv, FitInv, ModeInv, WaitInv
  <2>4. SelInv' /\ RunInv'
    BY <2>1 DEF DeviceInv, SelInv, ChoiceOK, RunInv, Decided, OnTrial, OnDefault
  <2>5. SupInv' /\ UpdInv'
    BY <2>1 DEF DeviceInv, SupInv, UpdInv
  <2> QED
    BY <2>2, <2>3, <2>4, <2>5 DEF DeviceInv
<1>2. CASE \E p \in Writers : CopyStep(p)
  BY <1>2, CopyInv
<1>3. CASE Selecting
  BY <1>3, SelectorInv
<1>4. CASE Commanding \/ Updating
  BY <1>4, UpdaterInv
<1>5. CASE Supervising
  BY <1>5, SupervisorInv
<1>6. CASE Board
  BY <1>6, BoardInv
<1> QED
  BY <1>1, <1>2, <1>3, <1>4, <1>5, <1>6 DEF Next, Board

\* Whatever the power does, the device stays in a state that every program, and
\* the next boot, can go on from.
THEOREM DeviceInvariant == Orderly => (Spec => [](TypeInv /\ DeviceInv))
<1> SUFFICES ASSUME Orderly PROVE Spec => [](TypeInv /\ DeviceInv)
  OBVIOUS
<1>1. Init => TypeInv /\ DeviceInv
  BY InitTyped, InitInv
<1>2. TypeInv /\ DeviceInv /\ [Next]_vars => (TypeInv /\ DeviceInv)'
  BY StepTyped, StepInv
<1> QED
  BY <1>1, <1>2, PTL DEF Spec

\* What the invariant says of the properties.
LEMMA KnownIs ==
  /\ \A s : Known(s) <=> Releases(image, s) \cap ghost.proven # {}
  /\ \A s : (\E v \in Images : Sound(s, v)) <=> Releases(image, s) # {}
  /\ \A s : Bootable(s) <=> Loads(image, s)
BY DEF Known, Sound, Releases, Bootable, Loads

LEMMA InvImplies ==
  TypeInv /\ DeviceInv =>
    /\ KnownGoodDefault /\ TrialVerified /\ OneShot /\ CommittedIsDurable
    /\ BootRestoresCopies
<1> SUFFICES ASSUME TypeInv, DeviceInv
             PROVE  /\ KnownGoodDefault /\ TrialVerified /\ OneShot /\ CommittedIsDurable
                    /\ BootRestoresCopies
  OBVIOUS
<1>1. FitInv /\ SelInv /\ ghost \in Ghosts
  BY DEF DeviceInv, TypeInv, TypeOK, TypeOKDevice
<1>2. KnownGoodDefault
  BY <1>1, KnownIs DEF KnownGoodDefault, FitInv, Fit
<1>3. TrialVerified
  BY <1>1, KnownIs DEF TrialVerified, FitInv, Fit
<1>4. OneShot
  BY <1>1 DEF OneShot, FitInv
<1>5. CommittedIsDurable
  BY <1>1 DEF CommittedIsDurable, FitInv, Fit
<1>6. BootRestoresCopies
  BY <1>1 DEF BootRestoresCopies, At, SelInv, Bootable, Loads, Slots
<1> QED
  BY <1>2, <1>3, <1>4, <1>5, <1>6

\* The slot that boots by default holds one complete release that has passed a
\* healthy boot, through installs, trials and power cuts: install() writes only
\* the other slot, and vamosboot attempts a trial without changing the default.
THEOREM GoodDefault == Orderly => (Spec => []KnownGoodDefault)
<1> SUFFICES ASSUME Orderly PROVE Spec => []KnownGoodDefault
  OBVIOUS
<1>1. TypeInv /\ DeviceInv => KnownGoodDefault
  BY InvImplies
<1> QED
  BY <1>1, DeviceInvariant, PTL

\* A trial that the record names is on a slot that was completely written and
\* verified: install() cancels a staged trial before it overwrites its slot.
THEOREM VerifiedTrial == Orderly => (Spec => []TrialVerified)
<1> SUFFICES ASSUME Orderly PROVE Spec => []TrialVerified
  OBVIOUS
<1>1. TypeInv /\ DeviceInv => TrialVerified
  BY InvImplies
<1> QED
  BY <1>1, DeviceInvariant, PTL

\* A trial, an EDL request and a normal-boot request each take effect at most
\* once: vamosboot consumes them on record before it acts on them.
THEOREM RequestsOnce == Orderly => (Spec => []OneShot)
<1> SUFFICES ASSUME Orderly PROVE Spec => []OneShot
  OBVIOUS
<1>1. TypeInv /\ DeviceInv => OneShot
  BY InvImplies
<1> QED
  BY <1>1, DeviceInvariant, PTL

\* An update that the journal calls committed is the default of the record:
\* commit_boot() comes before the journal, and nothing writes an older policy.
THEOREM CommitLasts == Orderly => (Spec => []CommittedIsDurable)
<1> SUFFICES ASSUME Orderly PROVE Spec => []CommittedIsDurable
  OBVIOUS
<1>1. TypeInv /\ DeviceInv => CommittedIsDurable
  BY InvImplies
<1> QED
  BY <1>1, DeviceInvariant, PTL

\* A boot that has opened its diagnostics on both ESPs has made their records
\* equal again: vamos_persist writes the whole record to each.
THEOREM CopiesRestored == Orderly => (Spec => []BootRestoresCopies)
<1> SUFFICES ASSUME Orderly PROVE Spec => []BootRestoresCopies
  OBVIOUS
<1>1. TypeInv /\ DeviceInv => BootRestoresCopies
  BY InvImplies
<1> QED
  BY <1>1, DeviceInvariant, PTL

-----------------------------------------------------------------------------
\* The composed device keeps the promise of the store.  Only a copy of a write
\* changes the selection.
LEMMA UpdaterChanges ==
  ASSUME TypeInv, DeviceInv, Updating \/ Commanding
  PROVE  /\ Selected(esp') = Selected(esp)
         /\ ghost'.proven = ghost.proven /\ ghost'.promoted = ghost.promoted
         /\ \/ image' = image
            \/ /\ machine.mode = "linux" /\ sup.pc = "done" /\ Selected(esp).phase = "stable"
               /\ image'[machine.slot] = image[machine.slot]
<1>0. /\ ghost \in Ghosts /\ esp \in [Slots -> Copies] /\ image \in [Slots -> Contents]
      /\ machine.slot \in Slots /\ StoreInv /\ ModeInv /\ UpdInv /\ upd.doc.target \in Slots
  BY MachinesTyped, JournalsTyped DEF TypeInv, TypeOK, TypeOKDevice, TypeOKStore, DeviceInv,
     TypeOKUpdater
<1>1. CASE WriteSystem \/ SystemWritten \/ WriteEsp \/ EspWritten
  <2> DEFINE t == upd.doc.target
  <2>1. /\ machine.mode = "linux"
        /\ upd.pc \in {"system", "system-writing", "esp", "esp-writing"}
        /\ ghost' = ghost
        /\ \A s \in Slots \ {t} : image'[s] = image[s]
        /\ \/ esp' = esp
           \/ \E copy \in {esp[t], Damaged, ImageRecord} : esp' = [esp EXCEPT ![t] = copy]
    BY <1>0, <1>1 DEF WriteSystem, SystemWritten, WriteEsp, EspWritten, In, Running
  <2>2. /\ sup.pc = "done" /\ t = Peer(machine.slot) /\ Selected(esp).phase = "stable"
        /\ esp[machine.slot] = Selected(esp)
    BY <1>0, <2>1 DEF ModeInv, UpdInv, Writes
  <2>3. ASSUME NEW copy \in {esp[t], Damaged, ImageRecord}, esp' = [esp EXCEPT ![t] = copy]
        PROVE  Selected(esp') = Selected(esp)
    <3>1. Overwrite(t, copy)
      BY <1>0, <2>2, <2>3, PeersAre DEF Overwrite, Expendable
    <3> QED
      BY <1>0, <3>1, OverwriteKeeps
  <2>4. image'[machine.slot] = image[machine.slot]
    BY <1>0, <2>1, <2>2, PeersAre
  <2> QED
    BY <2>1, <2>2, <2>3, <2>4
<1>2. CASE ~(WriteSystem \/ SystemWritten \/ WriteEsp \/ EspWritten)
  <2>1. CASE UpdaterCommands
    BY <1>0, <2>1 DEF UpdaterCommands, RequestRecovery, SetUsbMode, Install, Activate, Write,
       Ghosts
  <2>2. CASE UpdaterNext
    BY <1>0, <1>2, <2>2 DEF UpdaterNext, Requested, Cancelled, InstallSelector, SelectorDone,
       Validate, InstallFails, Arm, ArmDone, Undo, Undone, Write, deviceVars, Ghosts
  <2> QED
    BY <2>1, <2>2 DEF Updating, Commanding
<1> QED
  BY <1>1, <1>2

\* What the supervision and the board leave of what the protocol speaks of.
LEMMA SupervisorChanges ==
  ASSUME TypeInv, Supervising
  PROVE  /\ UNCHANGED <<esp, image>>
         /\ ghost'.promoted => ghost.promoted
         /\ ~Disarm /\ ~Commit => ghost'.proven = ghost.proven
<1>1. ghost \in Ghosts
  BY DEF TypeInv, TypeOK, TypeOKDevice
<1> QED
  BY <1>1 DEF Supervising, SupervisorNext, StartUp, RecordUserspace, UserspaceRecorded,
     Reconcile, Reverted, Service, RecordHealth, HealthRecorded, Disarm, Commit, Committed,
     CommitUndone, SaveCommitted, RecordStage, StageRecorded, Silently, Ghosts

LEMMA BoardChanges ==
  ASSUME DeviceInv, TypeInv, Board
  PROVE  /\ Selected(esp') = Selected(esp)
         /\ image' = image
         /\ ghost'.proven = ghost.proven /\ ghost'.promoted = ghost.promoted
<1>1. StoreInv /\ ghost \in Ghosts
  BY DEF TypeInv, TypeOK, TypeOKDevice, DeviceInv
<1>2. CASE Off
  BY <1>1, <1>2, OutageKeeps DEF Off
<1>3. CASE MediaLoss
  BY <1>1, <1>3, OverwriteKeeps DEF MediaLoss, Overwrite
<1>4. CASE PowerOn \/ NormalRequest
  BY <1>1, <1>4 DEF PowerOn, NormalRequest, Ghosts
<1> QED
  BY <1>2, <1>3, <1>4 DEF Board, PowerCut, Reboot, Restart, WatchdogReset, EdlExit

\* The record that the whole device reads and writes changes in single steps,
\* each to a record that supersedes the one before.
THEOREM DeviceRecordAtomic == Orderly => (Spec => AtomicRecord)
<1> SUFFICES ASSUME Orderly PROVE Spec => AtomicRecord
  OBVIOUS
<1>1. Init => Atomic!Init
  BY StoreInitInv DEF Init, DeviceInit, Atomic!Init, Atomic!FactoryRecord, Atomic!ImageRecord,
     Atomic!NoSlot, Atomic!Policy, Policy, FactoryRecord, ImageRecord, NoSlot
<1>2. TypeInv /\ DeviceInv /\ [Next]_vars => [Atomic!Next]_(Selected(esp))
  <2> SUFFICES ASSUME TypeInv, DeviceInv, [Next]_vars PROVE [Atomic!Next]_(Selected(esp))
    OBVIOUS
  <2>1. CASE \E p \in Writers : CopyStep(p)
    BY <2>1, CopyKeeps
  <2>2. CASE ~\E p \in Writers : CopyStep(p)
    <3>1. Selected(esp') = Selected(esp)
      BY <2>2, SelectorFrame, UpdaterChanges, SupervisorChanges, BoardChanges
      DEF Next, Board, vars, deviceVars
    <3> QED
      BY <3>1
  <2> QED
    BY <2>1, <2>2
<1> QED
  BY <1>1, <1>2, DeviceInvariant, PTL DEF Spec, AtomicRecord, Atomic!Spec

-----------------------------------------------------------------------------
\* Without the faults that make U-Boot give up on a slot, it never promotes the
\* other one.
Undisturbed == Orderly /\ "load" \notin FaultKinds /\ "edl" \notin FaultKinds

PlainInv == ~ghost.promoted /\ sel.pc \notin {"fail", "failed"}

\* The slot that U-Boot chooses loads: it is the known-good one or a verified one.
LEMMA SelectorPlain ==
  ASSUME Undisturbed, TypeInv, DeviceInv, PlainInv, Selecting
  PROVE  PlainInv'
<1> DEFINE r == Selected(esp)
           Plain == sel'.pc \notin {"fail", "failed"}
<1>1. /\ machine.mode = "uboot" /\ writer["uboot"].at = NoSlot
      /\ ~Fail => ghost'.promoted = ghost.promoted
  BY SelectorFrame
<1>2. /\ r \in Controls /\ Readable(esp) /\ SelInv /\ Fit(r, ghost, journal, image)
      /\ ~Fault("load") /\ ~Fault("edl")
  BY SelectionIs DEF DeviceInv, FitInv, Fault, Undisturbed
<1>3. /\ sel \in [pc : SelectorSteps, mem : Copies, slot : Slots, tag : Tags, again : BOOLEAN]
  BY DEF TypeInv, TypeOK, TypeOKSelector
<1>4. ASSUME NEW pc, Goto(pc), pc \notin {"fail", "failed"} PROVE Plain
  BY <1>3, <1>4 DEF Goto
<1>5. ASSUME NEW mode, Leave(mode) PROVE Plain
  BY <1>5 DEF Leave, NoSelector
<1>6. ASSUME NEW next, EnterEdl(next) PROVE Plain
  BY <1>2, <1>5, <1>6 DEF EnterEdl
<1>7. ASSUME NEW rec, NEW pc, Persist(rec, pc), pc \notin {"fail", "failed"} PROVE Plain
  BY <1>3, <1>7 DEF Persist
<1>8. ASSUME NEW slot, NEW tag, Choose(slot, tag) PROVE Plain
  BY <1>3, <1>8 DEF Choose
<1>9. SelectorNext /\ sel.pc \notin {"fail", "failed"}
  BY DEF Selecting, PlainInv
<1> SUFFICES Plain
  <2>1. ~Fail
    BY <1>9 DEF Fail, At
  <2> QED
    BY <1>1, <2>1 DEF PlainInv
<1>10. sel.pc \in SelWaits => Took
  BY <1>1, TookIs
<1>11. CASE Probe
  BY <1>4, <1>11 DEF Probe
<1>12. CASE UsbCheck \/ UsbNormal \/ UsbEdl
  BY <1>4, <1>6, <1>7, <1>12 DEF UsbCheck, UsbNormal, UsbEdl
<1>13. CASE Select
  BY <1>2, <1>3, <1>7, <1>13 DEF Select
<1>14. CASE NormalTaken
  BY <1>4, <1>10, <1>14 DEF NormalTaken, At, SelWaits
<1>15. CASE EdlTaken
  BY <1>6, <1>10, <1>15 DEF EdlTaken, At, SelWaits
<1>16. CASE Phase
  <2>1. sel.mem.phase \in {"armed", "attempted", "stable"}
    BY <1>16 DEF Phase, At, TypeInv, MemInv, Controls, ControlRecord, Phases
  <2>2. \/ Persist(Attempted(sel.mem), "trial")
        \/ Persist(RolledBack(sel.mem), "rollback")
        \/ Choose(sel.mem.active, "stable")
    BY <1>16, <2>1 DEF Phase
  <2> QED
    BY <1>7, <1>8, <2>2
<1>17. CASE Trial \/ Rollback
  BY <1>8, <1>17 DEF Trial, Rollback
<1>18. CASE Fail \/ FailBlind \/ Failed
  BY <1>9, <1>18 DEF Fail, FailBlind, Failed, At
<1>19. CASE OpenBoot
  BY <1>7, <1>19 DEF OpenBoot
\* The slot of its choice has a kernel: the default is known, the trial verified.
<1>20. CASE Load
  <2>1. sel.pc = "load"
    BY <1>20 DEF Load, At
  <2>2. Took /\ ChoiceOK /\ SamePolicy(sel.mem, r)
    BY <1>2, <1>10, <2>1 DEF SelInv, SelWaits
  <2>3. Releases(image, sel.slot) # {}
    BY <1>2, <2>2 DEF ChoiceOK, SamePolicy, Fit, PlainInv
  <2>4. PICK v \in Images : image[sel.slot] = [sys |-> v, esp |-> v]
    BY <2>3 DEF Releases
  <2>5. Bootable(sel.slot)
    BY <2>4, ImagesAssumption DEF Bootable
  <2> QED
    BY <1>2, <1>4, <1>20, <2>2, <2>5 DEF Load
<1>21. CASE Handoff
  BY <1>2, <1>4, <1>21 DEF Handoff
<1>22. CASE BootLinux
  BY <1>10, <1>22 DEF BootLinux, At, SelWaits, NoSelector
<1> QED
  BY <1>9, <1>11, <1>12, <1>13, <1>14, <1>15, <1>16, <1>17, <1>18, <1>19, <1>20, <1>21, <1>22
  DEF SelectorNext

LEMMA PlainStep == Undisturbed /\ TypeInv /\ DeviceInv /\ PlainInv /\ [Next]_vars => PlainInv'
<1> SUFFICES ASSUME Undisturbed, TypeInv, DeviceInv, PlainInv, [Next]_vars PROVE PlainInv'
  OBVIOUS
<1>1. CASE UNCHANGED vars \/ \E p \in Writers : CopyStep(p)
  BY <1>1 DEF vars, deviceVars, CopyStep, PlainInv
<1>2. CASE Selecting
  BY <1>2, SelectorPlain
<1>3. CASE Updating \/ Commanding
  BY <1>3, UpdaterChanges DEF Updating, Commanding, PlainInv
<1>4. CASE Supervising
  BY <1>4, SupervisorChanges DEF Supervising, PlainInv
<1>5. CASE Board
  <2>1. sel' = sel \/ sel'.pc \in {"off", "probe"}
    <3>1. CASE PowerOn
      BY <3>1 DEF PowerOn, TypeInv, TypeOK, TypeOKSelector
    <3> QED
      BY <1>5, <3>1 DEF Board, PowerCut, Reboot, Restart, WatchdogReset, EdlExit, MediaLoss,
         NormalRequest, Off, NoSelector
  <2> QED
    BY <1>5, <2>1, BoardChanges DEF PlainInv
<1> QED
  BY <1>1, <1>2, <1>3, <1>4, <1>5 DEF Next, Board

-----------------------------------------------------------------------------
\* The slots known to be good, of explicit state.
Good(im, proven) == {s \in Slots : Releases(im, s) \cap proven # {}}

LEMMA GoodIs ==
  /\ {s \in Slots : Known(s)} = Good(image, ghost.proven)
  /\ {s \in Slots : Known(s)}' = Good(image', ghost'.proven)
BY DEF Known, Sound, Good, Releases

\* A step of a write arms, attempts or ends a trial, or is a stutter.
LEMMA ProtocolCopies ==
  ASSUME Undisturbed, TypeInv, DeviceInv, PlainInv, NEW p \in Writers, CopyStep(p)
  PROVE  [Protocol!Next]_(Protocol!vars)
<1> DEFINE r == Selected(esp)
           n == Selected(esp')
           rec == writer[p].rec
           home == machine.slot
           good == {s \in Slots : Known(s)}
<1>1. /\ SelInv /\ RunInv /\ UpdInv /\ SupInv /\ FitInv /\ ModeInv
      /\ r \in Controls /\ sel.pc # "failed"
  BY SelectionIs DEF DeviceInv, PlainInv
<1>2. n \in {r, rec} /\ writer[p].at # NoSlot
  BY CopyKeeps DEF Undisturbed
<1>3. good' = good
  BY GoodIs DEF CopyStep
<1>4. r.phase # "stable" => r.pending = Peer(r.active)
  BY <1>1 DEF Controls, Valid
\* What becomes of the protocol's variables.
<1>5. ASSUME \/ n.active = r.active /\ n.phase = r.phase
             \/ n.active = r.active /\ n.phase = "stable" /\ r.phase # "stable"
             \/ n.active = r.active /\ n.phase = "armed" /\ r.phase = "stable"
             \/ n.active = r.active /\ n.phase = "attempted" /\ r.phase = "armed"
             \/ /\ n.active = Peer(r.active) /\ n.phase = "stable" /\ r.phase = "attempted"
                /\ Peer(r.active) \in good
      PROVE  [Protocol!Next]_(Protocol!vars)
  BY <1>3, <1>5 DEF Protocol!Next, Protocol!vars, Protocol!Cancel, Protocol!Arm, Protocol!Try,
     Protocol!Commit, Protocol!Peer, Peer
<1>6. CASE n = r
  BY <1>5, <1>6
<1>7. CASE n = rec /\ p = "uboot"
  <2>1. sel.pc \in SelWaits
    BY <1>1, <1>2, <1>7 DEF ModeInv
  <2>2. CASE sel.pc \in {"usb-normal", "usb-edl", "normal", "edl", "load", "boot"}
    BY <1>1, <1>5, <1>7, <2>2 DEF SelInv, SelWaits, SamePolicy, Staged, Diagnosis
  <2>3. CASE sel.pc = "trial"
    <3>1. sel.mem.phase = "attempted"
      BY <2>3 DEF TypeInv, MemInv
    <3> QED
      BY <1>1, <1>5, <1>7, <2>3, <3>1 DEF SelInv, SelWaits
  <2>4. CASE sel.pc = "rollback"
    BY <1>1, <1>5, <1>7, <2>4 DEF SelInv, SelWaits
  <2> QED
    BY <1>1, <2>1, <2>2, <2>3, <2>4 DEF SelWaits
<1>8. CASE n = rec /\ p = "updater"
  <2>1. upd.pc \in UpdWaits /\ r.active = home /\ r.phase \in {"armed", "stable"}
    BY <1>1, <1>2, <1>8
    DEF ModeInv, RunInv, Decided, OnDefault, UpdWaits, Controls, ControlRecord, Phases
  <2>2. rec.active = home /\ (rec.phase \in {"armed", "stable"} \/ rec.phase = r.phase)
    BY <1>1, <1>8, <2>1 DEF UpdInv, UpdWaits, SamePolicy
  <2> QED
    BY <1>5, <1>8, <2>1, <2>2
<1>9. CASE n = rec /\ p = "supervisor"
  <2>1. sup.pc \in SupWaits /\ machine.mode = "linux"
    BY <1>1, <1>2, <1>9 DEF ModeInv, SupWaits
  <2>2. CASE sup.pc \in {"userspace-writing", "health-writing"}
    BY <1>1, <1>5, <1>9, <2>2 DEF SupInv, SamePolicy
  <2>3. CASE sup.pc \in {"reverting", "committing"} /\ OnDefault
    BY <1>1, <1>5, <1>9, <2>3 DEF SupInv, OnDefault
  <2>4. CASE sup.pc \in {"reverting", "committing"} /\ ~OnDefault
    <3>1. sup.pc = "committing" /\ OnTrial
      BY <1>1, <2>1, <2>4 DEF RunInv, SupInv, Decided
    <3>2. home \in good
      <4>1. home \in Slots
        BY MachinesTyped DEF TypeInv, TypeOK, TypeOKDevice
      <4> QED
        BY <1>1, <3>1, <4>1, KnownIs DEF SupInv
    <3> QED
      BY <1>1, <1>4, <1>5, <1>9, <3>1, <3>2 DEF SupInv, OnTrial
  <2> QED
    BY <2>1, <2>2, <2>3, <2>4 DEF SupWaits
<1>10. CASE n = rec /\ p = "host"
  BY <1>1, <1>2, <1>5, <1>10 DEF FitInv, SamePolicy
<1> QED
  BY <1>2, <1>6, <1>7, <1>8, <1>9, <1>10, WriterCases

\* Each step of the device maps to one of the protocol.
LEMMA ProtocolStep ==
  ASSUME Undisturbed, TypeInv, DeviceInv, PlainInv, [Next]_vars
  PROVE  [Protocol!Next]_(Protocol!vars)
<1> DEFINE r == Selected(esp)
           home == machine.slot
           good == {s \in Slots : Known(s)}
<1>1. /\ RunInv /\ SupInv /\ FitInv /\ r \in Controls /\ ~ghost.promoted
      /\ home \in Slots /\ r.active \in Slots
      /\ machine \in Machines /\ ghost \in Ghosts
  BY SelectionIs, MachinesTyped
  DEF DeviceInv, PlainInv, TypeInv, TypeOK, TypeOKDevice, Controls, ControlRecord
<1>2. Releases(image, r.active) \cap ghost.proven # {} /\ r.active \in good
  BY <1>1, KnownIs DEF FitInv, Fit
<1>3. good = Good(image, ghost.proven) /\ good' = Good(image', ghost'.proven)
  BY GoodIs
<1>4. ASSUME Selected(esp') = r, image' = image, ghost'.proven = ghost.proven
      PROVE  [Protocol!Next]_(Protocol!vars)
  BY <1>3, <1>4 DEF Protocol!vars
<1>5. CASE UNCHANGED vars
  BY <1>4, <1>5 DEF vars, deviceVars
<1>6. CASE \E p \in Writers : CopyStep(p)
  BY <1>6, ProtocolCopies
<1>7. CASE Selecting
  BY <1>4, <1>7, SelectorFrame
<1>8. CASE Board
  BY <1>4, <1>8, BoardChanges
<1>9. CASE Updating \/ Commanding
  <2>1. CASE image' = image
    BY <1>4, <1>9, <2>1, UpdaterChanges
  <2>2. CASE image' # image
    <3>1. /\ Selected(esp') = r /\ ghost'.proven = ghost.proven
          /\ machine.mode = "linux" /\ sup.pc = "done" /\ r.phase = "stable"
          /\ image'[home] = image[home]
      BY <1>9, <2>2, UpdaterChanges
    <3>2. r.active = home
      BY <1>1, <3>1 DEF RunInv, Decided, OnDefault
    <3>3. r.active \in good'
      BY <1>1, <1>2, <1>3, <3>1, <3>2 DEF Good, Releases
    <3>4. good' \in SUBSET Slots
      BY <1>3 DEF Good
    <3> QED
      BY <3>1, <3>3, <3>4 DEF Protocol!Next, Protocol!vars, Protocol!Prepare, Protocol!Slots,
         Slots
  <2> QED
    BY <2>1, <2>2
<1>10. CASE Supervising
  <2>1. Selected(esp') = r /\ image' = image
        /\ (~Disarm /\ ~Commit => ghost'.proven = ghost.proven)
    BY <1>10, SupervisorChanges
  <2>2. Passing = Releases(image, home) \cap Healthy
    BY ImagesAssumption DEF Passing, Sound, Releases
\* A boot of the default slot shows what is known already.
  <2>3. CASE Disarm
    <3>1. machine.mode = "linux" /\ sup.pc = "disarm"
          /\ ghost'.proven = IF machine.trial THEN ghost.proven ELSE ghost.proven \cup Passing
      BY <1>1, <2>3 DEF Disarm, On, Running, Ghosts
    <3>2. ~machine.trial => Passing \subseteq ghost.proven
      <4> SUFFICES ASSUME ~machine.trial, NEW v \in Passing PROVE v \in ghost.proven
        OBVIOUS
      <4>1. r.active = home
        BY <1>1, <3>1 DEF RunInv, OnDefault
      <4>2. PICK w \in Releases(image, home) : w \in ghost.proven
        BY <1>2, <4>1
      <4>3. v = w
        BY <2>2, <4>2 DEF Releases
      <4> QED
        BY <4>2, <4>3
    <3>3. ghost'.proven = ghost.proven
      BY <3>1, <3>2
    <3> QED
      BY <1>4, <2>1, <3>3
\* A boot of the trial shows that its slot is good.
  <2>4. CASE Commit
    <3>1. machine.mode = "linux" /\ sup.pc = "commit"
          /\ ghost'.proven = ghost.proven \cup Passing
      BY <1>1, <2>4 DEF Commit, On, Running, Ghosts
    <3>2. r.phase = "attempted" /\ home = Peer(r.active) /\ Passing # {}
      BY <1>1, <2>2, <3>1 DEF RunInv, SupInv, Decided, Judging, OnTrial, Controls, Valid
    <3>3. Releases(image, home) \cap ghost'.proven # {}
          /\ Releases(image, r.active) \cap ghost'.proven # {}
      BY <1>2, <2>2, <3>1, <3>2
    <3>4. \A s \in Slots : s = home \/ s = r.active
      BY <1>1, <3>2 DEF Slots, Peer
    <3>5. good' = Slots /\ good \cup {home} = Slots
      BY <1>1, <1>2, <1>3, <2>1, <3>3, <3>4 DEF Good
    <3> QED
      BY <2>1, <3>2, <3>5 DEF Protocol!Next, Protocol!vars, Protocol!Pass, Protocol!Peer, Peer
  <2> QED
    BY <1>4, <2>1, <2>3, <2>4
<1> QED
  BY <1>5, <1>6, <1>7, <1>8, <1>9, <1>10 DEF Next, Board

\* Every step of the device is a step of the A/B protocol or changes nothing it
\* speaks of: only a slot that has proved good becomes the default, and a trial
\* that is attempted is passed or given up.
THEOREM DeviceImplementsProtocol == Undisturbed => (Spec => ImplementsAbUpdate)
<1> SUFFICES ASSUME Undisturbed PROVE Spec => ImplementsAbUpdate
  OBVIOUS
<1>1. Init => Protocol!Init
  <2> SUFFICES ASSUME Init PROVE Protocol!Init
    OBVIOUS
  <2>1. Selected(esp).active = "a" /\ Selected(esp).phase = "stable"
    BY StoreInitInv DEF Init, DeviceInit, FactoryRecord, ImageRecord, Policy
  <2>2. {s \in Slots : Known(s)} = {"a"}
    BY ImagesAssumption DEF Init, DeviceInit, Known, Sound, Slots
  <2> QED
    BY <2>1, <2>2 DEF Protocol!Init
<1>2. Init => PlainInv
  BY DEF Init, DeviceInit, PlainInv, NoSelector
<1>3. Orderly
  BY DEF Undisturbed
<1>4. TypeInv /\ DeviceInv /\ PlainInv /\ [Next]_vars => PlainInv'
  BY PlainStep
<1>5. TypeInv /\ DeviceInv /\ PlainInv /\ [Next]_vars => [Protocol!Next]_(Protocol!vars)
  BY ProtocolStep
<1>6. Spec => [](TypeInv /\ DeviceInv)
  BY <1>3, DeviceInvariant
<1> QED
  BY <1>1, <1>2, <1>4, <1>5, <1>6, PTL DEF Spec, ImplementsAbUpdate, Protocol!Spec

-----------------------------------------------------------------------------
\* How far the device is from rest (AbProgress).  Every program's step lowers the
\* steps that are left of the boot in progress, and every reset one of those that
\* are owed; what needs an invariant is that a stable boot is never reset.

\* Until it is declared healthy, a boot finds the record that was opened for it
\* and nobody holds the update lock; a stable one passes its health checks.
Early == {"off", "userspace", "userspace-writing", "reconcile", "reverting", "service", "health"}
Opened(r) == r.count = machine.count /\ r.bslot = machine.slot
BootInv ==
  /\ sel.pc \in {"load", "kernel", "boot"} => sel.mem.bslot = sel.slot
  /\ Running /\ sup.pc \in Early =>
       /\ Opened(Selected(esp))
       /\ sup.pc \in {"userspace-writing", "reverting"} => Opened(writer["supervisor"].rec)
       /\ machine.lock = IF sup.pc = "userspace-writing" THEN "supervisor" ELSE "free"
  /\ Running /\ ~machine.trial /\ machine.dog = "armed" => sup.pc \notin {"dead", "wait"}
  /\ ghost.proven \subseteq Healthy
  /\ machine.mode # "edl" => ~writer["host"].ok

\* The steps left are fewer than those of one boot, before a step and after ...
LEMMA RanksTyped ==
  /\ \A mode, pc : SelectorRank(mode, pc) \in 0..12
  /\ \A pc : SupervisorRank(pc) \in 0..13
  /\ \A pc : UpdaterRank(pc) \in 0..13
<1>1. \A mode, pc : SelectorRank(mode, pc) \in 0..12
  BY DEF SelectorRank
<1>2. \A pc : SupervisorRank(pc) \in 0..13
  BY DEF SupervisorRank
<1>3. \A pc : UpdaterRank(pc) \in 0..13
  BY DEF UpdaterRank
<1> QED
  BY <1>1, <1>2, <1>3

LEMMA StepsTyped ==
  /\ \A p : CopiesLeft(p) \in 0..2
  /\ StepsLeft \in 0..129
<1>1. \A p : CopiesLeft(p) \in 0..2
  BY DEF CopiesLeft
<1>2. StepsLeft \in 0..129
  <2>1. /\ SelectorRank(machine.mode, sel.pc) \in 0..12
        /\ SupervisorRank(sup.pc) \in 0..13 /\ UpdaterRank(upd.pc) \in 0..13
    BY RanksTyped
  <2> QED
    BY <1>1, <2>1 DEF StepsLeft
<1> QED
  BY <1>1, <1>2

LEMMA StepsTypedNext ==
  /\ \A p : CopiesLeft(p)' \in 0..2
  /\ StepsLeft' \in 0..129
<1>1. \A p : CopiesLeft(p)' \in 0..2
  BY DEF CopiesLeft
<1>2. StepsLeft' \in 0..129
  <2>1. /\ SelectorRank(machine.mode, sel.pc)' \in 0..12
        /\ SupervisorRank(sup.pc)' \in 0..13 /\ UpdaterRank(upd.pc)' \in 0..13
    BY RanksTyped
  <2> QED
    BY <1>1, <2>1 DEF StepsLeft
<1> QED
  BY <1>1, <1>2

\* ... so that a reset that is no longer owed outweighs the boot that follows.
LEMMA Nearer ==
  ASSUME \/ ResetsOwed' < ResetsOwed
         \/ ResetsOwed' <= ResetsOwed /\ StepsLeft' < StepsLeft
  PROVE  Left' < Left
<1>1. \A b : Bit(b) \in 0..1
  BY DEF Bit
<1>2. ResetsOwed \in 0..4
  BY <1>1 DEF ResetsOwed
<1>3. ResetsOwed' \in 0..4
  BY <1>1 DEF ResetsOwed
<1>4. Left = 130 * ResetsOwed + StepsLeft
  BY DEF Left, OneBoot
<1>5. Left' = 130 * ResetsOwed' + StepsLeft'
  BY DEF Left, OneBoot
<1>6. StepsLeft \in 0..129 /\ StepsLeft' \in 0..129
  BY StepsTyped, StepsTypedNext
<1>7. ASSUME NEW m \in 0..4, NEW n \in 0..4, NEW x \in 0..129, NEW y \in 0..129,
             n < m \/ (n <= m /\ y < x)
      PROVE  130 * n + y < 130 * m + x
  BY <1>7
<1> QED
  BY <1>2, <1>3, <1>4, <1>5, <1>6, <1>7

\* It never runs out: a behaviour cannot go down for ever.
LEMMA LeftNatural == Left' \in Nat
<1>1. ResetsOwed' \in Nat
  <2>1. \A b : Bit(b) \in 0..1
    BY DEF Bit
  <2> QED
    BY <2>1 DEF ResetsOwed
<1>2. Left' = 130 * ResetsOwed' + StepsLeft'
  BY DEF Left, OneBoot
<1>3. StepsLeft' \in Nat
  BY StepsTypedNext
<1>4. \A m, n \in Nat : 130 * m + n \in Nat
  OBVIOUS
<1> QED
  BY <1>1, <1>2, <1>3, <1>4

\* No reset is owed anew, unless arming a trial turns into the trial.
LEMMA NoMoreOwed ==
  ASSUME TrialOwed' => TrialOwed \/ (ArmOwed /\ ~ArmOwed'),
         ArmOwed' => ArmOwed, RebootOwed' => RebootOwed, HostOwed' => HostOwed
  PROVE  ResetsOwed' <= ResetsOwed
<1>1. /\ Bit(TrialOwed)' + Bit(ArmOwed)' <= Bit(TrialOwed) + Bit(ArmOwed)
      /\ Bit(TrialOwed)' \in 0..1 /\ Bit(ArmOwed)' \in 0..1
      /\ Bit(TrialOwed) \in 0..1 /\ Bit(ArmOwed) \in 0..1
  BY DEF Bit
<1>2. Bit(RebootOwed)' <= Bit(RebootOwed) /\ Bit(RebootOwed)' \in 0..1 /\ Bit(RebootOwed) \in 0..1
  BY DEF Bit
<1>3. Bit(HostOwed)' <= Bit(HostOwed) /\ Bit(HostOwed)' \in 0..1 /\ Bit(HostOwed) \in 0..1
  BY DEF Bit
<1> QED
  BY <1>1, <1>2, <1>3 DEF ResetsOwed

\* A reset that was owed has taken place.
LEMMA OneLessOwed ==
  ASSUME TrialOwed' => TrialOwed, ArmOwed' => ArmOwed, RebootOwed' => RebootOwed,
         HostOwed' => HostOwed,
         \/ TrialOwed /\ ~TrialOwed'
         \/ RebootOwed /\ ~RebootOwed'
         \/ HostOwed /\ ~HostOwed'
  PROVE  ResetsOwed' < ResetsOwed
<1>1. Bit(TrialOwed)' <= Bit(TrialOwed) /\ Bit(TrialOwed)' \in 0..1 /\ Bit(TrialOwed) \in 0..1
  BY DEF Bit
<1>2. Bit(RebootOwed)' <= Bit(RebootOwed) /\ Bit(RebootOwed)' \in 0..1 /\ Bit(RebootOwed) \in 0..1
  BY DEF Bit
<1>3. Bit(HostOwed)' <= Bit(HostOwed) /\ Bit(HostOwed)' \in 0..1 /\ Bit(HostOwed) \in 0..1
  BY DEF Bit
<1>4. Bit(ArmOwed)' <= Bit(ArmOwed) /\ Bit(ArmOwed)' \in 0..1 /\ Bit(ArmOwed) \in 0..1
  BY DEF Bit
<1>5. \/ Bit(TrialOwed)' < Bit(TrialOwed)
      \/ Bit(RebootOwed)' < Bit(RebootOwed)
      \/ Bit(HostOwed)' < Bit(HostOwed)
  BY DEF Bit
<1> QED
  BY <1>1, <1>2, <1>3, <1>4, <1>5 DEF ResetsOwed

\* A step of a program, which may set out to write, and a step of a write.
RanksLeft == SelectorRank(machine.mode, sel.pc) + SupervisorRank(sup.pc) + UpdaterRank(upd.pc)

LEMMA ProgramSteps ==
  ASSUME \A q \in Writers : Settled(q), NEW p \in Writers,
         \A q \in Writers \ {p} : writer'[q] = writer[q], RanksLeft' < RanksLeft
  PROVE  StepsLeft' < StepsLeft
<1> DEFINE u == CopiesLeft("uboot")'
           v == CopiesLeft("updater")'
           w == CopiesLeft("supervisor")'
           x == CopiesLeft("host")'
<1>1. \A q \in Writers : CopiesLeft(q) = 0
  BY DEF CopiesLeft
<1>2. \A q \in Writers \ {p} : CopiesLeft(q)' = 0
  BY DEF CopiesLeft, Settled
<1>3. u \in 0..2 /\ v \in 0..2 /\ w \in 0..2 /\ x \in 0..2
  BY StepsTypedNext
<1>4. u + v + w + x <= 2
  BY <1>2, <1>3, WritersAre
<1>5. /\ CopiesLeft("uboot") = 0 /\ CopiesLeft("updater") = 0
      /\ CopiesLeft("supervisor") = 0 /\ CopiesLeft("host") = 0
  BY <1>1, WritersAre
<1>6. RanksLeft \in Nat /\ RanksLeft' \in Nat
  BY RanksTyped DEF RanksLeft
<1>7. StepsLeft = 3 * RanksLeft /\ StepsLeft' = 3 * RanksLeft' + u + v + w + x
  BY <1>3, <1>5, <1>6 DEF StepsLeft, RanksLeft
<1>8. u + v + w + x \in 0..2 /\ 3 * RanksLeft' + u + v + w + x = 3 * RanksLeft' + (u + v + w + x)
  BY <1>3, <1>4, <1>6
<1>9. ASSUME NEW m \in Nat, NEW n \in Nat, NEW k \in 0..2, n < m PROVE 3 * n + k < 3 * m
  BY <1>9
<1> HIDE DEF u, v, w, x
<1> QED
  BY <1>6, <1>7, <1>8, <1>9

LEMMA CopySteps ==
  ASSUME NEW p \in Writers, CopiesLeft(p)' < CopiesLeft(p),
         \A q \in Writers \ {p} : writer'[q] = writer[q], RanksLeft' = RanksLeft
  PROVE  StepsLeft' < StepsLeft
<1>1. \A q \in Writers \ {p} : CopiesLeft(q)' = CopiesLeft(q)
  BY DEF CopiesLeft, Settled
<1>2. \A q \in Writers : CopiesLeft(q) \in 0..2 /\ CopiesLeft(q)' \in 0..2
  BY StepsTyped, StepsTypedNext
<1>3. RanksLeft \in Nat /\ RanksLeft' \in Nat
  BY RanksTyped DEF RanksLeft
<1>4. StepsLeft = 3 * RanksLeft + CopiesLeft("uboot") + CopiesLeft("updater")
                  + CopiesLeft("supervisor") + CopiesLeft("host")
  BY DEF StepsLeft, RanksLeft
<1>5. StepsLeft' = 3 * RanksLeft' + CopiesLeft("uboot")' + CopiesLeft("updater")'
                   + CopiesLeft("supervisor")' + CopiesLeft("host")'
  BY DEF StepsLeft, RanksLeft
<1>6. /\ \A q \in Writers : CopiesLeft(q)' <= CopiesLeft(q)
      /\ \E q \in {"uboot", "updater", "supervisor", "host"} : CopiesLeft(q)' < CopiesLeft(q)
  BY <1>1, <1>2, WriterCases
<1>7. ASSUME NEW q \in {"uboot", "updater", "supervisor", "host"}
      PROVE  /\ CopiesLeft(q) \in 0..2 /\ CopiesLeft(q)' \in 0..2
             /\ CopiesLeft(q)' <= CopiesLeft(q)
  BY <1>2, <1>6, WritersAre
<1> DEFINE Sum == CopiesLeft("uboot") + CopiesLeft("updater") + CopiesLeft("supervisor")
                  + CopiesLeft("host")
<1>8. Sum' < Sum /\ Sum \in Nat /\ Sum' \in Nat
  BY <1>6, <1>7
<1>9. StepsLeft = 3 * RanksLeft + Sum /\ StepsLeft' = 3 * RanksLeft' + Sum'
  BY <1>3, <1>4, <1>5, <1>7
<1>10. ASSUME NEW k \in Nat, NEW m \in Nat, NEW n \in Nat, n < m PROVE 3 * k + n < 3 * k + m
  BY <1>10
<1> HIDE DEF Sum
<1> QED
  BY <1>3, <1>8, <1>9, <1>10

-----------------------------------------------------------------------------
\* A step of the supervision: it goes on, and a stable boot never waits for the
\* watchdog before it is declared healthy.
LEMMA SupervisorMoves ==
  ASSUME TypeInv, DeviceInv, PlainInv, BootInv, Supervising
  PROVE  /\ machine.mode = "linux" /\ sup.pc # "done" /\ writer["supervisor"].at = NoSlot
         /\ UNCHANGED <<esp, image, budget, sel, upd>>
         /\ SameBoot /\ machine'.count = machine.count
         /\ \A q \in Writers \ {"supervisor"} : writer'[q] = writer[q]
         /\ machine'.dog = "armed" => machine.dog = "armed"
         /\ SupervisorRank(sup'.pc) < SupervisorRank(sup.pc)
         /\ BootInv'
<1> DEFINE r == Selected(esp)
           Acts == /\ machine.mode = "linux" /\ sup.pc # "done"
                   /\ writer["supervisor"].at = NoSlot
                   /\ UNCHANGED <<esp, image, budget, sel, upd>>
                   /\ SameBoot /\ machine'.count = machine.count
                   /\ \A q \in Writers \ {"supervisor"} : writer'[q] = writer[q]
                   /\ machine'.dog = "armed" => machine.dog = "armed"
           Falls == SupervisorRank(sup'.pc) < SupervisorRank(sup.pc)
           EarlyHolds == sup'.pc \in Early =>
             /\ sup'.pc \in {"userspace-writing", "reverting"} =>
                  Opened(writer'["supervisor"].rec)
             /\ machine'.lock = IF sup'.pc = "userspace-writing" THEN "supervisor" ELSE "free"
           StableHolds == sup'.pc \in {"dead", "wait"} =>
             machine.trial \/ machine'.dog = "disarmed"
           Proves == ghost'.proven \subseteq ghost.proven \cup Healthy
           Goal == Acts /\ Falls /\ BootInv'
<1>1. /\ machine \in Machines /\ sup \in Sups /\ ghost \in Ghosts /\ r \in Controls
      /\ writer \in [Writers -> Writing] /\ Previous(esp) = r /\ Readable(esp)
      /\ ModeInv /\ RunInv /\ SupInv /\ FitInv
  BY SelectionIs DEF TypeInv, TypeOK, TypeOKDevice, TypeOKStore, TypeOKSupervisor, Sups, DeviceInv
<1>2. ASSUME Acts, Falls, EarlyHolds, StableHolds, Proves, sup.pc \in Early \/ sup'.pc \notin Early
      PROVE  Goal
  <2>1. sel.pc = "off"
    BY <1>1, <1>2 DEF ModeInv
  <2>2. writer'["host"] = writer["host"]
    <3>1. \A q \in Writers \ {"supervisor"} : writer'[q] = writer[q]
      BY <1>2
    <3> QED
      BY <3>1, WritersAre
  <2>3. machine'.trial = machine.trial /\ machine'.slot = machine.slot
        /\ machine'.mode = "linux" /\ machine.mode = "linux"
    BY <1>2 DEF SameBoot
  <2>4. Running /\ sup.pc \in Early => Opened(r)
    BY DEF BootInv
  <2>5. ghost'.proven \subseteq Healthy
    BY <1>2 DEF BootInv
  <2>6. sup'.pc \in Early =>
          /\ Opened(r)'
          /\ sup'.pc \in {"userspace-writing", "reverting"} => Opened(writer["supervisor"].rec)'
    BY <1>2, <2>3, <2>4 DEF Opened, Running
  <2>7. ~machine'.trial /\ machine'.dog = "armed" => sup'.pc \notin {"dead", "wait"}
    BY <1>2, <2>3
  <2>8. ~writer'["host"].ok
    BY <2>2, <2>3 DEF BootInv
  <2> QED
    BY <1>2, <2>1, <2>3, <2>5, <2>6, <2>7, <2>8 DEF BootInv
<1>3. SupervisorNext /\ sel' = sel /\ upd' = upd
  BY DEF Supervising
\* A stable boot is of a release that has passed before.
<1>4. ASSUME machine.mode = "linux", ~machine.trial
      PROVE  HealthyBoot /\ image[machine.slot].sys # Partial
  <2>1. r.active = machine.slot
    BY <1>1, <1>4 DEF RunInv, OnDefault
  <2>2. PICK v \in Images : v \in ghost.proven /\ image[machine.slot] = [sys |-> v, esp |-> v]
    BY <1>1, <2>1 DEF FitInv, Fit, PlainInv, Releases
  <2>3. v \in Healthy
    BY <2>2 DEF BootInv
  <2> QED
    BY <2>2, <2>3, ImagesAssumption DEF HealthyBoot, Sound
<1> SUFFICES Goal
  OBVIOUS
<1> HIDE DEF Acts, Goal
<1>5. CASE StartUp
  <2>1. Acts /\ sup.pc = "off" /\ ghost' = ghost /\ machine' = machine
    BY <1>3, <1>5 DEF Acts, StartUp, On, Running, Settled, Silently, SameBoot
  <2>2. /\ sup'.pc \in {"dead", "userspace"}
        /\ sup'.pc = "dead" => image[machine.slot].sys = Partial
    BY <1>1, <1>5 DEF StartUp, Continue, Sups
  <2>3. Falls
    BY <2>1, <2>2 DEF Acts, SupervisorRank
  <2>4. EarlyHolds
    BY <1>1, <2>1, <2>2 DEF Acts, BootInv, Early, Running
  <2>5. StableHolds
    BY <1>4, <2>1, <2>2 DEF Acts
  <2> QED
    BY <1>2, <2>1, <2>2, <2>3, <2>4, <2>5 DEF Early
<1>6. CASE RecordUserspace
  <2>1. Acts /\ sup.pc = "userspace" /\ ghost' = ghost
    BY <1>1, <1>3, <1>6 DEF Acts, RecordUserspace, RecordStage, StartWrite, On, Running, Settled, Silently,
       SameBoot, Machines
  <2>2. CASE ThisBoot /\ RecordStage("userspace", "userspace-writing")
    <3>1. sup'.pc = "userspace-writing" /\ machine'.lock = "supervisor"
      BY <1>1, <2>2 DEF RecordStage, Continue, Sups, Machines
    <3>2. writer'["supervisor"].rec = Staged(r, "userspace")
      BY <1>1, <2>2, WritersAre DEF RecordStage, StartWrite
    <3>3. Opened(r)
      BY <2>2 DEF ThisBoot, Opened
    <3>4. Opened(writer'["supervisor"].rec)
      BY <3>2, <3>3 DEF Opened, Staged, Diagnosis
    <3>5. Falls
      BY <2>1, <3>1 DEF Acts, SupervisorRank
    <3> QED
      BY <1>2, <2>1, <3>1, <3>4, <3>5 DEF Early
  <2>3. CASE Continue("reconcile") /\ Silently
    <3>1. sup'.pc = "reconcile" /\ machine' = machine
      BY <1>1, <2>3 DEF Continue, Sups, Silently
    <3>2. Falls
      BY <2>1, <3>1 DEF Acts, SupervisorRank
    <3>3. EarlyHolds
      BY <2>1, <3>1 DEF Acts, BootInv, Early, Running
    <3> QED
      BY <1>2, <2>1, <3>1, <3>2, <3>3 DEF Early
  <2> QED
    BY <1>6, <2>2, <2>3 DEF RecordUserspace
<1>7. CASE UserspaceRecorded
  <2>1. Acts /\ sup.pc = "userspace-writing" /\ ghost' = ghost
    BY <1>1, <1>3, <1>7 DEF Acts, UserspaceRecorded, StageRecorded, On, Running, Settled, SameBoot, Machines
  <2>2. sup'.pc = "reconcile" /\ machine'.lock = "free"
    BY <1>1, <1>7 DEF UserspaceRecorded, StageRecorded, Continue, Sups, Machines
  <2>3. Falls
    BY <2>1, <2>2 DEF Acts, SupervisorRank
  <2> QED
    BY <1>2, <2>1, <2>2, <2>3 DEF Early
<1>8. CASE Reconcile
  <2>1. /\ sup.pc = "reconcile" /\ ghost' = ghost /\ Acts /\ machine'.lock = machine.lock
    BY <1>1, <1>3, <1>8 DEF Acts, Reconcile, Stage1Done, StartWrite, On, Running, Settled, SameBoot, Machines
  <2>2. machine.lock = "free"
    BY <2>1 DEF Acts, BootInv, Early, Running
  <2>3. CASE Stage1Done("service")
    <3>1. sup'.pc = "service"
      BY <1>1, <2>3 DEF Stage1Done, Continue, Sups
    <3>2. Falls
      BY <2>1, <3>1 DEF Acts, SupervisorRank
    <3> QED
      BY <1>2, <2>1, <2>2, <3>1, <3>2 DEF Early
  <2>4. CASE StartWrite("supervisor", Stabilised(r, machine.slot), "a") /\ Continue("reverting")
    <3>1. sup'.pc = "reverting"
      BY <1>1, <2>4 DEF Continue, Sups
    <3>2. writer'["supervisor"].rec = Stabilised(r, machine.slot)
      BY <1>1, <2>4, WritersAre DEF StartWrite
    <3>3. Opened(r)
      BY <2>1 DEF Acts, BootInv, Early, Running
    <3>4. Opened(writer'["supervisor"].rec)
      BY <3>2, <3>3 DEF Opened, Stabilised, Policy
    <3>5. Falls
      BY <2>1, <3>1 DEF Acts, SupervisorRank
    <3> QED
      BY <1>2, <2>1, <2>2, <3>1, <3>4, <3>5 DEF Early
  <2> QED
    BY <1>1, <1>8, <2>3, <2>4 DEF Reconcile
<1>9. CASE Reverted
  <2>1. Acts /\ sup.pc = "reverting" /\ ghost' = ghost /\ machine'.lock = machine.lock
    BY <1>1, <1>3, <1>9 DEF Acts, Reverted, Stage1Done, On, Running, Settled, SameBoot, Machines
  <2>2. sup'.pc = "service"
    BY <1>1, <1>9 DEF Reverted, Stage1Done, Continue, Sups
  <2>3. Falls
    BY <2>1, <2>2 DEF Acts, SupervisorRank
  <2>4. EarlyHolds
    BY <2>1, <2>2 DEF Acts, BootInv, Early, Running
  <2> QED
    BY <1>2, <2>1, <2>2, <2>3, <2>4 DEF Early
<1>10. CASE Service
  <2>1. Acts /\ sup.pc = "service" /\ ghost' = ghost /\ machine' = machine
    BY <1>3, <1>10 DEF Acts, Service, On, Running, Settled, Silently, SameBoot
  <2>2. \/ sup'.pc = "health"
        \/ sup'.pc = "wait" /\ ~(HealthyBoot /\ (machine.trial => TrialExpected))
    BY <1>1, <1>10 DEF Service, Continue, Sups
  <2>3. Falls
    BY <2>1, <2>2 DEF Acts, SupervisorRank
  <2>4. EarlyHolds
    BY <2>1, <2>2 DEF Acts, BootInv, Early, Running
  <2>5. StableHolds
    BY <1>4, <2>1, <2>2 DEF Acts
  <2> QED
    BY <1>2, <2>1, <2>2, <2>3, <2>4, <2>5 DEF Early
<1>11. CASE RecordHealth
  <2>1. Acts /\ sup.pc = "health" /\ ghost' = ghost
    BY <1>1, <1>3, <1>11 DEF Acts, RecordHealth, RecordStage, StartWrite, On, Running, Settled, Silently,
       SameBoot, Machines
  <2>2. ThisBoot /\ machine.lock = "free"
    BY <1>1, <2>1 DEF Acts, BootInv, Early, Running, ThisBoot, Opened
  <2>3. sup'.pc = "health-writing"
    BY <1>1, <1>11, <2>2 DEF RecordHealth, RecordStage, Continue, Sups
  <2>4. Falls
    BY <2>1, <2>3 DEF Acts, SupervisorRank
  <2> QED
    BY <1>2, <2>1, <2>3, <2>4 DEF Early
<1>12. CASE HealthRecorded
  <2>1. Acts /\ sup.pc = "health-writing" /\ ghost' = ghost
    BY <1>1, <1>3, <1>12 DEF Acts, HealthRecorded, StageRecorded, On, Running, Settled, SameBoot, Machines
  <2>2. Recorded
    BY <2>1, RecordedIs DEF Acts, SupWaits
  <2>3. sup'.pc = "disarm"
    BY <1>1, <1>12, <2>2 DEF HealthRecorded, StageRecorded, Continue, Sups
  <2>4. Falls
    BY <2>1, <2>3 DEF Acts, SupervisorRank
  <2> QED
    BY <1>2, <2>1, <2>3, <2>4 DEF Early
<1>13. CASE Disarm
  <2>1. Acts /\ sup.pc = "disarm" /\ machine'.dog = "disarmed"
    BY <1>1, <1>3, <1>13 DEF Acts, Disarm, On, Running, Settled, SameBoot, Machines
  <2>2. sup'.pc \in {"wait", "commit", "done"}
    BY <1>1, <1>13 DEF Disarm, Continue, AfterDisarm, Sups
  <2>3. Falls
    BY <2>1, <2>2 DEF Acts, SupervisorRank
  <2>4. Proves
    BY <1>1, <1>13 DEF Disarm, Passing, Ghosts
  <2> QED
    BY <1>2, <2>1, <2>2, <2>3, <2>4 DEF Early
<1>14. CASE Commit
  <2>1. Acts /\ sup.pc = "commit"
    BY <1>1, <1>3, <1>14 DEF Acts, Commit, StartWrite, On, Running, Settled, SameBoot
  <2>2. sup'.pc = "committing"
    BY <1>1, <1>14 DEF Commit, Continue, Sups
  <2>3. Falls
    BY <2>1, <2>2 DEF Acts, SupervisorRank
  <2>4. Proves
    BY <1>1, <1>14 DEF Commit, Passing, Ghosts
  <2> QED
    BY <1>2, <2>1, <2>2, <2>3, <2>4 DEF Early
<1>15. CASE Committed
  <2>1. Acts /\ sup.pc = "committing" /\ ghost' = ghost
    BY <1>1, <1>3, <1>15 DEF Acts, Committed, StartWrite, On, Running, Settled, SameBoot
  <2>2. sup'.pc \in {"save", "undoing"}
    BY <1>1, <1>15 DEF Committed, Continue, Sups
  <2>3. Falls
    BY <2>1, <2>2 DEF Acts, SupervisorRank
  <2> QED
    BY <1>2, <2>1, <2>2, <2>3 DEF Early
<1>16. CASE CommitUndone
  BY <1>1, <1>16 DEF CommitUndone, On, ModeInv
<1>17. CASE SaveCommitted
  <2>1. Acts /\ sup.pc = "save"
    BY <1>1, <1>3, <1>17 DEF Acts, SaveCommitted, On, Running, Settled, SameBoot
  <2>2. sup'.pc = "done"
    BY <1>1, <1>17 DEF SaveCommitted, Continue, Sups
  <2>3. Falls
    BY <2>1, <2>2 DEF Acts, SupervisorRank
  <2>4. Proves
    BY <1>1, <1>17 DEF SaveCommitted, Ghosts
  <2> QED
    BY <1>2, <2>1, <2>2, <2>3, <2>4 DEF Early
<1> QED
  BY <1>3, <1>5, <1>6, <1>7, <1>8, <1>9, <1>10, <1>11, <1>12, <1>13, <1>14, <1>15, <1>16, <1>17
  DEF SupervisorNext

\* A step of U-Boot: it goes on to Linux, EDL or the prompt, and tries a trial
\* only if one was armed.
LEMMA SelectorMoves ==
  ASSUME Undisturbed, TypeInv, DeviceInv, PlainInv, BootInv, Selecting
  PROVE  /\ machine.mode = "uboot" /\ writer["uboot"].at = NoSlot
         /\ UNCHANGED <<esp, upd, sup>>
         /\ machine'.mode # "off"
         /\ \A q \in Writers \ {"uboot"} : writer'[q] = writer[q]
         /\ SelectorRank(machine'.mode, sel'.pc) < SelectorRank(machine.mode, sel.pc)
         /\ TrialOwed' => TrialOwed
         /\ BootInv'
<1> DEFINE r == Selected(esp)
           Opens == {"load", "kernel", "boot"}
           Boots == {"loading", "load", "kernel", "boot"}
           OnlyUboot == \A q \in Writers \ {"uboot"} : writer'[q] = writer[q]
           Falls == SelectorRank(machine'.mode, sel'.pc) < SelectorRank("uboot", sel.pc)
           TrialStays == /\ sel'.pc = "trial" => TrialOwed
                         /\ sel'.pc \in Boots /\ sel'.tag = "trial" => TrialOwed
           OpenHolds == sel'.pc \in Opens => sel'.mem.bslot = sel'.slot
           Goal == machine'.mode # "off" /\ OnlyUboot /\ Falls /\ (TrialOwed' => TrialOwed) /\ BootInv'
<1>1. /\ machine.mode = "uboot" /\ writer["uboot"].at = NoSlot
      /\ UNCHANGED <<esp, upd, sup>> /\ ghost'.proven = ghost.proven
      /\ PlainInv' /\ SelectorNext
  BY SelectorFrame, SelectorPlain DEF Selecting
<1>2. /\ r \in Controls /\ Readable(esp) /\ SelInv /\ ModeInv /\ upd.pc = "idle" /\ sup.pc = "off"
      /\ machine \in Machines /\ writer \in [Writers -> Writing]
      /\ sel \in [pc : SelectorSteps, mem : Copies, slot : Slots, tag : Tags, again : BOOLEAN]
  BY <1>1, SelectionIs DEF TypeInv, TypeOK, TypeOKDevice, TypeOKStore, TypeOKSelector, DeviceInv,
     ModeInv
<1>3. ~Fault("load") /\ ~Fault("edl")
  BY DEF Undisturbed, Fault
<1>4. /\ sel.pc \in Opens => sel.mem.bslot = sel.slot
      /\ ghost'.proven \subseteq Healthy /\ ~writer["host"].ok
  BY <1>1 DEF BootInv
<1>5. /\ sel.pc = "trial" => TrialOwed
      /\ sel.pc \in Boots /\ sel.tag = "trial" => TrialOwed
      /\ r.phase = "armed" => TrialOwed
  BY DEF TrialOwed
\* It goes on in U-Boot, or leaves for EDL or the prompt.
<1>6. ASSUME OnlyUboot, Falls, TrialStays, OpenHolds, machine'.mode \in {"uboot", "edl", "prompt"}
      PROVE  Goal
  <2>1. TrialOwed' => TrialOwed
    BY <1>1, <1>2, <1>5, <1>6 DEF TrialOwed, Running
  <2>2. BootInv'
    BY <1>1, <1>4, <1>6, WritersAre DEF BootInv, Running
  <2> QED
    BY <1>6, <2>1, <2>2
<1>7. ASSUME NEW pc, Goto(pc), machine' = machine, writer' = writer,
             SelectorRank("uboot", pc) < SelectorRank("uboot", sel.pc),
             pc # "trial", pc \in Boots => sel.pc \in Boots, pc \in Opens => sel.pc \in Opens
      PROVE  Goal
  <2>1. sel'.pc = pc /\ sel'.mem = sel.mem /\ sel'.slot = sel.slot /\ sel'.tag = sel.tag
    BY <1>2, <1>7 DEF Goto
  <2> QED
    BY <1>1, <1>4, <1>5, <1>6, <1>7, <2>1
<1>8. ASSUME NEW mode \in {"edl", "prompt"}, Leave(mode), 0 < SelectorRank("uboot", sel.pc)
      PROVE  Goal
  <2>1. sel'.pc = "off" /\ machine'.mode = mode /\ writer' = writer
    BY <1>2, <1>8 DEF Leave, NoSelector, Machines
  <2>2. SelectorRank(mode, "off") = 0
    BY <1>8 DEF SelectorRank
  <2> QED
    BY <1>6, <1>8, <2>1, <2>2
<1>9. ASSUME NEW rec, NEW pc, Persist(rec, pc),
             SelectorRank("uboot", pc) < SelectorRank("uboot", sel.pc),
             pc = "trial" => r.phase = "armed",
             pc \in Boots => sel.pc \in Boots, pc \in Opens => rec.bslot = sel.slot
      PROVE  Goal
  <2>1. /\ sel'.pc = pc /\ sel'.mem = rec /\ sel'.slot = sel.slot /\ sel'.tag = sel.tag
        /\ machine' = machine /\ OnlyUboot
    BY <1>2, <1>9 DEF Persist, StartWrite
  <2> QED
    BY <1>1, <1>5, <1>6, <1>9, <2>1
<1>10. ASSUME NEW slot, NEW tag, Choose(slot, tag), Quietly, 4 < SelectorRank("uboot", sel.pc),
              tag = "trial" => TrialOwed
       PROVE  Goal
  <2>1. sel'.pc = "loading" /\ sel'.tag = tag /\ machine' = machine /\ writer' = writer
    BY <1>2, <1>10 DEF Choose, Quietly
  <2>2. SelectorRank("uboot", "loading") = 4
    BY DEF SelectorRank
  <2> QED
    BY <1>1, <1>6, <1>10, <2>1, <2>2
<1>11. ASSUME GiveUp, 0 < SelectorRank("uboot", sel.pc) PROVE Goal
  <2>1. ~Goto("fail")
    BY <1>1, <1>2 DEF Goto, PlainInv
  <2> QED
    BY <1>8, <1>11, <2>1 DEF GiveUp
<1> SUFFICES Goal
  BY <1>1
<1> HIDE DEF Goal
<1>12. CASE Probe
  <2>1. /\ sel.pc = "probe" /\ writer' = writer /\ machine' = machine
        /\ Goto("select") \/ Goto("usb")
    BY <1>12 DEF Probe, At, Quietly
  <2>2. /\ SelectorRank("uboot", "select") < SelectorRank("uboot", sel.pc)
        /\ SelectorRank("uboot", "usb") < SelectorRank("uboot", sel.pc)
    BY <2>1 DEF SelectorRank
  <2> QED
    BY <1>7, <2>1, <2>2
<1>13. CASE UsbCheck
  <2>1. /\ sel.pc = "usb"
        /\ \/ Persist(NormalConsumed(r), "usb-normal") \/ Persist(EdlConsumed(r), "usb-edl")
           \/ Leave("edl")
    BY <1>3, <1>13 DEF UsbCheck, At, Chosen, EnterEdl
  <2>2. /\ SelectorRank("uboot", "usb-normal") < SelectorRank("uboot", sel.pc)
        /\ SelectorRank("uboot", "usb-edl") < SelectorRank("uboot", sel.pc)
        /\ 0 < SelectorRank("uboot", sel.pc)
    BY <2>1 DEF SelectorRank
  <2> QED
    BY <1>8, <1>9, <2>1, <2>2
<1>14. CASE UsbNormal \/ UsbEdl
  <2>1. /\ sel.pc \in {"usb-normal", "usb-edl"}
        /\ \/ Goto("select") /\ writer' = writer /\ machine' = machine
           \/ Leave("edl")
    BY <1>3, <1>14 DEF UsbNormal, UsbEdl, At, EnterEdl
  <2>2. /\ SelectorRank("uboot", "select") < SelectorRank("uboot", sel.pc)
        /\ 0 < SelectorRank("uboot", sel.pc)
    BY <2>1 DEF SelectorRank
  <2> QED
    BY <1>7, <1>8, <2>1, <2>2
<1>15. CASE Select
  <2>1. /\ sel.pc = "select"
        /\ \/ Persist(NormalConsumed(r), "normal") \/ Persist(EdlConsumed(r), "edl")
           \/ sel' = [sel EXCEPT !.pc = "phase", !.mem = r] /\ Quietly
    BY <1>2, <1>15 DEF Select, At, Chosen
  <2>2. /\ SelectorRank("uboot", "normal") < SelectorRank("uboot", sel.pc)
        /\ SelectorRank("uboot", "edl") < SelectorRank("uboot", sel.pc)
        /\ SelectorRank("uboot", "phase") < SelectorRank("uboot", sel.pc)
    BY <2>1 DEF SelectorRank
  <2>3. CASE sel' = [sel EXCEPT !.pc = "phase", !.mem = r] /\ Quietly
    <3>1. sel'.pc = "phase" /\ machine' = machine /\ writer' = writer
      BY <1>2, <2>3 DEF Quietly
    <3> QED
      BY <1>1, <1>6, <2>2, <3>1
  <2> QED
    BY <1>9, <2>1, <2>2, <2>3
<1>16. CASE NormalTaken \/ EdlTaken
  <2>1. /\ sel.pc \in {"normal", "edl"}
        /\ \/ Goto("phase") /\ machine' = machine /\ writer' = writer
           \/ Goto("fail")
           \/ Leave("edl")
    BY <1>3, <1>16 DEF NormalTaken, EdlTaken, At, EnterEdl, Quietly
  <2>2. ~Goto("fail")
    BY <1>1, <1>2 DEF Goto, PlainInv
  <2>3. /\ SelectorRank("uboot", "phase") < SelectorRank("uboot", sel.pc)
        /\ 0 < SelectorRank("uboot", sel.pc)
    BY <2>1 DEF SelectorRank
  <2> QED
    BY <1>7, <1>8, <2>1, <2>2, <2>3
<1>17. CASE Phase
  <2>1. sel.pc = "phase" /\ sel.mem = r
    BY <1>2, <1>17 DEF Phase, At, SelInv
  <2>2. r.phase \in {"armed", "attempted", "stable"}
    BY <1>2 DEF Controls, ControlRecord, Phases
  <2>3. \/ r.phase = "armed" /\ Persist(Attempted(r), "trial")
        \/ Persist(RolledBack(r), "rollback")
        \/ Choose(r.active, "stable") /\ Quietly
    BY <1>17, <2>1, <2>2 DEF Phase
  <2>4. /\ SelectorRank("uboot", "trial") < SelectorRank("uboot", sel.pc)
        /\ SelectorRank("uboot", "rollback") < SelectorRank("uboot", sel.pc)
        /\ 4 < SelectorRank("uboot", sel.pc)
    BY <2>1 DEF SelectorRank
  <2> QED
    BY <1>9, <1>10, <2>3, <2>4
<1>18. CASE Trial \/ Rollback
  <2>1. /\ sel.pc \in {"trial", "rollback"} /\ Quietly
        /\ \/ sel.pc = "trial" /\ Choose(sel.mem.pending, "trial")
           \/ Choose(sel.mem.active, "stable")
    BY <1>18 DEF Trial, Rollback, At
  <2>2. 4 < SelectorRank("uboot", sel.pc)
    BY <2>1 DEF SelectorRank
  <2> QED
    BY <1>5, <1>10, <2>1, <2>2
<1>19. CASE Fail \/ FailBlind \/ Failed
  BY <1>19 DEF Fail, FailBlind, Failed, At, PlainInv
<1>20. CASE OpenBoot
  <2>1. sel.pc = "loading" /\ Persist(Loading(sel.mem, sel.slot), "load")
    BY <1>20 DEF OpenBoot, At
  <2>2. Loading(sel.mem, sel.slot).bslot = sel.slot
    BY DEF Loading, Diagnosis
  <2>3. SelectorRank("uboot", "load") < SelectorRank("uboot", sel.pc)
    BY <2>1 DEF SelectorRank
  <2> QED
    BY <1>9, <2>1, <2>2, <2>3
<1>21. CASE Load
  <2>1. /\ sel.pc = "load"
        /\ \/ Goto("kernel") /\ machine' = machine /\ writer' = writer
           \/ GiveUp
    BY <1>21 DEF Load, At, Quietly
  <2>2. /\ SelectorRank("uboot", "kernel") < SelectorRank("uboot", sel.pc)
        /\ 0 < SelectorRank("uboot", sel.pc)
    BY <2>1 DEF SelectorRank
  <2> QED
    BY <1>7, <1>11, <2>1, <2>2
<1>22. CASE Handoff
  <2>1. /\ sel.pc = "kernel" /\ Goto("boot") /\ machine' = machine
        /\ StartWrite("uboot", Staged(Chosen, "kernel"), "b")
    BY <1>2, <1>22 DEF Handoff, At
  <2>2. /\ sel'.pc = "boot" /\ sel'.mem = sel.mem /\ sel'.slot = sel.slot /\ sel'.tag = sel.tag
        /\ OnlyUboot
    BY <1>2, <2>1 DEF Goto, StartWrite
  <2>3. SelectorRank("uboot", "boot") < SelectorRank("uboot", sel.pc)
    BY <2>1 DEF SelectorRank
  <2> QED
    BY <1>1, <1>4, <1>5, <1>6, <2>1, <2>2, <2>3
<1>23. CASE BootLinux
  <2>1. sel.pc = "boot" /\ Took /\ r = writer["uboot"].rec
    BY <1>1, <1>23, TookIs DEF BootLinux, At, SelWaits
  <2>2. /\ sel' = NoSelector /\ writer' = writer
        /\ machine' = [Dark EXCEPT !.mode = "linux", !.slot = sel.slot,
                         !.trial = sel.tag = "trial", !.count = sel.mem.count]
    BY <1>23, <2>1 DEF BootLinux
  <2>3. /\ machine'.mode = "linux" /\ machine'.slot = sel.slot /\ machine'.count = sel.mem.count
        /\ machine'.trial = (sel.tag = "trial") /\ machine'.lock = "free" /\ sel'.pc = "off"
    BY <2>2 DEF Dark, NoSelector
  <2>4. r.count = sel.mem.count /\ r.bslot = sel.slot
    BY <1>2, <1>4, <2>1 DEF SelInv, Staged, Diagnosis
  <2>5. Falls
    BY <2>1, <2>3 DEF SelectorRank
  <2>6. TrialOwed' => TrialOwed
    BY <1>1, <1>2, <1>5, <2>1, <2>3 DEF TrialOwed
  <2>7. BootInv'
    BY <1>1, <1>2, <1>4, <2>2, <2>3, <2>4 DEF BootInv, Opened
  <2> QED
    BY <2>2, <2>3, <2>5, <2>6, <2>7 DEF Goal
<1> QED
  BY <1>1, <1>12, <1>13, <1>14, <1>15, <1>16, <1>17, <1>18, <1>19, <1>20, <1>21, <1>22, <1>23
  DEF SelectorNext

\* A step of a command: it goes on to its end, and arms at most one trial.
LEMMA UpdaterMoves ==
  ASSUME TypeInv, DeviceInv, Updating
  PROVE  /\ machine.mode = "linux" /\ sup.pc = "done" /\ writer["updater"].at = NoSlot
         /\ UNCHANGED <<sel, sup>> /\ SameBoot /\ machine'.dog = machine.dog
         /\ \A q \in Writers \ {"updater"} : writer'[q] = writer[q]
         /\ UpdaterRank(upd'.pc) < UpdaterRank(upd.pc)
         /\ TrialOwed' => TrialOwed \/ (ArmOwed /\ ~ArmOwed')
         /\ ArmOwed' => ArmOwed
         /\ RebootOwed' => RebootOwed
<1> DEFINE Others == \A q \in Writers \ {"updater"} : writer'[q] = writer[q]
           Acts == /\ machine.mode = "linux" /\ writer["updater"].at = NoSlot
                   /\ SameBoot /\ machine'.dog = machine.dog /\ Others
           Falls == UpdaterRank(upd'.pc) < UpdaterRank(upd.pc)
           Trades == upd'.pc = "arming" => ArmOwed \/ TrialOwed
           Owes == (ArmOwed' => ArmOwed) /\ (RebootOwed' => RebootOwed)
           Goal == Acts /\ upd.pc # "idle" /\ Falls /\ Trades /\ Owes
<1>1. /\ machine \in Machines /\ upd \in Upds /\ writer \in [Writers -> Writing] /\ ModeInv
      /\ UpdaterNext /\ sel' = sel /\ sup' = sup /\ Selected(esp') = Selected(esp)
  BY UpdaterChanges DEF TypeInv, TypeOK, TypeOKDevice, TypeOKStore, TypeOKUpdater, Upds, DeviceInv,
     Updating
<1> SUFFICES Goal
  <2>1. sup.pc = "done"
    BY <1>1 DEF ModeInv
  <2>2. ~ArmOwed' \/ upd'.pc # "arming"
    BY DEF ArmOwed, Installing
  <2>3. TrialOwed' => upd'.pc = "arming" \/ TrialOwed
    BY <1>1 DEF TrialOwed, Running, SameBoot
  <2> QED
    BY <1>1, <2>1, <2>2, <2>3
<1>2. ASSUME NEW pc, upd'.pc = pc, upd'.activate = upd.activate, upd'.reboot = upd.reboot,
             pc \in Installing => upd.pc \in Installing,
             pc = "activate" => upd.pc = "activate" \/ (upd.pc \in Installing /\ upd.activate),
             pc = "arming" => upd.pc \in {"arming", "activate"},
             pc = "reboot" => upd.pc = "request" \/ (upd.pc = "arming" /\ upd.reboot),
             pc # "request"
      PROVE  Trades /\ Owes
  BY <1>2 DEF Owes, ArmOwed, RebootOwed, TrialOwed, Installing
<1>3. ASSUME NEW pc, Proceed(pc) PROVE upd' = [upd EXCEPT !.pc = pc] /\ upd'.pc = pc
             /\ upd'.activate = upd.activate /\ upd'.reboot = upd.reboot
  BY <1>1, <1>3 DEF Proceed, Upds
<1>4. ASSUME Release PROVE upd'.pc = "idle" /\ Trades /\ Owes /\ SameBoot /\ machine'.dog = machine.dog
  BY <1>1, <1>4 DEF Release, NoUpdate, ArmOwed, RebootOwed, Installing, SameBoot, Machines
<1>5. CASE Requested
  <2>1. Acts /\ upd.pc = "request" /\ (Proceed("reboot") \/ Release)
    BY <1>4, <1>5 DEF Requested, In, Running, Settled, SameBoot
  <2>2. Falls
    BY <1>3, <1>4, <2>1 DEF UpdaterRank
  <2> QED
    BY <1>2, <1>3, <1>4, <2>1, <2>2 DEF Installing
<1>6. CASE Cancelled
  <2>1. Acts /\ upd.pc = "cancel" /\ (Proceed("system") \/ Release)
    BY <1>4, <1>6 DEF Cancelled, In, Running, Settled, SameBoot
  <2>2. Falls
    BY <1>3, <1>4, <2>1 DEF UpdaterRank
  <2> QED
    BY <1>2, <1>3, <1>4, <2>1, <2>2 DEF Installing
<1>7. CASE WriteSystem \/ SystemWritten \/ WriteEsp \/ EspWritten \/ InstallSelector
  <2>1. /\ Acts
        /\ \/ upd.pc = "system" /\ Proceed("system-writing")
           \/ upd.pc = "system-writing" /\ Proceed("esp")
           \/ upd.pc = "esp" /\ Proceed("esp-writing")
           \/ upd.pc = "esp-writing" /\ Proceed("install-selector")
           \/ upd.pc = "install-selector" /\ Proceed("selector")
    BY <1>1, <1>7 DEF WriteSystem, SystemWritten, WriteEsp, EspWritten, InstallSelector, StartWrite, In,
       Running, Settled, SameBoot
  <2>2. Falls
    BY <1>3, <2>1 DEF UpdaterRank
  <2> QED
    BY <1>2, <1>3, <2>1, <2>2 DEF Installing
<1>8. CASE SelectorDone \/ InstallFails \/ Undo
  <2>1. /\ Acts
        /\ \/ upd.pc = "selector" /\ (Proceed("validate") \/ Proceed("undo"))
           \/ upd.pc \in {"system-writing", "esp-writing", "validate"} /\ Proceed("undo")
           \/ upd.pc = "undo" /\ Proceed("undoing")
    BY <1>1, <1>8 DEF SelectorDone, InstallFails, Undo, Write, StartWrite, In, Running, Settled,
       SameBoot, deviceVars
  <2>2. Falls
    BY <1>3, <2>1 DEF UpdaterRank
  <2> QED
    BY <1>2, <1>3, <2>1, <2>2 DEF Installing
<1>9. CASE Validate
  <2>1. Acts /\ upd.pc = "validate"
    BY <1>1, <1>9 DEF Validate, In, Running, Settled, SameBoot, Machines
  <2>2. /\ upd'.pc = IF upd.activate THEN "activate" ELSE "idle"
        /\ upd'.activate = upd.activate /\ upd'.reboot = upd.reboot
    BY <1>1, <1>9 DEF Validate, Upds
  <2>3. Falls
    BY <2>1, <2>2 DEF UpdaterRank
  <2> QED
    BY <1>2, <2>1, <2>2, <2>3 DEF Installing
<1>10. CASE Arm
  <2>1. Acts /\ upd.pc = "activate" /\ (Proceed("arming") \/ Release)
    BY <1>1, <1>4, <1>10 DEF Arm, Write, StartWrite, In, Running, Settled, SameBoot
  <2>2. Falls
    BY <1>3, <1>4, <2>1 DEF UpdaterRank
  <2> QED
    BY <1>2, <1>3, <1>4, <2>1, <2>2 DEF Installing
<1>11. CASE ArmDone
  <2>1. /\ Acts /\ upd.pc = "arming"
        /\ (upd.reboot /\ Proceed("reboot")) \/ Proceed("undo") \/ Release
    BY <1>4, <1>11 DEF ArmDone, In, Running, Settled, SameBoot
  <2>2. Falls
    BY <1>3, <1>4, <2>1 DEF UpdaterRank
  <2> QED
    BY <1>2, <1>3, <1>4, <2>1, <2>2 DEF Installing
<1>12. CASE Undone
  <2>1. Acts /\ upd.pc = "undoing" /\ Release
    BY <1>4, <1>12 DEF Undone, In, Running, Settled
  <2>2. Falls
    BY <1>4, <2>1 DEF UpdaterRank
  <2> QED
    BY <1>4, <2>1, <2>2
<1> QED
  BY <1>1, <1>5, <1>6, <1>7, <1>8, <1>9, <1>10, <1>11, <1>12 DEF UpdaterNext

LEMMA UpdaterBoots ==
  ASSUME TypeInv, DeviceInv, BootInv, Quiet, Updating \/ Commanding
  PROVE  BootInv'
<1>1. /\ machine \in Machines /\ writer \in [Writers -> Writing] /\ ModeInv
      /\ sel' = sel /\ sup' = sup /\ ghost'.proven = ghost.proven
  BY UpdaterChanges DEF TypeInv, TypeOK, TypeOKDevice, TypeOKStore, DeviceInv, Updating, Commanding
<1>2. machine.mode = "linux" /\ sup.pc = "done" /\ machine'.mode = "linux"
  <2>1. CASE Updating
    BY <2>1, UpdaterMoves DEF SameBoot
  <2>2. CASE Commanding
    BY <1>1, <2>2 DEF Commanding, UpdaterCommands, RequestRecovery, SetUsbMode, Install, Activate,
       Command, Lock, Running, Machines
  <2> QED
    BY <2>1, <2>2
<1>3. writer'["host"] = writer["host"]
  <2>1. CASE Updating
    BY <2>1, UpdaterMoves, WritersAre
  <2>2. CASE Commanding
    BY <1>1, <2>2, WritersAre DEF Commanding, UpdaterCommands, RequestRecovery, SetUsbMode, Install,
       Activate, Write, StartWrite
  <2> QED
    BY <2>1, <2>2
<1> QED
  BY <1>1, <1>2, <1>3 DEF BootInv, Early

\* A step of a write: one copy less to write, and nothing is owed that was not.
LEMMA CopyNears ==
  ASSUME Undisturbed, TypeInv, DeviceInv, PlainInv, NEW p \in Writers, CopyStep(p)
  PROVE  Left' < Left
<1> DEFINE r == Selected(esp)
           n == Selected(esp')
           w == writer[p]
<1>1. /\ SelInv /\ UpdInv /\ SupInv /\ FitInv /\ ModeInv /\ sel.pc # "failed"
      /\ UNCHANGED <<machine, sel, upd, sup>> /\ writer \in [Writers -> Writing]
  BY DEF DeviceInv, PlainInv, CopyStep, TypeInv, TypeOK, TypeOKDevice, TypeOKStore
<1>2. /\ n \in {r, w.rec} /\ w.at # NoSlot
      /\ \A q \in Writers \ {p} : writer'[q] = writer[q]
  BY CopyKeeps DEF Undisturbed
<1>3. /\ writer'[p].at \in {w.after, NoSlot} /\ writer'[p].after = NoSlot
  BY <1>1 DEF CopyStep, Wrote, Declined, Erred, CopyWritten, NotTaken, Advance, Forget, NoWrite
<1>4. StepsLeft' < StepsLeft
  <2>1. CopiesLeft(p)' < CopiesLeft(p)
    BY <1>2, <1>3 DEF CopiesLeft, Settled
  <2>2. RanksLeft' = RanksLeft
    BY <1>1 DEF RanksLeft
  <2> QED
    BY <1>2, <2>1, <2>2, CopySteps
<1>5. ASSUME n = w.rec, w.rec.phase = "armed" PROVE TrialOwed
  <2>1. CASE p = "uboot"
    <3>1. sel.pc \in SelWaits
      BY <1>1, <1>2, <2>1 DEF ModeInv
    <3>2. CASE sel.pc \in {"usb-normal", "usb-edl", "normal", "edl", "load", "boot"}
      <4>1. r.phase = w.rec.phase
        BY <1>1, <2>1, <3>2 DEF SelInv, SelWaits, SamePolicy, Staged, Diagnosis
      <4> QED
        BY <1>5, <4>1 DEF TrialOwed
    <3>3. CASE sel.pc = "trial"
      BY <3>3 DEF TrialOwed
    <3>4. CASE sel.pc = "rollback"
      BY <1>1, <1>5, <2>1, <3>4 DEF SelInv, SelWaits
    <3> QED
      BY <1>1, <3>1, <3>2, <3>3, <3>4 DEF SelWaits
  <2>2. CASE p = "updater"
    <3>1. upd.pc \in UpdWaits
      BY <1>1, <1>2, <2>2 DEF ModeInv
    <3> QED
      BY <1>1, <1>5, <2>2, <3>1 DEF UpdInv, UpdWaits, SamePolicy, TrialOwed
  <2>3. CASE p = "supervisor"
    <3>1. sup.pc \in SupWaits
      BY <1>1, <1>2, <2>3 DEF ModeInv
    <3> QED
      BY <1>1, <1>5, <2>3, <3>1 DEF SupInv, SupWaits, SamePolicy, TrialOwed
  <2>4. CASE p = "host"
    BY <1>1, <1>2, <1>5, <2>4 DEF FitInv, SamePolicy, TrialOwed
  <2> QED
    BY <2>1, <2>2, <2>3, <2>4, WriterCases
<1>6. TrialOwed' => TrialOwed
  <2>1. n.phase = "armed" => TrialOwed
    BY <1>2, <1>5 DEF TrialOwed
  <2> QED
    BY <1>1, <2>1 DEF TrialOwed, Running
<1>7. HostOwed' => HostOwed
  <2>1. CASE p = "host"
    BY <1>1, <1>2, <2>1 DEF HostOwed, Settled
  <2>2. CASE p # "host"
    BY <1>1, <1>2, <2>2, WritersAre DEF HostOwed, Settled
  <2> QED
    BY <2>1, <2>2
<1>8. (ArmOwed' => ArmOwed) /\ (RebootOwed' => RebootOwed)
  BY <1>1 DEF ArmOwed, RebootOwed
<1> QED
  BY <1>4, <1>6, <1>7, <1>8, NoMoreOwed, Nearer

LEMMA CopyBoots ==
  ASSUME Orderly, TypeInv, DeviceInv, BootInv, NEW p \in Writers, CopyStep(p)
  PROVE  BootInv'
<1>1. /\ ModeInv /\ UNCHANGED <<machine, sel, upd, sup, ghost>>
  BY DEF DeviceInv, CopyStep
<1>2. /\ Selected(esp') \in {Selected(esp), writer[p].rec} /\ writer[p].at # NoSlot
      /\ writer'[p].rec = writer[p].rec
      /\ \A q \in Writers \ {p} : writer'[q] = writer[q]
  BY CopyKeeps
<1>3. machine.mode # "edl" => ~writer'["host"].ok
  <2>1. machine.mode # "edl" => p # "host"
    BY <1>1, <1>2 DEF ModeInv
  <2> QED
    BY <1>2, <2>1, WritersAre DEF BootInv
<1>4. ASSUME machine.mode = "linux", sup.pc \in Early
      PROVE  /\ Opened(Selected(esp'))
             /\ sup.pc \in {"userspace-writing", "reverting"} => Opened(writer'["supervisor"].rec)
  <2>1. p = "supervisor" /\ sup.pc \in {"userspace-writing", "reverting"}
    BY <1>1, <1>2, <1>4, WriterCases DEF ModeInv, SelWaits, UpdWaits, SupWaits, Early
  <2>2. Opened(Selected(esp)) /\ Opened(writer["supervisor"].rec)
    BY <1>4, <2>1 DEF BootInv, Running
  <2> QED
    BY <1>2, <2>1, <2>2 DEF Opened
<1>5. BootInv /\ Running' = Running
  BY <1>1 DEF Running
<1> QED
  BY <1>1, <1>3, <1>4, <1>5 DEF BootInv, Opened, Running

\* A reset that was owed, a board that starts, or something asked for.
LEMMA BoardMoves ==
  ASSUME TypeInv, DeviceInv, BootInv, Board
  PROVE  BootInv' /\ (budget' = budget => Left' < Left)
<1> DEFINE r == Selected(esp)
<1>1. /\ Selected(esp') = r /\ ghost'.proven = ghost.proven
      /\ ModeInv /\ RunInv /\ machine \in Machines
      /\ sel \in [pc : SelectorSteps, mem : Copies, slot : Slots, tag : Tags, again : BOOLEAN]
  BY BoardChanges DEF DeviceInv, TypeInv, TypeOK, TypeOKDevice, TypeOKSelector
<1>2. budget' = budget => ~Request /\ \A kind : ~Fault(kind)
  BY DEF Request, Fault, TypeInv, TypeOK, TypeOKDevice
\* The programs are gone; a trial is owed only if one is armed.
<1>3. ASSUME Off
      PROVE  /\ BootInv' /\ (TrialOwed' => TrialOwed /\ r.phase = "armed")
             /\ ~ArmOwed' /\ ~RebootOwed' /\ ~HostOwed'
  <2>1. /\ machine'.mode = "off" /\ sel'.pc = "off" /\ upd'.pc = "idle" /\ sup'.pc = "off"
        /\ writer' = [q \in Writers |-> NoWrite]
    BY <1>3 DEF Off, Dark, NoSelector, NoUpdate, NoSupervisor, Outage
  <2>2. ~writer'["host"].ok
    BY <2>1, WritersAre DEF NoWrite
  <2>3. BootInv'
    BY <1>1, <2>1, <2>2 DEF BootInv, Running
  <2>4. /\ TrialOwed' => r.phase = "armed"
        /\ ~ArmOwed' /\ ~RebootOwed' /\ ~HostOwed'
    BY <1>1, <2>1 DEF TrialOwed, ArmOwed, RebootOwed, HostOwed, Running, Installing
  <2> QED
    BY <2>3, <2>4 DEF TrialOwed
<1>4. CASE PowerOn
  <2>1. /\ machine.mode = "off" /\ machine'.mode = "uboot" /\ sel.pc = "off" /\ sel'.pc = "probe"
        /\ UNCHANGED <<esp, writer, upd, sup, budget>>
    BY <1>1, <1>4 DEF PowerOn, ModeInv, Machines
  <2>2. BootInv'
    BY <1>1, <2>1 DEF BootInv, Running
  <2>3. /\ TrialOwed' => TrialOwed
        /\ ArmOwed' => ArmOwed
        /\ RebootOwed' => RebootOwed
        /\ HostOwed' => HostOwed
    BY <2>1 DEF TrialOwed, ArmOwed, RebootOwed, HostOwed, Running, Installing
  <2>4. SelectorRank(machine'.mode, sel'.pc) < SelectorRank(machine.mode, sel.pc)
    BY <2>1 DEF SelectorRank
  <2>5. RanksLeft' < RanksLeft
    <3>1. /\ SelectorRank(machine.mode, sel.pc) \in 0..12
          /\ SelectorRank(machine.mode, sel.pc)' \in 0..12
          /\ SupervisorRank(sup.pc) \in 0..13 /\ UpdaterRank(upd.pc) \in 0..13
      BY RanksTyped
    <3> QED
      BY <2>1, <2>4, <3>1 DEF RanksLeft
  <2>6. \A q \in Writers : Settled(q)
    BY <1>1, <2>1, AllSettled
  <2>7. StepsLeft' < StepsLeft
    BY <2>1, <2>5, <2>6, ProgramSteps, WritersAre
  <2> QED
    BY <2>2, <2>3, <2>7, NoMoreOwed, Nearer
<1>5. CASE Reboot
  <2>1. RebootOwed
    BY <1>1, <1>5 DEF Reboot, ModeInv, RebootOwed
  <2> QED
    BY <1>3, <1>5, <2>1, OneLessOwed, Nearer DEF Reboot
<1>6. CASE WatchdogReset
  <2>1. machine.mode = "linux" /\ machine.dog = "armed" /\ sup.pc \in {"dead", "wait"} /\ Off
    BY <1>6 DEF WatchdogReset, Running
  <2>2. machine.trial
    BY <2>1 DEF BootInv, Running
  <2>3. TrialOwed /\ r.phase # "armed"
    BY <1>1, <2>1, <2>2 DEF TrialOwed, Running, RunInv, Decided, OnTrial
  <2> QED
    BY <1>3, <2>1, <2>3, OneLessOwed, Nearer
<1>7. CASE EdlExit
  <2>1. Off
    BY <1>7 DEF EdlExit
  <2>2. budget' = budget => HostOwed
    BY <1>2, <1>7 DEF EdlExit, HostOwed
  <2> QED
    BY <1>3, <2>1, <2>2, OneLessOwed, Nearer
<1>8. CASE PowerCut \/ Restart
  BY <1>2, <1>3, <1>8 DEF PowerCut, Restart
<1>9. CASE MediaLoss
  BY <1>1, <1>2, <1>9 DEF MediaLoss, BootInv, Running
<1>10. CASE NormalRequest
  BY <1>1, <1>2, <1>10 DEF NormalRequest, BootInv, Running
<1> QED
  BY <1>4, <1>5, <1>6, <1>7, <1>8, <1>9, <1>10 DEF Board

LEMMA StepMoves ==
  ASSUME Undisturbed, TypeInv, DeviceInv, PlainInv, BootInv, [Next]_vars
  PROVE  BootInv' /\ (budget' = budget => Left' < Left \/ UNCHANGED vars)
<1>1. ModeInv
  BY DEF DeviceInv
<1>2. /\ SelectorRank(machine.mode, sel.pc) \in 0..12
      /\ SelectorRank(machine.mode, sel.pc)' \in 0..12
      /\ SupervisorRank(sup.pc) \in 0..13 /\ SupervisorRank(sup.pc)' \in 0..13
      /\ UpdaterRank(upd.pc) \in 0..13 /\ UpdaterRank(upd.pc)' \in 0..13
  BY RanksTyped
<1>3. CASE UNCHANGED vars
  BY <1>3 DEF vars, deviceVars, BootInv, Opened, Running
<1>4. CASE \E p \in Writers : CopyStep(p)
  BY <1>4, CopyNears, CopyBoots DEF Undisturbed
<1>5. CASE Board
  BY <1>5, BoardMoves
<1>6. CASE Commanding
  <2>1. budget' # budget
    BY <1>6 DEF Commanding, UpdaterCommands, RequestRecovery, SetUsbMode, Install, Activate, Command,
       Request, TypeInv, TypeOK, TypeOKDevice
  <2> QED
    BY <1>6, <2>1, UpdaterBoots DEF Undisturbed, Orderly
<1>7. CASE Selecting
  <2>1. BootInv' /\ RanksLeft' < RanksLeft /\ (TrialOwed' => TrialOwed)
    BY <1>2, <1>7, SelectorMoves DEF RanksLeft
  <2>2. /\ \A q \in Writers : Settled(q)
        /\ \A q \in Writers \ {"uboot"} : writer'[q] = writer[q]
    BY <1>1, <1>7, SelectorMoves, AllSettled
  <2>3. StepsLeft' < StepsLeft
    BY <2>1, <2>2, ProgramSteps, WritersAre
  <2>4. (ArmOwed' => ArmOwed) /\ (RebootOwed' => RebootOwed)
    BY <1>7, SelectorMoves DEF ArmOwed, RebootOwed
  <2>5. HostOwed' => HostOwed
    <3>1. writer'["host"] = writer["host"] /\ writer["host"].at = NoSlot /\ ~writer["host"].ok
      BY <1>7, <2>2, SelectorMoves, WritersAre DEF BootInv, Settled
    <3> QED
      BY <3>1 DEF HostOwed, Settled
  <2> QED
    BY <2>1, <2>3, <2>4, <2>5, NoMoreOwed, Nearer
<1>8. CASE Supervising
  <2>1. BootInv' /\ RanksLeft' < RanksLeft
    BY <1>2, <1>8, SupervisorMoves DEF RanksLeft, SameBoot
  <2>2. /\ \A q \in Writers : Settled(q)
        /\ \A q \in Writers \ {"supervisor"} : writer'[q] = writer[q]
    BY <1>1, <1>8, SupervisorMoves, AllSettled
  <2>3. StepsLeft' < StepsLeft
    BY <2>1, <2>2, ProgramSteps, WritersAre
  <2>4. /\ TrialOwed' => TrialOwed
        /\ ArmOwed' => ArmOwed
        /\ RebootOwed' => RebootOwed
        /\ HostOwed' => HostOwed
    BY <1>8, SupervisorMoves DEF TrialOwed, ArmOwed, RebootOwed, HostOwed, SameBoot, Running
  <2> QED
    BY <2>1, <2>3, <2>4, NoMoreOwed, Nearer
<1>9. CASE Updating
  <2>1. BootInv' /\ RanksLeft' < RanksLeft
    <3>1. BootInv'
      BY <1>9, UpdaterBoots DEF Undisturbed, Orderly
    <3> QED
      BY <1>2, <1>9, <3>1, UpdaterMoves DEF RanksLeft, SameBoot
  <2>2. /\ \A q \in Writers : Settled(q)
        /\ \A q \in Writers \ {"updater"} : writer'[q] = writer[q]
    BY <1>1, <1>9, UpdaterMoves, AllSettled
  <2>3. StepsLeft' < StepsLeft
    BY <2>1, <2>2, ProgramSteps, WritersAre
  <2>4. HostOwed' => HostOwed
    BY <1>9, UpdaterMoves DEF HostOwed, SameBoot
  <2> QED
    BY <1>9, <2>1, <2>3, <2>4, UpdaterMoves, NoMoreOwed, Nearer
<1> QED
  BY <1>3, <1>4, <1>5, <1>6, <1>7, <1>8, <1>9 DEF Next, Board

\* Requests and faults apart, every step brings the device nearer to rest: no
\* boot loops, and no program of the device goes on for ever.
THEOREM DeviceNears == Undisturbed => (Spec => RestNears)
<1> SUFFICES ASSUME Undisturbed PROVE Spec => RestNears
  OBVIOUS
<1>1. Init => PlainInv /\ BootInv
  BY ImagesAssumption, WritersAre
  DEF Init, DeviceInit, StoreInit, PlainInv, BootInv, NoSelector, Dark, Running, NoWrite
<1>2. TypeInv /\ DeviceInv /\ PlainInv /\ [Next]_vars => PlainInv'
  BY PlainStep
<1>3. TypeInv /\ DeviceInv /\ PlainInv /\ BootInv /\ [Next]_vars =>
        BootInv' /\ [budget' = budget => Left' < Left /\ Left' \in Nat]_vars
  BY StepMoves, LeftNatural
<1>4. Spec => [](TypeInv /\ DeviceInv)
  BY DeviceInvariant DEF Undisturbed
<1> QED
  BY <1>1, <1>2, <1>3, <1>4, PTL DEF Spec, RestNears
=============================================================================
