------------------------------- MODULE Updater -------------------------------
(***************************************************************************)
(* vamos-update on a running system: install, activate, request-edl and    *)
(* usb-mode, each under the update lock.  It writes the inactive slot,     *)
(* keeps the journal and arms the one-shot trial.                          *)
(***************************************************************************)
EXTENDS Device

VARIABLE upd   \* pc: the next step of the command in progress; doc: its copy
               \* of the journal; and whether activation follows, and a reboot

UpdaterSteps ==
  {"idle", "request", "cancel", "system", "system-writing", "esp",
   "esp-writing", "install-selector", "selector", "validate", "activate",
   "arming", "undo", "undoing", "reboot"}
TypeOKUpdater ==
  upd \in [pc : UpdaterSteps, doc : Journals, activate : BOOLEAN, reboot : BOOLEAN]
NoUpdate == [pc |-> "idle", doc |-> NoJournal, activate |-> FALSE, reboot |-> FALSE]

In(pc) == Running /\ upd.pc = pc /\ Settled("updater")
Accepted == writer["updater"].ok
Proceed(pc) == upd' = [upd EXCEPT !.pc = pc]

Lock == machine.lock = "free" /\ machine' = [machine EXCEPT !.lock = "updater"]
\* The command ends, one way or the other.
Release ==
  /\ machine' = [machine EXCEPT !.lock = "free"]
  /\ upd' = NoUpdate
\* set_boot_control and its siblings: a first, then b.
Write(rec) == StartWrite("updater", rec, "a") /\ UNCHANGED esp
SaveJournal(doc) == journal' = doc

\* The command begins: one at a time, and only once stage 1 is over.
Command == Running /\ machine.up /\ upd.pc = "idle" /\ Lock /\ Request

-----------------------------------------------------------------------------
\* request-edl and usb-mode rewrite the selected record; then they sync and
\* reboot at once, unless told not to.
RequestRecovery ==
  /\ Command /\ Readable(esp)
  /\ Write(RequestEdl(Selected(esp)))
  /\ Proceed("request")
  /\ ghost' = [ghost EXCEPT !.edls = 1]
  /\ UNCHANGED <<image, journal>>

SetUsbMode ==
  /\ Command /\ Readable(esp)
  /\ Write(Touched(Selected(esp)))
  /\ Proceed("request")
  /\ UNCHANGED <<image, journal, ghost>>

Requested ==
  /\ In("request")
  /\ \/ Accepted /\ Proceed("reboot") /\ UNCHANGED machine
     \/ Release
  /\ UNCHANGED <<esp, writer, image, journal, budget, ghost>>

-----------------------------------------------------------------------------
\* Broken variant: only a trial that has been attempted is cancelled.
CancelsAttempts == Readable(esp) /\ Selected(esp).phase = "attempted"
\* boot_control() is not None
Cancels == Readable(esp)

\* install first makes the running slot stable, so that an earlier trial of
\* the inactive slot is off before that slot is touched.
Install ==
  /\ Command
  /\ \E v \in Images, activate, reboot \in BOOLEAN :
       LET doc == [state |-> "writing", active |-> machine.slot,
                   target |-> Peer(machine.slot), version |-> v]
       IN
       /\ reboot => activate
       /\ upd' = [pc |-> IF Cancels THEN "cancel" ELSE "system",
                  doc |-> doc, activate |-> activate, reboot |-> reboot]
       /\ IF Cancels
          THEN Write(Stabilised(Selected(esp), machine.slot)) /\ UNCHANGED journal
          ELSE SaveJournal(doc) /\ UNCHANGED <<esp, writer>>
  /\ UNCHANGED <<image, ghost>>

\* An earlier trial that could not be cancelled ends the command.
Cancelled ==
  /\ In("cancel")
  /\ \/ /\ Accepted
        /\ SaveJournal(upd.doc)
        /\ Proceed("system")
        /\ ghost' = [ghost EXCEPT !.trials = 0]
        /\ UNCHANGED machine
     \/ ~Accepted /\ Release /\ UNCHANGED <<journal, ghost>>
  /\ UNCHANGED <<esp, writer, image, budget>>

\* write_image: the partition is torn from the first byte to the last; an I/O
\* error or a digest mismatch leaves it so.
WriteSystem ==
  /\ In("system")
  /\ image' = [image EXCEPT ![upd.doc.target].sys = Partial]
  /\ Proceed("system-writing")
  /\ UNCHANGED <<esp, writer, journal, machine, budget, ghost>>

SystemWritten ==
  /\ In("system-writing")
  /\ image' = [image EXCEPT ![upd.doc.target].sys = upd.doc.version]
  /\ Proceed("esp")
  /\ UNCHANGED <<esp, writer, journal, machine, budget, ghost>>

\* The ESP image carries its own control block over the copy on that ESP.
WriteEsp ==
  /\ In("esp")
  /\ image' = [image EXCEPT ![upd.doc.target].esp = Partial]
  /\ \E copy \in {esp[upd.doc.target], Damaged, ImageRecord} :
       esp' = [esp EXCEPT ![upd.doc.target] = copy]
  /\ Proceed("esp-writing")
  /\ UNCHANGED <<writer, journal, machine, budget, ghost>>

EspWritten ==
  /\ In("esp-writing")
  /\ image' = [image EXCEPT ![upd.doc.target].esp = upd.doc.version]
  /\ esp' = [esp EXCEPT ![upd.doc.target] = ImageRecord]
  /\ Proceed("install-selector")
  /\ UNCHANGED <<writer, journal, machine, budget, ghost>>

\* prepare_disk_selector: the new selector goes to the running slot's ESP and
\* then the record to the new one; either failing ends it.
InstallSelector ==
  /\ In("install-selector")
  /\ StartWrite("updater", SelectorInstalled(Previous(esp), machine.slot), machine.slot)
  /\ Proceed("selector")
  /\ UNCHANGED <<esp, image, journal, machine, budget, ghost>>

SelectorDone ==
  /\ In("selector")
  /\ Proceed(IF Accepted THEN "validate" ELSE "undo")
  /\ UNCHANGED deviceVars

\* The contents of both partitions check out, and the images are kept.
Validate ==
  /\ In("validate")
  /\ LET doc == [upd.doc EXCEPT !.state = "verified"] IN
     /\ SaveJournal(doc)
     /\ upd' = [upd EXCEPT !.doc = doc, !.pc = IF upd.activate THEN "activate" ELSE "idle"]
     /\ machine' = [machine EXCEPT !.lock = IF upd.activate THEN @ ELSE "free"]
  /\ UNCHANGED <<esp, writer, image, budget, ghost>>

\* Any error between the first written byte and the end of validation.
InstallFails ==
  /\ \E pc \in {"system-writing", "esp-writing", "validate"} : In(pc)
  /\ Fault("image")
  /\ Proceed("undo")
  /\ UNCHANGED <<esp, writer, image, journal, machine, ghost>>

-----------------------------------------------------------------------------
\* activate_staged as a command of its own; install goes straight to Arm.
Activate ==
  /\ Command
  /\ \E reboot \in BOOLEAN :
       upd' = [pc |-> "activate", doc |-> journal, activate |-> TRUE, reboot |-> reboot]
  /\ UNCHANGED <<esp, writer, image, journal, ghost>>

\* The staged update targets the inactive slot and its hashes still match.
Staging(doc) ==
  /\ doc.state \in {"verified", "ready"}
  /\ doc.active = machine.slot /\ doc.target = Peer(machine.slot)
  /\ Sound(doc.target, doc.version)

Arm ==
  /\ In("activate")
  /\ \/ /\ Staging(upd.doc)
        /\ Write(Armed(Previous(esp), machine.slot))
        /\ Proceed("arming")
        /\ ghost' = [ghost EXCEPT !.trials = 1]
        /\ UNCHANGED machine
     \/ ~Staging(upd.doc) /\ Release /\ UNCHANGED <<esp, writer, ghost>>
  /\ UNCHANGED <<image, journal, budget>>

ArmDone ==
  /\ In("arming")
  /\ \/ /\ Accepted
        /\ SaveJournal([upd.doc EXCEPT !.state = "ready"])
        /\ IF upd.reboot THEN Proceed("reboot") /\ UNCHANGED machine ELSE Release
     \/ ~Accepted /\ Proceed("undo") /\ UNCHANGED <<journal, machine>>
  /\ UNCHANGED <<esp, writer, image, budget, ghost>>

-----------------------------------------------------------------------------
\* The error path of install and activate: back to the running slot, whether
\* or not that can be recorded.
Undo ==
  /\ In("undo")
  /\ Write(Stabilised(Previous(esp), machine.slot))
  /\ Proceed("undoing")
  /\ UNCHANGED <<image, journal, machine, budget, ghost>>

Undone ==
  /\ In("undoing")
  /\ SaveJournal([upd.doc EXCEPT !.state = "failed"])
  /\ ghost' = [ghost EXCEPT !.trials = IF Accepted THEN 0 ELSE @]
  /\ Release
  /\ UNCHANGED <<esp, writer, image, budget>>

UpdaterCommands == RequestRecovery \/ SetUsbMode \/ Install \/ Activate

UpdaterNext ==
  \/ Requested \/ Cancelled
  \/ WriteSystem \/ SystemWritten \/ WriteEsp \/ EspWritten
  \/ InstallSelector \/ SelectorDone \/ Validate \/ InstallFails
  \/ Arm \/ ArmDone \/ Undo \/ Undone
=============================================================================
