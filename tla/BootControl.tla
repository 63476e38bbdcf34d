---------------------------- MODULE BootControl ----------------------------
(***************************************************************************)
(* The boot-control record of a Dragon A/B disk and the rule by which      *)
(* every reader picks one of its two copies.                               *)
(*                                                                         *)
(* Each EFI system partition ("a" is GPT partition 1, "b" is partition 3)  *)
(* holds one copy in EFI/vamos/grubenv.  update.py reads a copy in         *)
(* decode_boot_control, U-Boot in vamos_read_state; both reject a copy     *)
(* that does not parse, and both pick the survivor by generation and then  *)
(* by phase.  Root references and the USB role are carried along unchanged *)
(* by every writer and are not part of the record here.                    *)
(***************************************************************************)
EXTENDS Naturals

CONSTANT Damaged   \* a copy that cannot be read: missing, torn or refused

Slots == {"a", "b"}
NoSlot == "-"
Peer(s) == IF s = "a" THEN "b" ELSE "a"

Phases == {"armed", "attempted", "stable"}
Stages == {"unknown", "loading", "kernel", "userspace", "healthy"}

\* BOOT_PHASE_RANK and vamos_rank: between copies of one generation the most
\* conservative phase wins.
Rank(phase) == CASE phase = "armed"     -> 1
                 [] phase = "attempted" -> 2
                 [] phase = "stable"    -> 3

\* The parsed fields.  edl and normal are the one-shot requests; count,
\* stage and bslot are the diagnostics of the boot in progress.
ControlRecord ==
  [gen : Nat, active : Slots, pending : Slots \cup {NoSlot}, phase : Phases,
   edl : BOOLEAN, normal : BOOLEAN,
   count : Nat, stage : Stages, bslot : Slots \cup {NoSlot}]

\* A trial phase names a pending slot that is not the active one; any other
\* record is refused by both readers.
Valid(r) == r.phase # "stable" => r.pending = Peer(r.active)

Controls == {r \in ControlRecord : Valid(r)}

ASSUME DamagedAssumption == Damaged \notin ControlRecord

\* What an ESP can hold.
Copies == Controls \cup {Damaged}

\* Broken variant: the generation alone decides.
GenerationOnly(x, y) == x.gen > y.gen

\* x is picked over y: higher generation, then higher phase rank.
Supersedes(x, y) ==
  \/ x.gen > y.gen
  \/ x.gen = y.gen /\ Rank(x.phase) > Rank(y.phase)

\* The copy a reader acts on.  Both readers look at slot a first and replace
\* it only by a copy that supersedes it, so a tie goes to slot a.
Selected(esp) ==
  IF esp["a"] = Damaged THEN esp["b"]
  ELSE IF esp["b"] # Damaged /\ Supersedes(esp["b"], esp["a"])
       THEN esp["b"] ELSE esp["a"]

Readable(esp) == Selected(esp) # Damaged

-----------------------------------------------------------------------------
\* The record changes the programs make.  Each takes the selected record.

\* A writer of the policy fields keeps the diagnostics it read ...
Policy(r, gen, active, pending, phase, edl, normal) ==
  [gen |-> gen, active |-> active, pending |-> pending, phase |-> phase,
   edl |-> edl, normal |-> normal,
   count |-> r.count, stage |-> r.stage, bslot |-> r.bslot]

\* ... and a writer of the diagnostics keeps the policy.
Diagnosis(r, count, stage, bslot) ==
  [gen |-> r.gen + 1, active |-> r.active, pending |-> r.pending,
   phase |-> r.phase, edl |-> r.edl, normal |-> r.normal,
   count |-> count, stage |-> stage, bslot |-> bslot]

\* set_boot_control: a new selection, which also drops both requests.
Stabilised(r, active) ==
  Policy(r, r.gen + 1, active, NoSlot, "stable", FALSE, FALSE)
\* Broken variant: the running slot is put on trial.
ArmedOnActive(r, active) ==
  Policy(r, r.gen + 1, active, active, "armed", FALSE, FALSE)
Armed(r, active) ==
  Policy(r, r.gen + 1, active, Peer(active), "armed", FALSE, FALSE)

\* request_edl keeps the selection and asks for one EDL entry.
RequestEdl(r) ==
  Policy(r, r.gen + 1, r.active, r.pending, r.phase, TRUE, FALSE)

\* set_usb_mode rewrites the record with only the role (not modelled) changed.
Touched(r) ==
  Policy(r, r.gen + 1, r.active, r.pending, r.phase, r.edl, r.normal)

\* prepare_disk_selector: stable on the running slot, requests kept.
SelectorInstalled(r, active) ==
  Policy(r, r.gen + 1, active, NoSlot, "stable", r.edl, r.normal)

\* record_stage, and vamosboot's kernel command.
Staged(r, stage) == Diagnosis(r, r.count, stage, r.bslot)

\* vamosboot consuming a one-shot request.
NormalConsumed(r) ==
  Policy(r, r.gen + 1, r.active, r.pending, r.phase, FALSE, FALSE)
\* Broken variant: the request is left in the record.
EdlKept(r) ==
  Policy(r, r.gen + 1, r.active, r.pending, r.phase, r.edl, r.normal)
EdlConsumed(r) ==
  Policy(r, r.gen + 1, r.active, r.pending, r.phase, FALSE, r.normal)

\* request_normal on the EDL host asks for one boot past the USB host probe.
NormalRequested(r) ==
  Policy(r, r.gen + 1, r.active, r.pending, r.phase, FALSE, TRUE)

\* vamosboot's phase transitions.  An attempt and a rollback keep the
\* generation and rely on the rank; a recovery flips the active slot.
\* Broken variant: the recovery does not outrank the record it replaces.
RecoveredInPlace(r) ==
  Policy(r, r.gen, Peer(r.active), NoSlot, "stable", r.edl, r.normal)
\* Broken variant: the attempt leaves the trial armed.
AttemptedAgain(r) ==
  Policy(r, r.gen, r.active, r.pending, r.phase, r.edl, r.normal)
Attempted(r) ==
  Policy(r, r.gen, r.active, r.pending, "attempted", r.edl, r.normal)
RolledBack(r) ==
  Policy(r, r.gen, r.active, NoSlot, "stable", r.edl, r.normal)
Recovered(r) ==
  Policy(r, r.gen + 1, Peer(r.active), NoSlot, "stable", r.edl, r.normal)

\* vamosboot opening the diagnostics of a new boot of slot s.
\* Broken variant: the slot being booted becomes the default.
LoadingActivates(r, s) == [Diagnosis(r, r.count + 1, "loading", s) EXCEPT !.active = s]
Loading(r, s) == Diagnosis(r, r.count + 1, "loading", s)

\* Every change some program makes to the record r it picked.
Changes(r) ==
  {Stabilised(r, s) : s \in Slots} \cup {Armed(r, s) : s \in Slots}
  \cup {SelectorInstalled(r, s) : s \in Slots}
  \cup {Staged(r, g) : g \in {"kernel", "userspace", "healthy"}}
  \cup {Loading(r, s) : s \in Slots}
  \cup {RequestEdl(r), Touched(r), NormalConsumed(r), EdlConsumed(r),
        NormalRequested(r), Recovered(r)}
  \cup {x \in {Attempted(r)} : r.phase = "armed"}
  \cup {x \in {RolledBack(r)} : r.phase = "attempted"}

\* The record in the environment block that build_esp.sh puts in every image.
ImageRecord ==
  [gen |-> 0, active |-> "a", pending |-> NoSlot, phase |-> "stable",
   edl |-> FALSE, normal |-> FALSE, count |-> 0, stage |-> "unknown",
   bslot |-> NoSlot]

\* The record build_disk.sh puts on both ESPs of a factory disk.
FactoryRecord == Policy(ImageRecord, 1, "a", NoSlot, "stable", FALSE, TRUE)

\* What set_boot_control and prepare_disk_selector build on: without a record
\* they start from generation 0 and the defaults.
Previous(esp) == IF Readable(esp) THEN Selected(esp) ELSE ImageRecord
=============================================================================
