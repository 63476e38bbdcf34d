---------------------------- MODULE ControlStore ----------------------------
(***************************************************************************)
(* The two copies of the boot-control record and the programs that write   *)
(* them.                                                                   *)
(*                                                                         *)
(* A program picks the selected copy, computes a new record and writes it  *)
(* to one ESP after the other: U-Boot to b and then a (vamos_persist), the *)
(* updater to a and then b (set_boot_control and its siblings), the boot   *)
(* diagnostics to b and then a (record_stage).  The change counts as made  *)
(* if either ESP took it.  A write may fail with any effect on its copy,   *)
(* the power may go at any moment, and an image install replaces the whole *)
(* ESP under a copy.                                                       *)
(*                                                                         *)
(* What this module promises is the atomicity of the pair: see             *)
(* AtomicControl, and ControlStoreProofs for the proof.                    *)
(***************************************************************************)
EXTENDS BootControl

CONSTANTS
  Writers,   \* the programs that write the record
  MaxGen     \* bound on generations

ASSUME MaxGenAssumption == MaxGen \in Nat

VARIABLES
  esp,       \* esp[s]: the copy on ESP s
  writer     \* writer[p]: the write of program p in progress, if any

storeVars == <<esp, writer>>

\* rec is being written to ESP at, then to ESP after; ok: some ESP took it.
Writing == [rec : Copies, at : Slots \cup {NoSlot},
            after : Slots \cup {NoSlot}, ok : BOOLEAN]

NoWrite == [rec |-> Damaged, at |-> NoSlot, after |-> NoSlot, ok |-> FALSE]

Settled(p) == writer[p].at = NoSlot

TypeOKStore ==
  /\ esp \in [Slots -> Copies]
  /\ writer \in [Writers -> Writing]

-----------------------------------------------------------------------------
\* Program p sets out to write rec, first to the ESP of slot first.
StartWrite(p, rec, first) ==
  /\ rec.gen <= MaxGen
  /\ writer' = [writer EXCEPT ![p] =
       [rec |-> rec, at |-> first, after |-> Peer(first), ok |-> FALSE]]

\* Broken variant: the first ESP that takes the record is enough.
AdvanceOnce(p, took) ==
  writer' = [writer EXCEPT ![p] =
    [rec |-> @.rec, at |-> IF took THEN NoSlot ELSE @.after,
     after |-> NoSlot, ok |-> @.ok \/ took]]

\* The outcome of the ESP in hand is known; go on to the other one.
Advance(p, took) ==
  writer' = [writer EXCEPT ![p] =
    [rec |-> @.rec, at |-> @.after, after |-> NoSlot, ok |-> @.ok \/ took]]

\* The copy on slot s can be lost without losing the selection: the other ESP
\* holds the selected record.  This is the single-fault hypothesis: media and
\* power faults hit a copy only while its twin carries the selection.
Expendable(s) == esp[Peer(s)] = Selected(esp)

CopyWritten(p) ==
  LET s == writer[p].at IN
  /\ s # NoSlot
  /\ esp' = [esp EXCEPT ![s] = writer[p].rec]
  /\ Advance(p, TRUE)

\* The ESP has no loader or kernel, or does not mount: it is left alone.
CopyRefused(p) ==
  LET s == writer[p].at IN
  /\ s # NoSlot
  /\ Expendable(s)
  /\ Advance(p, FALSE)
  /\ UNCHANGED esp

\* A failing write leaves the copy old, new or unreadable.
Spoilt(p) ==
  LET s == writer[p].at IN
  /\ s # NoSlot
  /\ Expendable(s)
  /\ \E left \in {esp[s], writer[p].rec, Damaged} : esp' = [esp EXCEPT ![s] = left]

CopyFailed(p) == Spoilt(p) /\ Advance(p, FALSE)

\* A program that needs both ESPs stops at an error on the first.
Forget(p) == writer' = [writer EXCEPT ![p] = NoWrite]
Abandon(p) == ~Settled(p) /\ Forget(p) /\ UNCHANGED esp

\* The power goes: every program is gone, and a copy being written may be torn.
Outage ==
  /\ writer' = [p \in Writers |-> NoWrite]
  /\ \/ UNCHANGED esp
     \/ \E p \in Writers :
          LET s == writer[p].at IN
          /\ s # NoSlot
          /\ Expendable(s)
          /\ esp' = [esp EXCEPT ![s] = Damaged]

\* An image is being written over the ESP of slot s, or has been: its own
\* environment block replaces the copy.
Overwrite(s, copy) ==
  /\ Expendable(s)
  /\ esp' = [esp EXCEPT ![s] = copy]

-----------------------------------------------------------------------------
\* The store by itself, under writers that take turns.  A program changes the
\* selected record or, like U-Boot, goes on from the one it failed to persist.
Base(p) ==
  {Selected(esp)} \cup {r \in {writer[p].rec} :
                         r # Damaged /\ Supersedes(r, Selected(esp))}

Begin(p) ==
  /\ \A q \in Writers : Settled(q)
  /\ \E base \in Base(p) : \E rec \in Changes(base), first \in Slots :
       StartWrite(p, rec, first)
  /\ UNCHANGED esp

Replace ==
  /\ \A q \in Writers : Settled(q)
  /\ \E s \in Slots, copy \in {Damaged, ImageRecord} : Overwrite(s, copy)
  /\ UNCHANGED writer

StoreInit ==
  /\ esp = [s \in Slots |-> FactoryRecord]
  /\ writer = [p \in Writers |-> NoWrite]

StoreNext ==
  \/ \E p \in Writers :
       \/ Begin(p) \/ CopyWritten(p) \/ CopyRefused(p)
       \/ CopyFailed(p) \/ Abandon(p)
  \/ Replace
  \/ Outage

StoreSpec == StoreInit /\ [][StoreNext]_storeVars

-----------------------------------------------------------------------------
\* Some copy is always readable, whatever single fault struck
\* (the redundancy of EFI/vamos/grubenv on both ESPs).
AlwaysReadable == Readable(esp)

\* A write in progress proposes a record that supersedes the selection, or is
\* already the selection through the other ESP.
WriteAhead(p) ==
  LET w == writer[p] IN
  w.at # NoSlot =>
    /\ w.rec \in Controls
    /\ w.after \in {NoSlot, Peer(w.at)}
    /\ \/ Supersedes(w.rec, Selected(esp))
       \/ w.after = NoSlot /\ esp[Peer(w.at)] = w.rec /\ Selected(esp) = w.rec

OneWriter ==
  \A p, q \in Writers : ~Settled(p) /\ ~Settled(q) => p = q

StoreInv ==
  /\ TypeOKStore
  /\ AlwaysReadable
  /\ Selected(esp).gen >= 1
  /\ OneWriter
  /\ \A p \in Writers : WriteAhead(p)

-----------------------------------------------------------------------------
\* The pair of copies implements one atomic record.
Atomic == INSTANCE AtomicControl WITH control <- Selected(esp)
AtomicRecord == Atomic!Spec
=============================================================================
