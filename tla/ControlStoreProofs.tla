-------------------------- MODULE ControlStoreProofs --------------------------
(***************************************************************************)
(* The two copies of the boot-control record behave as one atomic record,  *)
(* for every set of writers and every bound on generations: the inductive  *)
(* invariant is StoreInv, whose heart is WriteAhead.                       *)
(***************************************************************************)
EXTENDS ControlStore, TLAPS

\* Every change a program makes is a valid record that supersedes the one it
\* was made from.
LEMMA ChangeSupersedes ==
  ASSUME NEW r \in Controls, NEW x \in Changes(r)
  PROVE  x \in Controls /\ Supersedes(x, r)
<1> USE DEF Controls, ControlRecord, Valid, Supersedes, Policy, Diagnosis,
            Phases, Stages
<1>1. ASSUME NEW s \in Slots
      PROVE  /\ Stabilised(r, s) \in Controls /\ Supersedes(Stabilised(r, s), r)
             /\ SelectorInstalled(r, s) \in Controls /\ Supersedes(SelectorInstalled(r, s), r)
             /\ Loading(r, s) \in Controls /\ Supersedes(Loading(r, s), r)
  BY DEF Stabilised, SelectorInstalled, Loading
<1>2. ASSUME NEW s \in Slots
      PROVE  Armed(r, s) \in Controls /\ Supersedes(Armed(r, s), r)
  BY DEF Armed, Slots, Peer
<1>3. ASSUME NEW g \in {"kernel", "userspace", "healthy"}
      PROVE  Staged(r, g) \in Controls /\ Supersedes(Staged(r, g), r)
  BY DEF Staged
<1>4. /\ RequestEdl(r) \in Controls /\ Supersedes(RequestEdl(r), r)
      /\ Touched(r) \in Controls /\ Supersedes(Touched(r), r)
      /\ NormalConsumed(r) \in Controls /\ Supersedes(NormalConsumed(r), r)
      /\ EdlConsumed(r) \in Controls /\ Supersedes(EdlConsumed(r), r)
      /\ NormalRequested(r) \in Controls /\ Supersedes(NormalRequested(r), r)
  BY DEF RequestEdl, Touched, NormalConsumed, EdlConsumed, NormalRequested
<1>5. Recovered(r) \in Controls /\ Supersedes(Recovered(r), r)
  BY DEF Recovered, Slots, Peer
<1>6. ASSUME r.phase = "armed"
      PROVE  Attempted(r) \in Controls /\ Supersedes(Attempted(r), r)
  BY <1>6 DEF Attempted, Rank
<1>7. ASSUME r.phase = "attempted"
      PROVE  RolledBack(r) \in Controls /\ Supersedes(RolledBack(r), r)
  BY <1>7 DEF RolledBack, Rank
<1> QED
  BY <1>1, <1>2, <1>3, <1>4, <1>5, <1>6, <1>7 DEF Changes

\* The order on records is transitive.
LEMMA SupersedesTransitive ==
  ASSUME NEW x \in Controls, NEW y \in Controls, NEW z \in Controls,
         Supersedes(x, y), Supersedes(y, z)
  PROVE  Supersedes(x, z)
BY DEF Controls, ControlRecord, Supersedes, Rank, Phases

\* A superseding record is selected as soon as one ESP holds it.
LEMMA WriteSelects ==
  ASSUME NEW e \in [Slots -> Copies], Readable(e), NEW s \in Slots,
         NEW rec \in Controls, Supersedes(rec, Selected(e))
  PROVE  Selected([e EXCEPT ![s] = rec]) = rec
<1>1. rec # Damaged
  BY DamagedAssumption DEF Controls
<1> QED
  BY <1>1 DEF Slots, Copies, Readable, Selected, Controls, ControlRecord,
              Supersedes, Rank, Phases

\* Losing or ageing an expendable copy leaves the selection alone.
LEMMA LossKeepsSelection ==
  ASSUME NEW e \in [Slots -> Copies], Readable(e), NEW s \in Slots,
         e[Peer(s)] = Selected(e), NEW left \in Copies,
         \/ left \in {Damaged, e[s], Selected(e)}
         \/ Supersedes(Selected(e), left)
  PROVE  Selected([e EXCEPT ![s] = left]) = Selected(e)
BY DamagedAssumption
   DEF Slots, Peer, Copies, Readable, Selected, Controls, ControlRecord,
       Supersedes, Rank, Phases

-----------------------------------------------------------------------------
\* The effect of one step of a write on the selection.
LEMMA StepOfWrite ==
  ASSUME StoreInv, NEW p \in Writers, ~Settled(p), NEW left \in Copies,
         NEW s \in Slots, s = writer[p].at,
         \/ left \in {writer[p].rec, esp[s]}
         \/ Expendable(s) /\ left = Damaged
  PROVE  LET e == [esp EXCEPT ![s] = left] IN
         /\ e \in [Slots -> Copies]
         /\ Readable(e)
         /\ \/ Selected(e) = Selected(esp)
            \/ Selected(e) = writer[p].rec /\ Supersedes(writer[p].rec, Selected(esp))
<1> DEFINE rec == writer[p].rec
           e == [esp EXCEPT ![s] = left]
<1>1. /\ esp \in [Slots -> Copies] /\ Readable(esp) /\ WriteAhead(p)
      /\ rec \in Controls
  BY DEF StoreInv, TypeOKStore, AlwaysReadable, WriteAhead, Settled
<1>2. rec # Damaged
  BY <1>1, DamagedAssumption DEF Controls
<1>3. e \in [Slots -> Copies]
  BY <1>1
<1>4. CASE Supersedes(rec, Selected(esp))
  <2>1. CASE left = rec
    <3>1. Selected(e) = rec
      BY <1>1, <1>4, <2>1, WriteSelects
    <3> QED
      BY <1>2, <1>3, <1>4, <3>1 DEF Readable
  <2>2. CASE Expendable(s) /\ left = Damaged
    <3>1. Selected(e) = Selected(esp)
      BY <1>1, <2>2, LossKeepsSelection DEF Expendable
    <3> QED
      BY <1>1, <1>3, <3>1 DEF Readable
  <2>3. CASE left = esp[s]
    BY <1>1, <2>3
  <2> QED
    BY <2>1, <2>2, <2>3
<1>5. CASE esp[Peer(s)] = rec /\ Selected(esp) = rec
  <2>1. Selected(e) = Selected(esp)
    BY ZenonT(60), <1>1, <1>5, LossKeepsSelection
  <2> QED
    BY <1>1, <1>3, <2>1 DEF Readable
<1> QED
  BY <1>1, <1>4, <1>5 DEF WriteAhead, Settled, Slots, NoSlot

\* One copy of a write, whatever became of it, preserves the invariant and
\* moves the selection by at most one atomic change.
LEMMA OneCopy ==
  ASSUME StoreInv, NEW p \in Writers, NEW s \in Slots, s = writer[p].at,
         NEW left \in Copies, NEW took \in BOOLEAN,
         esp' = [esp EXCEPT ![s] = left], Advance(p, took),
         \/ left \in {writer[p].rec, esp[s]}
         \/ Expendable(s) /\ left = Damaged
  PROVE  StoreInv' /\ [Atomic!Next]_(Selected(esp))
<1> DEFINE rec == writer[p].rec
<1>1. /\ esp \in [Slots -> Copies] /\ writer \in [Writers -> Writing]
      /\ Readable(esp) /\ WriteAhead(p) /\ OneWriter
      /\ rec \in Controls /\ ~Settled(p)
  BY DEF StoreInv, TypeOKStore, AlwaysReadable, WriteAhead, Settled, Slots, NoSlot
<1>2. /\ esp' \in [Slots -> Copies]
      /\ Readable(esp')
      /\ \/ Selected(esp') = Selected(esp)
         \/ Selected(esp') = rec /\ Supersedes(rec, Selected(esp))
  BY <1>1, StepOfWrite, Zenon
<1>3. [Atomic!Next]_(Selected(esp))
  BY <1>1, <1>2 DEF Atomic!Next, Atomic!Replaced, Atomic!Controls,
     Atomic!ControlRecord, Atomic!Valid, Atomic!Supersedes, Atomic!Rank,
     Atomic!Slots, Atomic!NoSlot, Atomic!Phases, Atomic!Stages, Atomic!Peer,
     Controls, ControlRecord, Valid, Supersedes, Rank, Slots, NoSlot, Phases,
     Stages, Peer
<1>4. Selected(esp').gen >= 1
  BY <1>1, <1>2 DEF StoreInv, Supersedes, Controls, ControlRecord, Readable, Copies, Selected, Slots
<1>5. /\ writer' \in [Writers -> Writing]
      /\ writer'[p].rec = rec /\ writer'[p].at = writer[p].after
      /\ writer'[p].after = NoSlot
      /\ \A q \in Writers \ {p} : writer'[q] = writer[q] /\ writer[q].at = NoSlot
  BY <1>1 DEF Advance, Writing, OneWriter, Settled
<1>6. OneWriter'
  BY <1>5 DEF OneWriter, Settled
<1>7. WriteAhead(p)'
  <2> SUFFICES ASSUME writer[p].after # NoSlot
               PROVE  \/ Supersedes(rec, Selected(esp'))
                      \/ esp'[Peer(writer[p].after)] = rec /\ Selected(esp') = rec
    BY <1>1, <1>5 DEF WriteAhead
  <2>1. Supersedes(rec, Selected(esp)) /\ writer[p].after = Peer(s)
    BY <1>1 DEF WriteAhead, Settled
  <2>2. CASE left = rec
    <3>1. Selected(esp') = rec
      BY <1>1, <2>1, <2>2, WriteSelects
    <3>2. esp'[Peer(Peer(s))] = rec
      BY <1>1, <2>2 DEF Peer, Slots
    <3> QED
      BY <2>1, <3>1, <3>2
  <2>3. CASE Expendable(s) /\ left = Damaged
    <3>1. Selected(esp') = Selected(esp)
      BY <1>1, <2>3, LossKeepsSelection DEF Expendable
    <3> QED
      BY <2>1, <3>1
  <2>4. CASE left = esp[s]
    BY <1>1, <2>1, <2>4
  <2> QED
    BY <2>2, <2>3, <2>4
<1>8. \A q \in Writers : WriteAhead(q)'
  BY <1>5, <1>7 DEF WriteAhead
<1> QED
  BY <1>2, <1>3, <1>4, <1>5, <1>6, <1>8 DEF StoreInv, TypeOKStore, AlwaysReadable

-----------------------------------------------------------------------------
\* The records that images and factory disks carry are valid.
LEMMA InitialRecords ==
  /\ ImageRecord \in Controls /\ ImageRecord.gen = 0
  /\ FactoryRecord \in Controls /\ FactoryRecord.gen = 1
<1>1. ImageRecord \in Controls /\ ImageRecord.gen = 0
  BY DEF ImageRecord, Controls, ControlRecord, Valid, Slots, NoSlot, Phases, Stages
<1>2. FactoryRecord \in Controls /\ FactoryRecord.gen = 1
  BY DEF FactoryRecord, Policy, ImageRecord, Controls, ControlRecord, Valid,
         Slots, NoSlot, Phases, Stages
<1> QED
  BY <1>1, <1>2

\* A factory disk satisfies the invariant.
LEMMA StoreInitInv == StoreInit => StoreInv /\ Selected(esp) = FactoryRecord
<1> SUFFICES ASSUME StoreInit PROVE StoreInv /\ Selected(esp) = FactoryRecord
  OBVIOUS
<1>1. esp \in [Slots -> Copies] /\ Selected(esp) = FactoryRecord
  BY InitialRecords DEF StoreInit, Copies, Selected, Slots
<1>2. FactoryRecord # Damaged
  BY InitialRecords, DamagedAssumption DEF Controls
<1>3. NoWrite \in Writing /\ NoWrite.at = NoSlot
  BY DEF NoWrite, Writing, Copies
<1> QED
  BY <1>1, <1>2, <1>3, InitialRecords
  DEF StoreInit, StoreInv, TypeOKStore, AlwaysReadable, Readable, OneWriter,
      WriteAhead, Settled

\* An outage may tear a copy, and an image may replace one: the selection stays.
LEMMA OutageKeeps ==
  ASSUME StoreInv, Outage
  PROVE  esp' \in [Slots -> Copies] /\ Selected(esp') = Selected(esp)
<1>1. /\ esp \in [Slots -> Copies] /\ writer \in [Writers -> Writing] /\ Readable(esp)
  BY DEF StoreInv, TypeOKStore, AlwaysReadable
<1>2. CASE UNCHANGED esp
  BY <1>1, <1>2
<1>3. CASE ~UNCHANGED esp
  <2>1. PICK p \in Writers :
          /\ writer[p].at # NoSlot
          /\ Expendable(writer[p].at)
          /\ esp' = [esp EXCEPT ![writer[p].at] = Damaged]
    BY <1>3 DEF Outage
  <2>2. writer[p].at \in Slots /\ Damaged \in Copies
    BY <1>1, <2>1 DEF Writing, NoSlot, Copies
  <2> QED
    BY <1>1, <2>1, <2>2, LossKeepsSelection DEF Expendable
<1> QED
  BY <1>2, <1>3

\* An ESP that is overwritten where its twin holds the selection.
LEMMA OverwriteKeeps ==
  ASSUME StoreInv, NEW s \in Slots, NEW copy \in {Damaged, ImageRecord, esp[s]},
         Overwrite(s, copy)
  PROVE  esp' \in [Slots -> Copies] /\ Selected(esp') = Selected(esp)
<1>1. /\ esp \in [Slots -> Copies] /\ Readable(esp) /\ Selected(esp).gen >= 1
      /\ Selected(esp) \in Controls
  BY DEF StoreInv, TypeOKStore, AlwaysReadable, Readable, Selected, Copies, Slots
<1>2. copy \in Copies /\ (copy \in {Damaged, esp[s]} \/ Supersedes(Selected(esp), copy))
  BY <1>1, InitialRecords DEF Copies, Controls, ControlRecord, Supersedes
<1> QED
  BY <1>1, <1>2, LossKeepsSelection DEF Overwrite, Expendable

\* A write that sets out with a record ahead of the selection, and a change of a
\* copy that leaves the selection alone, preserve the invariant.
LEMMA StartKeeps ==
  ASSUME StoreInv, \A q \in Writers : Settled(q),
         NEW p \in Writers, NEW rec \in Controls, NEW first \in Slots,
         Supersedes(rec, Selected(esp)), StartWrite(p, rec, first), esp' = esp
  PROVE  /\ StoreInv'
         /\ writer'[p] = [rec |-> rec, at |-> first, after |-> Peer(first), ok |-> FALSE]
         /\ \A q \in Writers \ {p} : writer'[q] = writer[q]
<1>1. /\ esp \in [Slots -> Copies] /\ writer \in [Writers -> Writing]
      /\ Readable(esp) /\ Selected(esp).gen >= 1
      /\ \A q \in Writers : WriteAhead(q)
  BY DEF StoreInv, TypeOKStore, AlwaysReadable
<1>2. /\ writer' \in [Writers -> Writing]
      /\ writer'[p] = [rec |-> rec, at |-> first, after |-> Peer(first), ok |-> FALSE]
      /\ \A q \in Writers \ {p} : writer'[q] = writer[q]
  BY <1>1 DEF StartWrite, Writing, Copies, Slots, Peer
<1>3. \A q \in Writers : WriteAhead(q)'
  BY <1>1, <1>2 DEF WriteAhead, Slots, Peer, NoSlot
<1>4. OneWriter'
  BY <1>2 DEF OneWriter, Settled
<1> QED
  BY <1>1, <1>2, <1>3, <1>4 DEF StoreInv, TypeOKStore, AlwaysReadable

\* Whatever leaves the selection and the writers alone.
LEMMA SameSelectionKeeps ==
  ASSUME StoreInv, \A q \in Writers : Settled(q), writer' = writer,
         esp' \in [Slots -> Copies], Selected(esp') = Selected(esp)
  PROVE  StoreInv'
<1>1. \A q \in Writers : WriteAhead(q)'
  BY DEF Settled, WriteAhead
<1> QED
  BY <1>1 DEF StoreInv, TypeOKStore, AlwaysReadable, Readable, OneWriter, Settled

\* Every step of the store keeps the invariant and is an atomic change of the
\* selection or leaves it alone.
LEMMA StoreStep ==
  ASSUME StoreInv, [StoreNext]_storeVars
  PROVE  StoreInv' /\ [Atomic!Next]_(Selected(esp))
<1>1. /\ esp \in [Slots -> Copies] /\ writer \in [Writers -> Writing]
      /\ Readable(esp) /\ Selected(esp).gen >= 1
      /\ \A p \in Writers : WriteAhead(p)
  BY DEF StoreInv, TypeOKStore, AlwaysReadable
<1>2. Selected(esp) \in Controls
  BY <1>1 DEF Readable, Selected, Copies, Slots
<1>3. ASSUME NEW p \in Writers, Begin(p)
      PROVE  StoreInv' /\ [Atomic!Next]_(Selected(esp))
  <2>0. PICK base \in Base(p) : \E rec \in Changes(base), first \in Slots :
              StartWrite(p, rec, first)
    BY <1>3 DEF Begin
  <2>1. PICK rec \in Changes(base), first \in Slots : StartWrite(p, rec, first)
    BY <2>0
  <2>2. base \in Controls /\ (base = Selected(esp) \/ Supersedes(base, Selected(esp)))
    BY <1>1, <1>2 DEF Base, Writing, Copies
  <2>3. rec \in Controls /\ Supersedes(rec, Selected(esp))
    BY <1>2, <2>2, ChangeSupersedes, SupersedesTransitive
  <2>4. esp' = esp /\ \A q \in Writers : Settled(q)
    BY <1>3 DEF Begin
  <2>5. StoreInv'
    BY <2>1, <2>3, <2>4, StartKeeps
  <2> QED
    BY <2>4, <2>5
<1>4. ASSUME NEW p \in Writers, CopyWritten(p)
      PROVE  StoreInv' /\ [Atomic!Next]_(Selected(esp))
  <2>1. writer[p].at \in Slots /\ writer[p].rec \in Copies
    BY <1>1, <1>4 DEF CopyWritten, Writing, NoSlot
  <2> QED
    BY <1>4, <2>1, OneCopy DEF CopyWritten
<1>5. ASSUME NEW p \in Writers, CopyRefused(p)
      PROVE  StoreInv' /\ [Atomic!Next]_(Selected(esp))
  <2>1. writer[p].at \in Slots /\ esp[writer[p].at] \in Copies
    BY <1>1, <1>5 DEF CopyRefused, Writing, NoSlot
  <2>2. esp' = [esp EXCEPT ![writer[p].at] = esp[writer[p].at]]
    BY <1>1, <1>5 DEF CopyRefused
  <2> QED
    BY <1>5, <2>1, <2>2, OneCopy DEF CopyRefused
<1>6. ASSUME NEW p \in Writers, CopyFailed(p)
      PROVE  StoreInv' /\ [Atomic!Next]_(Selected(esp))
  <2>1. /\ writer[p].at \in Slots /\ writer[p].rec \in Copies
        /\ esp[writer[p].at] \in Copies /\ Damaged \in Copies
    BY <1>1, <1>6 DEF CopyFailed, Spoilt, Writing, NoSlot, Copies
  <2>2. PICK left \in {esp[writer[p].at], writer[p].rec, Damaged} :
              esp' = [esp EXCEPT ![writer[p].at] = left]
    BY <1>6 DEF CopyFailed, Spoilt
  <2> QED
    BY <1>6, <2>1, <2>2, OneCopy DEF CopyFailed, Spoilt
<1>7. ASSUME Replace
      PROVE  StoreInv' /\ [Atomic!Next]_(Selected(esp))
  <2>1. PICK s \in Slots, copy \in {Damaged, ImageRecord} : Overwrite(s, copy)
    BY <1>7 DEF Replace
  <2>3. esp' \in [Slots -> Copies] /\ Selected(esp') = Selected(esp)
    BY <2>1, OverwriteKeeps
  <2>4. StoreInv'
    BY <1>7, <2>3, SameSelectionKeeps DEF Replace
  <2> QED
    BY <2>3, <2>4
<1>8. ASSUME Outage
      PROVE  StoreInv' /\ [Atomic!Next]_(Selected(esp))
  <2>1. esp' \in [Slots -> Copies] /\ Selected(esp') = Selected(esp)
    BY <1>8, OutageKeeps
  <2>2. writer' = [p \in Writers |-> NoWrite]
    BY <1>8 DEF Outage
  <2>3. TypeOKStore' /\ OneWriter' /\ \A q \in Writers : WriteAhead(q)'
    BY <2>1, <2>2 DEF TypeOKStore, OneWriter, WriteAhead, Settled, NoWrite,
       Writing, Copies
  <2> QED
    BY <1>1, <2>1, <2>3 DEF StoreInv, AlwaysReadable, Readable
<1>9. ASSUME NEW p \in Writers, Abandon(p)
      PROVE  StoreInv' /\ [Atomic!Next]_(Selected(esp))
  <2>1. /\ esp' = esp
        /\ writer' = [writer EXCEPT ![p] = NoWrite]
        /\ NoWrite \in Writing /\ NoWrite.at = NoSlot
    BY <1>9 DEF Abandon, Forget, NoWrite, Writing, Copies
  <2>2. writer' \in [Writers -> Writing]
    BY <1>1, <2>1
  <2>3. OneWriter' /\ \A q \in Writers : WriteAhead(q)'
    BY <1>1, <2>1, <2>2 DEF StoreInv, OneWriter, WriteAhead, Settled
  <2> QED
    BY <1>1, <2>1, <2>2, <2>3 DEF StoreInv, TypeOKStore, AlwaysReadable
<1>10. CASE UNCHANGED storeVars
  BY <1>10 DEF storeVars, StoreInv, TypeOKStore, AlwaysReadable, OneWriter,
     WriteAhead, Settled
<1> QED
  BY <1>3, <1>4, <1>5, <1>6, <1>7, <1>8, <1>9, <1>10 DEF StoreNext

\* Whatever single fault strikes, some copy can be read, and a write in
\* progress is ahead of the selection or already is the selection.
THEOREM StoreInvariant == StoreSpec => []StoreInv
<1>1. StoreInit => StoreInv
  BY StoreInitInv
<1>2. StoreInv /\ [StoreNext]_storeVars => StoreInv'
  BY StoreStep
<1> QED
  BY <1>1, <1>2, PTL DEF StoreSpec

\* A reader of the two ESPs (vamos_read_state and selected_boot_control) sees
\* one record that only ever moves forward, in single steps.
THEOREM RecordIsAtomic == StoreSpec => AtomicRecord
<1>1. StoreInit => Atomic!Init
  BY StoreInitInv DEF Atomic!Init, Atomic!FactoryRecord, Atomic!ImageRecord,
     Atomic!NoSlot, Atomic!Policy, Policy, FactoryRecord, ImageRecord, NoSlot
<1>2. StoreInv /\ [StoreNext]_storeVars => [Atomic!Next]_(Selected(esp))
  BY StoreStep
<1> QED
  BY <1>1, <1>2, StoreInvariant, PTL DEF StoreSpec, AtomicRecord, Atomic!Spec
=============================================================================
