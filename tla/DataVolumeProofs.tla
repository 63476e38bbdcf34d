-------------------------- MODULE DataVolumeProofs --------------------------
(***************************************************************************)
(* Growing and migrating the userdata volume keeps its data and leaves a   *)
(* complete layout, for every number of faults and of changes to the data. *)
(* The inductive invariant says what each step of a boot may rely on.      *)
(***************************************************************************)
EXTENDS DataVolume, TLAPS

Later == CopySteps \cup FinishSteps
Growing == {"table", "settle", "resize"}
Unsynced == {"mark", "sync"}

\* What the disk carries, whatever step is next.
DiskInv ==
  /\ disk.layout = "legacy" <=> disk.p5 = "none"
  /\ disk.layout = "ab" => slots.selector
  /\ disk.p5 = "full" => disk.gpt = "full"
  /\ disk.p5 = "none" => vol.fs = "none"
  /\ disk.p5 = "compact" => vol.fs = "compact"
  /\ vol.fs # "none" => slots.made = {"esp_b", "rootfs_b"}
  /\ "rootfs_b" \in slots.made => "esp_b" \in slots.made
  /\ vol.ready => vol.migrated
  /\ vol.migrated => vol.fs # "none" /\ (vol.data # Torn \/ work.cut)

\* What the kernel believes of the size of userdata.
SeenInv ==
  /\ boot.seen = "full" => disk.p5 = "full"
  /\ boot.pc # "off" /\ disk.layout = "ab" => boot.seen # "none"
  /\ boot.pc # "off" /\ disk.layout = "ab" /\ vol.fs = "none" => boot.seen = "full"

\* What the step of the boot says of the disk.
StepInv ==
  /\ boot.mounted => vol.fs # "none"
  /\ boot.pc = "off" => ~boot.mounted /\ ~boot.backup
  /\ boot.pc \in {"probe", "mount"} => ~boot.mounted
  /\ boot.pc \in {"check", "reset"} => boot.mounted
  /\ boot.pc = "reset" => work.asked
  /\ boot.pc = "mount" => vol.fs # "none"
  /\ boot.backup \/ boot.pc \in Growing => vol.fs # "none" /\ disk.gpt = "full"
  /\ boot.pc \in {"settle", "resize"} => disk.p5 = "full"
  /\ boot.pc = "initialize" /\ ~boot.mounted => vol.fs = "none"
  /\ boot.pc = "layout" =>
       disk.layout = "legacy" /\ disk.gpt = "full" /\ slots.selector
  /\ boot.pc \in Later \cup {"mkfs"} => disk.layout = "ab"
  /\ boot.pc \in Later => vol.fs # "none"
  /\ boot.pc \in {"mkfs", "copy", "copying", "mark"} => ~vol.migrated
  /\ boot.pc \in {"sync"} \cup FinishSteps => vol.migrated
  /\ boot.pc = "sync" => ~vol.ready
  /\ boot.pc \in {"reset", "running"} /\ boot.mounted => vol.migrated \/ work.strayed

\* Where the newest data are, and what copies may have left beside them.
DataInv ==
  /\ slots.data \in 0..MaxWrites
  /\ vol.reset \/ slots.reset => work.asked
  /\ ~vol.migrated /\ ~work.strayed => slots.data = work.newest
  /\ boot.pc \in Unsynced =>
       vol.data = slots.data /\ (~work.strayed => slots.data = work.newest)
  /\ vol.migrated /\ ~work.strayed /\ ~work.cut =>
       vol.data = work.newest \/ (work.asked /\ vol.data \in {Remains, Erased})
  /\ work.redone \/ (vol.part \in {Erased, slots.data} /\ ~vol.relics)

\* How far the growth has come when nothing has failed.
GrowthInv ==
  faults = 0 =>
    /\ boot.pc = "resize" => boot.seen = "full"
    /\ boot.pc \in {"table", "settle"} => ~boot.mounted
    /\ boot.backup /\ boot.pc # "table" => disk.p5 = "full"
    /\ boot.pc = "expand" => boot.backup = boot.mounted
    /\ boot.mounted /\ boot.pc = "expand" => boot.seen = "full"
    /\ vol.fs = "compact" =>
         /\ boot.pc \in ExpandSteps \cup {"off", "probe", "mount"}
         /\ boot.pc = "off" \/ (boot.pc = "expand" /\ ~boot.mounted)
              => disk.p5 = "compact"
         /\ boot.pc \in Growing \cup {"probe", "mount"} => boot.backup

IInv == TypeOK /\ DiskInv /\ SeenInv /\ StepInv /\ DataInv /\ GrowthInv

-----------------------------------------------------------------------------
\* A disk of the older layout and a factory disk satisfy the invariant.
LEMMA InitInv == Init => IInv
<1> USE BoundsAssumption DEF Init, Sizes, Versions, Torn, Erased, Steps, ExpandSteps,
            LayoutSteps, CopySteps, FinishSteps, Later, Growing, Unsynced, Remains, NoBoot
<1>1. LegacyDisk /\ Init => IInv
  BY DEF LegacyDisk, IInv, TypeOK, DiskInv, SeenInv, StepInv, DataInv, GrowthInv
<1>2. FactoryDisk /\ Init => IInv
  BY DEF FactoryDisk, IInv, TypeOK, DiskInv, SeenInv, StepInv, DataInv, GrowthInv
<1> QED
  BY <1>1, <1>2

\* The values that stand for data that are not whole are versions, too.
LEMMA ValuesAreVersions ==
  /\ Torn \in Versions /\ Remains \in Versions /\ Erased \in Versions
  /\ \A v \in 0..MaxWrites : v \in Versions
BY BoundsAssumption DEF Torn, Remains, Erased, Versions

\* The types of the records, by name.
DiskType == [medium : {"nvme", "ufs"}, layout : {"legacy", "ab"},
             gpt : Sizes \ {"none"}, p5 : Sizes]
VolType == [fs : Sizes, data : Versions, part : Versions, relics : BOOLEAN,
            migrated : BOOLEAN, ready : BOOLEAN, reset : BOOLEAN]
SlotsType == [made : SUBSET {"esp_b", "rootfs_b"}, selector : BOOLEAN,
              data : Versions, reset : BOOLEAN]
BootType == [pc : Steps, seen : Sizes, backup : BOOLEAN, mounted : BOOLEAN]
WorkType == [newest : 0..MaxWrites, strayed : BOOLEAN, redone : BOOLEAN,
             asked : BOOLEAN, cut : BOOLEAN]

LEMMA TypesByName ==
  /\ TypeOK <=> /\ disk \in DiskType /\ vol \in VolType /\ slots \in SlotsType
                /\ boot \in BootType /\ faults \in 0..MaxFaults /\ work \in WorkType
  /\ TypeOK' <=> /\ disk' \in DiskType /\ vol' \in VolType /\ slots' \in SlotsType
                 /\ boot' \in BootType /\ faults' \in 0..MaxFaults
                 /\ work' \in WorkType
BY DEF TypeOK, DiskType, VolType, SlotsType, BootType, WorkType

\* The types are kept by every step on their own.
LEMMA StepKeepsTypes == TypeOK /\ [Next]_vars => TypeOK'
<1> SUFFICES ASSUME TypeOK, [Next]_vars PROVE TypeOK'
  OBVIOUS
<1> USE BoundsAssumption, ValuesAreVersions, TypesByName DEF At, Goto
<1>1. CASE PowerOn
  <2>1. boot' \in BootType
    BY <1>1 DEF PowerOn, BootType, Steps, ExpandSteps, LayoutSteps, CopySteps,
           FinishSteps, Sizes, DiskType
  <2> QED
    BY <1>1, <2>1 DEF PowerOn
<1>2. CASE ExpandSkipped
  <2>1. boot' \in BootType
    BY <1>2 DEF ExpandSkipped, AfterExpand, BootType, Steps, ExpandSteps,
           LayoutSteps, CopySteps, FinishSteps, Sizes
  <2> QED
    BY <1>2, <2>1 DEF ExpandSkipped
<1>3. CASE Relocate
  <2>1. disk' \in DiskType
    BY <1>3 DEF Relocate, DiskType, Sizes
  <2> QED
    BY <1>3, <2>1 DEF Relocate
<1>4. CASE ResumeExpand
  <2>1. boot' \in BootType
    BY <1>4 DEF ResumeExpand, BootType, Steps, ExpandSteps, LayoutSteps,
           CopySteps, FinishSteps, Sizes
  <2> QED
    BY <1>4, <2>1 DEF ResumeExpand
<1>5. CASE SaveTable
  <2>1. boot' \in BootType
    BY <1>5 DEF SaveTable, BootType, Steps, ExpandSteps, LayoutSteps,
           CopySteps, FinishSteps, Sizes
  <2> QED
    BY <1>5, <2>1 DEF SaveTable
<1>6. CASE GrowPartition
  <2>1. disk' \in DiskType
    BY <1>6 DEF GrowPartition, DiskType, Sizes
  <2>2. boot' \in BootType
    BY <1>6 DEF GrowPartition, BootType, Steps, ExpandSteps, LayoutSteps,
           CopySteps, FinishSteps, Sizes
  <2> QED
    BY <1>6, <2>1, <2>2 DEF GrowPartition
<1>7. CASE Settle
  <2>1. boot' \in BootType
    BY <1>7 DEF Settle, AfterExpand, BootType, Steps, ExpandSteps, LayoutSteps,
           CopySteps, FinishSteps, Sizes
  <2> QED
    BY <1>7, <2>1 DEF Settle
<1>8. CASE Resize
  <2>1. vol' \in VolType
    BY <1>8 DEF Resize, AfterExpand, VolType, Sizes, BootType
  <2>2. boot' \in BootType
    BY <1>8 DEF Resize, AfterExpand, BootType, Steps, ExpandSteps, LayoutSteps,
           CopySteps, FinishSteps, Sizes
  <2> QED
    BY <1>8, <2>1, <2>2 DEF Resize
<1>9. CASE Probe
  <2>1. boot' \in BootType
    BY <1>9 DEF Probe, BootType, Steps, ExpandSteps, LayoutSteps, CopySteps,
           FinishSteps, Sizes
  <2> QED
    BY <1>9, <2>1 DEF Probe
<1>10. CASE Mount
  <2>1. boot' \in BootType
    BY <1>10 DEF Mount, BootType, Steps, ExpandSteps, LayoutSteps, CopySteps,
           FinishSteps, Sizes, DiskType
  <2> QED
    BY <1>10, <2>1 DEF Mount
<1>11. CASE Check
  <2>1. boot' \in BootType
    BY <1>11 DEF Check, BootType, Steps, ExpandSteps, LayoutSteps, CopySteps,
           FinishSteps, Sizes
  <2>2. work' \in WorkType
    BY <1>11 DEF Check, WorkType, VolType, BootType
  <2> QED
    BY <1>11, <2>1, <2>2 DEF Check
<1>12. CASE Refuse
  <2>1. boot' \in BootType
    BY <1>12 DEF Refuse, BootType, Steps, ExpandSteps, LayoutSteps, CopySteps,
           FinishSteps, Sizes
  <2> QED
    BY <1>12, <2>1 DEF Refuse
<1>13. CASE EraseSome
  <2>1. vol' \in VolType
    BY <1>13 DEF EraseSome, VolType
  <2> QED
    BY <1>13, <2>1 DEF EraseSome
<1>14. CASE EraseData
  <2>1. vol' \in VolType
    BY <1>14 DEF EraseData, VolType
  <2> QED
    BY <1>14, <2>1 DEF EraseData
<1>15. CASE EraseMarker
  <2>1. vol' \in VolType
    BY <1>15 DEF EraseMarker, VolType
  <2> QED
    BY <1>15, <2>1 DEF EraseMarker
<1>16. CASE ResetEnds
  <2>1. boot' \in BootType
    BY <1>16 DEF ResetEnds, BootType, Steps, ExpandSteps, LayoutSteps,
           CopySteps, FinishSteps, Sizes
  <2> QED
    BY <1>16, <2>1 DEF ResetEnds
<1>17. CASE Initialize
  <2>1. disk' \in DiskType
    BY <1>17 DEF Initialize, ResumeAt, DiskType, Sizes
  <2>2. slots' \in SlotsType
    BY <1>17 DEF Initialize, ResumeAt, SlotsType
  <2>3. boot' \in BootType
    BY <1>17 DEF Initialize, ResumeAt, BootType, Steps, ExpandSteps,
           LayoutSteps, CopySteps, FinishSteps, Sizes
  <2> QED
    BY <1>17, <2>1, <2>2, <2>3 DEF Initialize
<1>18. CASE WriteLayout
  <2>1. disk' \in DiskType
    BY <1>18 DEF WriteLayout, DiskType, Sizes
  <2>2. boot' \in BootType
    BY <1>18 DEF WriteLayout, BootType, Steps, ExpandSteps, LayoutSteps,
           CopySteps, FinishSteps, Sizes
  <2> QED
    BY <1>18, <2>1, <2>2 DEF WriteLayout
<1>19. CASE MakeFs
  <2>1. slots' \in SlotsType
    BY <1>19 DEF MakeFs, SlotsType
  <2>2. vol' \in VolType
    BY <1>19 DEF MakeFs, VolType, Sizes, BootType
  <2>3. boot' \in BootType
    BY <1>19 DEF MakeFs, BootType, Steps, ExpandSteps, LayoutSteps, CopySteps,
           FinishSteps, Sizes
  <2> QED
    BY <1>19, <2>1, <2>2, <2>3 DEF MakeFs
<1>20. CASE Copy
  <2>1. vol' \in VolType
    BY <1>20 DEF Copy, VolType, SlotsType
  <2>2. boot' \in BootType
    BY <1>20 DEF Copy, BootType, Steps, ExpandSteps, LayoutSteps, CopySteps,
           FinishSteps, Sizes
  <2> QED
    BY <1>20, <2>1, <2>2 DEF Copy
<1>21. CASE Copied
  <2>1. vol' \in VolType
    BY <1>21 DEF Copied, VolType, SlotsType
  <2>2. boot' \in BootType
    BY <1>21 DEF Copied, BootType, Steps, ExpandSteps, LayoutSteps, CopySteps,
           FinishSteps, Sizes
  <2> QED
    BY <1>21, <2>1, <2>2 DEF Copied
<1>22. CASE MarkMigrated
  <2>1. vol' \in VolType
    BY <1>22 DEF MarkMigrated, VolType
  <2>2. boot' \in BootType
    BY <1>22 DEF MarkMigrated, BootType, Steps, ExpandSteps, LayoutSteps,
           CopySteps, FinishSteps, Sizes
  <2> QED
    BY <1>22, <2>1, <2>2 DEF MarkMigrated
<1>23. CASE Synced
  <2>1. boot' \in BootType
    BY <1>23 DEF Synced, BootType, Steps, ExpandSteps, LayoutSteps, CopySteps,
           FinishSteps, Sizes
  <2> QED
    BY <1>23, <2>1 DEF Synced
<1>24. CASE FinishSelector
  <2>1. slots' \in SlotsType
    BY <1>24 DEF FinishSelector, SlotsType
  <2>2. boot' \in BootType
    BY <1>24 DEF FinishSelector, BootType, Steps, ExpandSteps, LayoutSteps,
           CopySteps, FinishSteps, Sizes
  <2> QED
    BY <1>24, <2>1, <2>2 DEF FinishSelector
<1>25. CASE MarkReady
  <2>1. vol' \in VolType
    BY <1>25 DEF MarkReady, AfterInitialize, VolType
  <2>2. boot' \in BootType
    BY <1>25 DEF MarkReady, AfterInitialize, BootType, Steps, ExpandSteps,
           LayoutSteps, CopySteps, FinishSteps, Sizes
  <2> QED
    BY <1>25, <2>1, <2>2 DEF MarkReady
<1>26. CASE StepFails
  <2>1. boot' \in BootType
    BY <1>26 DEF StepFails, AfterExpand, Fault, BootType, Steps, ExpandSteps,
           LayoutSteps, CopySteps, FinishSteps, Sizes
  <2>2. faults' \in 0..MaxFaults
    BY <1>26 DEF StepFails, AfterExpand, Fault
  <2> QED
    BY <1>26, <2>1, <2>2 DEF StepFails, Fault
<1>27. CASE Work
  <2>1. vol' \in VolType
    BY <1>27 DEF Work, VolType, WorkType
  <2>2. slots' \in SlotsType
    BY <1>27 DEF Work, SlotsType, WorkType
  <2>3. work' \in WorkType
    <3>1. PICK strayed \in BOOLEAN, redone \in BOOLEAN, asked \in BOOLEAN :
            work' = [work EXCEPT !.newest = @ + 1, !.strayed = strayed,
                                 !.redone = redone, !.asked = asked]
      BY <1>27, ZenonT(60) DEF Work
    <3>2. work.newest + 1 \in 0..MaxWrites
      BY <1>27 DEF Work, WorkType
    <3> QED
      BY <3>1, <3>2 DEF WorkType
  <2> QED
    BY <1>27, <2>1, <2>2, <2>3 DEF Work
<1>28. CASE RequestReset
  <2>1. vol' \in VolType
    BY <1>28 DEF RequestReset, NoBoot, VolType
  <2>2. slots' \in SlotsType
    BY <1>28 DEF RequestReset, NoBoot, SlotsType
  <2>3. work' \in WorkType
    BY <1>28 DEF RequestReset, NoBoot, WorkType, VolType, BootType
  <2>4. boot' \in BootType
    BY <1>28 DEF RequestReset, NoBoot, BootType, Steps, ExpandSteps,
           LayoutSteps, CopySteps, FinishSteps, Sizes
  <2> QED
    BY <1>28, <2>1, <2>2, <2>3, <2>4 DEF RequestReset
<1>29. CASE Restart
  <2>1. boot' \in BootType
    BY <1>29 DEF Restart, NoBoot, BootType, Steps, ExpandSteps, LayoutSteps,
           CopySteps, FinishSteps, Sizes
  <2> QED
    BY <1>29, <2>1 DEF Restart
<1>30. CASE PowerCut
  <2>1. vol' \in VolType
    BY <1>30 DEF PowerCut, NoBoot, Fault, CutCopy, VolType
  <2>2. work' \in WorkType
    BY <1>30 DEF PowerCut, NoBoot, Fault, CutCopy, WorkType, VolType
  <2>3. boot' \in BootType
    BY <1>30 DEF PowerCut, NoBoot, Fault, CutCopy, BootType, Steps,
           ExpandSteps, LayoutSteps, CopySteps, FinishSteps, Sizes
  <2>4. faults' \in 0..MaxFaults
    BY <1>30 DEF PowerCut, NoBoot, Fault, CutCopy
  <2> QED
    BY <1>30, <2>1, <2>2, <2>3, <2>4 DEF PowerCut, Fault
<1>31. CASE UNCHANGED vars
  BY <1>31 DEF vars
<1> QED
  BY <1>1, <1>2, <1>3, <1>4, <1>5, <1>6, <1>7, <1>8, <1>9, <1>10, <1>11,
     <1>12, <1>13, <1>14, <1>15, <1>16, <1>17, <1>18, <1>19, <1>20, <1>21,
     <1>22, <1>23, <1>24, <1>25, <1>26, <1>27, <1>28, <1>29, <1>30, <1>31
  DEF Next, Stage1, Expanding, Resetting, Initializing

\* Every step keeps it.
LEMMA StepKeepsInv == IInv /\ [Next]_vars => IInv'
<1> SUFFICES ASSUME IInv, [Next]_vars PROVE IInv'
  OBVIOUS
<1> USE BoundsAssumption DEF IInv, TypeOK, DiskInv, SeenInv, StepInv, DataInv,
            GrowthInv, At, Goto, Sizes, Versions, Torn, Erased, Steps, ExpandSteps,
            LayoutSteps, CopySteps, FinishSteps, Later, Growing, Unsynced, Remains
<1>0. TypeOK'
  BY StepKeepsTypes DEF IInv
<1>1. CASE PowerOn
  <2>1. DiskInv' /\ SeenInv'
    BY <1>1, ZenonT(60) DEF PowerOn
  <2>2. StepInv'
    BY <1>1 DEF PowerOn
  <2>3. DataInv' /\ GrowthInv'
    BY <1>1 DEF PowerOn
  <2> QED
    BY <1>0, <2>1, <2>2, <2>3
<1>2. CASE ExpandSkipped
  BY <1>0, <1>2 DEF ExpandSkipped, AfterExpand
<1>3. CASE Relocate
  BY <1>0, <1>3 DEF Relocate
<1>4. CASE ResumeExpand
  <2>1. DiskInv'
    BY <1>4 DEF ResumeExpand
  <2>2. SeenInv'
    BY <1>4 DEF ResumeExpand
  <2>3. StepInv'
    BY <1>4 DEF ResumeExpand
  <2>4. DataInv'
    BY <1>4 DEF ResumeExpand
  <2>5. GrowthInv'
    BY <1>4 DEF ResumeExpand
  <2> QED
    BY <1>0, <2>1, <2>2, <2>3, <2>4, <2>5
<1>5. CASE SaveTable
  <2>1. DiskInv'
    BY <1>5 DEF SaveTable
  <2>2. SeenInv'
    BY <1>5 DEF SaveTable
  <2>3. StepInv'
    BY <1>5 DEF SaveTable
  <2>4. DataInv'
    BY <1>5 DEF SaveTable
  <2>5. GrowthInv'
    BY <1>5 DEF SaveTable
  <2> QED
    BY <1>0, <2>1, <2>2, <2>3, <2>4, <2>5
<1>6. CASE GrowPartition
  BY <1>0, <1>6 DEF GrowPartition
<1>7. CASE Settle
  <2>1. CASE boot' = [boot EXCEPT !.pc = "resize", !.seen = "full"]
    <3>1. DiskInv'
      BY <1>7, <2>1 DEF Settle
    <3>2. SeenInv'
      BY <1>7, <2>1 DEF Settle
    <3>3. StepInv'
      BY <1>7, <2>1 DEF Settle
    <3>4. DataInv'
      BY <1>7, <2>1 DEF Settle
    <3>5. GrowthInv'
      BY <1>7, <2>1 DEF Settle
    <3> QED
      BY <1>0, <3>1, <3>2, <3>3, <3>4, <3>5
  <2>2. CASE Goto(AfterExpand)
    <3>1. CASE boot.mounted
      BY <1>0, <1>7, <2>2, <3>1 DEF Settle, AfterExpand
    <3>2. CASE ~boot.mounted
      BY <1>0, <1>7, <2>2, <3>2 DEF Settle, AfterExpand
    <3> QED
      BY <3>1, <3>2
  <2> QED
    BY <1>7, <2>1, <2>2 DEF Settle
<1>8. CASE Resize
  <2>1. DiskInv'
    BY <1>8 DEF Resize, AfterExpand
  <2>2. SeenInv'
    BY <1>8 DEF Resize, AfterExpand
  <2>3. StepInv'
    BY <1>8 DEF Resize, AfterExpand
  <2>4. DataInv'
    BY <1>8 DEF Resize, AfterExpand
  <2>5. GrowthInv'
    BY <1>8 DEF Resize, AfterExpand
  <2> QED
    BY <1>0, <2>1, <2>2, <2>3, <2>4, <2>5
<1>9. CASE Probe
  BY <1>0, <1>9 DEF Probe
<1>10. CASE Mount
  <2>1. DiskInv'
    BY <1>10 DEF Mount
  <2>2. SeenInv'
    BY <1>10 DEF Mount
  <2>3. StepInv'
    BY <1>10 DEF Mount
  <2>4. DataInv'
    BY <1>10 DEF Mount
  <2>5. GrowthInv'
    BY <1>10 DEF Mount
  <2> QED
    BY <1>0, <2>1, <2>2, <2>3, <2>4, <2>5
<1>11. CASE Check
  <2>1. DiskInv'
    BY <1>11 DEF Check
  <2>2. SeenInv'
    BY <1>11 DEF Check
  <2>3. StepInv'
    BY <1>11 DEF Check
  <2>4. DataInv'
    BY <1>11 DEF Check
  <2>5. GrowthInv'
    BY <1>11 DEF Check
  <2> QED
    BY <1>0, <2>1, <2>2, <2>3, <2>4, <2>5
<1>12. CASE Refuse
  BY <1>0, <1>12 DEF Refuse
<1>13. CASE EraseSome
  <2>1. DiskInv'
    BY <1>13 DEF EraseSome, Erasing
  <2>2. SeenInv'
    BY <1>13 DEF EraseSome, Erasing
  <2>3. StepInv'
    BY <1>13 DEF EraseSome, Erasing
  <2>4. DataInv'
    BY <1>13 DEF EraseSome, Erasing
  <2>5. GrowthInv'
    BY <1>13 DEF EraseSome, Erasing
  <2> QED
    BY <1>0, <2>1, <2>2, <2>3, <2>4, <2>5
<1>14. CASE EraseData
  <2>1. DiskInv'
    BY <1>14 DEF EraseData, Erasing
  <2>2. SeenInv'
    BY <1>14 DEF EraseData, Erasing
  <2>3. StepInv'
    BY <1>14 DEF EraseData, Erasing
  <2>4. DataInv'
    BY <1>14 DEF EraseData, Erasing
  <2>5. GrowthInv'
    BY <1>14 DEF EraseData, Erasing
  <2> QED
    BY <1>0, <2>1, <2>2, <2>3, <2>4, <2>5
<1>15. CASE EraseMarker
  <2>1. DiskInv'
    BY <1>15 DEF EraseMarker, Erasing
  <2>2. SeenInv'
    BY <1>15 DEF EraseMarker, Erasing
  <2>3. StepInv'
    BY <1>15 DEF EraseMarker, Erasing
  <2>4. DataInv'
    BY <1>15 DEF EraseMarker, Erasing
  <2>5. GrowthInv'
    BY <1>15 DEF EraseMarker, Erasing
  <2> QED
    BY <1>0, <2>1, <2>2, <2>3, <2>4, <2>5
<1>16. CASE ResetEnds
  BY <1>0, <1>16 DEF ResetEnds, Erasing
<1>17. CASE Initialize
  <2>1. CASE disk.layout = "legacy"
    <3>1. DiskInv'
      BY <1>17, <2>1 DEF Initialize
    <3>2. SeenInv'
      BY <1>17, <2>1 DEF Initialize
    <3>3. StepInv'
      BY <1>17, <2>1 DEF Initialize
    <3>4. DataInv'
      BY <1>17, <2>1 DEF Initialize
    <3>5. GrowthInv'
      BY <1>17, <2>1 DEF Initialize
    <3> QED
      BY <1>0, <3>1, <3>2, <3>3, <3>4, <3>5
  <2>2. CASE disk.layout = "ab" /\ boot.mounted /\ vol.migrated
    BY <1>0, <1>17, <2>2 DEF Initialize, ResumeAt
  <2>3. CASE disk.layout = "ab" /\ ~(boot.mounted /\ vol.migrated)
    BY <1>0, <1>17, <2>3 DEF Initialize, ResumeAt
  <2> QED
    BY <2>1, <2>2, <2>3
<1>18. CASE WriteLayout
  <2>1. DiskInv'
    BY <1>18 DEF WriteLayout
  <2>2. SeenInv'
    BY <1>18 DEF WriteLayout
  <2>3. StepInv'
    BY <1>18 DEF WriteLayout
  <2>4. DataInv'
    BY <1>18 DEF WriteLayout
  <2>5. GrowthInv'
    BY <1>18 DEF WriteLayout
  <2> QED
    BY <1>0, <2>1, <2>2, <2>3, <2>4, <2>5
<1>19. CASE MakeFs
  BY <1>0, <1>19 DEF MakeFs
<1>20. CASE Copy
  <2> PICK come \in {FALSE, slots.reset} :
             vol' = [vol EXCEPT !.data = Torn, !.part = slots.data,
                                !.reset = @ \/ come,
                                !.relics = @ \/ vol.part \notin {Erased, slots.data}]
    BY <1>20 DEF Copy
  <2>1. DiskInv'
    BY <1>20 DEF Copy
  <2>2. SeenInv'
    BY <1>20 DEF Copy
  <2>3. StepInv'
    BY <1>20 DEF Copy
  <2>4. DataInv'
    BY <1>20 DEF Copy
  <2>5. GrowthInv'
    BY <1>20 DEF Copy
  <2> QED
    BY <1>0, <2>1, <2>2, <2>3, <2>4, <2>5
<1>21. CASE Copied
  <2>1. DiskInv'
    BY <1>21 DEF Copied
  <2>2. SeenInv'
    BY <1>21 DEF Copied
  <2>3. StepInv'
    BY <1>21 DEF Copied
  <2>4. DataInv'
    BY <1>21 DEF Copied
  <2>5. GrowthInv'
    BY <1>21 DEF Copied
  <2> QED
    BY <1>0, <2>1, <2>2, <2>3, <2>4, <2>5
<1>22. CASE MarkMigrated
  <2>1. DiskInv'
    BY <1>22 DEF MarkMigrated
  <2>2. SeenInv'
    BY <1>22 DEF MarkMigrated
  <2>3. StepInv'
    BY <1>22 DEF MarkMigrated
  <2>4. DataInv'
    BY <1>22 DEF MarkMigrated
  <2>5. GrowthInv'
    BY <1>22 DEF MarkMigrated
  <2> QED
    BY <1>0, <2>1, <2>2, <2>3, <2>4, <2>5
<1>23. CASE Synced
  BY <1>0, <1>23 DEF Synced
<1>24. CASE FinishSelector
  <2>1. DiskInv'
    BY <1>24 DEF FinishSelector
  <2>2. SeenInv'
    BY <1>24 DEF FinishSelector
  <2>3. StepInv'
    BY <1>24 DEF FinishSelector
  <2>4. DataInv'
    BY <1>24 DEF FinishSelector
  <2>5. GrowthInv'
    BY <1>24 DEF FinishSelector
  <2> QED
    BY <1>0, <2>1, <2>2, <2>3, <2>4, <2>5
<1>25. CASE MarkReady
  <2>1. DiskInv'
    BY <1>25 DEF MarkReady, AfterInitialize
  <2>2. SeenInv'
    BY <1>25 DEF MarkReady, AfterInitialize
  <2>3. StepInv'
    BY <1>25 DEF MarkReady, AfterInitialize
  <2>4. DataInv'
    BY <1>25 DEF MarkReady, AfterInitialize
  <2>5. GrowthInv'
    BY <1>25 DEF MarkReady, AfterInitialize
  <2> QED
    BY <1>0, <2>1, <2>2, <2>3, <2>4, <2>5
<1>26. CASE StepFails
  <2>1. CASE Goto(AfterExpand)
    <3>1. DiskInv'
      BY <1>26, <2>1 DEF StepFails, Fault, AfterExpand
    <3>2. SeenInv'
      BY <1>26, <2>1 DEF StepFails, Fault, AfterExpand
    <3>3. StepInv'
      BY <1>26, <2>1 DEF StepFails, Fault, AfterExpand
    <3>4. DataInv'
      BY <1>26, <2>1 DEF StepFails, Fault, AfterExpand
    <3>5. GrowthInv'
      BY <1>26, <2>1 DEF StepFails, Fault, AfterExpand
    <3> QED
      BY <1>0, <3>1, <3>2, <3>3, <3>4, <3>5
  <2>2. CASE boot' = [boot EXCEPT !.pc = "running", !.mounted = FALSE]
    <3>1. DiskInv'
      BY <1>26, <2>2 DEF StepFails, Fault
    <3>2. SeenInv'
      BY <1>26, <2>2 DEF StepFails, Fault
    <3>3. StepInv'
      BY <1>26, <2>2 DEF StepFails, Fault
    <3>4. DataInv'
      BY <1>26, <2>2 DEF StepFails, Fault
    <3>5. GrowthInv'
      BY <1>26, <2>2 DEF StepFails, Fault
    <3> QED
      BY <1>0, <3>1, <3>2, <3>3, <3>4, <3>5
  <2>3. CASE At("reset") /\ Fault("storage") /\ Goto("running")
    BY <1>0, <1>26, <2>3 DEF StepFails, Fault
  <2> QED
    BY <1>26, <2>1, <2>2, <2>3 DEF StepFails
<1>27. CASE Work
  <2>1. PICK strayed \in BOOLEAN, redone \in BOOLEAN, asked \in BOOLEAN :
          /\ work' = [work EXCEPT !.newest = @ + 1, !.strayed = strayed,
                                  !.redone = redone, !.asked = asked]
          /\ strayed = (work.strayed \/ (vol.migrated /\ ~boot.mounted))
          /\ redone = (work.redone \/ (vol.part # Erased /\ ~boot.mounted))
          /\ asked = (work.asked /\ (vol.reset \/ slots.reset))
    BY <1>27, ZenonT(60) DEF Work
  <2>2. /\ boot.pc = "running" /\ work.newest < MaxWrites
        /\ UNCHANGED <<disk, boot, faults>>
    BY <1>27 DEF Work
  <2>3. work.newest + 1 \in 0..MaxWrites /\ work.newest + 1 \in Versions
    BY <2>2
  <2>4. CASE boot.mounted
    <3>1. vol' = [vol EXCEPT !.data = work.newest + 1] /\ UNCHANGED slots
      BY <1>27, <2>4 DEF Work
    <3>2. DiskInv'
      BY <2>1, <2>2, <3>1
    <3>3. SeenInv' /\ GrowthInv'
      BY <2>2, <3>1
    <3>4. StepInv'
      BY <2>1, <2>2, <3>1
    <3>5. DataInv'
      BY <2>1, <2>2, <2>4, <3>1
    <3> QED
      BY <1>0, <3>2, <3>3, <3>4, <3>5
  <2>5. CASE ~boot.mounted
    <3>1. slots' = [slots EXCEPT !.data = work.newest + 1] /\ UNCHANGED vol
      BY <1>27, <2>5 DEF Work
    <3>2. DiskInv'
      BY <2>1, <2>2, <3>1
    <3>3. SeenInv' /\ GrowthInv'
      BY <2>2, <3>1
    <3>4. StepInv'
      BY <2>1, <2>2, <3>1
    <3>5. DataInv'
      <4>1. /\ work'.newest = work.newest + 1 /\ slots'.data = work.newest + 1
            /\ slots'.reset = slots.reset
            /\ work'.cut = work.cut /\ work'.strayed = strayed
            /\ work'.redone = redone /\ work'.asked = asked
        BY <2>1, <3>1
      <4> QED
        BY <2>1, <2>2, <2>5, <2>3, <3>1, <4>1
    <3> QED
      BY <1>0, <3>2, <3>3, <3>4, <3>5
  <2> QED
    BY <2>4, <2>5
<1>28. CASE RequestReset
  <2>1. DiskInv'
    BY <1>28 DEF RequestReset, NoBoot
  <2>2. SeenInv'
    BY <1>28 DEF RequestReset, NoBoot
  <2>3. StepInv'
    BY <1>28 DEF RequestReset, NoBoot
  <2>4. DataInv'
    BY <1>28 DEF RequestReset, NoBoot
  <2>5. GrowthInv'
    BY <1>28 DEF RequestReset, NoBoot
  <2> QED
    BY <1>0, <2>1, <2>2, <2>3, <2>4, <2>5
<1>29. CASE Restart
  BY <1>0, <1>29 DEF Restart, NoBoot
<1>30. CASE PowerCut
  <2> USE DEF PowerCut, Fault, NoBoot
  <2>1. CASE boot.pc \in Unsynced
    <3>1. PICK data \in {Torn, vol.data}, migrated \in {FALSE, vol.migrated},
               reset \in {FALSE, vol.reset} :
                 /\ vol' = [vol EXCEPT !.data = data, !.migrated = migrated,
                                       !.reset = reset]
                 /\ work' = [work EXCEPT !.cut = @ \/ (migrated /\ data = Torn)]
      BY <1>30, <2>1 DEF CutCopy
    <3>2. UNCHANGED <<disk, slots>> /\ boot' = NoBoot /\ faults' = faults + 1
            /\ faults < MaxFaults
      BY <1>30
    <3>3. DiskInv'
      <4>1. /\ vol'.migrated = migrated /\ vol'.data = data
            /\ vol'.fs = vol.fs /\ vol'.ready = vol.ready
        BY <3>1
      <4>2. ~vol.ready
        BY <2>1
      <4>3. work'.cut = (work.cut \/ (migrated /\ data = Torn))
        BY <3>1
      <4> QED
        BY <3>2, <4>1, <4>2, <4>3
    <3>4. SeenInv'
      BY <2>1, <3>1, <3>2
    <3>5. StepInv'
      BY <2>1, <3>1, <3>2
    <3>6. DataInv'
      <4>1. /\ vol'.migrated = migrated /\ vol'.data = data /\ vol'.reset = reset
            /\ vol'.part = vol.part /\ vol'.relics = vol.relics
        BY <3>1
      <4>2. /\ work'.cut = (work.cut \/ (migrated /\ data = Torn))
            /\ work'.newest = work.newest /\ work'.strayed = work.strayed
            /\ work'.redone = work.redone /\ work'.asked = work.asked
        BY <3>1
      <4>3. /\ data \in {Torn, vol.data} /\ migrated \in {FALSE, vol.migrated}
            /\ reset \in {FALSE, vol.reset}
        BY <3>1
      <4>4. /\ slots'.data \in 0..MaxWrites
            /\ vol'.reset \/ slots'.reset => work'.asked
            /\ work'.redone \/ (vol'.part \in {Erased, slots'.data} /\ ~vol'.relics)
        BY <3>2, <4>1, <4>2, <4>3
      <4>5. ~work'.strayed => slots'.data = work'.newest
        BY <2>1, <3>2, <4>2
      <4>6. boot'.pc = "off"
        BY <3>2
      <4>7. vol'.migrated /\ ~work'.strayed /\ ~work'.cut =>
              vol'.data = work'.newest
        BY <2>1, <3>2, <4>1, <4>2, <4>3
      <4> QED
        BY <4>4, <4>5, <4>6, <4>7
    <3>7. GrowthInv'
      BY <2>1, <3>1, <3>2
    <3> QED
      BY <1>0, <3>3, <3>4, <3>5, <3>6, <3>7
  <2>2. CASE boot.pc \notin Unsynced
    BY <1>0, <1>30, <2>2
  <2> QED
    BY <2>1, <2>2
<1>31. CASE UNCHANGED vars
  BY <1>0, <1>31 DEF vars
<1> QED
  BY <1>1, <1>2, <1>3, <1>4, <1>5, <1>6, <1>7, <1>8, <1>9, <1>10, <1>11,
     <1>12, <1>13, <1>14, <1>15, <1>16, <1>17, <1>18, <1>19, <1>20, <1>21,
     <1>22, <1>23, <1>24, <1>25, <1>26, <1>27, <1>28, <1>29, <1>30, <1>31
  DEF Next, Stage1, Expanding, Resetting, Initializing

-----------------------------------------------------------------------------
\* The invariant holds at every step of every boot of expand_userdata,
\* initialize_layout and stage 1.
THEOREM VolumeInvariant == Spec => []IInv
<1> QED
  BY InitInv, StepKeepsInv, PTL DEF Spec

\* The disk, its markers and the steps of a boot stay within their types.
THEOREM VolumeTypeCorrect == Spec => []TypeOK
<1>1. IInv => TypeOK
  BY DEF IInv
<1> QED
  BY <1>1, VolumeInvariant, PTL

\* Interrupted or failed migrations lose no data and bring back none, except
\* those of boots that stray to the root file system, and those of a copy whose
\* marker a cut during the sync has kept without them.
THEOREM DataAreKept == Spec => []DataKept
<1>1. IInv => DataKept
  BY DEF IInv, StepInv, DataInv, DataKept, At
<1> QED
  BY <1>1, VolumeInvariant, PTL

\* No interruption leaves a file system beyond its partition.
THEOREM FileSystemsFit == Spec => []Nested
<1>1. IInv => Nested
  BY DEF IInv, TypeOK, DiskInv, Nested, Sizes
<1> QED
  BY <1>1, VolumeInvariant, PTL

\* No interruption leaves a relabelled disk without a selector, or a ready
\* marker on an incomplete layout; a cut during the sync after the copy, which
\* may leave the marker of a copy that is not complete, is excepted.
THEOREM LayoutIsSound == Spec => []LayoutComplete
<1>1. IInv => LayoutComplete
  BY DEF IInv, TypeOK, DiskInv, LayoutComplete, Sizes
<1> QED
  BY <1>1, VolumeInvariant, PTL

\* An undisturbed growth completes, however late the kernel sees the new size.
THEOREM GrowthCompletes == Spec => []GrownUnlessInterrupted
<1>1. IInv => GrownUnlessInterrupted
  BY DEF IInv, TypeOK, StepInv, GrowthInv, GrownUnlessInterrupted, Grown, At,
         Sizes, ExpandSteps
<1> QED
  BY <1>1, VolumeInvariant, PTL
=============================================================================
