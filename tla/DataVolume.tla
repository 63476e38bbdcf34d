----------------------------- MODULE DataVolume -----------------------------
(***************************************************************************)
(* The storage a Dragon boots with: the partition table, the userdata      *)
(* volume and the data on it.  Stage 1 of every boot grows the partition   *)
(* and file system of a compact factory image over a larger medium         *)
(* (vamos-update expand), and turns a disk of the older two-partition      *)
(* layout into slots a, b and userdata (vamos-update initialize), going on *)
(* where an earlier boot was interrupted.  A factory reset                 *)
(* (userspace/headless/reset) leaves a marker for the next boot to erase.  *)
(*                                                                         *)
(* The boots are of slot a; sizes are "compact" (what the image carries)   *)
(* or "full" (what the medium has).  vol is what a running system sees of  *)
(* the volume.  The files of the copy and its marker reach the medium one  *)
(* by one, in any order, until os.sync() returns; every other step is on   *)
(* the medium when the next begins.                                        *)
(***************************************************************************)
EXTENDS Naturals

CONSTANTS
  FaultKinds,   \* "power", steps of "expand", or of the rest of "storage"
  MaxFaults,    \* how many faults strike, in a whole behaviour
  MaxWrites     \* how often the workloads change their data

ASSUME BoundsAssumption == MaxFaults \in Nat /\ MaxWrites \in Nat

VARIABLES
  disk,     \* the medium and its partition table: layout, sizes of GPT and userdata
  vol,      \* the userdata volume: file system, data and marker files, the one
            \* that asks for a factory reset among them; part: the version that a
            \* copy last brought files of; relics: there may be files, too, that
            \* were deleted before the copy was repeated
  slots,    \* the other file systems: those made in slot b, whether ESP a
            \* has the selector, and the version of /data in the root of slot a,
            \* which may hold the marker of a reset, too
  boot,     \* the boot in progress: step, and what it knows
  faults,   \* how many faults have struck
  work      \* newest: the last version of their data the workloads wrote;
            \* strayed: they wrote to the root file system after the migration,
            \* or a boot went on with an unfinished one that a reset had left;
            \* redone: they changed the data after a copy of it had begun;
            \* asked: what they wrote may be erased;
            \* cut: the power went during the sync after the copy, and left the
            \* marker of the migration without all of the data

vars == <<disk, vol, slots, boot, faults, work>>

Sizes == {"none", "compact", "full"}
Torn == MaxWrites + 1      \* some files of a copy are missing or cut short
Remains == MaxWrites + 2   \* what an unfinished erasure leaves
Erased == MaxWrites + 3
Versions == 0..Erased

ExpandSteps == {"expand", "table", "settle", "resize"}
LayoutSteps == {"initialize", "layout", "mkfs"}
CopySteps == {"copy", "copying", "mark", "sync"}
FinishSteps == {"selector", "ready"}
Steps == ExpandSteps \cup LayoutSteps \cup CopySteps \cup FinishSteps
           \cup {"off", "probe", "mount", "check", "reset", "running"}

TypeOK ==
  /\ disk \in [medium : {"nvme", "ufs"}, layout : {"legacy", "ab"},
               gpt : Sizes \ {"none"}, p5 : Sizes]
  /\ vol \in [fs : Sizes, data : Versions, part : Versions, relics : BOOLEAN,
              migrated : BOOLEAN, ready : BOOLEAN, reset : BOOLEAN]
  /\ slots \in [made : SUBSET {"esp_b", "rootfs_b"}, selector : BOOLEAN,
                data : Versions, reset : BOOLEAN]
  /\ boot \in [pc : Steps, seen : Sizes, backup : BOOLEAN, mounted : BOOLEAN]
  /\ faults \in 0..MaxFaults
  /\ work \in [newest : 0..MaxWrites, strayed : BOOLEAN, redone : BOOLEAN,
               asked : BOOLEAN, cut : BOOLEAN]

\* Nothing of a boot survives it: /run, where the backup lies, is a tmpfs.
NoBoot == [pc |-> "off", seen |-> "none", backup |-> FALSE, mounted |-> FALSE]

\* A disk with the older layout and data of its owner, or a factory image.
LegacyDisk ==
  /\ disk \in [medium : {"nvme", "ufs"}, layout : {"legacy"}, gpt : {"compact"},
               p5 : {"none"}]
  /\ vol = [fs |-> "none", data |-> Torn, part |-> Erased, relics |-> FALSE,
            migrated |-> FALSE, ready |-> FALSE, reset |-> FALSE]
  /\ slots = [made |-> {}, selector |-> FALSE, data |-> 0, reset |-> FALSE]
FactoryDisk ==
  /\ disk \in [medium : {"nvme", "ufs"}, layout : {"ab"}, gpt : {"compact"},
               p5 : {"compact"}]
  /\ vol = [fs |-> "compact", data |-> 0, part |-> Erased, relics |-> FALSE,
            migrated |-> TRUE, ready |-> TRUE, reset |-> FALSE]
  /\ slots = [made |-> {"esp_b", "rootfs_b"}, selector |-> TRUE, data |-> 0,
              reset |-> FALSE]

Init ==
  /\ LegacyDisk \/ FactoryDisk
  /\ boot = NoBoot /\ faults = 0
  /\ work = [newest |-> 0, strayed |-> FALSE, redone |-> FALSE, asked |-> FALSE,
             cut |-> FALSE]

-----------------------------------------------------------------------------
At(pc) == boot.pc = pc
Goto(pc) == boot' = [boot EXCEPT !.pc = pc]

Fault(kind) ==
  /\ kind \in FaultKinds /\ faults < MaxFaults
  /\ faults' = faults + 1

\* The kernel reads the table at boot.
PowerOn ==
  /\ At("off")
  /\ boot' = [boot EXCEPT !.pc = "expand", !.seen = disk.p5]
  /\ UNCHANGED <<disk, vol, slots, faults, work>>

-----------------------------------------------------------------------------
\* vamos-update expand, before userdata is mounted and, when the backup of the
\* table is still there, again afterwards.
AfterExpand == IF boot.mounted THEN "check" ELSE "probe"

ExpandSkipped ==
  /\ At("expand")
  /\ \/ disk.layout = "legacy"
     \/ disk.gpt = "full" /\ disk.p5 = "full" /\ ~boot.backup
  /\ Goto(AfterExpand)
  /\ UNCHANGED <<disk, vol, slots, faults, work>>

Relocate ==
  /\ At("expand") /\ disk.layout = "ab" /\ disk.gpt = "compact"
  /\ disk' = [disk EXCEPT !.gpt = "full"]
  /\ UNCHANGED <<vol, slots, boot, faults, work>>

\* Broken variant: the second pass drops the backup without growing.
ResumeForgets ==
  /\ At("expand") /\ disk.layout = "ab" /\ disk.gpt = "full" /\ disk.p5 = "full"
  /\ boot.backup
  /\ boot' = [boot EXCEPT !.pc = AfterExpand, !.backup = FALSE]
  /\ UNCHANGED <<disk, vol, slots, faults, work>>

ResumeExpand ==
  /\ At("expand") /\ disk.layout = "ab" /\ disk.gpt = "full" /\ disk.p5 = "full"
  /\ boot.backup
  /\ Goto("resize")
  /\ UNCHANGED <<disk, vol, slots, faults, work>>

SaveTable ==
  /\ At("expand") /\ disk.layout = "ab" /\ disk.gpt = "full" /\ disk.p5 # "full"
  /\ boot' = [boot EXCEPT !.pc = "table", !.backup = TRUE]
  /\ UNCHANGED <<disk, vol, slots, faults, work>>

\* Broken variant: the file system grows first.
GrowsFileSystem ==
  /\ At("table")
  /\ vol' = [vol EXCEPT !.fs = "full"]
  /\ disk' = disk /\ Goto("settle")
  /\ UNCHANGED <<slots, faults, work>>

GrowPartition ==
  /\ At("table")
  /\ disk' = [disk EXCEPT !.p5 = "full"]
  /\ vol' = vol /\ Goto("settle")
  /\ UNCHANGED <<slots, faults, work>>

\* Ten seconds of waiting for the kernel to report the new size.
Settle ==
  /\ At("settle")
  /\ \/ boot' = [boot EXCEPT !.pc = "resize", !.seen = "full"]
     \/ Goto(AfterExpand)
  /\ UNCHANGED <<disk, vol, slots, faults, work>>

Resize ==
  /\ At("resize")
  /\ vol' = [vol EXCEPT !.fs = boot.seen]
  /\ boot' = [boot EXCEPT !.pc = AfterExpand, !.backup = FALSE]
  /\ UNCHANGED <<disk, slots, faults, work>>

Expanding ==
  \/ ExpandSkipped \/ Relocate \/ ResumeExpand \/ SaveTable \/ GrowPartition
  \/ Settle \/ Resize

-----------------------------------------------------------------------------
\* Stage 1 around them.
Probe ==
  /\ At("probe")
  /\ Goto(IF vol.fs = "none" THEN "initialize" ELSE "mount")
  /\ UNCHANGED <<disk, vol, slots, faults, work>>

\* The kernel that mounts userdata knows its size.
Mount ==
  /\ At("mount")
  /\ boot' = [boot EXCEPT !.mounted = TRUE, !.seen = disk.p5,
                          !.pc = IF boot.backup THEN "expand" ELSE "check"]
  /\ UNCHANGED <<disk, vol, slots, faults, work>>

\* Broken variant: only the first marker counts.
CheckMigrated ==
  /\ At("check")
  /\ Goto(IF vol.reset THEN "reset" ELSE IF vol.migrated THEN "running" ELSE "initialize")
  /\ UNCHANGED <<disk, vol, slots, faults, work>>

\* A boot that finds the marker of a reset does not resume the initialisation.
Check ==
  /\ At("check")
  /\ IF vol.reset
     THEN Goto("reset") /\ work' = [work EXCEPT !.strayed = @ \/ ~vol.migrated]
     ELSE /\ Goto(IF vol.migrated /\ vol.ready THEN "running" ELSE "initialize")
          /\ UNCHANGED work
  /\ UNCHANGED <<disk, vol, slots, faults>>

\* reset --early refuses any volume but the fifth partition of an NVMe disk.
Refuse ==
  /\ At("reset") /\ disk.medium # "nvme"
  /\ Goto("running")
  /\ UNCHANGED <<disk, vol, slots, faults, work>>

Erasing == At("reset") /\ disk.medium = "nvme"

\* Then find removes the entries of /data, the marker of the reset among them,
\* in the order of the directory, and spares the other two.
\* Broken variant: it spares none.
EraseAll ==
  /\ Erasing /\ vol.data # Erased
  /\ vol' = [vol EXCEPT !.data = Erased, !.part = Erased, !.relics = FALSE,
                        !.migrated = FALSE, !.ready = FALSE]
  /\ UNCHANGED <<disk, slots, boot, faults, work>>

EraseSome ==
  /\ Erasing /\ vol.data \notin {Remains, Erased}
  /\ vol' = [vol EXCEPT !.data = Remains]
  /\ UNCHANGED <<disk, slots, boot, faults, work>>

EraseData ==
  /\ Erasing /\ vol.data # Erased
  /\ vol' = [vol EXCEPT !.data = Erased, !.part = Erased, !.relics = FALSE]
  /\ UNCHANGED <<disk, slots, boot, faults, work>>

EraseMarker ==
  /\ Erasing /\ vol.reset
  /\ vol' = [vol EXCEPT !.reset = FALSE]
  /\ UNCHANGED <<disk, slots, boot, faults, work>>

ResetEnds ==
  /\ Erasing /\ vol.data = Erased /\ ~vol.reset
  /\ Goto("running")
  /\ UNCHANGED <<disk, vol, slots, faults, work>>

Resetting == Refuse \/ EraseSome \/ EraseData \/ EraseMarker \/ ResetEnds

-----------------------------------------------------------------------------
\* vamos-update initialize: of a disk of the older layout, or the rest of an
\* initialisation that was interrupted.  USERDATA_MARKER is looked for in /data.
AfterInitialize == IF boot.mounted THEN "running" ELSE "mount"

ResumeAt ==
  IF boot.mounted /\ vol.migrated THEN "selector" ELSE "mkfs"

\* The selector lands on ESP a before the labels of the table change.
Initialize ==
  /\ At("initialize")
  /\ IF disk.layout = "ab"
       THEN Goto(ResumeAt) /\ UNCHANGED <<disk, slots>>
       ELSE /\ disk' = [disk EXCEPT !.gpt = "full"]
            /\ slots' = [slots EXCEPT !.selector = TRUE]
            /\ Goto("layout")
  /\ UNCHANGED <<vol, faults, work>>

\* Broken variant: the kernel is not told of the new partition.
LayoutUnseen ==
  /\ At("layout")
  /\ disk' = [disk EXCEPT !.layout = "ab", !.p5 = "full"]
  /\ Goto("mkfs")
  /\ UNCHANGED <<vol, slots, faults, work>>

WriteLayout ==
  /\ At("layout")
  /\ disk' = [disk EXCEPT !.layout = "ab", !.p5 = "full"]
  /\ boot' = [boot EXCEPT !.pc = "mkfs", !.seen = "full"]
  /\ UNCHANGED <<vol, slots, faults, work>>

\* The file systems that are missing, in the order of the partitions.
MakeFs ==
  /\ At("mkfs")
  /\ \/ /\ "esp_b" \notin slots.made
        /\ slots' = [slots EXCEPT !.made = @ \cup {"esp_b"}]
        /\ UNCHANGED <<vol, boot>>
     \/ /\ slots.made = {"esp_b"}
        /\ slots' = [slots EXCEPT !.made = @ \cup {"rootfs_b"}]
        /\ UNCHANGED <<vol, boot>>
     \/ /\ "rootfs_b" \in slots.made
        /\ vol' = IF vol.fs = "none" THEN [vol EXCEPT !.fs = boot.seen] ELSE vol
        /\ Goto("copy")
        /\ UNCHANGED slots
  /\ UNCHANGED <<disk, faults, work>>

\* rsync brings files of all of /data and removes none: those of an earlier
\* attempt stay, and it may have come to the marker of a reset.
\* Broken variant: the marker of the migration comes before the copy.
CopyMarked ==
  /\ At("copy")
  /\ vol' = [vol EXCEPT !.data = Torn, !.migrated = TRUE]
  /\ Goto("copying")
  /\ UNCHANGED <<disk, slots, faults, work>>

Copy ==
  /\ At("copy")
  /\ \E come \in {FALSE, slots.reset} :
       vol' = [vol EXCEPT !.data = Torn, !.part = slots.data, !.reset = @ \/ come,
                          !.relics = @ \/ vol.part \notin {Erased, slots.data}]
  /\ Goto("copying")
  /\ UNCHANGED <<disk, slots, faults, work>>

Copied ==
  /\ At("copying")
  /\ vol' = [vol EXCEPT !.data = slots.data, !.reset = @ \/ slots.reset]
  /\ Goto("mark")
  /\ UNCHANGED <<disk, slots, faults, work>>

\* The marker is touched before anything is synced.
MarkMigrated ==
  /\ At("mark")
  /\ vol' = [vol EXCEPT !.migrated = TRUE]
  /\ Goto("sync")
  /\ UNCHANGED <<disk, slots, faults, work>>

Synced ==
  /\ At("sync")
  /\ Goto("selector")
  /\ UNCHANGED <<disk, vol, slots, faults, work>>

\* Slot b may fail to take the selector; slot a, which runs, may not.
FinishSelector ==
  /\ At("selector")
  /\ slots' = [slots EXCEPT !.selector = TRUE]
  /\ Goto("ready")
  /\ UNCHANGED <<disk, vol, faults, work>>

MarkReady ==
  /\ At("ready")
  /\ vol' = [vol EXCEPT !.ready = TRUE]
  /\ Goto(AfterInitialize)
  /\ UNCHANGED <<disk, slots, faults, work>>

Initializing ==
  \/ Initialize \/ WriteLayout \/ MakeFs \/ Copy \/ Copied \/ MarkMigrated
  \/ Synced \/ FinishSelector \/ MarkReady

-----------------------------------------------------------------------------
\* A step that fails is left undone.  Without expand, the boot goes on; when
\* initialize fails, it unmounts userdata, which completes what was written to
\* it, and goes on with the data of the root file system; when the reset does, it
\* goes on with what is left.
StepFails ==
  /\ \/ At("resize") /\ Fault("expand") /\ Goto(AfterExpand)
     \/ boot.pc \in {"expand", "table"} /\ disk.layout = "ab"
        /\ Fault("expand") /\ Goto(AfterExpand)
     \/ /\ boot.pc \in LayoutSteps \cup CopySteps \cup FinishSteps \cup {"mount"}
        /\ Fault("storage")
        /\ boot' = [boot EXCEPT !.pc = "running", !.mounted = FALSE]
     \/ At("reset") /\ Fault("storage") /\ Goto("running")
  /\ UNCHANGED <<disk, vol, slots, work>>

\* The workloads change the data they see in /data.
Work ==
  /\ At("running") /\ work.newest < MaxWrites
  /\ work' = [work EXCEPT
                !.newest = @ + 1,
                !.strayed = @ \/ (vol.migrated /\ ~boot.mounted),
                !.redone = @ \/ (vol.part # Erased /\ ~boot.mounted),
                !.asked = @ /\ (vol.reset \/ slots.reset)]
  /\ IF boot.mounted
       THEN vol' = [vol EXCEPT !.data = work.newest + 1] /\ UNCHANGED slots
       ELSE slots' = [slots EXCEPT !.data = work.newest + 1] /\ UNCHANGED vol
  /\ UNCHANGED <<disk, boot, faults>>

\* reset without --early: the marker and a reboot.
RequestReset ==
  /\ At("running")
  /\ IF boot.mounted THEN vol' = [vol EXCEPT !.reset = TRUE] /\ UNCHANGED slots
     ELSE slots' = [slots EXCEPT !.reset = TRUE] /\ UNCHANGED vol
  /\ work' = [work EXCEPT !.asked = TRUE]
  /\ boot' = NoBoot
  /\ UNCHANGED <<disk, faults>>

Restart ==
  /\ At("running")
  /\ boot' = NoBoot
  /\ UNCHANGED <<disk, vol, slots, faults, work>>

\* What a cut leaves of a copy that is not synced: all of the data or not, and
\* each marker that came with it or not.
CutCopy ==
  \E data \in {Torn, vol.data}, migrated \in {FALSE, vol.migrated},
     reset \in {FALSE, vol.reset} :
    /\ vol' = [vol EXCEPT !.data = data, !.migrated = migrated, !.reset = reset]
    /\ work' = [work EXCEPT !.cut = @ \/ (migrated /\ data = Torn)]

PowerCut ==
  /\ ~At("off")
  /\ Fault("power")
  /\ boot' = NoBoot
  /\ IF boot.pc \in {"mark", "sync"} THEN CutCopy ELSE UNCHANGED <<vol, work>>
  /\ UNCHANGED <<disk, slots>>

Stage1 ==
  PowerOn \/ Expanding \/ Probe \/ Mount \/ Check \/ Resetting \/ Initializing

Next == Stage1 \/ StepFails \/ Work \/ RequestReset \/ Restart \/ PowerCut

Spec == Init /\ [][Next]_vars

\* A board that has power boots; nobody has to work on it or restart it.
FairSpec == Spec /\ WF_vars(Stage1)

-----------------------------------------------------------------------------
\* What the workloads find in /data is what they wrote last, whatever boots
\* were interrupted and whatever steps failed before ("migrate it restartably",
\* README.md), or what a reset they asked for left of it; and nothing they had
\* deleted comes back, unless they deleted it between two attempts at the copy
\* (rsync removes nothing).  Two cases are excepted.  They may have gone on with
\* the root file system once their data had been copied, or with userdata before,
\* as a reset of an unfinished migration does (strayed).  And the power may have
\* gone during the sync that follows the marker of the migration (cut): the marker
\* may outlive the data that it stands for.
DataKept ==
  At("running") /\ ~work.strayed /\ ~work.cut /\ (boot.mounted \/ ~vol.migrated) =>
    LET found == IF boot.mounted THEN vol.data ELSE slots.data IN
    /\ found = work.newest \/ (work.asked /\ found \in {Remains, Erased})
    /\ boot.mounted /\ vol.relics => work.redone

\* A file system never exceeds its partition, nor that the table.
Nested ==
  /\ vol.fs # "none" => disk.p5 = "full" \/ vol.fs = disk.p5
  /\ disk.p5 = "full" => disk.gpt = "full"

\* A relabelled disk has a selector to boot from, and one that is declared
\* ready has all its file systems and a complete copy of the data, unless the
\* power went during the sync that follows the marker of the migration.
LayoutComplete ==
  /\ disk.layout = "ab" => slots.selector
  /\ vol.ready =>
       /\ disk.layout = "ab" /\ slots.made = {"esp_b", "rootfs_b"}
       /\ vol.migrated /\ vol.fs # "none" /\ (vol.data # Torn \/ work.cut)

\* The file system of a boot that mounts userdata fills the medium ("On first
\* boot, the backup GPT, userdata partition, and ext4 filesystem expand",
\* README.md) ...
Grown == At("running") /\ boot.mounted => vol.fs = "full"

\* ... if nothing has failed, a kernel slow to report the new size included.
GrownUnlessInterrupted == faults = 0 => Grown

\* The first boot after the last fault completes the layout or, when a reset was
\* asked for and the disk is one that reset accepts, erases the data and the marker
\* of the request.
Undisturbed == At("off") /\ faults = MaxFaults
Restartable ==
  /\ Undisturbed /\ ~vol.reset ~> vol.ready /\ boot.mounted
  /\ Undisturbed /\ vol.reset /\ disk.medium = "nvme"
       ~> At("running") /\ vol.data = Erased /\ ~vol.reset
=============================================================================
