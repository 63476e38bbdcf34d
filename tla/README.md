# A formal model of vamOS on the Dragon

vamOS is a Linux image for an A/B device, the *Dragon*, with its boot firmware,
its updater and its flashing tools.  What is hard in it is what happens when
something ends half-way: an update, a migration, a flash, a command, a boot.
There are two slots, two copies of one small record that says which slot to
boot, two loaders and several programs that change the record, a hardware
watchdog, a clock without a battery, an identity that exists only on the board,
and power that may go at any moment.  The TLA+ modules here model that, TLC
checks them on small instances, and TLAPS proves for all values of the constants
what matters most of it.

Source paths below are relative to `src/`; `update.py`, `boot.py`,
`bootdiag.py`, `clock.py` and `identity.py` are in
`userspace/root/usr/lib/vamos/`.

## The system

| Part | Source | State | Operations |
| --- | --- | --- | --- |
| Boot-control record | `update.py` (`encode_boot_control` ... `set_boot_control`), `vamosboot.c` in the U-Boot patch, `build_disk.sh`, `build_esp.sh` | one copy on each ESP: generation, active and pending slot, phase, one-shot requests, diagnostics of the boot in progress | read and select, write to both ESPs one after the other |
| U-Boot selector | the U-Boot patch: environment, `edlprobe`, `edl`, `vamosboot` | the record in memory, the slot and its tag | USB probe, consume requests, phase transition, diagnostics, load, hand-off, recovery |
| GRUB selector | `tools/boot/grub.cfg` | the record in variables | select by its own tie-break, consume, try, roll back, recover |
| Updater | `update.py`: `install`, `activate_staged`, `request_edl`, `set_usb_mode` | contents of the inactive slot, the journal `state.json`, the update lock | write both images, install the selector, validate, arm, undo |
| Boot supervision | `boot.py`, `bootdiag.py`, runit stage 1, `vamos-boot-commit` | the journal, the markers in `/run`, the watchdog | diagnose, reconcile, declare healthy, disarm, commit or roll back |
| Watchdog process | `boot.py`: `start_watchdog`, `watchdog` | `/dev/watchdog`, markers | take over, service, disarm |
| Storage layout and factory reset | `update.py`: `expand_userdata`, `initialize_layout`; runit stage 1; `headless/reset` | partition table, file systems, markers on userdata, markers in `/run`, the reset marker | grow, lay out, migrate, resume, erase |
| Clock | `clock.py` | CLOCK_REALTIME, the saved floor, the source that set the clock last, a lock | restore, sync with GPS, app or network, serve, checkpoint |
| Identity | `identity.py` | the `/persist` region, its mount, READY, a lock | initialize, status, replace |
| Factory flashing | `tools/flash`: `cli.py`, `flash_factory.py`, `prepare_rawprogram.py`, `persist.py`; `build/package_flash.py` | the disk, the identity region, prepared chunks on the host | prepare, check, initialise the region, erase and program, abort |
| Host tools over EDL | `tools/flash`: `edl_session.py`, `edl_disk.py`, `edl_normal.py`, `uboot_recipe.py`, `cli.py` | a session with a child process, NOR backups, the boards on the cable | replace U-Boot, request a normal boot |
| Hypervisor mode, abctl, password, monitors, networking, video | small scripts and services | small files | see PROJECT.json |

On the device the programs share the record (through two FAT file systems), the
journal (a file on userdata), the kernel command line (from the selector to
Linux), lock files and markers in `/run`.  There are no messages: what is hard is
interleaved writes to shared storage, crashes between them, and timeouts.  The
host tools speak to a child process through a pipe, with deadlines.

What makes each part correct:

- *Record*: whatever write, crash or lost ESP, a reader finds one record, and
  it only moves forward.
- *Selectors*: a trial is started once, after the start is on record; a request
  is consumed before it is acted upon; something known to be good boots, or the
  board stops where it can be recovered; Linux reads what the selector decided.
- *Updater*: only the slot that does not run is written; only a verified one is
  armed; an error or crash leaves the running slot the default.
- *Supervision*: a trial that proves healthy is committed and stays so; any
  other is reset and rolled back; nothing is left undecided.
- *Watchdog*: the timer stops only for a boot whose health is on record, and
  fires in time for every other.
- *Storage*: growing and migrating lose no data, leave the disk bootable, and
  are completed by the next boot if they were interrupted; so is a reset.
- *Clock*: it only moves forward, never falls behind what was saved, and the
  floor survives a power cut but for a bounded loss.
- *Identity*: a board keeps the identity it was given through flashes, cuts and
  commands, and nothing starts on one that is being changed.
- *Host tools*: nothing is written before it is checked or backed up, and
  nothing is written after the tool has given up.

## Modules

| Module | Models | Extends |
| --- | --- | --- |
| `BootControl` | the record: fields, validity, order (`Supersedes`), selection (`Selected`), and every change a program makes (`Armed`, `Attempted`, `RolledBack`, `Recovered`, ...) as an operator on records | |
| `ControlStore` | the two copies and the programs that write them one after the other; failing and torn writes, power cuts, ESPs overwritten by an image; the invariant `StoreInv` | `BootControl` |
| `AtomicControl` | the abstract specification of the pair: one record that changes in single, superseding steps | `BootControl` |
| `Device` | what all programs share: the store, slot contents, journal, machine, and the budget of faults and requests | `ControlStore` |
| `Selector` | U-Boot from power-on to `booti` or the prompt | `Device` |
| `Updater` | `install`, `activate`, `request-edl`, `usb-mode` | `Device` |
| `Supervisor` | stage-1 diagnostics and reconciliation, and `commit` | `Device` |
| `AbSystem` | the composition, with ESP writes as steps of their own, power cuts, resets, lost copies, the operator and the recovery host | the three above |
| `AbUpdate` | the abstract A/B protocol: a good default, a trial attempted once, a default that changes only to a slot that has proved good | `BootControl` |
| `AbProgress` | how far the device is from rest: the resets that are still owed and the steps left to each program; the property `RestNears` | `AbSystem` |
| `GrubSelector` | GRUB and `update.py` taking turns at one disk | `ControlStore` |
| `BootWatchdog` | one boot second by second: launcher, watchdog process, commit, hardware timer | |
| `DataVolume` | partition table, userdata and data through stage 1: grow, lay out, copy, mark, resume, reset | |
| `Clock` | the service, the commands and the checkpoint of stage 3 around the lock, in discrete time | |
| `ForwardClock` | the abstract specification: a clock that steps forward only, and a floor that rises to times it has shown | |
| `FactoryDisk` | the disk in blocks, the identity region, what a flash may find and what its manifests write | |
| `FactoryFlash` | a flash from the preparation to the reset, cut at any operation | `FactoryDisk` |
| `Identity` | `initialize` and `replace` call by call, READY, and the service that starts on it | `FactoryDisk` |
| `Provision` | the life of a board: flashes, boots, commands, cuts | `FactoryFlash`, `Identity` |
| `FirehoseSession` | a tool, its child process and the board: requests, answers, deadlines, closing, a child left behind | |
| `EdlHost` | `vamos uboot` and the normal-boot request, on boards that may be exchanged | `FirehoseSession` |
| `ControlStoreProofs`, `AbSystemProofs`, `GrubProofs`, `BootWatchdogProofs`, `DataVolumeProofs`, `ClockProofs`, `ProvisionProofs`, `EdlHostProofs` | theorems, see below | the module, `TLAPS` |
| `MC...` | instances for TLC | |

How state corresponds to the code:

- `esp[s]` is `EFI/vamos/grubenv` on the ESP of slot s, or `Damaged` when it is
  missing or does not decode.  Checksums, root references and the USB role are
  not distinguished; generation, phase, slots, one-shot requests and the
  diagnostics of the boot are.
- `writer[p]` is a call of `vamos_persist`, `set_boot_control`,
  `_write_control_to_slot`, `save_env` or `record_stage` in progress: the
  record, the ESP it goes to now, the one it goes to next, and whether one took
  it.  Each ESP write is a step; a program goes on when its write is `Settled`.
- `image[s]` is the release in the system and ESP partition of a slot, each
  `Partial` while it is written.  A release is a model value: `factory` and
  `newer` pass the health checks, `sick` boots and does not.
- `journal` is `/data/vamos-update/state.json`; `upd.doc` and `sup.doc` are the
  copies the programs hold in memory and save later.
- `machine` is what runs, the kernel command line, the watchdog, the stage-1
  marker and the owner of the update lock.  All of it, and the steps of the
  programs, is gone after a power cut or reset (`Off`).
- In `GrubSelector`, `run.mem` is the record in GRUB's variables and `run.arg`
  the kernel argument that says which slot and phase was chosen.
- In `DataVolume`, `vol.migrated` and `vol.ready` are `.vamos-userdata` and
  `.vamos-ab-ready`, `vol.reset` and `slots.reset` the reset marker on userdata
  and in the `/data` of the old layout; `boot.backup` is the table backup in
  `/run`; `disk.medium` is what `reset` looks at.  Versions count the changes of the
  workloads; `Torn` is an incomplete copy, `Remains` what an erasure that ended early
  left, `Erased` an empty volume.  `rsync` removes nothing, so a volume also has
  what earlier attempts brought: `vol.part` is the version of the last one that
  wrote to it, and `vol.relics` says that an older one's files may be among the data.
- In `Clock`, a `task` is a process at a step of its code; ages stand for
  readings of CLOCK_MONOTONIC; `saved` is the checkpoint on the data volume,
  `runtime` the state in `/run`, and `board.failed` a restore of stage 1 that was
  killed or failed, after which the boot goes on (`runit/1:204`).
- In `Provision`, block 1 of `disk` is the partition table, `region` the
  identity partition (blank, junk, or a file system with key and marker),
  `proc` the commands, `mount` and `ready` what a boot has.
- In `EdlHost`, `store` is what the boards hold: the partition table with the
  paths to the records (`layout`), a record on each ESP, and the NOR; `child`
  holds the requests on their way to the board and the answers on their way
  back.
- `ghost`, `given`, `lost`, `seen` and the like are history for the properties
  only.

Definitions that begin with the comment "Broken variant" are changed copies of
the definition that follows them.  They are used by no specification: each
stands for a plausible defect, and shows that a property would notice it
(PROJECT.json, `mutants`).

## Runs

| Run | What it asks | Bounds |
| --- | --- | --- |
| `Store` | do two copies under write faults, torn writes, power cuts and image overwrites act as one record? | 2 interchangeable writers, generations up to 3 |
| `AbPower` | safety, refinement of `AbUpdate`, a measure of progress and liveness of the device under a power cut or image error at any step | 3 requests, 1 fault |
| `AbFaults` | unproven defaults and repeated one-shots under pairs of power cuts, load errors, image errors, lost copies and EDL resets that return; commits with a late disarm | 2 requests, 2 faults |
| `AbWrite` | record writes that fail with any effect, and power cuts; a board left without a record | 1 request, 2 faults |
| `Watchdog` | timer, markers and deadlines of one boot | deadlines 9/6/6/24/2/2 s |
| `Volume` | growth, migration and factory reset under power cuts and failing steps | 3 faults, 3 changes of the data |
| `Grub` | GRUB and Linux on one disk under failing writes, torn copies, load errors and power cuts | 5 requests, 4 faults, generations up to 6 |
| `Clock` | commands, service and checkpoint around the lock, killed or failing at any step, that of stage 1 included, with power cuts and image changes | true time up to 8; periods 1, retries after 2; 2 images |
| `Provision` | flashes cut at every operation, tables put back, starts, two commands at a time, a key that rots | 5 operator actions, 2 faults, 5 blocks, 2 commands, 2 identities |
| `EdlHost` | both host tools under late answers, failing children, bad sectors, killed tools and exchanged boards | 2 interchangeable boards, 2 faults, generations up to 3; tools run any number of times |
| `AbRace`, `VolumeCut` | the findings below | the least that shows them |

All of these are exhaustive.

*The device* (`Ab...`).  `MaxGen` (200) is never reached by a run that ends; it
bounds endless reboots of a board that has nothing healthy to boot.  Requests are
installs (any release, with or without activation and reboot), activations, EDL
and USB-mode requests, restarts, plugging in a PC and the host's normal-boot
request, so three are enough for an install, its trial and another command in the
middle of it, or for an update over an update.  Faults are counted over a whole
behaviour and strike between any two steps, several times in one reboot if the
bound allows.  In `AbPower`, `AbFaults` and `AbWrite` `Quiet` is TRUE: the
operator waits for the boot supervision to finish before giving a command; the
next section says what happens otherwise.  Deadlock is not checked where the
device comes to rest or TLC exhausts the budget of requests.

*Redundancy of two.*  A fault that leaves a copy unreadable is only allowed where
the twin holds the selected record (`Expendable` in the store and the device,
`Spare` for GRUB), because no redundancy of two survives more: two faults are
never both in the record.  For power cuts during an ordinary change this loses
nothing, since the writes go one ESP after the other and the first is torn while
its twin still holds the selection.

*The watchdog* run scales the deadlines of the code (open 45, timeout 30, start
30, health 180, stop 5 and poll 5 s) down and keeps their order; the proofs cover
the rest.

*The volume.*  Three faults allow an interruption of the migration, one of its
resumption and a failing step in a third boot.  The boots are of slot a, and
every kind of disk is on either medium.  The erasure of a reset takes some of the
data, all of them and the marker, in any order, and may end after any of them;
the openpilot checkout it keeps is not told apart.  What is durable when: the copy
and the markers that come with it reach the medium in any order until the only
`os.sync()` (`update.py:1258`, `:1269`), so a cut before it leaves a complete or
an incomplete copy with or without each marker (`CutCopy`).  Every other step is
taken to be durable when the next begins.

*The clock.*  True time runs from 1 to 8.  At these periods that is enough for every
process to wait for every other, for a power cut and for another image afterwards,
and one unit more than the largest loss.  The board starts at the epoch, before every build
time, and an app may set its clock ahead; the theorems hold for any time it may
start with.  The restore of stage 1 may be killed or fail before it sets the clock,
before it records that (`clock.py:97`, `:98`) and before it saves.  The model has
no restore by hand in a boot where that of stage 1 failed ("Only stage 1 calls
restore", `clock.py:87`); one by hand after a restore that is on record, as a
repeated stage 1 would do it, is in.  A checkpoint that cannot be written and
commands of two users at once are not modelled.

*Provisioning.*  Two faults allow a damaged region and a cut of its repair;
commands of two operators suffice to contend for the lock.  The blocks are the
table, a chunk the image leaves empty, the identity region, a chunk of userdata
that the openpilot delta changes and one that it empties.

*The host tools.*  One tool runs at a time, as `select_edl` and the claim of the
USB interface enforce.  At the start one board has one part in trouble: a NOR that
is not current, an unsound layout or an invalid record.  Boards are exchanged only
while no child holds one.  A board that is taken off and put back passes the
comparison here, though its new USB address fails it in the code: the model is
more permissive.

### Fairness

`FairSpec` of `AbSystem` has weak fairness of the steps of a program that runs
(selector, updater, supervisor, each writer), of power-on, and of resets that
have been requested or that the hardware timer has pending.  These are sequential
programs on a board that has power; the timer is hardware.  There is none on
operator requests or faults.  In `BootWatchdog` the processes may hang before
every fair step only where the code can (`Launch`, `Stage1Complete` and
`StartCommit` are not fair: the boot may hang there); in `DataVolume` a board
with power boots, and nobody has to restart it.  `Provision` has weak fairness of
the steps of each command and of runit going on after stage 1, none of operators
or faults.  `Clock`, `GrubSelector` and `EdlHost` state safety only; what has to
happen in time is a bound on a quantity there (`LossBounded`).

### What holds

- *One record* (`StoreInv`, `AtomicRecord`): see the proofs.
- *Known-good default* (`KnownGoodDefault`): the default slot holds one complete
  release that has passed a healthy boot, unless the recovery of U-Boot chose it
  because nothing else loaded.
- *Verified trials, once* (`TrialVerified`, `OneShot`): a trial starts only on a
  complete slot, at most once per activation and not after a cancellation; EDL
  and normal-boot requests take effect at most once.
- *Durable commits* (`CommittedIsDurable`): the journal and the selector agree
  on a committed update.
- *Repair* (`BootRestoresCopies`): a boot that gets to its kernel has made both
  copies equal.
- *The protocol* (`ImplementsAbUpdate`): every step of the device is a step of
  `AbUpdate` or changes nothing it speaks of, with the selected record's active
  slot and phase, and the slots whose contents are proven, as the mapping.
- *Every trial ends the right way* (`TrialsDecided`), *the device comes to rest*
  (`Settles`), *a board without a record stops* (`BlindBoardStops`).
- *No boot loops* (`RestNears`): whoever takes turns, and however unfairly, every
  step that is neither a request nor a fault brings the device nearer to rest.  A
  stable boot is declared healthy without a reset, a trial is reset once at most,
  and no program repeats a step or waits for a lock that nobody releases.
- *GRUB*: trials and EDL requests happen once (`OneShot`), a recovery that ESP a
  took lasts (`RecoveryKept`), and Linux reads what GRUB decided
  (`SameSelection`) but for the two cases under Findings.
- *Watchdog* (`ResetInTime`, `DisarmedWhenRecorded`, `DecidedIsSafe`,
  `BootDecides`): as their comments say.
- *Storage*: file systems fit their partitions (`Nested`) and fill the medium if
  nothing failed (`GrownUnlessInterrupted`); whatever is interrupted, the workloads
  find what they wrote last or what a reset they asked for left, and nothing they
  deleted (`DataKept`), and a disk that is declared ready is complete
  (`LayoutComplete`); the first undisturbed boot completes the layout, or on NVMe the
  reset (`Restartable`).  The cases these except are under Findings: a boot that
  strayed to the root file system, a cut during the sync after the marker of the
  migration, and a reset of a disk on UFS.
- *Clock*: `ForwardClock` is implemented, and a boot whose restore failed keeps at
  least the floor from going back; a power cut loses at most one interval,
  the polls that may come before the checkpoint and its own wait and turn at the
  lock (`LossBounded`), an orderly stop nothing (`CleanStop`);
  an NTS sample that waited for the lock is late by at most that wait
  (`NtsAccuracy`) and not overruled while it is current (`NtsPreferred`).
- *Identity*: it is kept (`SameIdentity`), READY and openpilot stand for it
  (`ReadyMeansProvisioned`, `OneIdentity`), a finished flash is complete
  (`FlashComplete`), and a usable board becomes ready (`BootReadies`).
- *Host tools*: backups and records survive whatever fails (`BackupKept`,
  `RecordsKept`), what a step relies on is true of the board (`ChecksHold`), and
  nothing lands after a session (`NoLateWrite`).

## Findings

Two are runs that TLC ends with a counterexample; PROJECT.json quotes the text
of the repository that says otherwise.

- `AbRace`: `commit()` does not take the update lock, `request_edl` does.  A
  request that read the record before the commit and writes it after undoes the
  commit; the next boot rolls back an update the journal calls committed.
- `VolumeCut`: the marker for resuming an interrupted growth is in `/run`.  After
  a power cut between the partition and the file system nothing grows the file
  system any more.

Others are what the models show the code to do.  They are the reason for an
exception that a property names, or for a bound.

*Device.*

- `install` (`update.py:1002`) during a trial that is not committed yet makes the
  trial slot the stable default, though "Userspace commits it only after runit
  reaches the launcher" (`README.md:316`), and overwrites the known-good one.  The
  comment at `update.py:1005` thinks of staged trials only.  It is the reason for
  `Quiet`: without it `KnownGoodDefault` fails.
- Cancelling a staged trial (`update.py:1004`) succeeds when one ESP took it.  If
  that is the target's, the image written over it removes the cancellation, and
  the armed trial of a half-written slot is selected again.  It takes a failing
  record write and a power cut before two requests, beyond `AbWrite`.
- When no ESP takes the commit, and none the rollback (`boot.py:193`, `:210`), the
  exception of the rollback skips the reboot, with the watchdog already disarmed.
  `TrialsDecided` is checked for power cuts and image errors.
- `commit` waits 5 s for a process that polls every 5 s (`boot.py:200`,
  `vamos-boot-commit/run:27`).  It may give up just before the process disarms the
  timer; nothing then resets the failed boot.  `BootDecides` counts it as failed;
  the definition `FailedIsReset` of `BootWatchdog` states what does not hold.

*GRUB.*

- A recovery is written without a new generation (`grub.cfg:256`).  One that only
  ESP b took is lost at the next boot, where the tie goes to a, against the
  comment that it "makes that recovery choice persistent"; and until then GRUB and
  Linux select different slots.  `RecoveryKept` and `SameSelection` except it.
- When only ESP b took the consumption of an EDL request, and only b a recovery
  after it, the copies have one generation and phase and differ in the request:
  GRUB goes by b at every later boot, `update.py` by a (`grub.cfg`'s tie-break
  against `update.py`'s).  A plain boot then runs the recovered slot while Linux
  reads that the other is active.  `SameSelection` excepts it by name (`Divided`).
  The runs had not shown it with two faults; it came out of the proof, and `Grub`
  now allows the four faults it takes.
- GRUB also breaks ties by the consumed EDL request, `update.py` and U-Boot do
  not.  A USB-mode request after a consumption that only ESP b took raises the
  EDL request again (`SetUsbMode`).

*Clock.*

- While the true time is outside the lifetime of the image every NTS sample is
  refused, but only after a query and a turn at the lock, and the next is tried
  before the checkpoint when the retry period is short.  The loss at a power cut
  is larger than the save period and one round by that much (`MaxLoss`); a
  smaller bound was refuted when its proof was attempted.
- In a boot whose restore failed, RUNTIME is written without a boot id
  (`clock.py:127-129`), so that the record of a network sample does not keep a later
  `restore` from throwing the live clock back and forgetting which source set it.
  `clock.py:87` says that only stage 1 calls it; nothing enforces that.
- In such a boot the clock may be before the build time when the system stops, and
  stage 3 then saves nothing; `CleanStop` excepts it.

*Storage and reset.*

- The migration touches its marker before the only `os.sync()`
  (`update.py:1257-1258`, `:1268-1269`).  A cut in between may leave the marker over
  files that never reached the medium; the next boot does not copy again and
  declares the volume ready, though installations "migrate it restartably"
  (`README.md:350-351`).  `DataKept` and `LayoutComplete` except it by name (`cut`)
  and hold for every other cut.
- `rsync` runs without `--delete`.  What the workloads delete after a boot whose
  migration was interrupted, and that went on with the old `/data`, comes back when
  the migration is repeated (`work.redone`, `vol.relics`).
- When the migration of userdata has completed but the step after it fails, the
  workloads go on with the old root file system, and what they write is hidden by
  the next boot that mounts userdata (`strayed`).
- `headless/reset` erases its marker among the other entries, in the order `find`
  gives them: a cut, or a failing `rm`, may leave data without the marker, though
  `runit/1:188` says that it preserves it "for diagnosis".
- A boot that finds the marker does not resume an unfinished migration; it may
  erase a half-made copy and go on with that volume (`strayed` again).
- `reset` accepts `/dev/nvme0n1p5` only (`headless/reset:29-33`), though
  `docs/agnos-parity.md:25` says that an "explicitly requested early-boot reset
  erases user state".  A board on UFS, such as the factory image whose growth is
  modelled, refuses it and keeps the marker, so it refuses again at every boot; an
  unfinished migration is then never resumed either, since a boot with the marker
  does not call `initialize`.  `Restartable` excepts the medium.
- A reset with an armed update erases the journal: the trial is then refused
  ("trial state does not match the running slot") and the device returns to the
  old slot.

*Identity and flashing.*

- An `mkfs` that is cut leaves a region that is neither zeros nor a file system.
  Every start refuses it, and no flash erases it, since the table is current; the
  same goes for a key that rots (`lost`).
- `replace` looks for openpilot before it takes the lock (`raced`).
- A board whose table was torn is refused until a table is put back, though
  `persist.py:1` speaks of "retries after GPT erasure"; so is a board without a
  table whose region is not blank.
- A command that fails before it changes anything has already removed READY.
  `atomic_write` may fail after its rename: `replace` then reports a failure of a
  replacement that took place.

*Host tools.*

- `EdlDisk` selects the board anew and compares it with nothing
  (`edl_normal.py`): one that is exchanged in between is written under the name of
  the other (`swapped`).
- A NOR write that was cut leaves contents no recipe knows: the next run backs
  them up and refuses them as an unsupported revision.
- A `sudo kill` that fails raises an error `cmd_normal` does not catch, and the
  child it could not end finishes its write (`left`).

## Proofs

TLAPS checks these theorems for all values of the constants; TLC has checked
the invariants they rest on, on the instances above.

`ControlStoreProofs` (`StoreInvariant`, `RecordIsAtomic`) assumes
`DamagedAssumption` of `BootControl`: a damaged copy is not a record.  That a
reader always finds a record is not inductive by itself: an outage may tear the
copy in hand.  `StoreInv` adds that a write in progress proposes either a record
that supersedes the selection, or the selected record itself, already on the
other ESP (`WriteAhead`), and that programs take turns (`OneWriter`).  The lemmas: every change makes a superseding record
(`ChangeSupersedes`), the order is transitive, and a superseding record is
selected as soon as one ESP holds it (`WriteSelects`).  Then every step of the
store leaves the selection alone or replaces it by a superseding record, which
is the step of `AtomicControl`.

`AbSystemProofs` is about the whole device, for all bounds on requests and
faults, all sets of releases and every interleaving.  `DeviceTypeCorrect` holds of
any operator and any faults.  The others need `Orderly`: `Quiet`, that the
operator waits for the boot supervision, and no record write that fails by itself
(`"write"` is not in `FaultKinds`).  Power cuts in the middle of a write, load and
image errors, lost copies, EDL resets and late disarms stay in.  Both hypotheses
are needed: without the first `AbRace` and the install during a trial break the
properties, without the second a cancellation that one ESP did not take does, with
two requests (Findings).  `AbFaults` runs under them; `AbPower` too.

- `DeviceInvariant` is the inductive invariant.  The power may go between any two
  steps, so every record that a boot may find, the selected one and those being
  written, must be one the board can live with (`Fit`: its default has proved good,
  its trial is the verified slot the journal waits for, its one-shots are still
  owed).  The rest says for each program what it may rely on at each step: which
  program runs and who waits for a write (`ModeInv`), what a write has reached so far
  (`WaitInv`), and what U-Boot, Linux, the supervision and the updater know
  (`SelInv`, `RunInv`, `SupInv`, `UpdInv`); `StoreInv` is the store's.
- `GoodDefault`, `VerifiedTrial`, `RequestsOnce`, `CommitLasts`, `CopiesRestored`
  follow from it.
- `DeviceRecordAtomic`: the device as a whole, with all its writers and the ESPs
  that are overwritten or skipped, refines `AtomicControl` as the store alone does.
  `ControlStoreProofs` states its lemmas for any state in which no program is in
  the middle of a write, and `ModeInv` provides it.
- `DeviceImplementsProtocol`: the refinement of `AbUpdate`, step by step, under
  `Undisturbed`: `Orderly` without load errors and EDL resets that return, after
  which U-Boot promotes the other slot, which the protocol does not do.  `PlainInv`
  says that it then never does.
- `DeviceNears`: under the same hypothesis every step lowers the natural number
  `Left`, unless a request or a fault took it.  `Left` is 130 for each reset that is
  still owed (a trial that may end with the watchdog, a trial that a command may
  yet arm, a reboot that was asked for, the reset by the recovery host) plus the
  steps left to the programs, each of which may set out to write two copies.  A boot
  has fewer than 130 steps, so a reset pays for the boot after it, and the steps in
  between owe nothing new (`Nearer`, `NoMoreOwed`, `OneLessOwed`).  That a reset
  happens only where one is owed is the hard part: no stable boot may be left to the
  watchdog.  `BootInv` strengthens the invariant for it: until a boot is declared
  healthy the record it was opened with is still the one to be found, nobody else
  holds the update lock, and a stable boot passes its health checks.

`GrubProofs` (`GrubInvariant`, `ActsOnce`, `RecoveryLasts`, `LinuxReadsIt`) holds
for any number of requests, faults and generations.  GRUB overwrites copies without
a new generation, so that their order alone does not tell which is the later.
What helps is what it holds in its variables: no copy is ahead of it (`Under`),
copies of one generation name the same default while their trial is undecided
(`Twins`), a record Linux writes is new to every copy (`Newest`), a record that
carries a request is owed it (`Owed`), and a recovery that counts is what both
readers select (`KeptInv`).

`BootWatchdogProofs` (`BootIsReset`, `TimerStopsRecorded`, `CommitIsSafe`,
`BootTypeCorrect`) assumes that the process polls more often than the timer
fires, that it starts before the health deadline, and that the kernel does not
service the timer for longer than the health deadline and one timeout
(`TimesAssumption`, `DeadlinesAssumption`; 5 < 30, 30 <= 180 and 45 <= 210 in the
code).  The invariant has three parts: a health marker is preceded by the record
and by stage 1; nothing services a stopped timer; and now plus what the timer has
left never exceeds the bound, since a process that is due acts before time goes
on.

`DataVolumeProofs` (`DataAreKept`, `LayoutIsSound`, `GrowthCompletes`,
`FileSystemsFit`, `VolumeTypeCorrect`) needs only that the bounds are natural
numbers.  The properties speak of boots that have come up; the invariant says for
every step of a boot what it may rely on: which file systems exist (`DiskInv`),
what the kernel believes (`SeenInv`), whether the volume is mounted, migrated,
marked or being reset (`StepInv`), where the newest data are and that nothing but
a reset empties them (`DataInv`), and how far an undisturbed growth has come
(`GrowthInv`).  The copy takes three steps, and only the third, the sync, makes it
safe from a cut; until then the data in the old `/data` are still the newest, so
that a cut without the marker is repaired by another copy.  That the two theorems on the data hold outside the
window of that sync is their exception `cut`; `strayed` is the other.

`ClockProofs` (`ClockIsForward`, `ClockTypeCorrect`, `LossIsBounded`,
`StopIsClean`, `NtsIsAccurate`, `NtsIsPreferred`) assumes that times are natural
numbers, that what adjtime takes is at least the threshold below which nothing is
corrected, and that the save period is not zero (`ClockAssumption`,
`ScaleAssumption`; 0.25 <= 2000 s and 30 > 0 s in the code).  The argument is the
lock: whoever is past it is its holder
(`HolderInv`), so between the reading of the clock and the writing of the floor
no other command writes it, and the clock only goes on.  What is about to be
saved is therefore a time the clock has shown and no earlier than the floor
(`SavingInv`), and a floor that is plausible for the running image is never ahead
of a restored clock (`FloorInv`); until the restore of stage 1 is on record or has
failed nothing else runs (`StartInv`).  Where it failed the clock is any time the
board supplied.  Nothing is saved from one that is before the build time
(`PastBuildInv`), and what is saved later is plausible and no earlier than the
floor, which is all that `ForwardClock` promises of such a boot (`Blind`).  The bounds rest on its queue: what a waiting
service has waited, what is left of the turn in progress and the turns of those
who asked earlier are together at most two turns (`TurnInv`).  From that follow the
age of a network sample when it is used (`SampleInv`), how much is unsaved at each
step of a round (`LossInv`, one bound per step), what stage 3 will have saved
(`StopInv`) and that RUNTIME names the network while its fix is current
(`PreferInv`).

`ProvisionProofs` (`IdentityIsKept`, `ReadyIsSound`, `OpenpilotIsRight`,
`FlashIsComplete`, `ProvisionTypeCorrect`) holds for any number of commands, identities, blocks and
faults.  A region that was given an identity keeps its file system and marker
(`RegionInv`), because the host erases only a region that holds none, and no
operation of an accepted manifest touches it (`HostInv`); a command past the lock
is the only one (`LockInv`) and has removed READY before it changes anything
(`ReadyInv`); a replacement is under way beside openpilot only if it looked before
openpilot started (`OpenpilotInv`).  That a finished flash is complete holds for
any two images on any number of blocks.  The operations of a manifest are
enumerations of sets of blocks, so the proof begins with those: a finite set of
numbers has an ordered enumeration (`OrderExists`, by least counterexample), and it
names every member once (`InOrderIs`).  Then the last operation of a package on
each block writes what its image has there (`PackageWritesLast`), and during a flash
every block holds what the last operation before the current one wrote (`Written`);
the rest of `FlashInv` is why a host that goes on has a region without rubble.

`EdlHostProofs` (`BackupIsKept`, `RecordsAreKept`, `ChecksAreTrue`, `NothingLate`,
`EdlTypeCorrect`) holds for any boards, faults and generations.  There is one
request or one answer in the pipe, and only while the tool waits for it
(`PipeInv`); the tool is at the step that asked, on the board the child holds
(`PlaceInv`).  What it has read is therefore still so at each later step
(`RecordInv`, `NorInv`), and so every write that is on its way may be cut at any
point, also when nobody waits for it any more: the other record is valid and the
NOR is backed up (`WriteInv`).  The boards follow (`BoardInv`).

Every invariant and every action property of the passing runs is stated by one of
these theorems.  Only model-checked:

- liveness (`Settles`, `TrialsDecided`, `BlindBoardStops`, `BootDecides`,
  `Restartable`, `BootReadies`), which with ENABLED and fairness is beyond the
  prover.  `DeviceNears` proves the safety half of `Settles`: between requests and
  faults the steps run out.  That they run out at rest and not before, because
  somebody can always take one, is for TLC to check;
- the device with record writes that fail by themselves (`AbWrite`), where
  `OneShot` and `CommittedIsDurable` hold for one request and not for two;
- the two counterexamples.

## Not modelled

PROJECT.json lists every part.  In short:

- the UFS pass of the U-Boot script (it repeats the NVMe pass); signatures,
  downloads and decompression (one image error, or one failing step, in the
  models); the wording of diagnostics; partition geometry (two sizes);
- commands while the diagnostics of a boot hold the update lock (`Quiet`), so that
  their contention (`bootdiag.py:25`) is shown by `AbRace` only as a meeting of a
  command with a commit; what follows a promotion of an untried slot, which
  `KnownGoodDefault` excepts;
- boots of slot b with an unfinished migration, and the composition of the
  volume with the A/B device; writes of an older system that runs under an old
  partition table put back by the host;
- the bytes of recipes, chunks, FAT chains and identities: a NOR revision, a
  kind of contents, a layout that checks out or does not, a model value;
- the hypervisor mode switch and `abctl`, whose effect is decided by firmware
  that is not in the repository; the password copies, the monitors, networking,
  video, drivers, device trees, secure launch, build scripts and bench tools.

## Plan

What is left, in the order of its worth:

1. Proofs: `AbSystem` with failing record writes for one request, which needs an
   invariant on the requests left; what liveness rests on beside the measure
   (each waiting program has a step), and measures like `Left` for `BootWatchdog`
   and `DataVolume`.
2. `DataVolume` with boots of both slots, where a resumed initialisation meets a
   trial, and its composition with `AbSystem`.
3. The manifests and the download cache behind an image error; the deferred
   reboot of the hypervisor mode.
