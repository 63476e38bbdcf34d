------------------------------- MODULE Clock -------------------------------
(***************************************************************************)
(* vamos-clock (userspace/root/usr/lib/vamos/clock.py): the saved floor of *)
(* the clock and its forward-only synchronization. Its commands run as     *)
(* separate processes and take turns under /run/vamos-clock.lock: the      *)
(* service (serve), one command at a time (the restore of stage 1, then    *)
(* sync commands of an app or the GPS daemon, or an operator's restore),   *)
(* and the checkpoint of runit stage 3 (halt).                             *)
(*                                                                         *)
(* Time is discrete. A Tick advances the true time, and with it            *)
(* CLOCK_REALTIME, slower or faster while an adjtime correction is         *)
(* pending. CLOCK_MONOTONIC is only ever used for ages and delays, so it   *)
(* is kept as the ages and the remaining delays themselves. A Tick waits   *)
(* for whatever is due.                                                    *)
(***************************************************************************)
EXTENDS Integers

CONSTANTS
  Builds,      \* the build times of the images that may run
  Lifetime,    \* TEN_YEARS
  Hardware,    \* times the board may supply at power-on
  Wrong,       \* how far the time of an app may be off
  Threshold,   \* an offset above it (0.25 s) is stepped
  MaxSlew,     \* the largest adjtime correction (2000 s)
  GpsAge,      \* the oldest GPS sample taken (2 s)
  Current,     \* how long a better source is preferred (600 s)
  Poll, Retry, \* serve: the next query after a success, a failure
  SavePeriod,  \* serve: the next checkpoint
  QueryLimit,  \* the timeout of chronyc
  Hold,        \* the longest a process holds the lock
  Start,       \* the true time when the device is first switched on
  Horizon      \* bound of the model on true time

ASSUME ClockAssumption ==
  /\ Builds \subseteq Nat /\ Hardware \subseteq Nat /\ Wrong \subseteq Int
  /\ {Lifetime, Threshold, MaxSlew, GpsAge, Current, Poll, Retry, SavePeriod,
      QueryLimit, Hold, Start, Horizon} \subseteq Nat

\* An offset that is not stepped is within the reach of one correction, and the
\* checkpoints are further apart than the naps of serve.
ASSUME ScaleAssumption == Threshold <= MaxSlew /\ SavePeriod > 0

VARIABLES
  board,    \* power, the running image, the true time, and whether the restore
            \* of stage 1 has failed in this boot
  clock,    \* [real, adj]: CLOCK_REALTIME and the pending adjtime correction
  saved,    \* STATE, on the data volume
  runtime,  \* RUNTIME, in /run: [restored, source, age]
  lock,     \* [holder, held]: the flock and how long it has been held
  task,     \* what every process is doing
  agenda,   \* the service: what remains to the next poll, the next checkpoint
            \* and the end of the sleep; whether this round saves; SIGTERM
  seen      \* history: the age of the last NTS sample applied to the clock, and the
            \* running time a power cut would lose, from the first checkpoint of
            \* the service to its end

vars == <<board, clock, saved, runtime, lock, task, agenda, seen>>

Free == "free"
NoTime == -1
None == -1
Procs == {"serve", "command", "halt"}
Samples == {"nts", "gps", "app"}
Kinds == Samples \cup {"restore", "save", "last"}

\* pc: where the process is; kind and target: the sample it brings, or the
\* restore or checkpoint it does; age: how long ago it was sampled, or began to
\* wait; value: what it is about to save.
Idle == [pc |-> "idle", kind |-> "save", target |-> 0, age |-> 0, value |-> 0]
Steps == {"idle", "wait", "held", "record", "write", "query", "plan", "nap", "done"}

TypeOK ==
  /\ board \in [on : BOOLEAN, build : Builds, true : Nat, failed : BOOLEAN]
  /\ clock \in [real : Nat, adj : Int]
  /\ saved \in Nat \cup {NoTime}
  /\ runtime \in [restored : BOOLEAN, source : Samples \cup {"none"}, age : Nat]
  /\ lock \in [holder : Procs \cup {Free}, held : Nat]
  /\ task \in [Procs -> [pc : Steps, kind : Kinds, target : Int, age : Nat, value : Nat]]
  /\ agenda \in [poll : Nat, save : Nat, wake : Nat, saves : BOOLEAN, stop : BOOLEAN]
  /\ seen \in [nts : 0..Current, unsaved : Nat \cup {None}]

Unlocked == [holder |-> Free, held |-> 0]
NoRuntime == [restored |-> FALSE, source |-> "none", age |-> 0]
NoAgenda == [poll |-> 0, save |-> 0, wake |-> 0, saves |-> FALSE, stop |-> FALSE]
NoSeen == [nts |-> Current, unsaved |-> None]
NoClock == [real |-> 0, adj |-> 0]

Init ==
  /\ board \in [on : {FALSE}, build : Builds, true : {Start}, failed : {FALSE}]
  /\ clock = NoClock
  /\ saved = NoTime
  /\ runtime = NoRuntime
  /\ lock = Unlocked
  /\ task = [p \in Procs |-> Idle]
  /\ agenda = NoAgenda
  /\ seen = NoSeen

\* valid_epoch, for the running image.
Plausible(t) == board.build <= t /\ t <= board.build + Lifetime

At(p, pc) == board.on /\ task[p].pc = pc
Go(p, pc) == task' = [task EXCEPT ![p].pc = pc]
Rest(p, pc) == task' = [task EXCEPT ![p] = [Idle EXCEPT !.pc = pc]]

-----------------------------------------------------------------------------
\* The lock. The kernel grants it to the process that has waited longest.
Waits(p, kind, target) ==
  task' = [task EXCEPT ![p] = [pc |-> "wait", kind |-> kind, target |-> target,
                               age |-> 0, value |-> 0]]

\* Broken variant: the lock is shared.
AcquireShared(p) ==
  /\ At(p, "wait")
  /\ lock' = [holder |-> p, held |-> 0]
  /\ Go(p, "held")
  /\ UNCHANGED <<board, clock, saved, runtime, agenda, seen>>

Acquire(p) ==
  /\ At(p, "wait") /\ lock.holder = Free
  /\ \A q \in Procs : task[q].pc = "wait" => task[p].age >= task[q].age
  /\ lock' = [holder |-> p, held |-> 0]
  /\ Go(p, "held")
  /\ UNCHANGED <<board, clock, saved, runtime, agenda, seen>>

\* The process leaves the lock. The service goes on with its round: after a
\* sample it plans the next poll, after a checkpoint the next one.
Leave(p, success) ==
  /\ lock' = Unlocked
  /\ \/ /\ task[p].kind = "nts"
        /\ Rest(p, "plan")
        /\ agenda' = [agenda EXCEPT !.poll = IF success THEN Poll ELSE Retry]
     \/ /\ task[p].kind = "save"
        /\ Rest(p, "nap")
        /\ agenda' = [agenda EXCEPT !.save = SavePeriod, !.wake = 1, !.saves = FALSE]
     \/ /\ task[p].kind \in {"gps", "app", "restore"}
        /\ Rest(p, "idle") /\ UNCHANGED agenda
     \/ /\ task[p].kind = "last"
        /\ Go(p, "done") /\ UNCHANGED agenda

\* atomic_json(STATE): the later of the clock, as it was read, and what was
\* saved, if that is plausible. A clock that is not plausible is not saved.
Reading == IF Plausible(saved) /\ saved > clock.real THEN saved ELSE clock.real

Prepare(p) ==
  /\ Plausible(clock.real)
  /\ task' = [task EXCEPT ![p].pc = "write", ![p].value = Reading, ![p].age = 0]
  /\ UNCHANGED <<lock, agenda>>

Implausible(p) == ~Plausible(clock.real) /\ Leave(p, FALSE)

Checkpoint(p) ==
  /\ At(p, "held") /\ task[p].kind \in {"save", "last"}
  /\ Prepare(p) \/ Implausible(p)
  /\ UNCHANGED <<board, clock, saved, runtime, seen>>

Write(p) ==
  /\ At(p, "write")
  /\ saved' = task[p].value
  /\ Leave(p, TRUE)
  /\ seen' = IF ~agenda.stop /\ (p = "serve" \/ seen.unsaved # None)
             THEN [seen EXCEPT !.unsaved = task[p].age] ELSE seen
  /\ UNCHANGED <<board, clock, runtime>>

-----------------------------------------------------------------------------
\* restore: once in a boot, whatever the board says, from the floor alone.
BootFloor == IF Plausible(saved) /\ saved > board.build THEN saved ELSE board.build

Restore(p) ==
  /\ At(p, "held") /\ task[p].kind = "restore" /\ ~runtime.restored
  /\ clock' = [clock EXCEPT !.real = BootFloor]
  /\ Go(p, "record")
  /\ UNCHANGED <<board, saved, runtime, lock, agenda, seen>>

RestoredBefore(p) ==
  /\ At(p, "held") /\ task[p].kind = "restore" /\ runtime.restored
  /\ Leave(p, TRUE)
  /\ UNCHANGED <<board, clock, saved, runtime, seen>>

\* synchronize: the GPS sample is brought up to date, the others are taken as
\* they are.
Target(p) == task[p].target + IF task[p].kind = "gps" THEN task[p].age ELSE 0
Fresh(p) == task[p].kind = "gps" => task[p].age <= GpsAge

Outranked(p) ==
  /\ runtime.source # "none" /\ runtime.age < Current
  /\ \/ task[p].kind \in {"app", "gps"} /\ runtime.source = "nts"
     \/ task[p].kind = "app" /\ runtime.source = "gps"

\* Broken variant: the sign of chronyd's other field, which counts a fast clock
\* as positive.
SlewAway(offset) == IF offset > MaxSlew THEN -MaxSlew
                    ELSE IF offset < -MaxSlew THEN MaxSlew ELSE -offset

Slew(offset) == IF offset < -MaxSlew THEN -MaxSlew
                ELSE IF offset > MaxSlew THEN MaxSlew ELSE offset

\* Broken variant: a step in either direction.
SteppedBoth(target) == [real |-> target, adj |-> 0]

\* Forward in one step, with the pending correction cleared; otherwise slower
\* or faster.
Corrected(target) ==
  IF target - clock.real > Threshold THEN [real |-> target, adj |-> 0]
  ELSE [clock EXCEPT !.adj = Slew(target - clock.real)]

Taken(p) == Fresh(p) /\ Plausible(Target(p)) /\ ~Outranked(p)

Accept(p) ==
  /\ At(p, "held") /\ task[p].kind \in Samples /\ Taken(p)
  /\ clock' = Corrected(Target(p))
  /\ task' = [task EXCEPT ![p].pc = "record", ![p].age = 0, ![p].target = 0]
  /\ seen' = IF task[p].kind = "nts" THEN [seen EXCEPT !.nts = 0] ELSE seen
  /\ UNCHANGED <<board, saved, runtime, lock, agenda>>

\* A stale or implausible sample is an error, an outranked one is not.
Refuse(p) ==
  /\ At(p, "held") /\ task[p].kind \in Samples /\ ~Taken(p)
  /\ Leave(p, FALSE)
  /\ UNCHANGED <<board, clock, saved, runtime, seen>>

\* atomic_json(RUNTIME), and the checkpoint that follows.
Record(p) ==
  /\ At(p, "record")
  /\ runtime' = IF task[p].kind = "restore" THEN [NoRuntime EXCEPT !.restored = TRUE]
                ELSE [runtime EXCEPT !.source = task[p].kind, !.age = task[p].age]
  /\ Prepare(p) \/ Implausible(p)
  /\ UNCHANGED <<board, clock, saved, seen>>

-----------------------------------------------------------------------------
\* Stage 1 goes on with a warning when its restore fails.
Stage1Over == runtime.restored \/ board.failed

\* serve. runit starts it after stage 1.
StartService ==
  /\ At("serve", "idle") /\ Stage1Over /\ ~agenda.stop
  /\ Rest("serve", "nap")
  /\ UNCHANGED <<board, clock, saved, runtime, lock, agenda, seen>>

\* The top of the loop, which also fixes whether this round saves.
Round ==
  /\ At("serve", "nap") /\ agenda.wake = 0
  /\ agenda' = [agenda EXCEPT !.saves = ~agenda.stop /\ agenda.save = 0]
  /\ \/ agenda.stop /\ Waits("serve", "last", 0)
     \/ ~agenda.stop /\ agenda.poll = 0 /\ Rest("serve", "query")
     \/ ~agenda.stop /\ agenda.poll > 0 /\ Rest("serve", "plan")
  /\ UNCHANGED <<board, clock, saved, runtime, lock, seen>>

\* Chronyd's estimate of the error of the clock is added to the clock.
Query ==
  /\ At("serve", "query")
  /\ Waits("serve", "nts", board.true)
  /\ UNCHANGED <<board, clock, saved, runtime, lock, agenda, seen>>

\* Chronyd is not synchronized, or does not answer.
QueryFails ==
  /\ At("serve", "query")
  /\ Rest("serve", "plan")
  /\ agenda' = [agenda EXCEPT !.poll = Retry]
  /\ UNCHANGED <<board, clock, saved, runtime, lock, seen>>

Plan ==
  /\ At("serve", "plan")
  /\ \/ agenda.saves /\ Waits("serve", "save", 0) /\ UNCHANGED agenda
     \/ /\ ~agenda.saves
        /\ Rest("serve", "nap") /\ agenda' = [agenda EXCEPT !.wake = 1]
  /\ UNCHANGED <<board, clock, saved, runtime, lock, seen>>

-----------------------------------------------------------------------------
\* A sync command of an app or the GPS daemon, or a restore by hand; none is
\* started any more once the services are being stopped. "Only stage 1 calls
\* restore" (clock.py): nobody does by hand where that of stage 1 has failed.
Command ==
  /\ At("command", "idle") /\ Stage1Over /\ ~agenda.stop
  /\ \/ \E w \in Wrong : Waits("command", "app", board.true + w)
     \/ Waits("command", "gps", board.true)
     \/ runtime.restored /\ Waits("command", "restore", 0)
  /\ UNCHANGED <<board, clock, saved, runtime, lock, agenda, seen>>

\* The command is killed, with the session of its caller for one, or fails. If
\* it is the restore of stage 1, it may have set the clock or not; once it is
\* recorded, only the checkpoint is lost.
Killed ==
  /\ board.on /\ task["command"].pc # "idle"
  /\ task' = [task EXCEPT !["command"] = Idle]
  /\ lock' = IF lock.holder = "command" THEN Unlocked ELSE lock
  /\ board' = [board EXCEPT !.failed = ~runtime.restored]
  /\ UNCHANGED <<clock, saved, runtime, agenda, seen>>

\* poweroff or reboot: the service is told to stop and stage 3 saves once more
\* (its target is history: the time at which it began).
Shutdown ==
  /\ board.on /\ Stage1Over /\ ~agenda.stop
  /\ agenda' = [agenda EXCEPT !.stop = TRUE]
  /\ seen' = [seen EXCEPT !.unsaved = None]
  /\ UNCHANGED <<board, clock, saved, runtime, lock, task>>

Stage3 ==
  /\ At("halt", "idle") /\ agenda.stop
  /\ Waits("halt", "last", clock.real)
  /\ UNCHANGED <<board, clock, saved, runtime, lock, agenda, seen>>

-----------------------------------------------------------------------------
PowerOn ==
  /\ ~board.on
  /\ \E b \in Builds, h \in Hardware :
       /\ board' = [board EXCEPT !.on = TRUE, !.build = b]
       /\ clock' = [real |-> h, adj |-> 0]
  /\ task' = [task EXCEPT !["command"] = [Idle EXCEPT !.pc = "wait", !.kind = "restore"]]
  /\ UNCHANGED <<saved, runtime, lock, agenda, seen>>

\* Everything but the true time and the data volume is gone.
Off ==
  /\ board' = [board EXCEPT !.on = FALSE, !.failed = FALSE]
  /\ clock' = NoClock
  /\ runtime' = NoRuntime
  /\ lock' = Unlocked
  /\ task' = [p \in Procs |-> Idle]
  /\ agenda' = NoAgenda
  /\ seen' = NoSeen
  /\ UNCHANGED saved

PowerCut == board.on /\ Off
PowerOff == At("halt", "done") /\ Off

\* Broken variant: chronyc has no timeout.
DueUnlimited ==
  \/ lock.holder # Free /\ lock.held >= Hold
  \/ lock.holder = Free /\ \E p \in Procs : task[p].pc = "wait"
  \/ task["serve"].pc = "nap" /\ agenda.wake = 0
  \/ task["serve"].pc = "plan"
  \/ task["halt"].pc = "done"

\* What must be done before time goes on: a holder works for Hold at most, a
\* free lock is taken, a sleep and a query end, stage 3 ends in power off.
Due ==
  \/ lock.holder # Free /\ lock.held >= Hold
  \/ lock.holder = Free /\ \E p \in Procs : task[p].pc = "wait"
  \/ task["serve"].pc = "nap" /\ agenda.wake = 0
  \/ task["serve"].pc = "query" /\ task["serve"].age >= QueryLimit
  \/ task["serve"].pc = "plan"
  \/ task["halt"].pc = "done"

\* A pending correction is worked off while the clock advances.
Pace == {[clock EXCEPT !.real = @ + 1]}
        \cup (IF clock.adj < 0 THEN {[clock EXCEPT !.adj = @ + 1]} ELSE {})
        \cup (IF clock.adj > 0 THEN {[real |-> clock.real + 2, adj |-> clock.adj - 1]}
              ELSE {})

\* Ages grow, up to the largest that is told apart, and delays run out.
Older(age, most) == IF age < most THEN age + 1 ELSE age

Sooner(delay) == IF delay > 0 THEN delay - 1 ELSE 0
Timed == {"wait", "held", "record", "write", "query"}

Tick ==
  /\ board.true < Horizon
  /\ board.on => ~Due
  /\ board' = [board EXCEPT !.true = @ + 1]
  /\ IF board.on THEN clock' \in Pace ELSE UNCHANGED clock
  /\ runtime' = IF runtime.source \in {"nts", "gps"}
                THEN [runtime EXCEPT !.age = Older(@, Current)] ELSE runtime
  /\ lock' = IF lock.holder = Free THEN lock ELSE [lock EXCEPT !.held = @ + 1]
  /\ task' = [p \in Procs |-> IF task[p].pc \in Timed
                              THEN [task[p] EXCEPT !.age = @ + 1] ELSE task[p]]
  /\ agenda' = [agenda EXCEPT !.poll = Sooner(@), !.save = Sooner(@), !.wake = Sooner(@)]
  /\ seen' = [seen EXCEPT !.nts = Older(@, Current),
                          !.unsaved = IF @ = None THEN None ELSE @ + 1]
  /\ UNCHANGED saved

Step(p) == \/ Acquire(p) \/ Checkpoint(p) \/ Write(p) \/ Restore(p)
           \/ RestoredBefore(p) \/ Accept(p) \/ Refuse(p) \/ Record(p)

Next ==
  \/ \E p \in Procs : Step(p)
  \/ StartService \/ Round \/ Query \/ QueryFails \/ Plan
  \/ Command \/ Killed \/ Shutdown \/ Stage3
  \/ PowerOn \/ PowerCut \/ PowerOff \/ Tick

Spec == Init /\ [][Next]_vars

-----------------------------------------------------------------------------
\* To the workloads the clock is a ForwardClock: from the moment it has been
\* restored it starts at or after the floor and the build time and never steps
\* back, and the saved floor only rises, through crashes, image changes and boots
\* whose restore fails, which promise no more than that of the floor.
Forward == INSTANCE ForwardClock WITH
  shown <- IF ~board.on THEN -1 ELSE IF runtime.restored THEN clock.real
           ELSE IF board.failed THEN -2 ELSE -1,
  floor <- saved, build <- board.build
ImplementsForwardClock == Forward!Spec

\* A power cut loses no more of the running time than one checkpoint interval,
\* the polls that may precede the checkpoint (a query and a turn at the lock for
\* a sample that is refused) and its own turn: the service checkpoints on time
\* whatever it waits for, and whatever becomes of the samples.
Polls == IF Retry > 1 THEN 1 ELSE 2
MaxLoss == SavePeriod + Polls * (QueryLimit + 2 * Hold) + 3 * Hold
LossBounded == ~agenda.stop /\ Plausible(clock.real) => seen.unsaved <= MaxLoss

\* A shutdown loses nothing: when the power goes, the time at which stage 3
\* began has been saved, whoever else was saving then (unless the clock was
\* before the build time, as it may be where the restore failed).
CleanStop ==
  [][PowerOff /\ Plausible(clock.real) /\ board.build <= task["halt"].target
       => saved >= task["halt"].target]_vars

\* The NTS sample is taken before the lock and applied after it, so it is as
\* old as the wait; it never sets the clock ahead (unless the clock is further
\* ahead than one correction reaches), and behind by no more than a turn of
\* every process at the lock.
NtsAccuracy ==
  [][Accept("serve") =>
       LET late == board'.true - (clock'.real + clock'.adj)
       IN  late <= 3 * Hold /\ (late >= 0 \/ clock'.adj = -MaxSlew)]_vars

\* A phone or GPS sample does not touch the clock while an NTS fix is current.
NtsPreferred ==
  [][Accept("command") => seen.nts = Current]_vars
=============================================================================
