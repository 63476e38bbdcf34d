----------------------------- MODULE ClockProofs -----------------------------
(***************************************************************************)
(* vamos-clock implements a ForwardClock, and loses, delays and prefers no *)
(* more than it promises, for all build times, periods and limits.         *)
(* Everything rests on the lock: whoever is past it is its holder, so      *)
(* between the reading of the clock and the writing of the floor no other  *)
(* command changes the floor, and the clock only goes on (ClockInv).  It   *)
(* is granted in turn and held for a limited time, so that a wait is at    *)
(* most the turns of those who asked before (ServiceInv).                  *)
(***************************************************************************)
EXTENDS Clock, TLAPS

\* A process that has passed the lock holds it.
HolderInv == \A p \in Procs : task[p].pc \in {"held", "record", "write"} => lock.holder = p

\* Until the restore of stage 1 is on record or has failed, nothing else runs.
StartInv ==
  /\ \A p \in Procs : /\ task[p].kind = "restore" => p = "command"
                      /\ task[p].pc = "record" => task[p].kind \in Samples \cup {"restore"}
  /\ ~Stage1Over =>
       /\ task["serve"].pc = "idle" /\ task["halt"].pc = "idle" /\ ~agenda.stop
       /\ IF board.on THEN task["command"].kind = "restore" /\ task["command"].pc \in {"wait", "held", "record"}
                      ELSE task["command"].pc = "idle"
  /\ ~board.on => ~Stage1Over
  /\ board.failed => ~runtime.restored /\ task["command"].kind # "restore"

\* A plausible floor is never ahead of a clock that has been restored, nor of
\* one whose restore is about to be recorded.
Behind == Plausible(saved) => saved <= clock.real
FloorInv ==
  /\ runtime.restored => Behind
  /\ task["command"].pc = "record" /\ task["command"].kind = "restore" =>
       ~runtime.restored /\ Behind /\ clock.real >= board.build

\* What is about to be saved is plausible, a time that the clock has shown if it
\* has been restored, and no earlier than the floor.
SavingInv ==
  \A p \in Procs : task[p].pc = "write" =>
    /\ Plausible(task[p].value)
    /\ runtime.restored => task[p].value <= clock.real
    /\ Plausible(saved) => saved <= task[p].value

ClockInv == TypeOK /\ HolderInv /\ StartInv /\ FloorInv /\ SavingInv

\* What each process may be about.
KindInv ==
  /\ task["serve"].kind \in {"nts", "save", "last"}
  /\ task["command"].kind \notin {"nts", "last"}
  /\ task["command"].pc # "idle" => task["command"].kind # "save"
  /\ task["halt"].kind \in {"save", "last"}
  /\ task["serve"].kind = "last" => agenda.stop
  /\ task["halt"].pc # "idle" => task["halt"].kind = "last" /\ agenda.stop
  /\ task["halt"].pc \in {"idle", "wait", "held", "write", "done"}
  /\ task["serve"].pc # "idle" => Stage1Over
  /\ ~Stage1Over => seen.nts = Current
  /\ runtime.restored => clock.real >= board.build

\* A clock that could not be restored may be before the build time, until it has
\* been found plausible.
PastBuildInv ==
  \/ clock.real >= board.build
  \/ seen.unsaved = None /\ \A p \in Procs : task[p].pc # "write"

\* While the last network fix is current, RUNTIME says so, or is about to.
PreferInv ==
  /\ task["command"].pc = "record" => seen.nts = Current
  /\ seen.nts < Current =>
       /\ task["serve"].pc = "record" => task["serve"].age <= seen.nts
       /\ \/ task["serve"].pc = "record"
          \/ runtime.source = "nts" /\ runtime.age <= seen.nts

\* Since stage 3 began the clock has gone on, and so has what it will save.
StopInv ==
  /\ task["halt"].pc \in {"wait", "held"} => task["halt"].target <= clock.real
  /\ task["halt"].pc = "write" => task["halt"].target <= task["halt"].value
  /\ task["halt"].pc = "done" /\ board.build <= task["halt"].target =>
       \/ clock.real > board.build + Lifetime
       \/ task["halt"].target <= saved /\ saved <= board.build + Lifetime

\* What is left of the turn at the lock, and the turns before a process that has
\* waited for age.
Remaining == IF lock.holder = Free THEN 0 ELSE Hold - lock.held
Turn(p, age) == IF task[p].pc = "wait" /\ task[p].age >= age THEN Hold ELSE 0

\* The service waits for a turn of each other process at most.
TurnInv ==
  /\ lock.held <= Hold
  /\ \A p \in Procs : lock.holder = p => task[p].pc \in {"held", "record", "write"}
  /\ task["serve"].pc = "wait" =>
       LET age == task["serve"].age
       IN  /\ age + Remaining + Turn("command", age) + Turn("halt", age) <= 2 * Hold
           /\ ~agenda.stop => age + Remaining + Turn("command", age) <= Hold

\* A network sample is as old as the time the service has waited with it.
SampleInv ==
  /\ task["serve"].kind = "nts" /\ task["serve"].pc \in {"wait", "held"} =>
       board.true = task["serve"].target + task["serve"].age
  /\ task["serve"].kind = "nts" /\ task["serve"].pc = "held" =>
       task["serve"].age <= 2 * Hold + lock.held
  /\ \A p \in Procs : task[p].pc = "write" => task[p].age <= lock.held

\* How much may be unsaved: when the interval ends, one poll later, and when a
\* round that does or does not save begins.
Interval == Hold + SavePeriod
OnePoll == QueryLimit + 2 * Hold
Before == IF Retry > 1 THEN 0 ELSE OnePoll
Begun == IF agenda.saves THEN Interval + Before ELSE Interval - 1
LossParts ==
  LET u == seen.unsaved
      t == task["serve"]
  IN  /\ t.pc = "idle" => u = None /\ agenda.save = 0 /\ agenda.wake = 0
      /\ agenda.save <= SavePeriod /\ (agenda.save > 0 => u <= Interval - agenda.save)
      /\ t.pc = "nap" => /\ agenda.wake <= 1
                         /\ u <= Interval + OnePoll - agenda.wake
                         /\ u > Interval - agenda.wake => agenda.poll >= Retry + agenda.wake - 1
      /\ t.pc = "query" => u <= Begun + t.age /\ t.age <= QueryLimit
      /\ t.pc = "wait" /\ t.kind = "nts" => u <= Begun + QueryLimit + t.age
      /\ t.pc \in {"held", "record", "write"} /\ t.kind = "nts" =>
           u <= Begun + QueryLimit + Hold + lock.held
      /\ t.pc = "plan" => IF agenda.saves THEN u <= Interval + Before + OnePoll
                          ELSE /\ u <= Interval - 1 + OnePoll
                               /\ u > Interval - 1 => agenda.poll >= Retry
      /\ t.pc \in {"wait", "held", "write"} => t.kind \in {"nts", "save"}
      /\ t.pc = "record" => t.kind = "nts"
      /\ t.pc # "done"
      /\ t.pc = "wait" /\ t.kind = "save" => u <= Interval + Before + OnePoll + t.age
      /\ t.pc \in {"held", "write"} /\ t.kind = "save" =>
           u <= Interval + Before + OnePoll + Hold + lock.held
LossInv ==
  /\ ~Stage1Over => seen.unsaved = None /\ agenda.save = 0 /\ agenda.wake = 0
  /\ ~agenda.stop /\ clock.real <= board.build + Lifetime => LossParts

ServiceInv == KindInv /\ PastBuildInv /\ PreferInv /\ StopInv /\ TurnInv /\ SampleInv /\ LossInv

-----------------------------------------------------------------------------
\* The parameters are numbers.
LEMMA Numbers ==
  /\ Builds \subseteq Nat /\ Hardware \subseteq Nat /\ Wrong \subseteq Int
  /\ Lifetime \in Nat /\ Threshold \in Nat /\ MaxSlew \in Nat /\ GpsAge \in Nat
  /\ Current \in Nat /\ Poll \in Nat /\ Retry \in Nat /\ SavePeriod \in Nat
  /\ QueryLimit \in Nat /\ Hold \in Nat /\ Start \in Nat /\ Horizon \in Nat
BY ClockAssumption

TaskOK(t) == t \in [pc : Steps, kind : Kinds, target : Int, age : Nat, value : Nat]
LockOK == lock \in [holder : Procs \cup {Free}, held : Nat]
TasksOK == task \in [Procs -> [pc : Steps, kind : Kinds, target : Int, age : Nat, value : Nat]]
AgendaOK == agenda \in [poll : Nat, save : Nat, wake : Nat, saves : BOOLEAN, stop : BOOLEAN]

LEMMA IdleOK == TaskOK(Idle)
BY DEF TaskOK, Idle, Steps, Kinds, Samples

LEMMA RestOK ==
  ASSUME NEW p \in Procs, NEW pc \in Steps, TasksOK, Rest(p, pc)
  PROVE  TasksOK'
<1> DEFINE t == [Idle EXCEPT !.pc = pc]
<1>1. TaskOK(t)
  BY DEF TaskOK, Idle, Steps, Kinds, Samples
<1> QED
  BY <1>1 DEF Rest, TasksOK, TaskOK

LEMMA WaitsOK ==
  ASSUME NEW p \in Procs, NEW k \in Kinds, NEW t \in Int, TasksOK, Waits(p, k, t)
  PROVE  TasksOK'
BY DEF Waits, TasksOK, Steps

LEMMA LeaveOK ==
  ASSUME NEW p \in Procs, NEW success \in BOOLEAN, TasksOK, AgendaOK, Leave(p, success)
  PROVE  TasksOK' /\ AgendaOK' /\ LockOK'
<1>1. LockOK'
  BY DEF Leave, LockOK, Unlocked
<1>2. TasksOK'
  BY RestOK DEF Leave, Go, TasksOK, Steps
<1>3. CASE task[p].kind = "nts"
  <2> DEFINE next == IF success THEN Poll ELSE Retry
  <2>1. next \in Nat
    BY Numbers
  <2>2. agenda' = [agenda EXCEPT !.poll = next]
    BY <1>3 DEF Leave
  <2> HIDE DEF next
  <2> QED
    BY <1>1, <1>2, <2>1, <2>2 DEF AgendaOK
<1>4. CASE task[p].kind = "save"
  <2>1. agenda' = [agenda EXCEPT !.save = SavePeriod, !.wake = 1, !.saves = FALSE]
    BY <1>4 DEF Leave
  <2> QED
    BY <1>1, <1>2, <2>1, Numbers DEF AgendaOK
<1>5. CASE task[p].kind \notin {"nts", "save"}
  BY <1>1, <1>2, <1>5 DEF Leave, AgendaOK
<1> QED
  BY <1>3, <1>4, <1>5

LEMMA PrepareOK ==
  ASSUME NEW p \in Procs, TasksOK, AgendaOK, LockOK, saved \in Nat \cup {NoTime}, clock.real \in Nat,
         Prepare(p) \/ Implausible(p)
  PROVE  TasksOK' /\ AgendaOK' /\ LockOK'
<1>1. Plausible(saved) /\ saved > clock.real => saved \in Nat
  BY DEF NoTime
<1>2. Reading \in Nat
  BY <1>1 DEF Reading
<1>3. CASE Prepare(p)
  <2>1. TasksOK'
    BY <1>2, <1>3, ZenonT(60) DEF Prepare, TasksOK, Steps
  <2> QED
    BY <1>3, <2>1 DEF Prepare, AgendaOK, LockOK
<1>4. CASE Implausible(p)
  BY <1>4, LeaveOK DEF Implausible
<1> QED
  BY <1>3, <1>4

LEMMA InitInv == Init => ClockInv
<1> SUFFICES ASSUME Init PROVE ClockInv
  OBVIOUS
<1>1. TasksOK
  BY IdleOK DEF Init, TasksOK, TaskOK
<1>2. LockOK /\ AgendaOK
  BY DEF Init, LockOK, AgendaOK, Unlocked, NoAgenda
<1>3. clock \in [real : Nat, adj : Int] /\ saved \in Nat \cup {NoTime}
  BY DEF Init, NoClock
<1>4. seen \in [nts : 0..Current, unsaved : Nat \cup {None}]
  BY Numbers DEF Init, NoSeen
<1>5. board \in [on : BOOLEAN, build : Builds, true : Nat, failed : BOOLEAN]
  BY Numbers DEF Init
<1>6. runtime \in [restored : BOOLEAN, source : Samples \cup {"none"}, age : Nat]
  BY DEF Init, NoRuntime
<1>7. TypeOK
  BY <1>1, <1>2, <1>3, <1>4, <1>5, <1>6 DEF TypeOK, TasksOK, LockOK, AgendaOK
<1> QED
  BY <1>7
  DEF Init, ClockInv, HolderInv, StartInv, Stage1Over, FloorInv, SavingInv, Procs, NoRuntime, Idle, NoAgenda

LEMMA StepKeepsType == TypeOK /\ StartInv /\ [Next]_vars => TypeOK'
<1> SUFFICES ASSUME TypeOK, StartInv, [Next]_vars PROVE TypeOK'
  OBVIOUS
<1>0. TasksOK /\ LockOK /\ AgendaOK
  BY DEF TypeOK, TasksOK, LockOK, AgendaOK
<1> DEFINE
  Rest6 == /\ board \in [on : BOOLEAN, build : Builds, true : Nat, failed : BOOLEAN]
           /\ clock \in [real : Nat, adj : Int]
           /\ saved \in Nat \cup {NoTime}
           /\ runtime \in [restored : BOOLEAN, source : Samples \cup {"none"}, age : Nat]
           /\ seen \in [nts : 0..Current, unsaved : Nat \cup {None}]
<1> USE DEF Procs
<1>1. ASSUME NEW p \in Procs, Acquire(p) PROVE TypeOK'
  <2>1. TasksOK' /\ LockOK' /\ AgendaOK'
    BY <1>1, <1>0 DEF Acquire, Go, TasksOK, LockOK, AgendaOK, Steps
  <2>2. Rest6'
    BY <1>1 DEF Acquire, TypeOK
  <2> QED
    BY <2>1, <2>2 DEF TypeOK, TasksOK, LockOK, AgendaOK
<1>2. ASSUME NEW p \in Procs, Checkpoint(p) PROVE TypeOK'
  <2>1. TasksOK' /\ LockOK' /\ AgendaOK'
    BY <1>2, <1>0, PrepareOK DEF Checkpoint, TypeOK
  <2>2. Rest6'
    BY <1>2 DEF Checkpoint, TypeOK
  <2> QED
    BY <2>1, <2>2 DEF TypeOK, TasksOK, LockOK, AgendaOK
<1>3. ASSUME NEW p \in Procs, Write(p) PROVE TypeOK'
  <2>1. TasksOK' /\ LockOK' /\ AgendaOK'
    BY <1>3, <1>0, LeaveOK DEF Write
  <2>2. Rest6'
    BY <1>3, <1>0 DEF Write, TypeOK
  <2> QED
    BY <2>1, <2>2 DEF TypeOK, TasksOK, LockOK, AgendaOK
<1>4. ASSUME NEW p \in Procs, Restore(p) PROVE TypeOK'
  <2>1. TasksOK' /\ LockOK' /\ AgendaOK'
    BY <1>4, <1>0 DEF Restore, Go, TasksOK, LockOK, AgendaOK, Steps
  <2>2. board.build \in Nat
    BY Numbers DEF TypeOK
  <2>3. BootFloor \in Nat
    BY <2>2 DEF BootFloor, NoTime, TypeOK
  <2>4. Rest6'
    BY <1>4, <2>3 DEF Restore, TypeOK
  <2> QED
    BY <2>1, <2>2, <2>3, <2>4 DEF TypeOK, TasksOK, LockOK, AgendaOK
<1>5. ASSUME NEW p \in Procs, RestoredBefore(p) PROVE TypeOK'
  <2>1. TasksOK' /\ LockOK' /\ AgendaOK'
    BY <1>5, <1>0, LeaveOK DEF RestoredBefore
  <2>2. Rest6'
    BY <1>5 DEF RestoredBefore, TypeOK
  <2> QED
    BY <2>1, <2>2 DEF TypeOK, TasksOK, LockOK, AgendaOK
<1>6. ASSUME NEW p \in Procs, Accept(p) PROVE TypeOK'
  <2>1. TasksOK' /\ LockOK' /\ AgendaOK'
    BY <1>6, <1>0 DEF Accept, TasksOK, LockOK, AgendaOK, Steps
  <2>2. Target(p) \in Int
    BY <1>0 DEF Target, TasksOK
  <2>3. Corrected(Target(p)) \in [real : Nat, adj : Int]
    BY <2>2, Numbers DEF Corrected, Slew, TypeOK
  <2>4. Rest6'
    BY <1>6, <2>3, Numbers DEF Accept, TypeOK
  <2> QED
    BY <2>1, <2>2, <2>3, <2>4 DEF TypeOK, TasksOK, LockOK, AgendaOK
<1>7. ASSUME NEW p \in Procs, Refuse(p) PROVE TypeOK'
  <2>1. TasksOK' /\ LockOK' /\ AgendaOK'
    BY <1>7, <1>0, LeaveOK DEF Refuse
  <2>2. Rest6'
    BY <1>7 DEF Refuse, TypeOK
  <2> QED
    BY <2>1, <2>2 DEF TypeOK, TasksOK, LockOK, AgendaOK
<1>8. ASSUME NEW p \in Procs, Record(p) PROVE TypeOK'
  <2>1. TasksOK' /\ LockOK' /\ AgendaOK'
    BY <1>8, <1>0, PrepareOK DEF Record, TypeOK
  <2>2. runtime' \in [restored : BOOLEAN, source : Samples \cup {"none"}, age : Nat]
    BY <1>8, <1>0 DEF Record, At, NoRuntime, TypeOK, StartInv
  <2>3. Rest6'
    BY <1>8, <2>2 DEF Record, TypeOK
  <2> QED
    BY <2>1, <2>2, <2>3 DEF TypeOK, TasksOK, LockOK, AgendaOK
<1>9. CASE StartService
  <2>1. TasksOK' /\ LockOK' /\ AgendaOK'
    BY <1>9, <1>0, RestOK DEF StartService, TasksOK, LockOK, AgendaOK, Steps
  <2>2. Rest6'
    BY <1>9 DEF StartService, TypeOK
  <2> QED
    BY <2>1, <2>2 DEF TypeOK, TasksOK, LockOK, AgendaOK
<1>10. CASE Round
  <2>1. TasksOK'
    BY <1>10, <1>0, RestOK, WaitsOK DEF Round, Steps, Kinds
  <2>2. AgendaOK'
    BY <1>10, <1>0 DEF Round, AgendaOK
  <2>3. TasksOK' /\ LockOK' /\ AgendaOK'
    BY <1>10, <1>0, <2>1, <2>2 DEF Round, LockOK
  <2>4. Rest6'
    BY <1>10 DEF Round, TypeOK
  <2> QED
    BY <2>1, <2>2, <2>3, <2>4 DEF TypeOK, TasksOK, LockOK, AgendaOK
<1>11. CASE Query
  <2>1. TasksOK' /\ LockOK' /\ AgendaOK'
    BY <1>11, <1>0, WaitsOK DEF Query, LockOK, AgendaOK, Kinds, Samples, TypeOK
  <2>2. Rest6'
    BY <1>11 DEF Query, TypeOK
  <2> QED
    BY <2>1, <2>2 DEF TypeOK, TasksOK, LockOK, AgendaOK
<1>12. CASE QueryFails
  <2>1. TasksOK' /\ LockOK' /\ AgendaOK'
    BY <1>12, <1>0, RestOK, Numbers DEF QueryFails, LockOK, AgendaOK, Steps
  <2>2. Rest6'
    BY <1>12 DEF QueryFails, TypeOK
  <2> QED
    BY <2>1, <2>2 DEF TypeOK, TasksOK, LockOK, AgendaOK
<1>13. CASE Plan
  <2>1. TasksOK' /\ LockOK' /\ AgendaOK'
    BY <1>13, <1>0, RestOK, WaitsOK DEF Plan, LockOK, AgendaOK, Steps, Kinds
  <2>2. Rest6'
    BY <1>13 DEF Plan, TypeOK
  <2> QED
    BY <2>1, <2>2 DEF TypeOK, TasksOK, LockOK, AgendaOK
<1>14. CASE Command
  <2>1. \A w \in Wrong : board.true + w \in Int
    BY Numbers DEF TypeOK
  <2>2. TasksOK' /\ LockOK' /\ AgendaOK'
    BY <1>14, <1>0, <2>1, WaitsOK DEF Command, LockOK, AgendaOK, Kinds, Samples, TypeOK
  <2>3. Rest6'
    BY <1>14 DEF Command, TypeOK
  <2> QED
    BY <2>1, <2>2, <2>3 DEF TypeOK, TasksOK, LockOK, AgendaOK
<1>15. CASE Killed
  <2>1. TasksOK' /\ LockOK' /\ AgendaOK'
    BY <1>15, <1>0, IdleOK DEF Killed, TasksOK, LockOK, AgendaOK, TaskOK, Unlocked
  <2>2. Rest6'
    BY <1>15, ZenonT(60) DEF Killed, TypeOK
  <2> QED
    BY <2>1, <2>2 DEF TypeOK, TasksOK, LockOK, AgendaOK
<1>16. CASE Shutdown
  <2>1. TasksOK' /\ LockOK' /\ AgendaOK'
    BY <1>16, <1>0 DEF Shutdown, TasksOK, LockOK, AgendaOK
  <2>2. Rest6'
    BY <1>16 DEF Shutdown, TypeOK
  <2> QED
    BY <2>1, <2>2 DEF TypeOK, TasksOK, LockOK, AgendaOK
<1>17. CASE Stage3
  <2>1. TasksOK' /\ LockOK' /\ AgendaOK'
    BY <1>17, <1>0, WaitsOK, SMTT(30) DEF Stage3, LockOK, AgendaOK, Kinds, TypeOK
  <2>2. Rest6'
    BY <1>17 DEF Stage3, TypeOK
  <2> QED
    BY <2>1, <2>2 DEF TypeOK, TasksOK, LockOK, AgendaOK
<1>18. CASE PowerOn
  <2>1. TaskOK([Idle EXCEPT !.pc = "wait", !.kind = "restore"])
    BY "wait" \in Steps, "restore" \in Kinds, IdleOK DEF TaskOK, Steps, Kinds
  <2>2. TasksOK' /\ LockOK' /\ AgendaOK'
    BY <1>18, <1>0, <2>1 DEF PowerOn, TasksOK, TaskOK, LockOK, AgendaOK
  <2>3. board' \in [on : BOOLEAN, build : Builds, true : Nat, failed : BOOLEAN]
    BY <1>18, ZenonT(60) DEF PowerOn, TypeOK
  <2>4. clock' \in [real : Nat, adj : Int]
    BY <1>18, Numbers DEF PowerOn
  <2>5. Rest6'
    BY <1>18, <2>3, <2>4 DEF PowerOn, TypeOK
  <2> QED
    BY <2>1, <2>2, <2>3, <2>4, <2>5 DEF TypeOK, TasksOK, LockOK, AgendaOK
<1>19. CASE Off
  <2>1. TasksOK' /\ LockOK' /\ AgendaOK'
    BY <1>19, IdleOK DEF Off, TasksOK, TaskOK, LockOK, AgendaOK, Unlocked, NoAgenda
  <2>2. clock' \in [real : Nat, adj : Int] /\ runtime' \in [restored : BOOLEAN, source : Samples \cup {"none"}, age : Nat]
    BY <1>19 DEF Off, NoClock, NoRuntime
  <2>3. seen' \in [nts : 0..Current, unsaved : Nat \cup {None}]
    BY <1>19, Numbers DEF Off, NoSeen
  <2>4. Rest6'
    BY <1>19, <2>2, <2>3 DEF Off, TypeOK
  <2> QED
    BY <2>1, <2>2, <2>3, <2>4 DEF TypeOK, TasksOK, LockOK, AgendaOK
<1>20. CASE Tick
  <2>1. TasksOK'
    BY <1>20, <1>0 DEF Tick, TasksOK
  <2>2. LockOK'
    BY <1>20, <1>0 DEF Tick, LockOK
  <2>3. \A d \in Nat : Sooner(d) \in Nat
    BY DEF Sooner
  <2>4. AgendaOK'
    BY <1>20, <1>0, <2>3 DEF Tick, AgendaOK
  <2>5. clock' \in [real : Nat, adj : Int]
    BY <1>20 DEF Tick, Pace, TypeOK
  <2>6. runtime' \in [restored : BOOLEAN, source : Samples \cup {"none"}, age : Nat]
    BY <1>20, Numbers DEF Tick, Older, TypeOK
  <2>7. \A n \in 0..Current : Older(n, Current) \in 0..Current
    BY Numbers DEF Older
  <2>8. (IF seen.unsaved = None THEN None ELSE seen.unsaved + 1) \in Nat \cup {None}
    BY DEF TypeOK
  <2>9. seen' \in [nts : 0..Current, unsaved : Nat \cup {None}]
    BY <1>20, <2>7, <2>8 DEF Tick, TypeOK
  <2>10. Rest6'
    BY <1>20, <2>5, <2>6, <2>9 DEF Tick, TypeOK
  <2> QED
    BY <2>1, <2>2, <2>3, <2>4, <2>5, <2>6, <2>7, <2>8, <2>9, <2>10 DEF TypeOK, TasksOK, LockOK, AgendaOK
<1>21. CASE UNCHANGED vars
  BY <1>21 DEF vars, TypeOK
<1> HIDE DEF Procs
<1> QED
  BY <1>1, <1>2, <1>3, <1>4, <1>5, <1>6, <1>7, <1>8, <1>9, <1>10, <1>11, <1>12, <1>13, <1>14, <1>15, <1>16, <1>17, <1>18, <1>19, <1>20, <1>21
  DEF Next, Step, PowerCut, PowerOff

LEMMA StepKeepsHolder == ClockInv /\ [Next]_vars => HolderInv'
<1> SUFFICES ASSUME ClockInv, [Next]_vars PROVE HolderInv'
  OBVIOUS
<1> USE DEF ClockInv, TypeOK, Procs, HolderInv, Free
<1>1. ASSUME NEW p \in Procs, Acquire(p) PROVE HolderInv'
  BY <1>1 DEF Acquire, Go, At
<1>2. ASSUME NEW p \in Procs, Checkpoint(p) PROVE HolderInv'
  BY <1>2 DEF Checkpoint, Prepare, Implausible, Leave, Rest, Go, At, Idle, Reading, Unlocked
<1>3. ASSUME NEW p \in Procs, Write(p) PROVE HolderInv'
  BY <1>3 DEF Write, Leave, Rest, Go, At, Idle, Unlocked
<1>4. ASSUME NEW p \in Procs, Restore(p) PROVE HolderInv'
  BY <1>4 DEF Restore, Go, At, BootFloor
<1>5. ASSUME NEW p \in Procs, RestoredBefore(p) PROVE HolderInv'
  BY <1>5 DEF RestoredBefore, Leave, Rest, Go, At, Idle, Unlocked
<1>6. ASSUME NEW p \in Procs, Accept(p) PROVE HolderInv'
  BY <1>6 DEF Accept, At, Samples
<1>7. ASSUME NEW p \in Procs, Refuse(p) PROVE HolderInv'
  BY <1>7 DEF Refuse, Leave, Rest, Go, At, Idle, Unlocked
<1>8. ASSUME NEW p \in Procs, Record(p) PROVE HolderInv'
  BY <1>8 DEF Record, Prepare, Implausible, Leave, Rest, Go, At, Idle, Reading, NoRuntime, Unlocked
<1>9. CASE StartService
  BY <1>9 DEF StartService, Rest, At, Idle
<1>10. CASE Round
  BY <1>10 DEF Round, Waits, Rest, At, Idle
<1>11. CASE Query
  BY <1>11 DEF Query, Waits, At
<1>12. CASE QueryFails
  BY <1>12 DEF QueryFails, Rest, At, Idle
<1>13. CASE Plan
  BY <1>13 DEF Plan, Waits, Rest, At, Idle
<1>14. CASE Command
  BY <1>14 DEF Command, Waits, At
<1>15. CASE Killed
  BY <1>15 DEF Killed, Idle, Unlocked
<1>16. CASE Shutdown
  BY <1>16 DEF Shutdown
<1>17. CASE Stage3
  BY <1>17 DEF Stage3, Waits, At
<1>18. CASE PowerOn
  BY <1>18 DEF PowerOn, Idle
<1>19. CASE Off
  BY <1>19 DEF Off, NoRuntime, Idle, NoAgenda, Unlocked
<1>20. CASE Tick
  BY <1>20 DEF Tick, Pace, Timed
<1>21. CASE UNCHANGED vars
  BY <1>21 DEF vars
<1> HIDE DEF ClockInv, TypeOK, Procs, HolderInv, Free
<1> QED
  BY <1>1, <1>2, <1>3, <1>4, <1>5, <1>6, <1>7, <1>8, <1>9, <1>10, <1>11, <1>12, <1>13, <1>14, <1>15, <1>16, <1>17, <1>18, <1>19, <1>20, <1>21
  DEF Next, Step, PowerCut, PowerOff

LEMMA StepKeepsStart == ClockInv /\ [Next]_vars => StartInv'
<1> SUFFICES ASSUME ClockInv, [Next]_vars PROVE StartInv'
  OBVIOUS
<1> USE DEF ClockInv, Stage1Over, TypeOK, Procs, HolderInv, StartInv, Samples
<1>1. ASSUME NEW p \in Procs, Acquire(p) PROVE StartInv'
  BY <1>1 DEF Acquire, Go, At
<1>2. ASSUME NEW p \in Procs, Checkpoint(p) PROVE StartInv'
  BY <1>2 DEF Checkpoint, Prepare, Implausible, Leave, Rest, Go, At, Idle, Reading
<1>3. ASSUME NEW p \in Procs, Write(p) PROVE StartInv'
  BY <1>3 DEF Write, Leave, Rest, Go, At, Idle
<1>4. ASSUME NEW p \in Procs, Restore(p) PROVE StartInv'
  BY <1>4 DEF Restore, Go, At, BootFloor
<1>5. ASSUME NEW p \in Procs, RestoredBefore(p) PROVE StartInv'
  BY <1>5 DEF RestoredBefore, Leave, Rest, Go, At, Idle
<1>6. ASSUME NEW p \in Procs, Accept(p) PROVE StartInv'
  BY <1>6 DEF Accept, At, Samples
<1>7. ASSUME NEW p \in Procs, Refuse(p) PROVE StartInv'
  BY <1>7 DEF Refuse, Leave, Rest, Go, At, Idle
<1>8. ASSUME NEW p \in Procs, Record(p) PROVE StartInv'
  BY <1>8 DEF Record, Prepare, Implausible, Leave, Rest, Go, At, Idle, Reading, NoRuntime
<1>9. CASE StartService
  BY <1>9 DEF StartService, Rest, At, Idle
<1>10. CASE Round
  BY <1>10 DEF Round, Waits, Rest, At, Idle
<1>11. CASE Query
  BY <1>11 DEF Query, Waits, At
<1>12. CASE QueryFails
  BY <1>12 DEF QueryFails, Rest, At, Idle
<1>13. CASE Plan
  BY <1>13 DEF Plan, Waits, Rest, At, Idle
<1>14. CASE Command
  BY <1>14 DEF Command, Waits, At
<1>15. CASE Killed
  BY <1>15 DEF Killed, Idle
<1>16. CASE Shutdown
  BY <1>16 DEF Shutdown
<1>17. CASE Stage3
  BY <1>17 DEF Stage3, Waits, At
<1>18. CASE PowerOn
  BY <1>18 DEF PowerOn, Idle
<1>19. CASE Off
  BY <1>19 DEF Off, NoRuntime, Idle, NoAgenda
<1>20. CASE Tick
  BY <1>20 DEF Tick, Pace, Timed
<1>21. CASE UNCHANGED vars
  BY <1>21 DEF vars
<1> HIDE DEF ClockInv, Stage1Over, TypeOK, Procs, HolderInv, StartInv, Samples
<1> QED
  BY <1>1, <1>2, <1>3, <1>4, <1>5, <1>6, <1>7, <1>8, <1>9, <1>10, <1>11, <1>12, <1>13, <1>14, <1>15, <1>16, <1>17, <1>18, <1>19, <1>20, <1>21
  DEF Next, Step, PowerCut, PowerOff

\* Times are numbers, and a correction never steps the clock back.
LEMMA ClockNumbers ==
  ASSUME ClockInv
  PROVE  /\ board.build \in Nat /\ clock.real \in Nat /\ saved \in Int
         /\ \A p \in Procs : Target(p) \in Int /\ Corrected(Target(p)).real >= clock.real
<1>1. board.build \in Nat /\ saved \in Int /\ clock.real \in Nat
  <2>1. board.build \in Nat
    BY Numbers DEF ClockInv, TypeOK
  <2>2. saved \in Int /\ clock.real \in Nat
    BY DEF ClockInv, TypeOK, NoTime
  <2> QED
    BY <2>1, <2>2
<1>2. \A p \in Procs : Target(p) \in Int
  BY DEF ClockInv, TypeOK, Target
<1>3. \A t \in Int : Corrected(t).real >= clock.real
  BY Numbers DEF ClockInv, TypeOK, Corrected
<1> QED
  BY <1>1, <1>2, <1>3

LEMMA StepKeepsFloor == ClockInv /\ [Next]_vars => FloorInv'
<1> SUFFICES ASSUME ClockInv, [Next]_vars PROVE FloorInv'
  OBVIOUS
<1>0. /\ board.build \in Nat /\ saved \in Int /\ clock.real \in Nat
      /\ \A p \in Procs : Target(p) \in Int /\ Corrected(Target(p)).real >= clock.real
  BY ClockNumbers
<1> USE DEF ClockInv, Stage1Over, TypeOK, Procs, HolderInv, StartInv, FloorInv, SavingInv, Behind, Plausible, NoTime
<1>1. ASSUME NEW p \in Procs, Acquire(p) PROVE FloorInv'
  BY <1>0, <1>1 DEF Acquire, Go, At
<1>2. ASSUME NEW p \in Procs, Checkpoint(p) PROVE FloorInv'
  BY <1>0, <1>2 DEF Checkpoint, Prepare, Implausible, Leave, Rest, Go, At, Idle, Reading
<1>3. ASSUME NEW p \in Procs, Write(p) PROVE FloorInv'
  BY <1>0, <1>3 DEF Write, Leave, Rest, Go, At, Idle
<1>4. ASSUME NEW p \in Procs, Restore(p) PROVE FloorInv'
  BY <1>0, <1>4 DEF Restore, Go, At, BootFloor
<1>5. ASSUME NEW p \in Procs, RestoredBefore(p) PROVE FloorInv'
  BY <1>0, <1>5 DEF RestoredBefore, Leave, Rest, Go, At, Idle
<1>6. ASSUME NEW p \in Procs, Accept(p) PROVE FloorInv'
  <2>1. clock'.real >= clock.real /\ UNCHANGED <<board, saved, runtime>>
    BY <1>0, <1>6 DEF Accept
  <2>2. task'["command"] = task["command"] \/ task'["command"].kind = task[p].kind
    BY <1>6 DEF Accept, At
  <2>3. task[p].kind \in Samples
    BY <1>6 DEF Accept
  <2>4. p # "command" => task["command"].pc # "record"
    BY <1>6 DEF Accept, At
  <2>5. clock'.real \in Nat
    BY <1>0, <1>6, StepKeepsType, <2>1
  <2> QED
    BY <1>0, <2>1, <2>2, <2>3, <2>4, <2>5 DEF Samples
<1>7. ASSUME NEW p \in Procs, Refuse(p) PROVE FloorInv'
  BY <1>0, <1>7 DEF Refuse, Leave, Rest, Go, At, Idle
<1>8. ASSUME NEW p \in Procs, Record(p) PROVE FloorInv'
  BY <1>0, <1>8 DEF Record, Prepare, Implausible, Leave, Rest, Go, At, Idle, Reading, NoRuntime
<1>9. CASE StartService
  BY <1>0, <1>9 DEF StartService, Rest, At, Idle
<1>10. CASE Round
  BY <1>0, <1>10 DEF Round, Waits, Rest, At, Idle
<1>11. CASE Query
  BY <1>0, <1>11 DEF Query, Waits, At
<1>12. CASE QueryFails
  BY <1>0, <1>12 DEF QueryFails, Rest, At, Idle
<1>13. CASE Plan
  BY <1>0, <1>13 DEF Plan, Waits, Rest, At, Idle
<1>14. CASE Command
  BY <1>0, <1>14 DEF Command, Waits, At
<1>15. CASE Killed
  BY <1>0, <1>15 DEF Killed, Idle
<1>16. CASE Shutdown
  BY <1>0, <1>16 DEF Shutdown
<1>17. CASE Stage3
  BY <1>0, <1>17 DEF Stage3, Waits, At
<1>18. CASE PowerOn
  BY <1>0, <1>18 DEF PowerOn, Idle
<1>19. CASE Off
  BY <1>0, <1>19 DEF Off, NoRuntime, Idle, NoAgenda
<1>20. CASE Tick
  BY <1>0, <1>20 DEF Tick, Pace, Timed
<1>21. CASE UNCHANGED vars
  BY <1>21 DEF vars
<1> HIDE DEF ClockInv, Stage1Over, TypeOK, Procs, HolderInv, StartInv, FloorInv, SavingInv, Behind, Plausible, NoTime
<1> QED
  BY <1>1, <1>2, <1>3, <1>4, <1>5, <1>6, <1>7, <1>8, <1>9, <1>10, <1>11, <1>12, <1>13, <1>14, <1>15, <1>16, <1>17, <1>18, <1>19, <1>20, <1>21
  DEF Next, Step, PowerCut, PowerOff

LEMMA StepKeepsSaving == ClockInv /\ [Next]_vars => SavingInv'
<1> SUFFICES ASSUME ClockInv, [Next]_vars PROVE SavingInv'
  OBVIOUS
<1>0. /\ board.build \in Nat /\ clock.real \in Nat /\ saved \in Int
      /\ \A p \in Procs : Target(p) \in Int /\ Corrected(Target(p)).real >= clock.real
  BY ClockNumbers
<1> USE DEF ClockInv, Stage1Over, TypeOK, Procs, HolderInv, StartInv, FloorInv, SavingInv, Behind, Plausible, NoTime
<1>1. ASSUME NEW p \in Procs, Acquire(p) PROVE SavingInv'
  BY <1>0, <1>1 DEF Acquire, Go, At
<1>2. ASSUME NEW p \in Procs, Checkpoint(p) PROVE SavingInv'
  BY <1>0, <1>2 DEF Checkpoint, Prepare, Implausible, Leave, Rest, Go, At, Idle, Reading
<1>3. ASSUME NEW p \in Procs, Write(p) PROVE SavingInv'
  BY <1>0, <1>3 DEF Write, Leave, Rest, Go, At, Idle
<1>4. ASSUME NEW p \in Procs, Restore(p) PROVE SavingInv'
  BY <1>0, <1>4 DEF Restore, Go, At, BootFloor
<1>5. ASSUME NEW p \in Procs, RestoredBefore(p) PROVE SavingInv'
  BY <1>0, <1>5 DEF RestoredBefore, Leave, Rest, Go, At, Idle
<1>6. ASSUME NEW p \in Procs, Accept(p) PROVE SavingInv'
  BY <1>0, <1>6 DEF Accept, At, Samples
<1>7. ASSUME NEW p \in Procs, Refuse(p) PROVE SavingInv'
  BY <1>0, <1>7 DEF Refuse, Leave, Rest, Go, At, Idle
<1>8. ASSUME NEW p \in Procs, Record(p) PROVE SavingInv'
  BY <1>0, <1>8 DEF Record, Prepare, Implausible, Leave, Rest, Go, At, Idle, Reading, NoRuntime
<1>9. CASE StartService
  BY <1>0, <1>9 DEF StartService, Rest, At, Idle
<1>10. CASE Round
  BY <1>0, <1>10 DEF Round, Waits, Rest, At, Idle
<1>11. CASE Query
  BY <1>0, <1>11 DEF Query, Waits, At
<1>12. CASE QueryFails
  BY <1>0, <1>12 DEF QueryFails, Rest, At, Idle
<1>13. CASE Plan
  BY <1>0, <1>13 DEF Plan, Waits, Rest, At, Idle
<1>14. CASE Command
  BY <1>0, <1>14 DEF Command, Waits, At
<1>15. CASE Killed
  BY <1>0, <1>15 DEF Killed, Idle
<1>16. CASE Shutdown
  BY <1>0, <1>16 DEF Shutdown
<1>17. CASE Stage3
  BY <1>0, <1>17 DEF Stage3, Waits, At
<1>18. CASE PowerOn
  BY <1>0, <1>18 DEF PowerOn, Idle
<1>19. CASE Off
  BY <1>0, <1>19 DEF Off, NoRuntime, Idle, NoAgenda
<1>20. CASE Tick
  BY <1>0, <1>20 DEF Tick, Pace, Timed
<1>21. CASE UNCHANGED vars
  BY <1>0, <1>21 DEF vars
<1> HIDE DEF ClockInv, Stage1Over, TypeOK, Procs, HolderInv, StartInv, FloorInv, SavingInv, Behind, Plausible, NoTime
<1> QED
  BY <1>1, <1>2, <1>3, <1>4, <1>5, <1>6, <1>7, <1>8, <1>9, <1>10, <1>11, <1>12, <1>13, <1>14, <1>15, <1>16, <1>17, <1>18, <1>19, <1>20, <1>21
  DEF Next, Step, PowerCut, PowerOff

LEMMA StepKeepsInv == ClockInv /\ [Next]_vars => ClockInv'
BY StepKeepsType, StepKeepsHolder, StepKeepsStart, StepKeepsFloor, StepKeepsSaving DEF ClockInv

-----------------------------------------------------------------------------
\* What leaving the lock does to the process and the agenda.
Freed(t, pc) == t.pc = pc /\ t.kind = "save" /\ t.age = 0 /\ t.target = 0
Left(p, success) ==
  /\ lock'.holder = Free /\ lock'.held = 0
  /\ \A q \in Procs \ {p} : task'[q] = task[q]
  /\ agenda'.stop = agenda.stop
  /\ \/ /\ task[p].kind = "nts" /\ Freed(task'[p], "plan")
        /\ agenda'.poll = IF success THEN Poll ELSE Retry
        /\ agenda'.save = agenda.save /\ agenda'.wake = agenda.wake /\ agenda'.saves = agenda.saves
     \/ /\ task[p].kind = "save" /\ Freed(task'[p], "nap")
        /\ agenda'.save = SavePeriod /\ agenda'.wake = 1 /\ agenda'.saves = FALSE
        /\ agenda'.poll = agenda.poll
     \/ task[p].kind \in {"gps", "app", "restore"} /\ Freed(task'[p], "idle") /\ agenda' = agenda
     \/ /\ task[p].kind = "last" /\ task'[p].pc = "done" /\ task'[p].kind = "last"
        /\ task'[p].target = task[p].target /\ agenda' = agenda

\* A process leaves the lock free, and asks for its next poll or save.
LEMMA LeaveDoes ==
  ASSUME NEW p \in Procs, NEW success \in BOOLEAN, TasksOK, AgendaOK, Leave(p, success)
  PROVE  Left(p, success)
<1> USE DEF Left, Leave, TasksOK, AgendaOK, Rest, Go, Freed, Idle, Unlocked
<1>1. CASE task[p].kind = "nts"
  BY <1>1
<1>2. CASE task[p].kind = "save"
  <2>1. agenda' = [agenda EXCEPT !.save = SavePeriod, !.wake = 1, !.saves = FALSE]
    BY <1>2
  <2>2. /\ agenda'.save = SavePeriod /\ agenda'.wake = 1 /\ agenda'.saves = FALSE
        /\ agenda'.poll = agenda.poll /\ agenda'.stop = agenda.stop
    BY <2>1
  <2> QED
    BY <1>2, <2>2
<1>3. CASE task[p].kind \in {"gps", "app", "restore"}
  BY <1>3
<1>4. CASE task[p].kind = "last"
  BY <1>4
<1> QED
  BY <1>1, <1>2, <1>3, <1>4 DEF Kinds, Samples

\* What a plausible clock prepares: the process goes on to write, as it was.
Prepared(p) ==
  /\ task'[p].pc = "write" /\ task'[p].kind = task[p].kind /\ task'[p].age = 0
  /\ task'[p].target = task[p].target
  /\ \A q \in Procs \ {p} : task'[q] = task[q]
  /\ lock' = lock /\ agenda' = agenda

LEMMA PrepareDoes ==
  ASSUME NEW p \in Procs, TasksOK, Prepare(p)
  PROVE  Prepared(p)
BY DEF Prepared, Prepare, TasksOK

\* What a restore that finds its record already there, and a sample that is taken,
\* do to the processes.
LEMMA RestoredBeforeDoes ==
  ASSUME NEW p \in Procs, ClockInv, RestoredBefore(p)
  PROVE  /\ p = "command" /\ task[p].kind = "restore" /\ Freed(task'[p], "idle")
         /\ \A q \in Procs \ {p} : task'[q] = task[q]
         /\ lock'.holder = Free /\ lock'.held = 0 /\ agenda' = agenda
         /\ UNCHANGED <<board, clock, saved, runtime, seen>>
<1>1. p = "command" /\ task[p].kind = "restore"
  BY DEF RestoredBefore, ClockInv, StartInv
<1>2. Left(p, TRUE)
  BY LeaveDoes DEF RestoredBefore, ClockInv, TypeOK, TasksOK, AgendaOK
<1> QED
  BY <1>1, <1>2 DEF Left, RestoredBefore

LEMMA AcceptDoes ==
  ASSUME NEW p \in Procs, ClockInv, Accept(p)
  PROVE  /\ task[p].pc = "held" /\ task[p].kind \in Samples
         /\ task'[p].pc = "record" /\ task'[p].kind = task[p].kind /\ task'[p].age = 0
         /\ \A q \in Procs \ {p} : task'[q] = task[q]
BY DEF Accept, At, ClockInv, TypeOK

\* What time does to whoever waits, works or sleeps.
LEMMA TickDoes ==
  ASSUME ClockInv, ClockInv', Tick
  PROVE  /\ \A p \in Procs :
              /\ task'[p].pc = task[p].pc /\ task'[p].kind = task[p].kind
              /\ task'[p].age = IF task[p].pc \in Timed THEN task[p].age + 1 ELSE task[p].age
         /\ lock'.holder = lock.holder
         /\ lock'.held = IF lock.holder = Free THEN lock.held ELSE lock.held + 1
         /\ agenda'.poll = Sooner(agenda.poll) /\ agenda'.save = Sooner(agenda.save)
         /\ agenda'.wake = Sooner(agenda.wake)
         /\ agenda'.saves = agenda.saves /\ agenda'.stop = agenda.stop
         /\ seen'.nts = Older(seen.nts, Current)
         /\ seen'.unsaved = IF seen.unsaved = None THEN None ELSE seen.unsaved + 1
         /\ board'.build = board.build /\ board'.on = board.on /\ board'.failed = board.failed
         /\ runtime'.restored = runtime.restored
         /\ clock'.real >= clock.real /\ (board.on => ~Due)
<1>1. clock'.real >= clock.real
  BY DEF Tick, Pace, ClockInv, TypeOK
<1>2. runtime'.restored = runtime.restored
  BY DEF Tick, ClockInv, TypeOK
<1>3. \A p \in Procs : /\ task'[p].pc = task[p].pc /\ task'[p].kind = task[p].kind
                        /\ task'[p].age = IF task[p].pc \in Timed THEN task[p].age + 1 ELSE task[p].age
  BY DEF Tick, ClockInv, TypeOK
<1> QED
  BY <1>1, <1>2, <1>3 DEF Tick, ClockInv, TypeOK

LEMMA StepKeepsKind == ClockInv /\ ServiceInv /\ ClockInv' /\ [Next]_vars => KindInv'
<1> SUFFICES ASSUME ClockInv, ServiceInv, ClockInv', [Next]_vars PROVE KindInv'
  OBVIOUS
<1>0. /\ board.build \in Nat /\ clock.real \in Nat /\ saved \in Int
      /\ \A p \in Procs : Target(p) \in Int /\ Corrected(Target(p)).real >= clock.real
  BY ClockNumbers
<1> USE DEF ClockInv, Stage1Over, TypeOK, Procs, StartInv, HolderInv, FloorInv, ServiceInv, KindInv, Kinds, Samples
<1>1. ASSUME NEW p \in Procs, Acquire(p) PROVE KindInv'
  BY <1>0, <1>1 DEF Acquire, Go, At
<1>2. ASSUME NEW p \in Procs, Checkpoint(p) PROVE KindInv'
  <2>1. CASE Prepare(p)
    <3>1. Prepared(p)
      BY <2>1, PrepareDoes DEF TasksOK
    <3> QED
      BY <1>0, <1>2, <2>1, <3>1 DEF Checkpoint, At, NoRuntime, Prepared
  <2>2. CASE Implausible(p)
    <3>1. Left(p, FALSE)
      BY <2>2, LeaveDoes DEF Implausible, ClockInv, TypeOK, TasksOK, AgendaOK
    <3>2. CASE p = "serve"
      <4>1. task'["command"] = task["command"] /\ task'["halt"] = task["halt"]
        BY <3>1, <3>2 DEF Left, Procs
      <4> QED
        BY <1>0, <1>2, <2>2, <3>1, <3>2, <4>1 DEF Checkpoint, At, NoRuntime, Left, Freed, Unlocked, Implausible
    <3>3. CASE p = "command"
      <4>1. task'["serve"] = task["serve"] /\ task'["halt"] = task["halt"]
        BY <3>1, <3>3 DEF Left, Procs
      <4> QED
        BY <1>0, <1>2, <2>2, <3>1, <3>3, <4>1 DEF Checkpoint, At, NoRuntime, Left, Freed, Unlocked, Implausible
    <3>4. CASE p = "halt"
      <4>1. task'["serve"] = task["serve"] /\ task'["command"] = task["command"]
        BY <3>1, <3>4 DEF Left, Procs
      <4> QED
        BY <1>0, <1>2, <2>2, <3>1, <3>4, <4>1 DEF Checkpoint, At, NoRuntime, Left, Freed, Unlocked, Implausible
    <3> QED
      BY <3>2, <3>3, <3>4
  <2> QED
    BY <1>2, <2>1, <2>2, SMTT(30) DEF Checkpoint
<1>3. ASSUME NEW p \in Procs, Write(p) PROVE KindInv'
  <2>2. CASE Leave(p, TRUE)
    <3>1. Left(p, TRUE)
      BY <2>2, LeaveDoes DEF Implausible, ClockInv, TypeOK, TasksOK, AgendaOK
    <3>2. CASE p = "serve"
      <4>1. task'["command"] = task["command"] /\ task'["halt"] = task["halt"]
        BY <3>1, <3>2 DEF Left, Procs
      <4> QED
        BY <1>0, <1>3, <2>2, <3>1, <3>2, <4>1 DEF Write, At, NoRuntime, Left, Freed, Unlocked, Implausible
    <3>3. CASE p = "command"
      <4>1. task'["serve"] = task["serve"] /\ task'["halt"] = task["halt"]
        BY <3>1, <3>3 DEF Left, Procs
      <4> QED
        BY <1>0, <1>3, <2>2, <3>1, <3>3, <4>1 DEF Write, At, NoRuntime, Left, Freed, Unlocked, Implausible
    <3>4. CASE p = "halt"
      <4>1. task'["serve"] = task["serve"] /\ task'["command"] = task["command"]
        BY <3>1, <3>4 DEF Left, Procs
      <4> QED
        BY <1>0, <1>3, <2>2, <3>1, <3>4, <4>1 DEF Write, At, NoRuntime, Left, Freed, Unlocked, Implausible
    <3> QED
      BY <3>2, <3>3, <3>4
  <2> QED
    BY <1>3, <2>2 DEF Write
<1>4. ASSUME NEW p \in Procs, Restore(p) PROVE KindInv'
  BY <1>0, <1>4 DEF Restore, Go, At, BootFloor
<1>5. ASSUME NEW p \in Procs, RestoredBefore(p) PROVE KindInv'
  BY <1>0, <1>5, RestoredBeforeDoes DEF Freed
<1>6. ASSUME NEW p \in Procs, Accept(p) PROVE KindInv'
  BY <1>0, <1>6 DEF Accept, At, Samples
<1>7. ASSUME NEW p \in Procs, Refuse(p) PROVE KindInv'
  BY <1>0, <1>7 DEF Refuse, Leave, Rest, Go, At, Idle, Unlocked, Samples
<1>8. ASSUME NEW p \in Procs, Record(p) PROVE KindInv'
  BY <1>0, <1>8 DEF Record, Prepare, Implausible, Leave, Rest, Go, At, Idle, Reading, NoRuntime, Unlocked
<1>9. CASE StartService
  BY <1>0, <1>9 DEF StartService, Rest, At, Idle
<1>10. CASE Round
  BY <1>0, <1>10 DEF Round, Waits, Rest, At, Idle
<1>11. CASE Query
  BY <1>0, <1>11 DEF Query, Waits, At
<1>12. CASE QueryFails
  BY <1>0, <1>12 DEF QueryFails, Rest, At, Idle
<1>13. CASE Plan
  BY <1>0, <1>13 DEF Plan, Waits, Rest, At, Idle
<1>14. CASE Command
  BY <1>0, <1>14 DEF Command, Waits, At
<1>15. CASE Killed
  BY <1>0, <1>15 DEF Killed, Idle, Unlocked
<1>16. CASE Shutdown
  BY <1>0, <1>16 DEF Shutdown
<1>17. CASE Stage3
  BY <1>0, <1>17 DEF Stage3, Waits, At
<1>18. CASE PowerOn
  BY <1>0, <1>18 DEF PowerOn, Idle
<1>19. CASE Off
  BY <1>0, <1>19 DEF Off, NoRuntime, Idle, NoAgenda, Unlocked, NoSeen, NoClock
<1>20. CASE Tick
  BY <1>0, <1>20 DEF Tick, Pace, Timed, Older, Sooner
<1>21. CASE UNCHANGED vars
  BY <1>21 DEF vars
<1> HIDE DEF ClockInv, Stage1Over, TypeOK, Procs, StartInv, HolderInv, FloorInv, ServiceInv, KindInv, Kinds, Samples
<1> QED
  BY <1>1, <1>2, <1>3, <1>4, <1>5, <1>6, <1>7, <1>8, <1>9, <1>10, <1>11, <1>12, <1>13, <1>14, <1>15, <1>16, <1>17, <1>18, <1>19, <1>20, <1>21
  DEF Next, Step, PowerCut, PowerOff

\* Nothing is saved from a clock before the build time, and once past it a clock
\* stays there, since only the restore of stage 1 sets it back.
LEMMA StepKeepsPastBuild == ClockInv /\ ServiceInv /\ ClockInv' /\ [Next]_vars => PastBuildInv'
<1> SUFFICES ASSUME ClockInv, ServiceInv, ClockInv', [Next]_vars PROVE PastBuildInv'
  OBVIOUS
<1>0. /\ board.build \in Nat /\ clock.real \in Nat /\ saved \in Int /\ clock'.real \in Nat
      /\ \A p \in Procs : Target(p) \in Int /\ Corrected(Target(p)).real >= clock.real
  BY ClockNumbers DEF ClockInv, TypeOK
<1> USE DEF ClockInv, Stage1Over, TypeOK, Procs, StartInv, ServiceInv, PastBuildInv, LossInv, Plausible, None
<1>1. ASSUME NEW p \in Procs, Acquire(p) PROVE PastBuildInv'
  BY <1>0, <1>1 DEF Acquire, Go, At
<1>2. ASSUME NEW p \in Procs, Checkpoint(p) PROVE PastBuildInv'
  BY <1>0, <1>2 DEF Checkpoint, Prepare, Implausible, Leave, Rest, Go, At, Idle, Reading, Unlocked
<1>3. ASSUME NEW p \in Procs, Write(p) PROVE PastBuildInv'
  BY <1>0, <1>3 DEF Write, Leave, Rest, Go, At, Idle, Unlocked
<1>4. ASSUME NEW p \in Procs, Restore(p) PROVE PastBuildInv'
  BY <1>0, <1>4 DEF Restore, Go, At, BootFloor
<1>5. ASSUME NEW p \in Procs, RestoredBefore(p) PROVE PastBuildInv'
  BY <1>0, <1>5, RestoredBeforeDoes DEF Freed
<1>6. ASSUME NEW p \in Procs, Accept(p) PROVE PastBuildInv'
  BY <1>0, <1>6 DEF Accept, At
<1>7. ASSUME NEW p \in Procs, Refuse(p) PROVE PastBuildInv'
  BY <1>0, <1>7 DEF Refuse, Leave, Rest, Go, At, Idle, Unlocked
<1>8. ASSUME NEW p \in Procs, Record(p) PROVE PastBuildInv'
  BY <1>0, <1>8 DEF Record, Prepare, Implausible, Leave, Rest, Go, At, Idle, Reading, NoRuntime, Unlocked
<1>9. CASE StartService
  BY <1>0, <1>9 DEF StartService, Rest, At, Idle
<1>10. CASE Round
  BY <1>0, <1>10 DEF Round, Waits, Rest, At, Idle
<1>11. CASE Query
  BY <1>0, <1>11 DEF Query, Waits, At
<1>12. CASE QueryFails
  BY <1>0, <1>12 DEF QueryFails, Rest, At, Idle
<1>13. CASE Plan
  BY <1>0, <1>13 DEF Plan, Waits, Rest, At, Idle
<1>14. CASE Command
  BY <1>0, <1>14 DEF Command, Waits, At
<1>15. CASE Killed
  BY <1>0, <1>15 DEF Killed, Idle, Unlocked
<1>16. CASE Shutdown
  BY <1>0, <1>16 DEF Shutdown
<1>17. CASE Stage3
  BY <1>0, <1>17 DEF Stage3, Waits, At
<1>18. CASE PowerOn
  BY <1>0, <1>18 DEF PowerOn, Idle
<1>19. CASE Off
  BY <1>0, <1>19 DEF Off, NoRuntime, Idle, NoAgenda, Unlocked, NoSeen, NoClock
<1>20. CASE Tick
  BY <1>0, <1>20 DEF Tick, Pace, Timed
<1>21. CASE UNCHANGED vars
  BY <1>21 DEF vars
<1> HIDE DEF ClockInv, Stage1Over, TypeOK, Procs, StartInv, ServiceInv, PastBuildInv, LossInv, Plausible, None
<1> QED
  BY <1>1, <1>2, <1>3, <1>4, <1>5, <1>6, <1>7, <1>8, <1>9, <1>10, <1>11, <1>12, <1>13, <1>14, <1>15, <1>16, <1>17, <1>18, <1>19, <1>20, <1>21
  DEF Next, Step, PowerCut, PowerOff

\* Only a network sample, a restore or time changes which source is preferred.
LEMMA StepKeepsPrefer == ClockInv /\ ServiceInv /\ ClockInv' /\ [Next]_vars => PreferInv'
<1> SUFFICES ASSUME ClockInv, ServiceInv, ClockInv', [Next]_vars PROVE PreferInv'
  OBVIOUS
<1>0. Current \in Nat
  BY Numbers
<1> USE DEF ClockInv, Stage1Over, TypeOK, Procs, StartInv, HolderInv, ServiceInv, KindInv, PreferInv, Kinds, Samples
<1>1. ASSUME NEW p \in Procs, Acquire(p) PROVE PreferInv'
  BY <1>0, <1>1 DEF Acquire, Go, At
<1>2. ASSUME NEW p \in Procs, Checkpoint(p) PROVE PreferInv'
  BY <1>0, <1>2 DEF Checkpoint, Prepare, Implausible, Leave, Rest, Go, At, Idle, Reading, Unlocked
<1>3. ASSUME NEW p \in Procs, Write(p) PROVE PreferInv'
  BY <1>0, <1>3 DEF Write, Leave, Rest, Go, At, Idle, Unlocked
<1>4. ASSUME NEW p \in Procs, Restore(p) PROVE PreferInv'
  BY <1>0, <1>4 DEF Restore, Go, At, BootFloor
<1>5. ASSUME NEW p \in Procs, RestoredBefore(p) PROVE PreferInv'
  BY <1>0, <1>5, RestoredBeforeDoes DEF Freed
<1>6. ASSUME NEW p \in Procs, Accept(p) PROVE PreferInv'
  <2>1. p \in {"serve", "command"}
    BY <1>6 DEF Accept
  <2>2. CASE p = "serve"
    BY <1>0, <1>6, <2>2 DEF Accept, At
  <2>3. CASE p = "command"
    BY <1>0, <1>6, <2>3 DEF Accept, At, Taken, Outranked
  <2> QED
    BY <2>1, <2>2, <2>3
<1>7. ASSUME NEW p \in Procs, Refuse(p) PROVE PreferInv'
  BY <1>0, <1>7 DEF Refuse, Leave, Rest, Go, At, Idle, Unlocked, Samples
<1>8. ASSUME NEW p \in Procs, Record(p) PROVE PreferInv'
  <2>0. /\ task[p].kind # "restore" => runtime'.source = task[p].kind /\ runtime'.age = task[p].age
        /\ task[p].pc = "record" /\ UNCHANGED seen
    BY <1>8, SMTT(30) DEF Record, At
  <2>1. CASE Prepare(p)
    <3>1. Prepared(p)
      BY <2>1, PrepareDoes DEF TasksOK
    <3> QED
      BY <1>0, <2>0, <1>8, <2>1, <3>1 DEF Record, At, NoRuntime, Prepared
  <2>2. CASE Implausible(p)
    <3>1. Left(p, FALSE)
      BY <2>2, LeaveDoes DEF Implausible, ClockInv, TypeOK, TasksOK, AgendaOK
    <3>2. CASE p = "serve"
      <4>1. task'["command"] = task["command"] /\ task'["halt"] = task["halt"]
        BY <3>1, <3>2 DEF Left, Procs
      <4> QED
        BY <1>0, <2>0, <2>2, <3>1, <3>2, <4>1 DEF Left, Freed, Unlocked, Implausible
    <3>3. CASE p = "command"
      <4>1. task'["serve"] = task["serve"] /\ task'["halt"] = task["halt"]
        BY <3>1, <3>3 DEF Left, Procs
      <4> QED
        BY <1>0, <2>0, <2>2, <3>1, <3>3, <4>1 DEF Left, Freed, Unlocked, Implausible
    <3>4. CASE p = "halt"
      <4>1. task'["serve"] = task["serve"] /\ task'["command"] = task["command"]
        BY <3>1, <3>4 DEF Left, Procs
      <4> QED
        BY <1>0, <2>0, <2>2, <3>1, <3>4, <4>1 DEF Left, Freed, Unlocked, Implausible
    <3> QED
      BY <3>2, <3>3, <3>4
  <2> QED
    BY <1>8, <2>1, <2>2 DEF Record
<1>9. CASE StartService
  BY <1>0, <1>9 DEF StartService, Rest, At, Idle
<1>10. CASE Round
  BY <1>0, <1>10 DEF Round, Waits, Rest, At, Idle
<1>11. CASE Query
  BY <1>0, <1>11 DEF Query, Waits, At
<1>12. CASE QueryFails
  BY <1>0, <1>12 DEF QueryFails, Rest, At, Idle
<1>13. CASE Plan
  BY <1>0, <1>13 DEF Plan, Waits, Rest, At, Idle
<1>14. CASE Command
  BY <1>0, <1>14 DEF Command, Waits, At
<1>15. CASE Killed
  BY <1>0, <1>15 DEF Killed, Idle, Unlocked
<1>16. CASE Shutdown
  BY <1>0, <1>16 DEF Shutdown
<1>17. CASE Stage3
  BY <1>0, <1>17 DEF Stage3, Waits, At
<1>18. CASE PowerOn
  BY <1>0, <1>18 DEF PowerOn, Idle
<1>19. CASE Off
  BY <1>0, <1>19 DEF Off, NoRuntime, Idle, NoAgenda, Unlocked, NoSeen, NoClock
<1>20. CASE Tick
  BY <1>0, <1>20 DEF Tick, Pace, Timed, Older, Sooner
<1>21. CASE UNCHANGED vars
  BY <1>21 DEF vars
<1> HIDE DEF ClockInv, Stage1Over, TypeOK, Procs, StartInv, HolderInv, ServiceInv, KindInv, PreferInv, Kinds, Samples
<1> QED
  BY <1>1, <1>2, <1>3, <1>4, <1>5, <1>6, <1>7, <1>8, <1>9, <1>10, <1>11, <1>12, <1>13, <1>14, <1>15, <1>16, <1>17, <1>18, <1>19, <1>20, <1>21
  DEF Next, Step, PowerCut, PowerOff

\* The clock only goes on, so what stage 3 waits to save is not overtaken.
LEMMA StepKeepsStop == ClockInv /\ ServiceInv /\ ClockInv' /\ [Next]_vars => StopInv'
<1> SUFFICES ASSUME ClockInv, ServiceInv, ClockInv', [Next]_vars PROVE StopInv'
  OBVIOUS
<1>0. /\ board.build \in Nat /\ clock.real \in Nat /\ saved \in Int
      /\ \A p \in Procs : Target(p) \in Int /\ Corrected(Target(p)).real >= clock.real
      /\ Lifetime \in Nat
  BY ClockNumbers, Numbers
<1> USE DEF ClockInv, Stage1Over, TypeOK, Procs, StartInv, HolderInv, FloorInv, SavingInv, ServiceInv, KindInv, StopInv, Behind, Plausible, NoTime
<1>1. ASSUME NEW p \in Procs, Acquire(p) PROVE StopInv'
  BY <1>0, <1>1 DEF Acquire, Go, At
<1>2. ASSUME NEW p \in Procs, Checkpoint(p) PROVE StopInv'
  BY <1>0, <1>2 DEF Checkpoint, Prepare, Implausible, Leave, Rest, Go, At, Idle, Reading, Unlocked
<1>3. ASSUME NEW p \in Procs, Write(p) PROVE StopInv'
  BY <1>0, <1>3 DEF Write, Leave, Rest, Go, At, Idle, Unlocked
<1>4. ASSUME NEW p \in Procs, Restore(p) PROVE StopInv'
  BY <1>0, <1>4 DEF Restore, Go, At, BootFloor
<1>5. ASSUME NEW p \in Procs, RestoredBefore(p) PROVE StopInv'
  BY <1>0, <1>5, RestoredBeforeDoes DEF Freed
<1>6. ASSUME NEW p \in Procs, Accept(p) PROVE StopInv'
  <2>1. clock'.real >= clock.real /\ UNCHANGED <<board, saved>>
    BY <1>0, <1>6 DEF Accept
  <2>2. p # "halt"
    BY <1>6, AcceptDoes DEF Samples
  <2>3. task'["halt"] = task["halt"]
    BY <1>6, <2>2, AcceptDoes
  <2>4. clock'.real \in Nat
    OBVIOUS
  <2> QED
    BY <1>0, <2>1, <2>3, <2>4
<1>7. ASSUME NEW p \in Procs, Refuse(p) PROVE StopInv'
  BY <1>0, <1>7 DEF Refuse, Leave, Rest, Go, At, Idle, Unlocked, Samples
<1>8. ASSUME NEW p \in Procs, Record(p) PROVE StopInv'
  BY <1>0, <1>8 DEF Record, Prepare, Implausible, Leave, Rest, Go, At, Idle, Reading, NoRuntime, Unlocked
<1>9. CASE StartService
  BY <1>0, <1>9 DEF StartService, Rest, At, Idle
<1>10. CASE Round
  BY <1>0, <1>10 DEF Round, Waits, Rest, At, Idle
<1>11. CASE Query
  BY <1>0, <1>11 DEF Query, Waits, At
<1>12. CASE QueryFails
  BY <1>0, <1>12 DEF QueryFails, Rest, At, Idle
<1>13. CASE Plan
  BY <1>0, <1>13 DEF Plan, Waits, Rest, At, Idle
<1>14. CASE Command
  BY <1>0, <1>14 DEF Command, Waits, At
<1>15. CASE Killed
  BY <1>0, <1>15 DEF Killed, Idle, Unlocked
<1>16. CASE Shutdown
  BY <1>0, <1>16 DEF Shutdown
<1>17. CASE Stage3
  BY <1>0, <1>17 DEF Stage3, Waits, At
<1>18. CASE PowerOn
  BY <1>0, <1>18 DEF PowerOn, Idle
<1>19. CASE Off
  BY <1>0, <1>19 DEF Off, NoRuntime, Idle, NoAgenda, Unlocked, NoSeen, NoClock
<1>20. CASE Tick
  BY <1>0, <1>20 DEF Tick, Pace, Timed, Older, Sooner
<1>21. CASE UNCHANGED vars
  BY <1>21 DEF vars
<1> HIDE DEF ClockInv, Stage1Over, TypeOK, Procs, StartInv, HolderInv, FloorInv, SavingInv, ServiceInv, KindInv, StopInv, Behind, Plausible, NoTime
<1> QED
  BY <1>1, <1>2, <1>3, <1>4, <1>5, <1>6, <1>7, <1>8, <1>9, <1>10, <1>11, <1>12, <1>13, <1>14, <1>15, <1>16, <1>17, <1>18, <1>19, <1>20, <1>21
  DEF Next, Step, PowerCut, PowerOff

\* Time is taken from the holder's turn as fast as it is added to a wait, and who
\* comes later asks later.
LEMMA StepKeepsTurn == ClockInv /\ ServiceInv /\ ClockInv' /\ [Next]_vars => TurnInv'
<1> SUFFICES ASSUME ClockInv, ServiceInv, ClockInv', [Next]_vars PROVE TurnInv'
  OBVIOUS
<1>0. Hold \in Nat
  BY Numbers
<1> USE DEF ClockInv, Stage1Over, TypeOK, Procs, StartInv, HolderInv, ServiceInv, KindInv, TurnInv, Remaining, Turn, Free
<1>1. ASSUME NEW p \in Procs, Acquire(p) PROVE TurnInv'
  BY <1>0, <1>1 DEF Acquire, Go, At
<1>2. ASSUME NEW p \in Procs, Checkpoint(p) PROVE TurnInv'
  <2>1. CASE Prepare(p)
    <3>1. Prepared(p)
      BY <2>1, PrepareDoes DEF TasksOK
    <3> QED
      BY <1>0, <1>2, <2>1, <3>1 DEF Checkpoint, At, NoRuntime, Prepared
  <2>2. CASE Implausible(p)
    <3>1. Left(p, FALSE)
      BY <2>2, LeaveDoes DEF Implausible, ClockInv, TypeOK, TasksOK, AgendaOK
    <3>2. CASE p = "serve"
      <4>1. task'["command"] = task["command"] /\ task'["halt"] = task["halt"]
        BY <3>1, <3>2 DEF Left, Procs
      <4> QED
        BY <1>0, <1>2, <2>2, <3>1, <3>2, <4>1 DEF Checkpoint, At, NoRuntime, Left, Freed, Unlocked, Implausible
    <3>3. CASE p = "command"
      <4>1. task'["serve"] = task["serve"] /\ task'["halt"] = task["halt"]
        BY <3>1, <3>3 DEF Left, Procs
      <4> QED
        BY <1>0, <1>2, <2>2, <3>1, <3>3, <4>1 DEF Checkpoint, At, NoRuntime, Left, Freed, Unlocked, Implausible
    <3>4. CASE p = "halt"
      <4>1. task'["serve"] = task["serve"] /\ task'["command"] = task["command"]
        BY <3>1, <3>4 DEF Left, Procs
      <4> QED
        BY <1>0, <1>2, <2>2, <3>1, <3>4, <4>1 DEF Checkpoint, At, NoRuntime, Left, Freed, Unlocked, Implausible
    <3> QED
      BY <3>2, <3>3, <3>4
  <2> QED
    BY <1>2, <2>1, <2>2, SMTT(30) DEF Checkpoint
<1>3. ASSUME NEW p \in Procs, Write(p) PROVE TurnInv'
  <2>2. CASE Leave(p, TRUE)
    <3>1. Left(p, TRUE)
      BY <2>2, LeaveDoes DEF Implausible, ClockInv, TypeOK, TasksOK, AgendaOK
    <3>2. CASE p = "serve"
      <4>1. task'["command"] = task["command"] /\ task'["halt"] = task["halt"]
        BY <3>1, <3>2 DEF Left, Procs
      <4> QED
        BY <1>0, <1>3, <2>2, <3>1, <3>2, <4>1 DEF Write, At, NoRuntime, Left, Freed, Unlocked, Implausible
    <3>3. CASE p = "command"
      <4>1. task'["serve"] = task["serve"] /\ task'["halt"] = task["halt"]
        BY <3>1, <3>3 DEF Left, Procs
      <4> QED
        BY <1>0, <1>3, <2>2, <3>1, <3>3, <4>1 DEF Write, At, NoRuntime, Left, Freed, Unlocked, Implausible
    <3>4. CASE p = "halt"
      <4>1. task'["serve"] = task["serve"] /\ task'["command"] = task["command"]
        BY <3>1, <3>4 DEF Left, Procs
      <4> QED
        BY <1>0, <1>3, <2>2, <3>1, <3>4, <4>1 DEF Write, At, NoRuntime, Left, Freed, Unlocked, Implausible
    <3> QED
      BY <3>2, <3>3, <3>4
  <2> QED
    BY <1>3, <2>2 DEF Write
<1>4. ASSUME NEW p \in Procs, Restore(p) PROVE TurnInv'
  BY <1>0, <1>4 DEF Restore, Go, At, BootFloor
<1>5. ASSUME NEW p \in Procs, RestoredBefore(p) PROVE TurnInv'
  BY <1>0, <1>5, RestoredBeforeDoes DEF Freed
<1>6. ASSUME NEW p \in Procs, Accept(p) PROVE TurnInv'
  BY <1>0, <1>6, SMTT(30) DEF Accept, At, Samples
<1>7. ASSUME NEW p \in Procs, Refuse(p) PROVE TurnInv'
  BY <1>0, <1>7 DEF Refuse, Leave, Rest, Go, At, Idle, Unlocked, Samples
<1>8. ASSUME NEW p \in Procs, Record(p) PROVE TurnInv'
  <2>1. CASE Prepare(p)
    <3>1. Prepared(p)
      BY <2>1, PrepareDoes DEF TasksOK
    <3> QED
      BY <1>0, <1>8, <2>1, <3>1 DEF Record, At, NoRuntime, Prepared
  <2>2. CASE Implausible(p)
    <3>1. Left(p, FALSE)
      BY <2>2, LeaveDoes DEF Implausible, ClockInv, TypeOK, TasksOK, AgendaOK
    <3>2. CASE p = "serve"
      <4>1. task'["command"] = task["command"] /\ task'["halt"] = task["halt"]
        BY <3>1, <3>2 DEF Left, Procs
      <4> QED
        BY <1>0, <1>8, <2>2, <3>1, <3>2, <4>1 DEF Record, At, NoRuntime, Left, Freed, Unlocked, Implausible
    <3>3. CASE p = "command"
      <4>1. task'["serve"] = task["serve"] /\ task'["halt"] = task["halt"]
        BY <3>1, <3>3 DEF Left, Procs
      <4> QED
        BY <1>0, <1>8, <2>2, <3>1, <3>3, <4>1 DEF Record, At, NoRuntime, Left, Freed, Unlocked, Implausible
    <3>4. CASE p = "halt"
      <4>1. task'["serve"] = task["serve"] /\ task'["command"] = task["command"]
        BY <3>1, <3>4 DEF Left, Procs
      <4> QED
        BY <1>0, <1>8, <2>2, <3>1, <3>4, <4>1 DEF Record, At, NoRuntime, Left, Freed, Unlocked, Implausible
    <3> QED
      BY <3>2, <3>3, <3>4
  <2> QED
    BY <1>8, <2>1, <2>2, SMTT(30) DEF Record
<1>9. CASE StartService
  BY <1>0, <1>9 DEF StartService, Rest, At, Idle
<1>10. CASE Round
  BY <1>0, <1>10 DEF Round, Waits, Rest, At, Idle
<1>11. CASE Query
  BY <1>0, <1>11 DEF Query, Waits, At
<1>12. CASE QueryFails
  BY <1>0, <1>12 DEF QueryFails, Rest, At, Idle
<1>13. CASE Plan
  BY <1>0, <1>13 DEF Plan, Waits, Rest, At, Idle
<1>14. CASE Command
  BY <1>0, <1>14 DEF Command, Waits, At
<1>15. CASE Killed
  BY <1>0, <1>15 DEF Killed, Idle, Unlocked
<1>16. CASE Shutdown
  BY <1>0, <1>16 DEF Shutdown
<1>17. CASE Stage3
  BY <1>0, <1>17 DEF Stage3, Waits, At
<1>18. CASE PowerOn
  BY <1>0, <1>18 DEF PowerOn, Idle
<1>19. CASE Off
  BY <1>0, <1>19, SMTT(30) DEF Off, NoRuntime, Idle, NoAgenda, Unlocked, NoSeen, NoClock
<1>20. CASE Tick
  BY <1>0, <1>20 DEF Tick, Pace, Timed, Older, Sooner, Due
<1>21. CASE UNCHANGED vars
  BY <1>21 DEF vars
<1> HIDE DEF ClockInv, Stage1Over, TypeOK, Procs, StartInv, HolderInv, ServiceInv, KindInv, TurnInv, Remaining, Turn, Free
<1> QED
  BY <1>1, <1>2, <1>3, <1>4, <1>5, <1>6, <1>7, <1>8, <1>9, <1>10, <1>11, <1>12, <1>13, <1>14, <1>15, <1>16, <1>17, <1>18, <1>19, <1>20, <1>21
  DEF Next, Step, PowerCut, PowerOff

\* A sample ages with the clock it is compared to.
LEMMA StepKeepsSample == ClockInv /\ ServiceInv /\ ClockInv' /\ [Next]_vars => SampleInv'
<1> SUFFICES ASSUME ClockInv, ServiceInv, ClockInv', [Next]_vars PROVE SampleInv'
  OBVIOUS
<1>0. Hold \in Nat
  BY Numbers
<1> USE DEF ClockInv, Stage1Over, TypeOK, Procs, StartInv, HolderInv, ServiceInv, KindInv, TurnInv, SampleInv, Remaining, Turn, Free
<1>1. ASSUME NEW p \in Procs, Acquire(p) PROVE SampleInv'
  BY <1>0, <1>1 DEF Acquire, Go, At
<1>2. ASSUME NEW p \in Procs, Checkpoint(p) PROVE SampleInv'
  BY <1>0, <1>2 DEF Checkpoint, Prepare, Implausible, Leave, Rest, Go, At, Idle, Reading, Unlocked
<1>3. ASSUME NEW p \in Procs, Write(p) PROVE SampleInv'
  BY <1>0, <1>3 DEF Write, Leave, Rest, Go, At, Idle, Unlocked
<1>4. ASSUME NEW p \in Procs, Restore(p) PROVE SampleInv'
  BY <1>0, <1>4 DEF Restore, Go, At, BootFloor
<1>5. ASSUME NEW p \in Procs, RestoredBefore(p) PROVE SampleInv'
  BY <1>0, <1>5, RestoredBeforeDoes DEF Freed
<1>6. ASSUME NEW p \in Procs, Accept(p) PROVE SampleInv'
  BY <1>0, <1>6 DEF Accept, At, Samples
<1>7. ASSUME NEW p \in Procs, Refuse(p) PROVE SampleInv'
  BY <1>0, <1>7 DEF Refuse, Leave, Rest, Go, At, Idle, Unlocked, Samples
<1>8. ASSUME NEW p \in Procs, Record(p) PROVE SampleInv'
  BY <1>0, <1>8 DEF Record, Prepare, Implausible, Leave, Rest, Go, At, Idle, Reading, NoRuntime, Unlocked
<1>9. CASE StartService
  BY <1>0, <1>9 DEF StartService, Rest, At, Idle
<1>10. CASE Round
  BY <1>0, <1>10 DEF Round, Waits, Rest, At, Idle
<1>11. CASE Query
  BY <1>0, <1>11 DEF Query, Waits, At
<1>12. CASE QueryFails
  BY <1>0, <1>12 DEF QueryFails, Rest, At, Idle
<1>13. CASE Plan
  BY <1>0, <1>13 DEF Plan, Waits, Rest, At, Idle
<1>14. CASE Command
  BY <1>0, <1>14 DEF Command, Waits, At
<1>15. CASE Killed
  BY <1>0, <1>15 DEF Killed, Idle, Unlocked
<1>16. CASE Shutdown
  BY <1>0, <1>16 DEF Shutdown
<1>17. CASE Stage3
  BY <1>0, <1>17 DEF Stage3, Waits, At
<1>18. CASE PowerOn
  BY <1>0, <1>18 DEF PowerOn, Idle
<1>19. CASE Off
  BY <1>0, <1>19 DEF Off, NoRuntime, Idle, NoAgenda, Unlocked, NoSeen, NoClock
<1>20. CASE Tick
  BY <1>0, <1>20 DEF Tick, Pace, Timed, Older, Sooner, Due
<1>21. CASE UNCHANGED vars
  BY <1>21 DEF vars
<1> HIDE DEF ClockInv, Stage1Over, TypeOK, Procs, StartInv, HolderInv, ServiceInv, KindInv, TurnInv, SampleInv, Remaining, Turn, Free
<1> QED
  BY <1>1, <1>2, <1>3, <1>4, <1>5, <1>6, <1>7, <1>8, <1>9, <1>10, <1>11, <1>12, <1>13, <1>14, <1>15, <1>16, <1>17, <1>18, <1>19, <1>20, <1>21
  DEF Next, Step, PowerCut, PowerOff

\* The parts of the bound.
LEMMA LossNumbers ==
  /\ Hold \in Nat /\ SavePeriod \in Nat /\ SavePeriod > 0 /\ QueryLimit \in Nat /\ Retry \in Nat
  /\ Poll \in Nat /\ Lifetime \in Nat
  /\ Interval \in Nat /\ Interval = Hold + SavePeriod
  /\ OnePoll \in Nat /\ OnePoll = QueryLimit + 2 * Hold
  /\ Before \in Nat /\ (Retry > 1 => Before = 0) /\ (Retry <= 1 => Before = OnePoll)
BY Numbers, ScaleAssumption DEF Interval, OnePoll, Before

\* Each step of a round adds at most its own wait to what is unsaved.
LEMMA StepKeepsLoss == ClockInv /\ ServiceInv /\ ClockInv' /\ [Next]_vars => LossInv'
<1> SUFFICES ASSUME ClockInv, ServiceInv, ClockInv', [Next]_vars PROVE LossInv'
  OBVIOUS
<1> DEFINE u == seen.unsaved
<1>0. /\ Hold \in Nat /\ SavePeriod \in Nat /\ SavePeriod > 0 /\ QueryLimit \in Nat /\ Retry \in Nat
      /\ Poll \in Nat /\ Interval \in Nat /\ Interval = Hold + SavePeriod
      /\ OnePoll \in Nat /\ OnePoll = QueryLimit + 2 * Hold
      /\ Before \in Nat /\ (Retry > 1 => Before = 0) /\ (Retry <= 1 => Before = OnePoll)
      /\ Lifetime \in Nat /\ seen.unsaved \in Int /\ board.build \in Nat /\ clock.real \in Nat
      /\ \A p \in Procs : Corrected(Target(p)).real >= clock.real
  BY LossNumbers, ClockNumbers DEF ClockInv, TypeOK, None
<1> USE DEF ClockInv, Stage1Over, TypeOK, Procs, StartInv, HolderInv, SavingInv, ServiceInv, KindInv, PastBuildInv, TurnInv, SampleInv, LossInv, LossParts, Begun, Remaining, Turn, Free, None, Plausible, Samples, Kinds
<1>1. ASSUME NEW p \in Procs, Acquire(p) PROVE LossInv'
  BY <1>0, <1>1 DEF Acquire, Go, At
<1>2. ASSUME NEW p \in Procs, Checkpoint(p) PROVE LossInv'
  <2>1. CASE Prepare(p)
    <3>1. Prepared(p)
      BY <2>1, PrepareDoes DEF TasksOK
    <3> QED
      BY <1>0, <1>2, <2>1, <3>1 DEF Checkpoint, At, NoRuntime, Prepared
  <2>2. CASE Implausible(p)
    <3>1. Left(p, FALSE)
      BY <2>2, LeaveDoes DEF Implausible, ClockInv, TypeOK, TasksOK, AgendaOK
    <3>2. CASE p = "serve"
      <4>1. task'["command"] = task["command"] /\ task'["halt"] = task["halt"]
        BY <3>1, <3>2 DEF Left, Procs
      <4> QED
        BY <1>0, <1>2, <2>2, <3>1, <3>2, <4>1 DEF Checkpoint, At, NoRuntime, Left, Freed, Unlocked, Implausible
    <3>3. CASE p = "command"
      <4>1. task'["serve"] = task["serve"] /\ task'["halt"] = task["halt"]
        BY <3>1, <3>3 DEF Left, Procs
      <4> QED
        BY <1>0, <1>2, <2>2, <3>1, <3>3, <4>1 DEF Checkpoint, At, NoRuntime, Left, Freed, Unlocked, Implausible
    <3>4. CASE p = "halt"
      <4>1. task'["serve"] = task["serve"] /\ task'["command"] = task["command"]
        BY <3>1, <3>4 DEF Left, Procs
      <4> QED
        BY <1>0, <1>2, <2>2, <3>1, <3>4, <4>1 DEF Checkpoint, At, NoRuntime, Left, Freed, Unlocked, Implausible
    <3> QED
      BY <3>2, <3>3, <3>4
  <2> QED
    BY <1>2, <2>1, <2>2, SMTT(30) DEF Checkpoint
<1>3. ASSUME NEW p \in Procs, Write(p) PROVE LossInv'
  <2>0. /\ (~agenda.stop => u' <= Hold) /\ (u' = None \/ Stage1Over)
        /\ p # "serve" /\ u = None => u' = None
        /\ task[p].pc = "write" /\ UNCHANGED <<board, clock, runtime>>
    BY <1>0, <1>3 DEF Write, At
  <2>2. CASE Leave(p, TRUE)
    <3>1. Left(p, TRUE)
      BY <2>2, LeaveDoes DEF Implausible, ClockInv, TypeOK, TasksOK, AgendaOK
    <3>2. CASE p = "serve"
      <4>1. task'["command"] = task["command"] /\ task'["halt"] = task["halt"]
        BY <3>1, <3>2 DEF Left, Procs
      <4> QED
        BY <1>0, <2>0, <2>2, <3>1, <3>2, <4>1 DEF Left, Freed, Unlocked, Implausible
    <3>3. CASE p = "command"
      <4>1. task'["serve"] = task["serve"] /\ task'["halt"] = task["halt"]
        BY <3>1, <3>3 DEF Left, Procs
      <4>2. agenda' = agenda
        BY <2>0, <3>1, <3>3 DEF Left
      <4>3. task["serve"].pc \notin {"held", "record", "write"}
        BY <2>0, <3>3
      <4> QED
        BY <1>0, <2>0, <3>3, <4>1, <4>2, <4>3
    <3>4. CASE p = "halt"
      <4>1. task'["serve"] = task["serve"] /\ task'["command"] = task["command"]
        BY <3>1, <3>4 DEF Left, Procs
      <4> QED
        BY <1>0, <2>0, <2>2, <3>1, <3>4, <4>1 DEF Left, Freed, Unlocked, Implausible
    <3> QED
      BY <3>2, <3>3, <3>4
  <2> QED
    BY <1>3, <2>2 DEF Write
<1>4. ASSUME NEW p \in Procs, Restore(p) PROVE LossInv'
  BY <1>0, <1>4 DEF Restore, Go, At, BootFloor
<1>5. ASSUME NEW p \in Procs, RestoredBefore(p) PROVE LossInv'
  BY <1>0, <1>5, RestoredBeforeDoes DEF Freed
<1>6. ASSUME NEW p \in Procs, Accept(p) PROVE LossInv'
  <2>1. /\ clock'.real >= clock.real /\ UNCHANGED <<board, runtime, lock, agenda>>
        /\ seen'.unsaved = u /\ task[p].pc = "held"
    BY <1>0, <1>6 DEF Accept, At
  <2>2. /\ task'[p].pc = "record" /\ task'[p].kind = task[p].kind /\ task'[p].age = 0
        /\ \A q \in Procs \ {p} : task'[q] = task[q]
    BY <1>6, AcceptDoes
  <2> QED
    BY <1>0, <2>1, <2>2
<1>7. ASSUME NEW p \in Procs, Refuse(p) PROVE LossInv'
  <2>2. CASE Leave(p, FALSE)
    <3>1. Left(p, FALSE)
      BY <2>2, LeaveDoes DEF Implausible, ClockInv, TypeOK, TasksOK, AgendaOK
    <3>2. CASE p = "serve"
      <4>1. task'["command"] = task["command"] /\ task'["halt"] = task["halt"]
        BY <3>1, <3>2 DEF Left, Procs
      <4> QED
        BY <1>0, <1>7, <2>2, <3>1, <3>2, <4>1 DEF Refuse, At, NoRuntime, Left, Freed, Unlocked, Implausible
    <3>3. CASE p = "command"
      <4>1. task'["serve"] = task["serve"] /\ task'["halt"] = task["halt"]
        BY <3>1, <3>3 DEF Left, Procs
      <4> QED
        BY <1>0, <1>7, <2>2, <3>1, <3>3, <4>1 DEF Refuse, At, NoRuntime, Left, Freed, Unlocked, Implausible
    <3>4. CASE p = "halt"
      <4>1. task'["serve"] = task["serve"] /\ task'["command"] = task["command"]
        BY <3>1, <3>4 DEF Left, Procs
      <4> QED
        BY <1>0, <1>7, <2>2, <3>1, <3>4, <4>1 DEF Refuse, At, NoRuntime, Left, Freed, Unlocked, Implausible
    <3> QED
      BY <3>2, <3>3, <3>4
  <2> QED
    BY <1>7, <2>2 DEF Refuse
<1>8. ASSUME NEW p \in Procs, Record(p) PROVE LossInv'
  <2>1. CASE Prepare(p)
    <3>1. Prepared(p)
      BY <2>1, PrepareDoes DEF TasksOK
    <3> QED
      BY <1>0, <1>8, <2>1, <3>1 DEF Record, At, NoRuntime, Prepared
  <2>2. CASE Implausible(p)
    <3>1. Left(p, FALSE)
      BY <2>2, LeaveDoes DEF Implausible, ClockInv, TypeOK, TasksOK, AgendaOK
    <3>2. CASE p = "serve"
      <4>1. task'["command"] = task["command"] /\ task'["halt"] = task["halt"]
        BY <3>1, <3>2 DEF Left, Procs
      <4> QED
        BY <1>0, <1>8, <2>2, <3>1, <3>2, <4>1 DEF Record, At, NoRuntime, Left, Freed, Unlocked, Implausible
    <3>3. CASE p = "command"
      <4>1. task'["serve"] = task["serve"] /\ task'["halt"] = task["halt"]
        BY <3>1, <3>3 DEF Left, Procs
      <4> QED
        BY <1>0, <1>8, <2>2, <3>1, <3>3, <4>1 DEF Record, At, NoRuntime, Left, Freed, Unlocked, Implausible
    <3>4. CASE p = "halt"
      <4>1. task'["serve"] = task["serve"] /\ task'["command"] = task["command"]
        BY <3>1, <3>4 DEF Left, Procs
      <4> QED
        BY <1>0, <1>8, <2>2, <3>1, <3>4, <4>1 DEF Record, At, NoRuntime, Left, Freed, Unlocked, Implausible
    <3> QED
      BY <3>2, <3>3, <3>4
  <2> QED
    BY <1>8, <2>1, <2>2, SMTT(30) DEF Record
<1>9. CASE StartService
  BY <1>0, <1>9 DEF StartService, Rest, At, Idle
<1>10. CASE Round
  BY <1>0, <1>10 DEF Round, Waits, Rest, At, Idle
<1>11. CASE Query
  BY <1>0, <1>11 DEF Query, Waits, At
<1>12. CASE QueryFails
  BY <1>0, <1>12 DEF QueryFails, Rest, At, Idle
<1>13. CASE Plan
  BY <1>0, <1>13 DEF Plan, Waits, Rest, At, Idle
<1>14. CASE Command
  BY <1>0, <1>14 DEF Command, Waits, At
<1>15. CASE Killed
  BY <1>0, <1>15 DEF Killed, Idle, Unlocked
<1>16. CASE Shutdown
  BY <1>0, <1>16 DEF Shutdown
<1>17. CASE Stage3
  BY <1>0, <1>17 DEF Stage3, Waits, At
<1>18. CASE PowerOn
  BY <1>0, <1>18 DEF PowerOn, Idle
<1>19. CASE Off
  BY <1>0, <1>19, SMTT(30) DEF Off, NoRuntime, Idle, NoAgenda, Unlocked, NoSeen, NoClock
<1>20. CASE Tick
  BY <1>0, <1>20, TickDoes, SMTT(30) DEF Timed, Sooner, Due
<1>21. CASE UNCHANGED vars
  BY <1>21 DEF vars
<1> HIDE DEF ClockInv, Stage1Over, TypeOK, Procs, StartInv, HolderInv, SavingInv, ServiceInv, KindInv, PastBuildInv, TurnInv, SampleInv, LossInv, LossParts, Begun, Remaining, Turn, Free, None, Plausible, Samples, Kinds
<1> QED
  BY <1>1, <1>2, <1>3, <1>4, <1>5, <1>6, <1>7, <1>8, <1>9, <1>10, <1>11, <1>12, <1>13, <1>14, <1>15, <1>16, <1>17, <1>18, <1>19, <1>20, <1>21
  DEF Next, Step, PowerCut, PowerOff

LEMMA StepKeepsService == ClockInv /\ ServiceInv /\ ClockInv' /\ [Next]_vars => ServiceInv'
BY StepKeepsKind, StepKeepsPastBuild, StepKeepsPrefer, StepKeepsStop, StepKeepsTurn, StepKeepsSample, StepKeepsLoss
DEF ServiceInv

LEMMA InitService == Init => ServiceInv
<1> SUFFICES ASSUME Init PROVE ServiceInv
  OBVIOUS
<1>0. ClockInv
  BY InitInv
<1>1. /\ Hold \in Nat /\ SavePeriod \in Nat /\ Current \in Nat
      /\ Interval = Hold + SavePeriod /\ OnePoll \in Nat /\ Before \in Nat
  BY LossNumbers, Numbers
<1> USE DEF Init, Idle, NoRuntime, NoAgenda, NoSeen, NoClock, Unlocked, Procs, Stage1Over
<1>2. KindInv /\ PastBuildInv /\ PreferInv /\ StopInv
  BY <1>1 DEF KindInv, PastBuildInv, PreferInv, StopInv
<1>3. TurnInv /\ SampleInv
  BY <1>1 DEF TurnInv, SampleInv, Free
<1>4. LossInv
  BY <1>1 DEF LossInv, LossParts, None
<1> QED
  BY <1>2, <1>3, <1>4 DEF ServiceInv

-----------------------------------------------------------------------------
\* What the workloads see.
Shown == IF ~board.on THEN -1 ELSE IF runtime.restored THEN clock.real
         ELSE IF board.failed THEN -2 ELSE -1
Seen == <<Shown, saved, board.build>>

\* Every step of the commands is one of the ForwardClock, or none.
LEMMA StepsForward ==
  ASSUME ClockInv, ClockInv', [Next]_vars
  PROVE  Forward!Next \/ UNCHANGED Seen
<1>0. /\ clock.real \in Nat /\ clock'.real \in Nat
      /\ board.build \in Nat /\ board'.build \in Builds
      /\ saved \in Int /\ saved' \in Int
  <2>1. board.build \in Builds /\ board'.build \in Builds
    BY DEF ClockInv, TypeOK
  <2>2. board.build \in Nat
    BY <2>1, Numbers
  <2>3. /\ clock.real \in Nat /\ clock'.real \in Nat
        /\ saved \in Int /\ saved' \in Int
    BY DEF ClockInv, TypeOK, NoTime
  <2> QED
    BY <2>1, <2>2, <2>3
<1> USE DEF Shown, Seen, Forward!Next, Forward!Dark, Forward!Blind, Forward!InLifetime
<1>1. ASSUME NEW p \in Procs, Write(p) PROVE Forward!Next
  <2>1. /\ UNCHANGED <<board, clock, runtime>> /\ saved' = task[p].value
        /\ board.on /\ Stage1Over /\ Plausible(saved')
        /\ runtime.restored => saved' <= clock.real
        /\ Plausible(saved) => saved <= saved'
    BY <1>1, SMTT(30) DEF Write, At, ClockInv, StartInv, SavingInv, Procs
  <2>2. Forward!Rises
    BY <1>0, <2>1 DEF Forward!Rises, Plausible
  <2>3. CASE runtime.restored
    BY <1>0, <2>1, <2>2, <2>3 DEF Forward!Run, Forward!Checkpoint
  <2>4. CASE ~runtime.restored
    BY <1>0, <2>1, <2>2, <2>4 DEF Forward!RunBlind, Stage1Over, Plausible
  <2> QED
    BY <2>3, <2>4
<1>2. ASSUME NEW p \in Procs, Accept(p) PROVE Forward!Next \/ UNCHANGED Seen
  <2>1. UNCHANGED <<board, saved, runtime>> /\ clock' = Corrected(Target(p)) /\ board.on
    BY <1>2 DEF Accept, At
  <2>2. Target(p) \in Int
    BY DEF ClockInv, TypeOK, Target
  <2>3. clock'.real >= clock.real
    BY <2>1, <2>2, Numbers DEF Corrected, ClockInv, TypeOK
  <2>4. CASE runtime.restored
    BY <1>0, <2>1, <2>3, <2>4 DEF Forward!Run
  <2>5. CASE ~runtime.restored
    BY <2>1, <2>5
  <2> QED
    BY <2>4, <2>5
<1>3. ASSUME NEW p \in Procs, Record(p) PROVE Forward!Next \/ UNCHANGED Seen
  <2>1. UNCHANGED <<board, clock, saved>> /\ board.on /\ task[p].pc = "record"
    BY <1>3 DEF Record, At
  <2>2. CASE task[p].kind = "restore"
    <3>1. p = "command"
      BY <2>2 DEF ClockInv, StartInv
    <3>2. ~runtime.restored /\ Behind /\ clock.real >= board.build
      BY <2>1, <2>2, <3>1 DEF ClockInv, FloorInv
    <3>3. runtime'.restored /\ ~board.failed
      BY <1>3, <2>2, <3>1 DEF Record, NoRuntime, ClockInv, StartInv
    <3> QED
      BY <1>0, <2>1, <3>2, <3>3 DEF Forward!TurnOn, Behind, Plausible
  <2>3. CASE task[p].kind # "restore"
    BY <1>3, <2>1, <2>3 DEF Record, ClockInv, TypeOK
  <2> QED
    BY <2>2, <2>3
<1>4. ASSUME NEW p \in Procs, Restore(p) PROVE UNCHANGED Seen
  BY <1>4 DEF Restore
<1>5. CASE Tick
  <2>1. UNCHANGED <<saved, board.build, board.on, board.failed, runtime.restored>>
    BY <1>5 DEF Tick, ClockInv, TypeOK
  <2>2. board.on => clock'.real >= clock.real
    BY <1>0, <1>5 DEF Tick, Pace, ClockInv, TypeOK
  <2> QED
    BY <1>0, <2>1, <2>2 DEF Forward!Run
<1>6. CASE PowerOn
  <2>1. ~board.on /\ UNCHANGED <<saved, runtime>>
    BY <1>6 DEF PowerOn
  <2>2. ~runtime.restored /\ ~board.failed
    BY <2>1 DEF ClockInv, StartInv, Stage1Over
  <2>3. board'.failed = board.failed
    BY <1>6 DEF PowerOn, ClockInv, TypeOK
  <2> QED
    BY <1>0, <2>1, <2>2, <2>3 DEF Forward!Stop
<1>7. CASE Off
  <2>1. ~board'.on /\ UNCHANGED saved
    BY <1>7 DEF Off, ClockInv, TypeOK
  <2> QED
    BY <1>0, <2>1 DEF Forward!Stop
<1>8. ASSUME NEW p \in Procs, Acquire(p) \/ Checkpoint(p) \/ RestoredBefore(p) \/ Refuse(p)
      PROVE  UNCHANGED Seen
  BY <1>8 DEF Acquire, Checkpoint, RestoredBefore, Refuse
<1>9. CASE StartService \/ Round \/ Query \/ QueryFails \/ Plan \/ Command \/ Shutdown \/ Stage3
  BY <1>9 DEF StartService, Round, Query, QueryFails, Plan, Command, Shutdown, Stage3
<1>10. CASE Killed
  <2>1. /\ UNCHANGED <<clock, saved, runtime, board.build, board.on>> /\ board.on
        /\ board'.failed = ~runtime.restored
    BY <1>10 DEF Killed, ClockInv, TypeOK
  <2> QED
    BY <1>0, <2>1 DEF Forward!Fail
<1>11. CASE UNCHANGED vars
  BY <1>11 DEF vars
<1> QED
  BY <1>1, <1>2, <1>3, <1>4, <1>5, <1>6, <1>7, <1>8, <1>9, <1>10, <1>11
  DEF Next, Step, PowerCut, PowerOff

-----------------------------------------------------------------------------
\* The lock makes the reading of the clock and the writing of the floor one
\* step: the invariant holds whatever interleaves, crashes or is killed.
THEOREM ClockInvariant == Spec => []ClockInv
<1> QED
  BY InitInv, StepKeepsInv, PTL DEF Spec

\* The clock, the floor, the lock and the processes stay within their types.
THEOREM ClockTypeCorrect == Spec => []TypeOK
<1>1. ClockInv => TypeOK
  BY DEF ClockInv
<1> QED
  BY <1>1, ClockInvariant, PTL

\* vamos-clock implements a ForwardClock: from its restore on the clock never
\* steps back, it starts no earlier than the floor and the build time, and the
\* floor only rises to times that have been shown.
THEOREM ClockIsForward == Spec => ImplementsForwardClock
<1>1. Init => Forward!Init
  BY DEF Init, Forward!Init, Forward!Dark, Forward!NoTime, NoTime
<1>2. ClockInv /\ ClockInv' /\ [Next]_vars => [Forward!Next]_Seen
  BY StepsForward
<1> QED
  BY <1>1, <1>2, ClockInvariant, PTL DEF Spec, ImplementsForwardClock, Forward!Spec, Seen, Shown

\* What waits for what: while time passes, turns at the lock, samples and what is
\* unsaved stay within their bounds.
THEOREM ServiceInvariant == Spec => [](ClockInv /\ ServiceInv)
<1>1. Init => ServiceInv
  BY InitService
<1>2. ClockInv /\ ClockInv' /\ ServiceInv /\ [Next]_vars => ServiceInv'
  BY StepKeepsService
<1> QED
  BY <1>1, <1>2, ClockInvariant, PTL DEF Spec

\* However long the processes hold the lock, and whatever chronyd, the apps and
\* the GPS daemon deliver, a power cut loses no more than MaxLoss of the running
\* time: serve() checkpoints on time.
THEOREM LossIsBounded == Spec => []LossBounded
<1>1. ClockInv /\ ServiceInv => LossBounded
  <2> SUFFICES ASSUME ClockInv, ServiceInv, ~agenda.stop, Plausible(clock.real)
               PROVE  seen.unsaved <= MaxLoss
    BY DEF LossBounded
  <2>1. /\ Hold \in Nat /\ SavePeriod \in Nat /\ SavePeriod > 0 /\ QueryLimit \in Nat
        /\ Interval \in Nat /\ Interval = Hold + SavePeriod
        /\ OnePoll \in Nat /\ OnePoll = QueryLimit + 2 * Hold /\ Before \in Nat
        /\ seen.unsaved \in Int /\ lock.held \in Nat
    BY LossNumbers DEF ClockInv, TypeOK, None
  <2>2. MaxLoss = Interval + Before + OnePoll + 2 * Hold
    BY LossNumbers DEF MaxLoss, Polls
  <2>3. LossParts /\ TurnInv
    BY DEF ServiceInv, LossInv, Plausible
  <2>4. Begun <= Interval + Before /\ Begun \in Int
    BY <2>1 DEF Begun
  <2>5. task["serve"].pc = "wait" => task["serve"].age <= Hold
    BY <2>1, <2>3 DEF TurnInv, Remaining, Turn, ClockInv, TypeOK, Procs, Free
  <2>6. /\ task["serve"].pc \in Steps /\ task["serve"].age \in Nat /\ lock.held <= Hold
        /\ agenda.wake \in Nat /\ agenda.save \in Nat
    BY <2>3 DEF ClockInv, TypeOK, TurnInv, Procs
  <2>7. task["serve"].pc \in {"wait", "held", "write"} => task["serve"].kind \in {"nts", "save"}
    BY <2>3 DEF LossParts
  <2>8. CASE task["serve"].pc \in {"idle", "nap", "query", "plan"}
    BY <2>1, <2>2, <2>3, <2>4, <2>6, <2>8 DEF LossParts, None
  <2>9. CASE task["serve"].pc = "wait"
    BY <2>1, <2>2, <2>3, <2>4, <2>5, <2>6, <2>7, <2>9 DEF LossParts
  <2>10. CASE task["serve"].pc \in {"held", "record", "write"}
    BY <2>1, <2>2, <2>3, <2>4, <2>6, <2>7, <2>10 DEF LossParts
  <2> QED
    BY <2>3, <2>6, <2>8, <2>9, <2>10 DEF LossParts, Steps
<1> QED
  BY <1>1, ServiceInvariant, PTL

\* When the power goes after stage 3, the saved time is no earlier than the
\* clock was when it began, whoever else was saving then.
THEOREM StopIsClean == Spec => CleanStop
<1>1. ClockInv /\ ServiceInv =>
        [PowerOff /\ Plausible(clock.real) /\ board.build <= task["halt"].target
           => saved >= task["halt"].target]_vars
  <2> SUFFICES ASSUME ClockInv, ServiceInv, PowerOff, Plausible(clock.real),
                      board.build <= task["halt"].target
               PROVE  saved >= task["halt"].target
    OBVIOUS
  <2>1. /\ saved \in Int /\ task["halt"].target \in Int /\ clock.real \in Nat
        /\ board.build \in Nat /\ Lifetime \in Nat
    BY ClockNumbers, Numbers DEF ClockInv, TypeOK, Procs
  <2>2. clock.real > board.build + Lifetime \/ task["halt"].target <= saved
    BY DEF PowerOff, At, ServiceInv, StopInv
  <2> QED
    BY <2>1, <2>2 DEF Plausible
<1> QED
  BY <1>1, ServiceInvariant, PTL DEF CleanStop

\* A sample of a phone or the GPS daemon changes the clock only when the last
\* network fix is no longer current: RUNTIME is compared under the lock.
THEOREM NtsIsPreferred == Spec => NtsPreferred
<1>1. ClockInv /\ ServiceInv => [Accept("command") => seen.nts = Current]_vars
  <2> SUFFICES ASSUME ClockInv, ServiceInv, Accept("command"), seen.nts # Current
               PROVE  FALSE
    OBVIOUS
  <2>1. Current \in Nat /\ seen.nts < Current
    BY Numbers DEF ClockInv, TypeOK
  <2>2. task["command"].pc = "held" /\ task["serve"].pc # "record"
    BY DEF Accept, At, ClockInv, HolderInv, Procs
  <2>3. runtime.source = "nts" /\ runtime.age <= seen.nts
    BY <2>1, <2>2 DEF ServiceInv, PreferInv
  <2>4. task["command"].kind \in {"app", "gps"} /\ ~Outranked("command")
    BY DEF Accept, Taken, Samples, ServiceInv, KindInv
  <2> QED
    BY <2>1, <2>3, <2>4 DEF Outranked, ClockInv, TypeOK
<1> QED
  BY <1>1, ServiceInvariant, PTL DEF NtsPreferred

\* A network sample puts the clock behind by no more than the turns that serve()
\* waited with it, and never ahead, but for a correction beyond adjtime's reach.
THEOREM NtsIsAccurate == Spec => NtsAccuracy
<1>1. ClockInv /\ ServiceInv =>
        [Accept("serve") =>
           LET late == board'.true - (clock'.real + clock'.adj)
           IN  late <= 3 * Hold /\ (late >= 0 \/ clock'.adj = -MaxSlew)]_vars
  <2> DEFINE t == task["serve"]
             late == board'.true - (clock'.real + clock'.adj)
  <2> SUFFICES ASSUME ClockInv, ServiceInv, Accept("serve")
               PROVE  late <= 3 * Hold /\ (late >= 0 \/ clock'.adj = -MaxSlew)
    OBVIOUS
  <2>1. t.kind = "nts" /\ t.pc = "held" /\ Target("serve") = t.target
    BY DEF Accept, At, Samples, ServiceInv, KindInv, Target, ClockInv, TypeOK, Procs
  <2>2. board.true = t.target + t.age /\ t.age <= 3 * Hold /\ t.age >= 0
    BY <2>1, Numbers DEF ServiceInv, SampleInv, TurnInv, ClockInv, TypeOK, Procs
  <2>3. board' = board /\ clock' = Corrected(t.target)
    BY <2>1 DEF Accept
  <2>4. /\ Threshold \in Nat /\ MaxSlew \in Nat /\ Threshold <= MaxSlew
        /\ clock.real \in Nat /\ t.target \in Int /\ t.age \in Nat /\ board.true \in Nat
    BY Numbers, ScaleAssumption DEF ClockInv, TypeOK, Procs
  <2>5. \/ clock'.real + clock'.adj = t.target
        \/ clock'.adj = -MaxSlew /\ clock'.real + clock'.adj >= t.target
    BY <2>3, <2>4 DEF Corrected, Slew, ClockInv, TypeOK
  <2>6. clock'.real + clock'.adj \in Int
    BY <2>3, <2>4 DEF Corrected, Slew, ClockInv, TypeOK
  <2> QED
    BY <2>2, <2>3, <2>4, <2>5, <2>6, Numbers
<1> QED
  BY <1>1, ServiceInvariant, PTL DEF NtsAccuracy
=============================================================================
