------------------------- MODULE BootWatchdogProofs -------------------------
(***************************************************************************)
(* The hardware timer protects every boot, for all deadlines that satisfy  *)
(* the assumptions: it is stopped only for a boot whose health is on       *)
(* record, and while it runs it fires within a bounded time.               *)
(***************************************************************************)
EXTENDS BootWatchdog, TLAPS

Stopping == {"disarm", "mark", "leave"}
Awake == Stopping \cup {"open", "setup", "loop"}

\* A health marker, or a process on its way to stop the timer, means that
\* stage 1 has completed and health is on record.
RecordedInv ==
  /\ "stage1" \in marker => stage1 = "done"
  /\ commit.pc \notin {"idle", "down"} => "stage1" \in marker
  /\ commit.pc \in {"touch", "wait", "verdict", "decided", "withdraw"}
       => "recorded" \in marker
  /\ "healthy" \in marker => "recorded" \in marker /\ "stage1" \in marker
  /\ child.pc \in Stopping => "recorded" \in marker /\ stage1 = "done"

\* Nothing services a timer that is stopped.
StoppedInv ==
  /\ stage1 = "boot" <=> child.pc = "none"
  /\ board.timer = Off =>
       /\ child.pc \in {"mark", "leave", "gone"}
       /\ "recorded" \in marker /\ stage1 = "done"
  /\ child.pc \in {"mark", "leave"} => board.timer = Off
  /\ "disarmed" \in marker => board.timer = Off
  /\ commit.pc = "decided" => "disarmed" \in marker

\* When the timer will fire unless it is serviced.
TimeInv ==
  /\ child.pc \in Awake => board.now <= child.due
  /\ child.pc = "open" => child.due <= LaunchedAt + StartDeadline
  /\ board.timer # Off =>
       board.now + board.timer <=
         (IF child.pc = "none" THEN OpenTimeout ELSE child.end + Timeout)

WatchdogInv == TypeOK /\ RecordedInv /\ StoppedInv /\ TimeInv

-----------------------------------------------------------------------------
\* A boot starts with the timer of U-Boot and no process.
LEMMA InitInv == Init => WatchdogInv
BY TimesAssumption
DEF Init, WatchdogInv, TypeOK, RecordedInv, StoppedInv, TimeInv, Markers, Off,
    ChildSteps, CommitSteps, Stopping, Awake, LaunchedAt

\* Every step of the launcher, the process, the commit and the clock keeps the
\* invariant.
LEMMA StepKeepsInv == WatchdogInv /\ [Next]_vars => WatchdogInv'
<1> SUFFICES ASSUME WatchdogInv, [Next]_vars PROVE WatchdogInv'
  OBVIOUS
<1> USE TimesAssumption, DeadlinesAssumption
    DEF WatchdogInv, TypeOK, RecordedInv, StoppedInv, TimeInv, Markers, Off,
        ChildSteps, CommitSteps, Stopping, Awake, LaunchedAt, Up, Due, Serve,
        CommitGo, CommitAt
<1>1. CASE Launch
  <2>1. TypeOK'
    BY <1>1 DEF Launch
  <2>2. RecordedInv'
    BY <1>1 DEF Launch
  <2>3. StoppedInv'
    BY <1>1 DEF Launch
  <2>4. TimeInv'
    BY <1>1 DEF Launch
  <2> QED
    BY <2>1, <2>2, <2>3, <2>4
<1>2. CASE Launched
  <2>1. TypeOK'
    BY <1>2 DEF Launched, LauncherLate
  <2>2. RecordedInv'
    BY <1>2 DEF Launched, LauncherLate
  <2>3. StoppedInv'
    BY <1>2 DEF Launched, LauncherLate
  <2>4. TimeInv'
    BY <1>2 DEF Launched, LauncherLate
  <2> QED
    BY <2>1, <2>2, <2>3, <2>4
<1>3. CASE Stage1Complete
  <2>1. TypeOK'
    BY <1>3 DEF Stage1Complete
  <2>2. RecordedInv'
    BY <1>3 DEF Stage1Complete
  <2>3. StoppedInv'
    BY <1>3 DEF Stage1Complete
  <2>4. TimeInv'
    BY <1>3 DEF Stage1Complete
  <2> QED
    BY <2>1, <2>2, <2>3, <2>4
<1>4. CASE OpenDevice
  <2>1. TypeOK'
    BY <1>4 DEF OpenDevice, LauncherLate, Exit
  <2>2. RecordedInv'
    BY <1>4 DEF OpenDevice, LauncherLate, Exit
  <2>3. StoppedInv'
    BY <1>4 DEF OpenDevice, LauncherLate, Exit
  <2>4. TimeInv'
    BY <1>4 DEF OpenDevice, LauncherLate, Exit
  <2> QED
    BY <2>1, <2>2, <2>3, <2>4
<1>5. CASE Setup
  <2>1. TypeOK'
    BY <1>5 DEF Setup, Exit
  <2>2. RecordedInv'
    BY <1>5 DEF Setup, Exit
  <2>3. StoppedInv'
    BY <1>5 DEF Setup, Exit
  <2>4. TimeInv'
    BY <1>5 DEF Setup, Exit
  <2> QED
    BY <2>1, <2>2, <2>3, <2>4
<1>6. CASE Loop
  <2>1. TypeOK'
    BY <1>6 DEF Loop, Exit
  <2>2. RecordedInv'
    BY <1>6 DEF Loop, Exit
  <2>3. StoppedInv'
    BY <1>6 DEF Loop, Exit
  <2>4. TimeInv'
    BY <1>6 DEF Loop, Exit
  <2> QED
    BY <2>1, <2>2, <2>3, <2>4
<1>7. CASE Disarm
  <2>1. TypeOK'
    BY <1>7 DEF Disarm, Exit
  <2>2. RecordedInv'
    BY <1>7 DEF Disarm, Exit
  <2>3. StoppedInv'
    BY <1>7 DEF Disarm, Exit
  <2>4. TimeInv'
    BY <1>7 DEF Disarm, Exit
  <2> QED
    BY <2>1, <2>2, <2>3, <2>4
<1>8. CASE Mark
  <2>1. TypeOK'
    BY <1>8 DEF Mark
  <2>2. RecordedInv'
    BY <1>8 DEF Mark
  <2>3. StoppedInv'
    BY <1>8 DEF Mark
  <2>4. TimeInv'
    BY <1>8 DEF Mark
  <2> QED
    BY <2>1, <2>2, <2>3, <2>4
<1>9. CASE Leave
  <2>1. TypeOK'
    BY <1>9 DEF Leave, Exit
  <2>2. RecordedInv'
    BY <1>9 DEF Leave, Exit
  <2>3. StoppedInv'
    BY <1>9 DEF Leave, Exit
  <2>4. TimeInv'
    BY <1>9 DEF Leave, Exit
  <2> QED
    BY <2>1, <2>2, <2>3, <2>4
<1>10. CASE StartCommit
  <2>1. TypeOK'
    BY <1>10 DEF StartCommit
  <2>2. RecordedInv'
    BY <1>10 DEF StartCommit
  <2>3. StoppedInv'
    BY <1>10 DEF StartCommit
  <2>4. TimeInv'
    BY <1>10 DEF StartCommit
  <2> QED
    BY <2>1, <2>2, <2>3, <2>4
<1>11. CASE CheckProcess
  <2>1. TypeOK'
    BY <1>11 DEF CheckProcess
  <2>2. RecordedInv'
    BY <1>11 DEF CheckProcess
  <2>3. StoppedInv'
    BY <1>11 DEF CheckProcess
  <2>4. TimeInv'
    BY <1>11 DEF CheckProcess
  <2> QED
    BY <2>1, <2>2, <2>3, <2>4
<1>12. CASE Record
  <2>1. TypeOK'
    BY <1>12 DEF Record
  <2>2. RecordedInv'
    BY <1>12 DEF Record
  <2>3. StoppedInv'
    BY <1>12 DEF Record
  <2>4. TimeInv'
    BY <1>12 DEF Record
  <2> QED
    BY <2>1, <2>2, <2>3, <2>4
<1>13. CASE Touch
  <2>1. TypeOK'
    BY <1>13 DEF Touch
  <2>2. RecordedInv'
    BY <1>13 DEF Touch
  <2>3. StoppedInv'
    BY <1>13 DEF Touch
  <2>4. TimeInv'
    BY <1>13 DEF Touch
  <2> QED
    BY <2>1, <2>2, <2>3, <2>4
<1>14. CASE WaitEnds
  <2>1. TypeOK'
    BY <1>14 DEF WaitEnds
  <2>2. RecordedInv'
    BY <1>14 DEF WaitEnds
  <2>3. StoppedInv'
    BY <1>14 DEF WaitEnds
  <2>4. TimeInv'
    BY <1>14 DEF WaitEnds
  <2> QED
    BY <2>1, <2>2, <2>3, <2>4
<1>15. CASE Verdict
  <2>1. TypeOK'
    BY <1>15 DEF Verdict
  <2>2. RecordedInv'
    BY <1>15 DEF Verdict
  <2>3. StoppedInv'
    BY <1>15 DEF Verdict
  <2>4. TimeInv'
    BY <1>15 DEF Verdict
  <2> QED
    BY <2>1, <2>2, <2>3, <2>4
<1>16. CASE Withdraw
  <2>1. TypeOK'
    BY <1>16 DEF Withdraw
  <2>2. RecordedInv'
    BY <1>16 DEF Withdraw
  <2>3. StoppedInv'
    BY <1>16 DEF Withdraw
  <2>4. TimeInv'
    BY <1>16 DEF Withdraw
  <2> QED
    BY <2>1, <2>2, <2>3, <2>4
<1>17. CASE Tick
  <2>1. TypeOK'
    BY <1>17 DEF Tick, Busy, LauncherLate
  <2>2. RecordedInv'
    BY <1>17 DEF Tick, Busy, LauncherLate
  <2>3. StoppedInv'
    BY <1>17 DEF Tick, Busy, LauncherLate
  <2>4. TimeInv'
    BY <1>17 DEF Tick, Busy, LauncherLate
  <2> QED
    BY <2>1, <2>2, <2>3, <2>4
<1>18. CASE UNCHANGED vars
  BY <1>18 DEF vars
<1> QED
  BY <1>1, <1>2, <1>3, <1>4, <1>5, <1>6, <1>7, <1>8, <1>9, <1>10, <1>11, <1>12, <1>13, <1>14, <1>15, <1>16, <1>17, <1>18
  DEF Next, ChildNext, CommitNext

-----------------------------------------------------------------------------
\* The invariant holds throughout every boot.
THEOREM WatchdogInvariant == Spec => []WatchdogInv
<1> QED
  BY InitInv, StepKeepsInv, PTL DEF Spec

\* The timer, the markers and the two processes stay within their types.
THEOREM BootTypeCorrect == Spec => []TypeOK
<1>1. WatchdogInv => TypeOK
  BY DEF WatchdogInv
<1> QED
  BY <1>1, WatchdogInvariant, PTL

\* A boot that hangs, dies or stays sick is reset within one timeout of the
\* health deadline, unless the timer was stopped.
THEOREM BootIsReset == Spec => []ResetInTime
<1>1. WatchdogInv => ResetInTime
  BY TimesAssumption
  DEF WatchdogInv, TypeOK, TimeInv, ResetInTime, LaunchedAt, Off
<1> QED
  BY <1>1, WatchdogInvariant, PTL

\* The watchdog process stops the timer only after commit() has recorded the
\* health of a boot that stage 1 completed.
THEOREM TimerStopsRecorded == Spec => []DisarmedWhenRecorded
<1>1. WatchdogInv => DisarmedWhenRecorded
  BY DEF WatchdogInv, StoppedInv, DisarmedWhenRecorded
<1> QED
  BY <1>1, WatchdogInvariant, PTL

\* commit() returns only once nothing can reset the boot any more.
THEOREM CommitIsSafe == Spec => []DecidedIsSafe
<1>1. WatchdogInv => DecidedIsSafe
  BY DEF WatchdogInv, StoppedInv, DecidedIsSafe
<1> QED
  BY <1>1, WatchdogInvariant, PTL
=============================================================================
