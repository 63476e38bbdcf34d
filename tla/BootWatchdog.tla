---------------------------- MODULE BootWatchdog ----------------------------
(***************************************************************************)
(* One boot under the hardware watchdog, in seconds: the launcher of runit *)
(* stage 1 (start_watchdog), the watchdog process (watchdog) and the       *)
(* commit service (commit), which talk through markers in /run.            *)
(*                                                                         *)
(* Time passes only when no process is due: a process acts within the      *)
(* second in which its sleep ends, and processes that are due in the same  *)
(* second act in any order.                                                *)
(***************************************************************************)
EXTENDS Integers

CONSTANTS
  OpenTimeout,     \* watchdog.open_timeout: the kernel services the timer so long
  Timeout,         \* WATCHDOG_TIMEOUT
  StartDeadline,   \* WATCHDOG_START_DEADLINE
  HealthDeadline,  \* BOOT_HEALTH_DEADLINE
  StopDeadline,    \* WATCHDOG_STOP_DEADLINE
  Poll             \* the sleep of the watchdog process

ASSUME TimesAssumption ==
  /\ {OpenTimeout, Timeout, StartDeadline, HealthDeadline, StopDeadline, Poll}
       \subseteq Nat \ {0}
  /\ Poll < Timeout
ASSUME DeadlinesAssumption ==
  /\ StartDeadline <= HealthDeadline
  /\ OpenTimeout <= HealthDeadline + Timeout

VARIABLES
  board,    \* [now, timer]: the second of this boot, and what the hardware
            \* timer has left: stopped at Off, and at 0 the board is reset
  marker,   \* the markers in /run that exist
  stage1,   \* the launcher: "boot", "wait", "done", or "failed"
  child,    \* the watchdog process: pc, the second it is due, its deadline
  commit    \* the commit service: pc, and the second its wait ends

vars == <<board, marker, stage1, child, commit>>

Off == -1
Never == -1
Markers == {"ready", "pid", "healthy", "disarmed", "stage1", "recorded"}

ChildSteps == {"none", "open", "setup", "loop", "disarm", "mark", "leave",
               "expired", "gone"}
CommitSteps == {"idle", "pid", "record", "touch", "wait", "verdict",
                "decided", "withdraw", "failed", "down"}

TypeOK ==
  /\ board \in [now : Nat, timer : Nat \cup {Off}]
  /\ marker \subseteq Markers
  /\ stage1 \in {"boot", "wait", "done", "failed"}
  /\ child \in [pc : ChildSteps, due : Nat, end : Nat]
  /\ commit \in [pc : CommitSteps, end : Nat]

Init ==
  /\ board = [now |-> 0, timer |-> OpenTimeout]
  /\ marker = {}
  /\ stage1 = "boot"
  /\ child = [pc |-> "none", due |-> 0, end |-> 0]
  /\ commit = [pc |-> "idle", end |-> 0]

Up == board.timer # 0 /\ stage1 # "failed"
Due(pc) == Up /\ child.pc = pc /\ board.now >= child.due
Serve(t) == board' = [board EXCEPT !.timer = t]

-----------------------------------------------------------------------------
\* start_watchdog clears the markers and starts the process.
Launch ==
  /\ Up /\ stage1 = "boot"
  /\ stage1' = "wait"
  /\ child' = [pc |-> "open", due |-> board.now, end |-> board.now + HealthDeadline]
  /\ UNCHANGED <<board, marker, commit>>

LaunchedAt == child.end - HealthDeadline
LauncherLate == board.now >= LaunchedAt + StartDeadline

\* Stage 1 goes on once the process is ready; a process that is gone or late
\* ends the boot (reboot -f).
Launched ==
  /\ Up /\ stage1 = "wait"
  /\ \/ "ready" \in marker /\ child.pc # "gone" /\ stage1' = "done"
     \/ child.pc = "gone" /\ stage1' = "failed"
     \/ "ready" \notin marker /\ LauncherLate /\ stage1' = "failed"
  /\ UNCHANGED <<board, marker, child, commit>>

\* The rest of stage 1 takes any time.
Stage1Complete ==
  /\ Up /\ stage1 = "done" /\ "stage1" \notin marker
  /\ marker' = marker \cup {"stage1"}
  /\ UNCHANGED <<board, stage1, child, commit>>

-----------------------------------------------------------------------------
\* The finally clause: the descriptor is closed, which stops the timer only
\* after a "V", and the process leaves.
Exit ==
  /\ child' = [child EXCEPT !.pc = "gone"]
  /\ marker' = marker \ {"ready", "pid"}

\* The device may not be there yet: try again within the second, until the
\* start deadline.
OpenDevice ==
  /\ Due("open")
  /\ \/ child' = [child EXCEPT !.pc = "setup"] /\ Serve(Timeout) /\ UNCHANGED marker
     \/ /\ ~LauncherLate
        /\ child' = [child EXCEPT !.due = board.now + 1]
        /\ UNCHANGED <<board, marker>>
     \/ LauncherLate /\ Exit /\ UNCHANGED board
  /\ UNCHANGED <<stage1, commit>>

Setup ==
  /\ Due("setup")
  /\ \/ /\ marker' = marker \cup {"ready", "pid"}
        /\ child' = [child EXCEPT !.pc = "loop"]
     \/ Exit
  /\ UNCHANGED <<board, stage1, commit>>

\* Broken variant: the deadline is not looked at.
LoopForever ==
  /\ Due("loop")
  /\ \/ /\ "healthy" \in marker
        /\ child' = [child EXCEPT !.pc = "disarm"]
        /\ UNCHANGED <<board, marker>>
     \/ /\ "healthy" \notin marker
        /\ Serve(Timeout)
        /\ child' = [child EXCEPT !.due = board.now + Poll]
        /\ UNCHANGED marker
  /\ UNCHANGED <<stage1, commit>>

\* Broken variant: at the deadline the timer is stopped like after a healthy boot.
LoopCloses ==
  /\ Due("loop")
  /\ \/ /\ "healthy" \in marker \/ board.now >= child.end
        /\ child' = [child EXCEPT !.pc = "disarm"]
        /\ UNCHANGED board
     \/ /\ "healthy" \notin marker /\ board.now < child.end
        /\ Serve(Timeout)
        /\ child' = [child EXCEPT !.due = board.now + Poll]
  /\ UNCHANGED <<marker, stage1, commit>>

\* Look for the health marker, give up at the deadline, or service the timer
\* and sleep.  A write that fails ends the process with the timer running.
Loop ==
  /\ Due("loop")
  /\ \/ /\ "healthy" \in marker
        /\ child' = [child EXCEPT !.pc = "disarm"]
        /\ UNCHANGED <<board, marker>>
     \/ /\ "healthy" \notin marker /\ board.now >= child.end
        /\ child' = [child EXCEPT !.pc = "expired"]
        /\ UNCHANGED <<board, marker>>
     \/ /\ "healthy" \notin marker /\ board.now < child.end
        /\ \/ /\ Serve(Timeout)
              /\ child' = [child EXCEPT !.due = board.now + Poll]
              /\ UNCHANGED marker
           \/ Exit /\ UNCHANGED board
  /\ UNCHANGED <<stage1, commit>>

Disarm ==
  /\ Due("disarm")
  /\ \/ Serve(Off) /\ child' = [child EXCEPT !.pc = "mark"] /\ UNCHANGED marker
     \/ Exit /\ UNCHANGED board
  /\ UNCHANGED <<stage1, commit>>

Mark ==
  /\ Due("mark")
  /\ marker' = marker \cup {"disarmed"}
  /\ child' = [child EXCEPT !.pc = "leave"]
  /\ UNCHANGED <<board, stage1, commit>>

Leave == Due("leave") /\ Exit /\ UNCHANGED <<board, stage1, commit>>

-----------------------------------------------------------------------------
\* The commit service.  Without the ready marker it takes itself down.
CommitGo(pc) == commit' = [commit EXCEPT !.pc = pc]
CommitAt(pc) == Up /\ commit.pc = pc

StartCommit ==
  /\ CommitAt("idle") /\ "stage1" \in marker
  /\ CommitGo(IF "ready" \in marker THEN "pid" ELSE "down")
  /\ UNCHANGED <<board, marker, stage1, child>>

\* The other checks pass or raise; the watchdog process must be alive.
CheckProcess ==
  /\ CommitAt("pid")
  /\ \/ "pid" \in marker /\ child.pc # "gone" /\ CommitGo("record")
     \/ CommitGo("failed")
  /\ UNCHANGED <<board, marker, stage1, child>>

\* Broken variant: the health marker is there before health is on record.
RecordLater ==
  /\ CommitAt("record")
  /\ marker' = marker \cup {"healthy"}
  /\ CommitGo("touch")
  /\ UNCHANGED <<board, stage1, child>>

\* bootdiag.diagnose("healthy").
Record ==
  /\ CommitAt("record")
  /\ \/ marker' = marker \cup {"recorded"} /\ CommitGo("touch")
     \/ CommitGo("failed") /\ UNCHANGED marker
  /\ UNCHANGED <<board, stage1, child>>

Touch ==
  /\ CommitAt("touch")
  /\ marker' = marker \cup {"healthy"}
  /\ commit' = [pc |-> "wait", end |-> board.now + StopDeadline]
  /\ UNCHANGED <<board, stage1, child>>

WaitEnds ==
  /\ CommitAt("wait")
  /\ "disarmed" \in marker \/ board.now >= commit.end
  /\ CommitGo("verdict")
  /\ UNCHANGED <<board, marker, stage1, child>>

\* Broken variant: the wait is taken for an answer.
VerdictUnseen ==
  /\ CommitAt("verdict")
  /\ CommitGo("decided")
  /\ UNCHANGED <<board, marker, stage1, child>>

Verdict ==
  /\ CommitAt("verdict")
  /\ CommitGo(IF "disarmed" \in marker THEN "decided" ELSE "withdraw")
  /\ UNCHANGED <<board, marker, stage1, child>>

Withdraw ==
  /\ CommitAt("withdraw")
  /\ marker' = marker \ {"healthy"}
  /\ CommitGo("failed")
  /\ UNCHANGED <<board, stage1, child>>

-----------------------------------------------------------------------------
\* Someone who does not sleep has something to do in this second.
Busy ==
  \/ child.pc \notin {"none", "expired", "gone"} /\ board.now >= child.due
  \/ stage1 = "wait" /\
       ("ready" \in marker \/ child.pc = "gone" \/ LauncherLate)
  \/ commit.pc \in {"pid", "touch", "verdict", "withdraw"}
  \/ commit.pc = "wait" /\ ("disarmed" \in marker \/ board.now >= commit.end)

\* A second passes.  Once the timer is stopped time no longer matters, except
\* to a commit that waits.
Tick ==
  /\ Up /\ ~Busy
  /\ board.timer # Off \/ commit.pc = "wait"
  /\ board' = [now |-> board.now + 1,
               timer |-> IF board.timer = Off THEN Off ELSE board.timer - 1]
  /\ UNCHANGED <<marker, stage1, child, commit>>

ChildNext == OpenDevice \/ Setup \/ Loop \/ Disarm \/ Mark \/ Leave
CommitNext == CheckProcess \/ Record \/ Touch \/ WaitEnds \/ Verdict \/ Withdraw
Next ==
  \/ Launch \/ Launched \/ Stage1Complete
  \/ ChildNext \/ StartCommit \/ CommitNext \/ Tick

Spec == Init /\ [][Next]_vars
FairSpec ==
  Spec /\ WF_vars(Launched) /\ WF_vars(ChildNext) /\ WF_vars(CommitNext) /\ WF_vars(Tick)

-----------------------------------------------------------------------------
Reset == board.timer = 0 \/ stage1 = "failed"

\* While the timer runs the board is reset no later than one timeout after the
\* health deadline, whatever hangs or dies (BOOT_HEALTH_DEADLINE, boot.py).
ResetInTime ==
  board.timer # Off =>
    board.now <= (IF child.pc = "none" THEN OpenTimeout
                  ELSE LaunchedAt + HealthDeadline + Timeout)

\* The timer is stopped only when health is on record ("Keep the timer armed
\* while persisting health", boot.py), and by a process that the launcher waited
\* for.
DisarmedWhenRecorded ==
  board.timer = Off => "recorded" \in marker /\ stage1 = "done"

\* A boot that was declared healthy is never reset by the timer.
DecidedIsSafe == commit.pc = "decided" => board.timer = Off

\* A health check that has failed is followed by a reset ("waiting for watchdog
\* reset", vamos-boot-commit).  The code does not guarantee it (see the README).
FailedIsReset == commit.pc = "failed" ~> Reset

\* Every boot that has got as far as the watchdog process is decided or reset,
\* or its commit has failed.
BootDecides ==
  stage1 = "wait" ~> Reset \/ commit.pc \in {"decided", "failed"}
=============================================================================
