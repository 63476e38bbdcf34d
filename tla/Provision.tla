------------------------------ MODULE Provision ------------------------------
(***************************************************************************)
(* The life of a board's identity: factory flashes that may be cut short   *)
(* and repeated, partition tables put back, boots, commands of the         *)
(* operator, power cuts and failing writes. Counters bound the faults and  *)
(* the operator.                                                           *)
(***************************************************************************)
EXTENDS FactoryFlash, Identity

CONSTANTS MaxFaults, MaxOps

ASSUME BoundAssumption == MaxFaults \in Nat /\ MaxOps \in Nat

VARIABLES
  power,     \* "off", "edl", "boot" (stage 1) or "on"
  budget,    \* [faults, ops]: spent so far
  lost       \* history: what no flash or start repairs: the key was damaged, or
             \* an mkfs did not finish

vars == <<diskVars, flashVars, identityVars, power, budget, lost>>

\* A blank board, one with an earlier layout and its data in the region, or one
\* whose tables are elsewhere; chunks of an earlier build may lie on the host.
Init ==
  /\ \/ disk = [b \in Others |-> "zero"] /\ region = Blank
     \/ /\ disk \in {[b \in Others |-> IF b = 1 THEN t ELSE "data"] : t \in {"old", "moved"}}
        /\ region \in {Blank, Junk}
  /\ host = HostIdle /\ prepared \in {"none", "stale"}
  /\ RuntimeIdle /\ given = NoKey
  /\ power = "off" /\ budget = [faults |-> 0, ops |-> 0] /\ lost = FALSE

Fault ==
  /\ budget.faults < MaxFaults
  /\ budget' = [budget EXCEPT !.faults = @ + 1]
Op ==
  /\ budget.ops < MaxOps
  /\ budget' = [budget EXCEPT !.ops = @ + 1]

-----------------------------------------------------------------------------
\* The board starts what the table leads to.
Boots == disk[1] \in {"os", "old"}
PowerOn ==
  /\ power = "off" /\ Boots
  /\ power' = "boot"
  /\ \E p \in Procs :
       proc' = [proc EXCEPT ![p] = [kind |-> "initialize", pc |-> "lock", ok |-> FALSE]]
  /\ UNCHANGED <<diskVars, flashVars, mount, ready, lock, openpilot, given, budget, lost>>

\* Stage 1 goes on when initialize has ended, well or not.
Stage2 ==
  /\ power = "boot" /\ \A p \in Procs : At(p, "idle")
  /\ power' = "on"
  /\ UNCHANGED <<diskVars, flashVars, identityVars, budget, lost>>

EnterEdl ==
  /\ power = "off"
  /\ power' = "edl"
  /\ UNCHANGED <<diskVars, flashVars, identityVars, budget, lost>>

\* A restart, or a power cut in any state but a flash.
Cut ==
  /\ power \in {"boot", "on"}
  /\ Formatting => budget.faults < MaxFaults
  /\ budget' = [budget EXCEPT !.faults = IF Formatting THEN @ + 1 ELSE @]
  /\ region' \in Unformatted
  /\ lost' = (lost \/ region' = Junk)
  /\ RuntimeLost
  /\ power' = "off"
  /\ UNCHANGED <<disk, flashVars, given>>

Commands(p) ==
  /\ power \in {"boot", "on"}
  /\ Steps(p)
  /\ UNCHANGED <<flashVars, power, budget, lost>>

Operates(p) ==
  /\ power = "on"
  /\ Op
  /\ \E kind \in Kinds : Begin(p, kind)
  /\ UNCHANGED <<flashVars, power, lost>>

Disturbs(p) ==
  /\ Fault
  /\ \/ WriteFails(p) /\ UNCHANGED lost
     \/ Killed(p) /\ lost' = (lost \/ region' = Junk)
     \/ BadFile(p) /\ UNCHANGED lost
  /\ UNCHANGED <<flashVars, power>>

OpenpilotService ==
  /\ power = "on"
  /\ OpenpilotStarts \/ OpenpilotStops
  /\ UNCHANGED <<flashVars, power, budget, lost>>

-----------------------------------------------------------------------------
Flash ==
  /\ power = "edl"
  /\ \/ Op /\ (PrepareCut \/ \E m \in Manifests : FlashStart(m))
     \/ (FlashGpt \/ FlashRegion \/ FlashOperation) /\ UNCHANGED budget
  /\ UNCHANGED <<identityVars, power, lost>>

FlashEnds ==
  /\ power = "edl"
  /\ \/ FlashReset /\ UNCHANGED budget
     \/ FlashAbort /\ Fault
     \/ ~Flashing /\ UNCHANGED <<flashVars, diskVars, budget>>
  /\ power' = "off"
  /\ UNCHANGED <<identityVars, lost>>

\* An earlier table is put back with another tool.
RestoreGpt ==
  /\ power = "edl" /\ ~Flashing
  /\ Op
  /\ disk' = [disk EXCEPT ![1] = "old"]
  /\ UNCHANGED <<region, flashVars, identityVars, power, lost>>

\* The medium loses the key of a provisioned board.
Rots ==
  /\ power = "off" /\ Held /\ region.marker
  /\ Fault
  /\ \E key \in {NoKey, Damaged} : region' = [region EXCEPT !.key = key]
  /\ lost' = TRUE
  /\ UNCHANGED <<disk, flashVars, identityVars, power>>

Next ==
  \/ PowerOn \/ Stage2 \/ EnterEdl \/ Cut
  \/ \E p \in Procs : Commands(p) \/ Operates(p) \/ Disturbs(p)
  \/ OpenpilotService \/ Flash \/ FlashEnds \/ RestoreGpt \/ Rots

\* The commands run on, and stage 1 and runit do.
Fairness ==
  /\ \A p \in Procs : WF_vars(Commands(p))
  /\ WF_vars(Stage2)

Spec == Init /\ [][Next]_vars /\ Fairness

-----------------------------------------------------------------------------
TypeOK ==
  /\ DOMAIN disk = Others
  /\ region \in [fs : {"blank", "junk", "identity"},
                 key : Ids \cup {NoKey, Damaged}, marker : BOOLEAN]
  /\ host \in [pc : {"idle", "gpt", "region", "run"}, m : Manifests, at : Nat]
  /\ prepared \in {"none", "stale", "good"}
  /\ mount \in {"none", "ro", "rw"} /\ ready \in BOOLEAN
  /\ lock \in Procs \cup {NoProc}
  /\ proc \in [Procs -> [kind : Kinds, ok : BOOLEAN,
                 pc : {"idle", "lock", "mount", "mkfs", "choose", "key", "marker",
                       "ro", "touch"}]]
  /\ openpilot \in [runs : BOOLEAN, key : Ids \cup {NoKey, Damaged}, raced : BOOLEAN]
  /\ given \in Ids \cup {NoKey}
  /\ power \in {"off", "edl", "boot", "on"}
  /\ budget \in [faults : Nat, ops : Nat]
  /\ lost \in BOOLEAN

\* A board that was given an identity keeps it: through flashes that are cut and
\* repeated, tables put back, cuts during a command and a key that is damaged,
\* its region holds that identity or none, and only replace gives it another.
SameIdentity ==
  given # NoKey => region.fs = "identity" /\ region.key \in {given, NoKey, Damaged}

\* READY, which starts openpilot, is there only while /persist is mounted read
\* only with a key that passes its checks and the marker, whatever commands run,
\* fail or are killed.
ReadyMeansProvisioned == ready => mount = "ro" /\ Held /\ region.marker

\* openpilot does not run on an identity that was replaced under it, unless it
\* started between the check of a replacement and the removal of READY, which
\* the lock does not cover.
OneIdentity == openpilot.runs /\ ~openpilot.raced => openpilot.key = region.key

\* When a flash is about to reset the board, the disk holds the manifest's image
\* in every block, whatever was cut before and whatever lay on the host, and the
\* region is one the next start can use unless it was lost before.
FlashComplete ==
  Done =>
    /\ \A b \in Others : disk[b] = Image(host.m)[b]
    /\ lost \/ region.fs # "junk"

\* A board with this layout whose region was not lost becomes ready at every
\* start, also after cuts and failures of earlier starts, if nothing fails and
\* the power stays.
Starting == power = "boot" /\ \E p \in Procs : At(p, "lock")
Sound == disk[1] = "os" /\ region.fs # "junk" /\ ~lost
BootReadies ==
  \A n \in 0 .. MaxFaults :
    Starting /\ Sound /\ budget.faults = n
      ~> ready \/ power = "off" \/ budget.faults # n
=============================================================================
