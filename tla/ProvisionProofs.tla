--------------------------- MODULE ProvisionProofs ---------------------------
(***************************************************************************)
(* What a board was given as its identity it keeps, and READY stands for a *)
(* sound one, for every number of commands, identities, operations, faults *)
(* and blocks. The host checks that no operation of a flash touches the    *)
(* region; the lock makes the steps of one command undisturbed; and READY  *)
(* is removed before the first of them that changes anything. The last     *)
(* operation of a manifest on each block writes what the image has there,  *)
(* so that a flash that ends has written the image.                        *)
(***************************************************************************)
EXTENDS Provision, FiniteSetTheorems, SequenceTheorems, WellFoundedInduction, TLAPS

\* A region without an identity file system holds no identity, and one that
\* was given an identity still has its marker and, unless damaged, its key.
RegionInv ==
  /\ region.fs # "identity" => region.key = NoKey /\ ~region.marker
  /\ given # NoKey => /\ region.fs = "identity" /\ region.marker
                      /\ region.key \in {given, NoKey, Damaged}

\* The host writes only to a board in EDL, the region only when it holds no
\* identity, and nothing runs on a board that is not started.
HostInv ==
  /\ Flashing => power = "edl" /\ AvoidsPersist(host.m)
  /\ host.pc = "region" => region.fs # "identity"
  /\ power \in {"off", "edl"} =>
       /\ mount = "none" /\ ~ready /\ ~openpilot.runs
       /\ \A p \in Procs : proc[p].pc = "idle"

\* Only the holder of the lock is past it, and only on a mounted file system.
LockInv ==
  /\ mount # "none" => region.fs = "identity"
  /\ \A p \in Procs :
       /\ proc[p].pc \notin {"idle", "lock"} => lock = p
       /\ proc[p].pc = "mkfs" => mount = "none" /\ region.fs = "blank"
       /\ proc[p].pc \in {"choose", "key", "marker", "ro", "touch"} => mount # "none"

\* READY is gone while anything changes, and comes back for a sound identity.
ReadyInv ==
  /\ ready => mount = "ro" /\ Held /\ region.marker
  /\ \A p \in Procs :
       /\ proc[p].pc \in {"key", "marker", "ro", "touch"} => ~ready
       /\ proc[p].pc = "marker" => Held
       /\ proc[p].pc \in {"lock", "mount", "mkfs", "choose", "key", "marker"} => ~proc[p].ok
       /\ proc[p].pc \in {"ro", "touch"} /\ proc[p].ok => Held /\ region.marker
       /\ proc[p].pc = "touch" => proc[p].ok /\ mount = "ro"

\* openpilot runs on a sound identity, and no replacement is under way unless
\* it had been checked before.
OpenpilotInv ==
  /\ openpilot.runs => Held /\ region.marker
  /\ openpilot.runs /\ ~openpilot.raced =>
       /\ openpilot.key = region.key
       /\ \A p \in Procs : proc[p].kind = "replace" => proc[p].pc = "idle"

\* A command runs undisturbed.
Running == power \in {"boot", "on"} /\ UNCHANGED <<flashVars, power, budget, lost>>

ProvisionInv == TypeOK /\ RegionInv /\ HostInv /\ LockInv /\ ReadyInv /\ OpenpilotInv

-----------------------------------------------------------------------------
RegionOK == region \in [fs : {"blank", "junk", "identity"},
                        key : Ids \cup {NoKey, Damaged}, marker : BOOLEAN]
HostOK == host \in [pc : {"idle", "gpt", "region", "run"}, m : Manifests, at : Nat]
ProcOK == proc \in [Procs -> [kind : Kinds, ok : BOOLEAN,
                    pc : {"idle", "lock", "mount", "mkfs", "choose", "key", "marker",
                          "ro", "touch"}]]
ServiceOK == openpilot \in [runs : BOOLEAN, key : Ids \cup {NoKey, Damaged}, raced : BOOLEAN]
BudgetOK == budget \in [faults : Nat, ops : Nat]
OtherOK ==
  /\ DOMAIN disk = Others /\ prepared \in {"none", "stale", "good"}
  /\ mount \in {"none", "ro", "rw"} /\ ready \in BOOLEAN
  /\ lock \in Procs \cup {NoProc} /\ given \in Ids \cup {NoKey}
  /\ power \in {"off", "edl", "boot", "on"} /\ lost \in BOOLEAN

\* The type invariant, one conjunct per part of the state.
LEMMA TypeParts ==
  TypeOK <=> RegionOK /\ HostOK /\ ProcOK /\ ServiceOK /\ BudgetOK /\ OtherOK
BY DEF TypeOK, RegionOK, HostOK, ProcOK, ServiceOK, BudgetOK, OtherOK

LEMMA RegionsOK ==
  /\ Blank \in [fs : {"blank", "junk", "identity"}, key : Ids \cup {NoKey, Damaged},
    marker : BOOLEAN]
  /\ Junk \in [fs : {"blank", "junk", "identity"}, key : Ids \cup {NoKey, Damaged},
    marker : BOOLEAN]
BY DEF Blank, Junk, Region

LEMMA ExitOK ==
  ASSUME NEW p \in Procs, ProcOK, Exit(p)
  PROVE  ProcOK' /\ lock' = NoProc
<1>1. Idle \in [kind : Kinds, ok : BOOLEAN,
                pc : {"idle", "lock", "mount", "mkfs", "choose", "key", "marker", "ro",
                  "touch"}]
  BY DEF Idle, Kinds
<1> QED
  BY <1>1 DEF Exit, ProcOK

LEMMA InitInv == Init => ProvisionInv
<1> SUFFICES ASSUME Init PROVE ProvisionInv
  OBVIOUS
<1>1. RegionOK /\ HostOK /\ BudgetOK
  BY RegionsOK DEF Init, RegionOK, HostOK, HostIdle, Manifests, BudgetOK
<1>2. ProcOK /\ ServiceOK
  BY DEF Init, RuntimeIdle, Idle, Stopped, ProcOK, Kinds, ServiceOK
<1>3. OtherOK
  BY DEF Init, RuntimeIdle, OtherOK
<1>4. TypeOK
  BY <1>1, <1>2, <1>3, TypeParts
<1> QED
  BY <1>4
  DEF Init, ProvisionInv, RegionInv, HostInv, LockInv, ReadyInv, OpenpilotInv, RuntimeIdle,
      HostIdle, Flashing, Idle, Stopped, Blank, Junk, Region

LEMMA StepKeepsType ==
  ASSUME ProvisionInv, [Next]_vars
  PROVE  TypeOK'
<1> USE IdentityAssumption, BoundAssumption
  DEF Running, ProvisionInv, diskVars, flashVars, identityVars, RegionInv, HostInv, LockInv,
    ReadyInv, Kinds, Damaged, NoKey, NoProc, Held
<1>0. RegionOK /\ HostOK /\ ProcOK /\ ServiceOK /\ BudgetOK /\ OtherOK
  BY TypeParts
<1>1. ASSUME NEW p \in Procs, Lock(p), Running PROVE TypeOK'
  BY <1>1 DEF TypeOK, Lock, Go, At
<1>2. ASSUME NEW p \in Procs, MountIdentity(p), Running PROVE TypeOK'
  <2>1. RegionOK'
    BY <1>2, <1>0 DEF RegionOK, MountIdentity, Go, At
  <2>2. ProcOK'
    BY <1>2, <1>0, ExitOK DEF ProcOK, MountIdentity, Go, At
  <2>3. HostOK' /\ BudgetOK' /\ ServiceOK'
    BY <1>2, <1>0 DEF HostOK, BudgetOK, ServiceOK, RegionOK, MountIdentity, Go, At
  <2>4. OtherOK'
    BY <1>2, <1>0, <2>1, ExitOK DEF OtherOK, RegionOK, MountIdentity, Go, At
  <2> QED
    BY <2>1, <2>2, <2>3, <2>4
    DEF TypeOK, RegionOK, HostOK, ProcOK, ServiceOK, BudgetOK, OtherOK
<1>3. ASSUME NEW p \in Procs, Mkfs(p), Running PROVE TypeOK'
  BY <1>3 DEF TypeOK, Mkfs, Go, At, Fresh, Region
<1>4. ASSUME NEW p \in Procs, Choose(p), Running PROVE TypeOK'
  <2>1. RegionOK'
    BY <1>4, <1>0 DEF RegionOK, Choose, NotReady, Go, At
  <2>2. ProcOK'
    BY <1>4, <1>0, ExitOK DEF ProcOK, Choose, NotReady, Go, At
  <2>3. HostOK' /\ BudgetOK' /\ ServiceOK'
    BY <1>4, <1>0 DEF HostOK, BudgetOK, ServiceOK, RegionOK, Choose, NotReady, Go, At
  <2>4. OtherOK'
    BY <1>4, <1>0, <2>1, ExitOK DEF OtherOK, RegionOK, Choose, NotReady, Go, At
  <2> QED
    BY <2>1, <2>2, <2>3, <2>4
    DEF TypeOK, RegionOK, HostOK, ProcOK, ServiceOK, BudgetOK, OtherOK
<1>5. ASSUME NEW p \in Procs, Provision(p), Running PROVE TypeOK'
  BY <1>5 DEF TypeOK, Provision, Candidates, WriteKey, Go, At
<1>6. ASSUME NEW p \in Procs, ProvisionMarker(p), Running PROVE TypeOK'
  BY <1>6 DEF TypeOK, ProvisionMarker, WriteMarker, At
<1>7. ASSUME NEW p \in Procs, Remount(p), Running PROVE TypeOK'
  <2>1. RegionOK'
    BY <1>7, <1>0 DEF RegionOK, Remount, Go, At
  <2>2. ProcOK'
    BY <1>7, <1>0, ExitOK DEF ProcOK, Remount, Go, At
  <2>3. HostOK' /\ BudgetOK' /\ ServiceOK'
    BY <1>7, <1>0 DEF HostOK, BudgetOK, ServiceOK, RegionOK, Remount, Go, At
  <2>4. OtherOK'
    BY <1>7, <1>0, <2>1, ExitOK DEF OtherOK, RegionOK, Remount, Go, At
  <2> QED
    BY <2>1, <2>2, <2>3, <2>4
    DEF TypeOK, RegionOK, HostOK, ProcOK, ServiceOK, BudgetOK, OtherOK
<1>8. ASSUME NEW p \in Procs, Touch(p), Running PROVE TypeOK'
  BY <1>8 DEF TypeOK, Touch, Exit, Idle, At
<1>9. ASSUME NEW p \in Procs, Operates(p) PROVE TypeOK'
  BY <1>9 DEF TypeOK, Operates, Op, Begin, At
<1>10. ASSUME NEW p \in Procs, WriteFails(p), Fault, UNCHANGED <<flashVars, power,
      lost>> PROVE TypeOK'
  <2>1. RegionOK'
    BY <1>10, <1>0, ZenonT(60) DEF RegionOK, WriteFails, Fault, Candidates, WriteKey, WriteMarker, At
  <2>2. ProcOK'
    BY <1>10, <1>0, ExitOK, ZenonT(60) DEF ProcOK, WriteFails, Fault, Candidates, WriteKey, WriteMarker, At
  <2>3. HostOK' /\ BudgetOK' /\ ServiceOK'
    BY <1>10, <1>0
    DEF HostOK, BudgetOK, ServiceOK, RegionOK, WriteFails, Fault, Candidates, WriteKey,
        WriteMarker, At
  <2>4. OtherOK'
    BY <1>10, <1>0, <2>1, ExitOK
    DEF OtherOK, RegionOK, WriteFails, Fault, Candidates, WriteKey, WriteMarker, At
  <2> QED
    BY <2>1, <2>2, <2>3, <2>4
    DEF TypeOK, RegionOK, HostOK, ProcOK, ServiceOK, BudgetOK, OtherOK
<1>11. ASSUME NEW p \in Procs, Killed(p), Fault, lost' = (lost \/ region' = Junk),
      UNCHANGED <<flashVars, power>> PROVE TypeOK'
  <2>1. RegionOK'
    BY <1>11, <1>0, RegionsOK DEF RegionOK, Killed, Fault, Unformatted, Formatting
  <2>2. ProcOK'
    BY <1>11, <1>0, ExitOK DEF ProcOK, Killed, Fault, Unformatted, Formatting
  <2>3. HostOK' /\ BudgetOK' /\ ServiceOK'
    BY <1>11, <1>0
    DEF HostOK, BudgetOK, ServiceOK, RegionOK, Killed, Fault, Unformatted, Formatting
  <2>4. OtherOK'
    BY <1>11, <1>0, <2>1, ExitOK DEF OtherOK, RegionOK, Killed, Fault, Unformatted, Formatting
  <2> QED
    BY <2>1, <2>2, <2>3, <2>4
    DEF TypeOK, RegionOK, HostOK, ProcOK, ServiceOK, BudgetOK, OtherOK
<1>12. ASSUME NEW p \in Procs, BadFile(p), Fault, UNCHANGED <<flashVars, power,
      lost>> PROVE TypeOK'
  <2>1. RegionOK'
    BY <1>12, <1>0 DEF RegionOK, BadFile, Fault, NotReady
  <2>2. ProcOK'
    BY <1>12, <1>0, ExitOK DEF ProcOK, BadFile, Fault, NotReady
  <2>3. HostOK' /\ BudgetOK' /\ ServiceOK'
    BY <1>12, <1>0 DEF HostOK, BudgetOK, ServiceOK, RegionOK, BadFile, Fault, NotReady
  <2>4. OtherOK'
    BY <1>12, <1>0, <2>1, ExitOK DEF OtherOK, RegionOK, BadFile, Fault, NotReady
  <2> QED
    BY <2>1, <2>2, <2>3, <2>4
    DEF TypeOK, RegionOK, HostOK, ProcOK, ServiceOK, BudgetOK, OtherOK
<1>13. CASE PowerOn
  BY <1>13 DEF TypeOK, PowerOn
<1>14. CASE Stage2
  BY <1>14 DEF TypeOK, Stage2
<1>15. CASE EnterEdl
  BY <1>15 DEF TypeOK, EnterEdl
<1>16. CASE Cut
  <2>1. RegionOK'
    BY <1>16, <1>0, RegionsOK DEF RegionOK, Cut, Unformatted, Formatting, RuntimeLost, Stopped
  <2>2. ProcOK'
    BY <1>16, <1>0 DEF Idle, ProcOK, Cut, Unformatted, Formatting, RuntimeLost, Stopped
  <2>3. HostOK' /\ BudgetOK' /\ ServiceOK'
    BY <1>16, <1>0
    DEF HostOK, BudgetOK, ServiceOK, RegionOK, Cut, Unformatted, Formatting, RuntimeLost,
        Stopped
  <2>4. OtherOK'
    BY <1>16, <1>0, <2>1, ExitOK
    DEF OtherOK, RegionOK, Cut, Unformatted, Formatting, RuntimeLost, Stopped
  <2> QED
    BY <2>1, <2>2, <2>3, <2>4
    DEF TypeOK, RegionOK, HostOK, ProcOK, ServiceOK, BudgetOK, OtherOK
<1>17. CASE OpenpilotService
  <2>1. UNCHANGED <<disk, region, host, prepared, mount, ready, lock, proc, given, power,
        budget, lost>>
    BY <1>17 DEF OpenpilotService, OpenpilotStarts, OpenpilotStops
  <2>2. CASE OpenpilotStarts
    BY <1>17, <1>0, <2>1, <2>2
    DEF OpenpilotStarts, RegionOK, TypeOK, HostOK, ProcOK, ServiceOK, BudgetOK, OtherOK
  <2>3. CASE OpenpilotStops
    BY <1>17, <1>0, <2>1, <2>3
    DEF OpenpilotStops, Stopped, TypeOK, RegionOK, HostOK, ProcOK, ServiceOK, BudgetOK, OtherOK
  <2> QED
    BY <1>17, <2>1, <2>2, <2>3
    DEF OpenpilotService, TypeOK, RegionOK, HostOK, ProcOK, ServiceOK, BudgetOK, OtherOK
<1>18. CASE Flash
  <2>1. RegionOK'
    BY <1>18, <1>0, RegionsOK
    DEF RegionOK, Flash, PrepareCut, FlashStart, FlashGpt, FlashRegion, FlashOperation
  <2>2. HostOK'
    <3>1. CASE PrepareCut \/ FlashRegion
      BY <1>0, <3>1 DEF PrepareCut, FlashRegion, HostOK
    <3>2. ASSUME NEW m \in Manifests, FlashStart(m) PROVE HostOK'
      BY <3>2 DEF FlashStart, HostIdle, HostOK
    <3>3. CASE FlashGpt
      BY <1>0, <3>3 DEF FlashGpt, HostIdle, HostOK, Manifests
    <3>4. CASE FlashOperation
      BY <1>0, <3>4 DEF FlashOperation, HostOK
    <3> QED
      BY <1>18, <3>1, <3>2, <3>3, <3>4 DEF Flash
  <2>3. BudgetOK'
    BY <1>18, <1>0 DEF BudgetOK, Flash, Op
  <2>4. ProcOK' /\ ServiceOK'
    BY <1>18, <1>0 DEF ProcOK, ServiceOK, Flash
  <2>5. OtherOK'
    BY <1>18, <1>0
    DEF OtherOK, Flash, PrepareCut, FlashStart, Prepared, CacheValid, FlashGpt, FlashRegion,
        FlashOperation
  <2> QED
    BY <2>1, <2>2, <2>3, <2>4, <2>5
    DEF TypeOK, RegionOK, HostOK, ProcOK, ServiceOK, BudgetOK, OtherOK
<1>19. CASE FlashEnds
  <2>1. RegionOK'
    BY <1>19, <1>0, RegionsOK
    DEF RegionOK, FlashEnds, FlashReset, FlashAbort, Fault, Torn, HostIdle, Manifests
  <2>2. ProcOK'
    BY <1>19, <1>0, ExitOK
    DEF ProcOK, FlashEnds, FlashReset, FlashAbort, Fault, Torn, HostIdle, Manifests
  <2>3. HostOK' /\ BudgetOK' /\ ServiceOK'
    BY <1>19, <1>0
    DEF HostOK, BudgetOK, ServiceOK, RegionOK, FlashEnds, FlashReset, FlashAbort, Fault, Torn,
        HostIdle, Manifests
  <2>4. OtherOK'
    BY <1>19, <1>0, <2>1, ExitOK
    DEF OtherOK, RegionOK, FlashEnds, FlashReset, FlashAbort, Fault, Torn, HostIdle, Manifests
  <2> QED
    BY <2>1, <2>2, <2>3, <2>4
    DEF TypeOK, RegionOK, HostOK, ProcOK, ServiceOK, BudgetOK, OtherOK
<1>20. CASE RestoreGpt
  BY <1>20 DEF TypeOK, RestoreGpt, Op
<1>21. CASE Rots
  BY <1>21 DEF TypeOK, Rots, Fault
<1>22. CASE UNCHANGED vars
  BY <1>22 DEF TypeOK, vars
<1> QED
  BY <1>1, <1>2, <1>3, <1>4, <1>5, <1>6, <1>7, <1>8, <1>9, <1>10, <1>11, <1>12, <1>13, <1>14,
    <1>15, <1>16, <1>17, <1>18, <1>19, <1>20, <1>21, <1>22
  DEF Next, Commands, Steps, Disturbs

\* An identity is changed by its commands only.
LEMMA StepKeepsRegion ==
  ASSUME ProvisionInv, [Next]_vars
  PROVE  RegionInv'
<1> USE IdentityAssumption, BoundAssumption
  DEF Running, ProvisionInv, TypeOK, diskVars, flashVars, identityVars, RegionInv, HostInv,
    LockInv, ReadyInv, Flashing, Damaged, NoKey, NoProc, Held
<1>1. ASSUME NEW p \in Procs, Lock(p), Running PROVE RegionInv'
  BY <1>1 DEF Lock, Go, At
<1>2. ASSUME NEW p \in Procs, MountIdentity(p), Running PROVE RegionInv'
  BY <1>2 DEF MountIdentity, Go, Exit, Idle, At
<1>3. ASSUME NEW p \in Procs, Mkfs(p), Running PROVE RegionInv'
  BY <1>3 DEF Mkfs, Go, At, Fresh, Region
<1>4. ASSUME NEW p \in Procs, Choose(p), Running PROVE RegionInv'
  BY <1>4 DEF Choose, NotReady, Go, Exit, Idle, At
<1>5. ASSUME NEW p \in Procs, Provision(p), Running PROVE RegionInv'
  BY <1>5 DEF Provision, Candidates, WriteKey, Go, At
<1>6. ASSUME NEW p \in Procs, ProvisionMarker(p), Running PROVE RegionInv'
  BY <1>6 DEF ProvisionMarker, WriteMarker, At
<1>7. ASSUME NEW p \in Procs, Remount(p), Running PROVE RegionInv'
  BY <1>7 DEF Remount, Go, Exit, Idle, At
<1>8. ASSUME NEW p \in Procs, Touch(p), Running PROVE RegionInv'
  BY <1>8 DEF Touch, Exit, Idle, At
<1>9. ASSUME NEW p \in Procs, Operates(p) PROVE RegionInv'
  BY <1>9 DEF Operates, Op, Begin, At
<1>10. ASSUME NEW p \in Procs, WriteFails(p), Fault, UNCHANGED <<flashVars, power,
      lost>> PROVE RegionInv'
  BY <1>10 DEF WriteFails, Fault, Candidates, WriteKey, WriteMarker, At
<1>11. ASSUME NEW p \in Procs, Killed(p), Fault, lost' = (lost \/ region' = Junk),
      UNCHANGED <<flashVars, power>> PROVE RegionInv'
  BY <1>11 DEF Killed, Fault, Unformatted, Formatting, Junk, Region, Exit, Idle, At
<1>12. ASSUME NEW p \in Procs, BadFile(p), Fault, UNCHANGED <<flashVars, power,
      lost>> PROVE RegionInv'
  BY <1>12 DEF BadFile, Fault, NotReady, Exit, Idle, At
<1>13. CASE PowerOn
  BY <1>13 DEF PowerOn
<1>14. CASE Stage2
  BY <1>14 DEF Stage2
<1>15. CASE EnterEdl
  BY <1>15 DEF EnterEdl
<1>16. CASE Cut
  BY <1>16 DEF Cut, Unformatted, Formatting, At, Junk, Region, RuntimeLost, Idle, Stopped
<1>17. CASE OpenpilotService
  BY <1>17 DEF OpenpilotService, OpenpilotStarts, OpenpilotStops, Replacing, Stopped
<1>18. CASE Flash
  BY <1>18 DEF Flash, Op, PrepareCut, FlashStart, Prepared, CacheValid, FlashGpt,
    InitializePersist, FlashRegion, FlashOperation, More, Current, AvoidsPersist, Blank,
      Region, HostIdle, Manifests
<1>19. CASE FlashEnds
  BY <1>19 DEF FlashEnds, FlashReset, FlashAbort, Fault, More, Current, AvoidsPersist, Torn,
    Blank, Junk, Region, HostIdle, Manifests
<1>20. CASE RestoreGpt
  BY <1>20 DEF RestoreGpt, Op
<1>21. CASE Rots
  BY <1>21 DEF Rots, Fault
<1>22. CASE UNCHANGED vars
  BY <1>22 DEF TypeOK, vars
<1> QED
  BY <1>1, <1>2, <1>3, <1>4, <1>5, <1>6, <1>7, <1>8, <1>9, <1>10, <1>11, <1>12, <1>13, <1>14,
    <1>15, <1>16, <1>17, <1>18, <1>19, <1>20, <1>21, <1>22
  DEF Next, Commands, Steps, Disturbs

\* The host writes in EDL only, and not to a region with an identity.
LEMMA StepKeepsHost ==
  ASSUME ProvisionInv, [Next]_vars
  PROVE  HostInv'
<1> USE IdentityAssumption, BoundAssumption
  DEF Running, ProvisionInv, TypeOK, diskVars, flashVars, identityVars, RegionInv, HostInv,
    LockInv, Flashing
<1>1. ASSUME NEW p \in Procs, Lock(p), Running PROVE HostInv'
  BY <1>1 DEF Lock, Go, At
<1>2. ASSUME NEW p \in Procs, MountIdentity(p), Running PROVE HostInv'
  BY <1>2 DEF MountIdentity, Go, Exit, Idle, At
<1>3. ASSUME NEW p \in Procs, Mkfs(p), Running PROVE HostInv'
  BY <1>3 DEF Mkfs, Go, At, Fresh, Region
<1>4. ASSUME NEW p \in Procs, Choose(p), Running PROVE HostInv'
  BY <1>4 DEF Choose, NotReady, Go, Exit, Idle, At
<1>5. ASSUME NEW p \in Procs, Provision(p), Running PROVE HostInv'
  BY <1>5 DEF Provision, Candidates, WriteKey, Go, At
<1>6. ASSUME NEW p \in Procs, ProvisionMarker(p), Running PROVE HostInv'
  BY <1>6 DEF ProvisionMarker, WriteMarker, At
<1>7. ASSUME NEW p \in Procs, Remount(p), Running PROVE HostInv'
  BY <1>7 DEF Remount, Go, Exit, Idle, At
<1>8. ASSUME NEW p \in Procs, Touch(p), Running PROVE HostInv'
  BY <1>8 DEF Touch, Exit, Idle, At
<1>9. ASSUME NEW p \in Procs, Operates(p) PROVE HostInv'
  BY <1>9 DEF Operates, Op, Begin, At
<1>10. ASSUME NEW p \in Procs, WriteFails(p), Fault, UNCHANGED <<flashVars, power,
      lost>> PROVE HostInv'
  BY <1>10 DEF WriteFails, Fault, Candidates, WriteKey, WriteMarker, At
<1>11. ASSUME NEW p \in Procs, Killed(p), Fault, lost' = (lost \/ region' = Junk),
      UNCHANGED <<flashVars, power>> PROVE HostInv'
  BY <1>11 DEF Killed, Fault, Unformatted, Formatting, Junk, Region, Exit, Idle, At
<1>12. ASSUME NEW p \in Procs, BadFile(p), Fault, UNCHANGED <<flashVars, power,
      lost>> PROVE HostInv'
  BY <1>12 DEF BadFile, Fault, NotReady, Exit, Idle, At
<1>13. CASE PowerOn
  BY <1>13 DEF PowerOn
<1>14. CASE Stage2
  BY <1>14 DEF Stage2
<1>15. CASE EnterEdl
  BY <1>15 DEF EnterEdl
<1>16. CASE Cut
  BY <1>16 DEF Cut, Unformatted, Formatting, At, Junk, Region, RuntimeLost, Idle, Stopped
<1>17. CASE OpenpilotService
  BY <1>17 DEF OpenpilotService, OpenpilotStarts, OpenpilotStops, Replacing, Stopped
<1>18. CASE Flash
  <2>1. UNCHANGED <<mount, ready, lock, proc, openpilot, power>> /\ power = "edl"
    BY <1>18 DEF Flash
  <2>2. CASE PrepareCut
    BY <2>1, <2>2 DEF PrepareCut
  <2>3. ASSUME NEW m \in Manifests, FlashStart(m) PROVE HostInv'
    BY <2>1, <2>3 DEF FlashStart, AvoidsPersist, HostIdle
  <2>4. CASE FlashGpt
    BY <2>1, <2>4 DEF FlashGpt, InitializePersist, AvoidsPersist, HostIdle
  <2>5. CASE FlashRegion
    BY <2>1, <2>5 DEF FlashRegion, AvoidsPersist
  <2>6. CASE FlashOperation
    BY <2>1, <2>6 DEF FlashOperation, More, AvoidsPersist
  <2> QED
    BY <1>18, <2>2, <2>3, <2>4, <2>5, <2>6 DEF Flash
<1>19. CASE FlashEnds
  BY <1>19 DEF FlashEnds, FlashReset, FlashAbort, Fault, More, Current, AvoidsPersist, Torn,
    Blank, Junk, Region, HostIdle, Manifests
<1>20. CASE RestoreGpt
  BY <1>20 DEF RestoreGpt, Op
<1>21. CASE Rots
  BY <1>21 DEF Rots, Fault
<1>22. CASE UNCHANGED vars
  BY <1>22 DEF TypeOK, vars
<1> QED
  BY <1>1, <1>2, <1>3, <1>4, <1>5, <1>6, <1>7, <1>8, <1>9, <1>10, <1>11, <1>12, <1>13, <1>14,
    <1>15, <1>16, <1>17, <1>18, <1>19, <1>20, <1>21, <1>22
  DEF Next, Commands, Steps, Disturbs

\* One command at a time is past the lock.
LEMMA StepKeepsLock ==
  ASSUME ProvisionInv, [Next]_vars
  PROVE  LockInv'
<1> USE IdentityAssumption, BoundAssumption
  DEF Running, ProvisionInv, TypeOK, diskVars, flashVars, identityVars, RegionInv, HostInv,
    LockInv, Flashing, Damaged, NoKey, NoProc, Held
<1>1. ASSUME NEW p \in Procs, Lock(p), Running PROVE LockInv'
  BY <1>1 DEF Lock, Go, At
<1>2. ASSUME NEW p \in Procs, MountIdentity(p), Running PROVE LockInv'
  BY <1>2 DEF MountIdentity, Go, Exit, Idle, At
<1>3. ASSUME NEW p \in Procs, Mkfs(p), Running PROVE LockInv'
  BY <1>3 DEF Mkfs, Go, At, Fresh, Region
<1>4. ASSUME NEW p \in Procs, Choose(p), Running PROVE LockInv'
  BY <1>4 DEF Choose, NotReady, Go, Exit, Idle, At
<1>5. ASSUME NEW p \in Procs, Provision(p), Running PROVE LockInv'
  BY <1>5 DEF Provision, Candidates, WriteKey, Go, At
<1>6. ASSUME NEW p \in Procs, ProvisionMarker(p), Running PROVE LockInv'
  BY <1>6 DEF ProvisionMarker, WriteMarker, At
<1>7. ASSUME NEW p \in Procs, Remount(p), Running PROVE LockInv'
  BY <1>7 DEF Remount, Go, Exit, Idle, At
<1>8. ASSUME NEW p \in Procs, Touch(p), Running PROVE LockInv'
  BY <1>8 DEF Touch, Exit, Idle, At
<1>9. ASSUME NEW p \in Procs, Operates(p) PROVE LockInv'
  BY <1>9 DEF Operates, Op, Begin, At
<1>10. ASSUME NEW p \in Procs, WriteFails(p), Fault, UNCHANGED <<flashVars, power,
      lost>> PROVE LockInv'
  BY <1>10 DEF WriteFails, Fault, Candidates, WriteKey, WriteMarker, At
<1>11. ASSUME NEW p \in Procs, Killed(p), Fault, lost' = (lost \/ region' = Junk),
      UNCHANGED <<flashVars, power>> PROVE LockInv'
  BY <1>11 DEF Killed, Fault, Unformatted, Formatting, Junk, Region, Exit, Idle, At
<1>12. ASSUME NEW p \in Procs, BadFile(p), Fault, UNCHANGED <<flashVars, power,
      lost>> PROVE LockInv'
  BY <1>12 DEF BadFile, Fault, NotReady, Exit, Idle, At
<1>13. CASE PowerOn
  BY <1>13 DEF PowerOn
<1>14. CASE Stage2
  BY <1>14 DEF Stage2
<1>15. CASE EnterEdl
  BY <1>15 DEF EnterEdl
<1>16. CASE Cut
  BY <1>16 DEF Cut, Unformatted, Formatting, At, Junk, Region, RuntimeLost, Idle, Stopped
<1>17. CASE OpenpilotService
  BY <1>17 DEF OpenpilotService, OpenpilotStarts, OpenpilotStops, Replacing, Stopped
<1>18. CASE Flash
  BY <1>18 DEF Flash, Op, PrepareCut, FlashStart, Prepared, CacheValid, FlashGpt,
    InitializePersist, FlashRegion, FlashOperation, More, Current, AvoidsPersist, Blank,
      Region, HostIdle, Manifests
<1>19. CASE FlashEnds
  BY <1>19 DEF FlashEnds, FlashReset, FlashAbort, Fault, More, Current, AvoidsPersist, Torn,
    Blank, Junk, Region, HostIdle, Manifests
<1>20. CASE RestoreGpt
  BY <1>20 DEF RestoreGpt, Op
<1>21. CASE Rots
  BY <1>21 DEF Rots, Fault
<1>22. CASE UNCHANGED vars
  BY <1>22, SMTT(30) DEF TypeOK, vars
<1> QED
  BY <1>1, <1>2, <1>3, <1>4, <1>5, <1>6, <1>7, <1>8, <1>9, <1>10, <1>11, <1>12, <1>13, <1>14,
    <1>15, <1>16, <1>17, <1>18, <1>19, <1>20, <1>21, <1>22
  DEF Next, Commands, Steps, Disturbs

\* READY is there for a sound identity only.
LEMMA StepKeepsReady ==
  ASSUME ProvisionInv, [Next]_vars
  PROVE  ReadyInv'
<1> USE IdentityAssumption, BoundAssumption
  DEF Running, ProvisionInv, TypeOK, diskVars, flashVars, identityVars, RegionInv, HostInv,
    LockInv, ReadyInv, Flashing, Kinds, Damaged, NoKey, NoProc, Held
<1>1. ASSUME NEW p \in Procs, Lock(p), Running PROVE ReadyInv'
  BY <1>1 DEF Lock, Go, At
<1>2. ASSUME NEW p \in Procs, MountIdentity(p), Running PROVE ReadyInv'
  BY <1>2 DEF MountIdentity, Go, Exit, Idle, At
<1>3. ASSUME NEW p \in Procs, Mkfs(p), Running PROVE ReadyInv'
  BY <1>3 DEF Mkfs, Go, At, Fresh, Region
<1>4. ASSUME NEW p \in Procs, Choose(p), Running PROVE ReadyInv'
  BY <1>4, SMTT(30) DEF Choose, NotReady, Go, Exit, Idle, At
<1>5. ASSUME NEW p \in Procs, Provision(p), Running PROVE ReadyInv'
  BY <1>5 DEF Provision, Candidates, WriteKey, Go, At
<1>6. ASSUME NEW p \in Procs, ProvisionMarker(p), Running PROVE ReadyInv'
  BY <1>6 DEF ProvisionMarker, WriteMarker, At
<1>7. ASSUME NEW p \in Procs, Remount(p), Running PROVE ReadyInv'
  BY <1>7 DEF Remount, Go, Exit, Idle, At
<1>8. ASSUME NEW p \in Procs, Touch(p), Running PROVE ReadyInv'
  BY <1>8 DEF Touch, Exit, Idle, At
<1>9. ASSUME NEW p \in Procs, Operates(p) PROVE ReadyInv'
  BY <1>9 DEF Operates, Op, Begin, At
<1>10. ASSUME NEW p \in Procs, WriteFails(p), Fault, UNCHANGED <<flashVars, power,
      lost>> PROVE ReadyInv'
  BY <1>10 DEF WriteFails, Fault, Candidates, WriteKey, WriteMarker, At
<1>11. ASSUME NEW p \in Procs, Killed(p), Fault, lost' = (lost \/ region' = Junk),
      UNCHANGED <<flashVars, power>> PROVE ReadyInv'
  BY <1>11 DEF Killed, Fault, Unformatted, Formatting, Junk, Region, Exit, Idle, At
<1>12. ASSUME NEW p \in Procs, BadFile(p), Fault, UNCHANGED <<flashVars, power,
      lost>> PROVE ReadyInv'
  BY <1>12 DEF BadFile, Fault, NotReady, Exit, Idle, At
<1>13. CASE PowerOn
  BY <1>13 DEF PowerOn
<1>14. CASE Stage2
  BY <1>14 DEF Stage2
<1>15. CASE EnterEdl
  BY <1>15 DEF EnterEdl
<1>16. CASE Cut
  BY <1>16 DEF Cut, Unformatted, Formatting, At, Junk, Region, RuntimeLost, Idle, Stopped
<1>17. CASE OpenpilotService
  BY <1>17 DEF OpenpilotService, OpenpilotStarts, OpenpilotStops, Replacing, Stopped
<1>18. CASE Flash
  BY <1>18 DEF Flash, Op, PrepareCut, FlashStart, Prepared, CacheValid, FlashGpt,
    InitializePersist, FlashRegion, FlashOperation, More, Current, AvoidsPersist, Blank,
      Region, HostIdle, Manifests
<1>19. CASE FlashEnds
  BY <1>19 DEF FlashEnds, FlashReset, FlashAbort, Fault, More, Current, AvoidsPersist, Torn,
    Blank, Junk, Region, HostIdle, Manifests
<1>20. CASE RestoreGpt
  BY <1>20 DEF RestoreGpt, Op
<1>21. CASE Rots
  BY <1>21 DEF Rots, Fault
<1>22. CASE UNCHANGED vars
  BY <1>22 DEF TypeOK, vars
<1> QED
  BY <1>1, <1>2, <1>3, <1>4, <1>5, <1>6, <1>7, <1>8, <1>9, <1>10, <1>11, <1>12, <1>13, <1>14,
    <1>15, <1>16, <1>17, <1>18, <1>19, <1>20, <1>21, <1>22
  DEF Next, Commands, Steps, Disturbs

\* A replacement and openpilot exclude each other but for the race.
LEMMA StepKeepsOpenpilot ==
  ASSUME ProvisionInv, [Next]_vars
  PROVE  OpenpilotInv'
<1> USE IdentityAssumption, BoundAssumption
  DEF Running, ProvisionInv, TypeOK, diskVars, flashVars, identityVars, RegionInv, HostInv,
    LockInv, ReadyInv, OpenpilotInv, Flashing, Kinds, Damaged, NoKey, NoProc, Held
<1>1. ASSUME NEW p \in Procs, Lock(p), Running PROVE OpenpilotInv'
  BY <1>1 DEF Lock, Go, At
<1>2. ASSUME NEW p \in Procs, MountIdentity(p), Running PROVE OpenpilotInv'
  BY <1>2, SMTT(30) DEF MountIdentity, Go, Exit, Idle, At
<1>3. ASSUME NEW p \in Procs, Mkfs(p), Running PROVE OpenpilotInv'
  BY <1>3 DEF Mkfs, Go, At, Fresh, Region
<1>4. ASSUME NEW p \in Procs, Choose(p), Running PROVE OpenpilotInv'
  BY <1>4 DEF Choose, NotReady, Go, Exit, Idle, At
<1>5. ASSUME NEW p \in Procs, Provision(p), Running PROVE OpenpilotInv'
  BY <1>5 DEF Provision, Candidates, WriteKey, Go, At
<1>6. ASSUME NEW p \in Procs, ProvisionMarker(p), Running PROVE OpenpilotInv'
  BY <1>6 DEF ProvisionMarker, WriteMarker, At
<1>7. ASSUME NEW p \in Procs, Remount(p), Running PROVE OpenpilotInv'
  BY <1>7 DEF Remount, Go, Exit, Idle, At
<1>8. ASSUME NEW p \in Procs, Touch(p), Running PROVE OpenpilotInv'
  BY <1>8 DEF Touch, Exit, Idle, At
<1>9. ASSUME NEW p \in Procs, Operates(p) PROVE OpenpilotInv'
  BY <1>9 DEF Operates, Op, Begin, At
<1>10. ASSUME NEW p \in Procs, WriteFails(p), Fault, UNCHANGED <<flashVars, power,
      lost>> PROVE OpenpilotInv'
  BY <1>10 DEF WriteFails, Fault, Candidates, WriteKey, WriteMarker, At
<1>11. ASSUME NEW p \in Procs, Killed(p), Fault, lost' = (lost \/ region' = Junk),
      UNCHANGED <<flashVars, power>> PROVE OpenpilotInv'
  BY <1>11 DEF Killed, Fault, Unformatted, Formatting, Junk, Region, Exit, Idle, At
<1>12. ASSUME NEW p \in Procs, BadFile(p), Fault, UNCHANGED <<flashVars, power,
      lost>> PROVE OpenpilotInv'
  BY <1>12 DEF BadFile, Fault, NotReady, Exit, Idle, At
<1>13. CASE PowerOn
  BY <1>13 DEF PowerOn
<1>14. CASE Stage2
  BY <1>14 DEF Stage2
<1>15. CASE EnterEdl
  BY <1>15 DEF EnterEdl
<1>16. CASE Cut
  BY <1>16 DEF Cut, Unformatted, Formatting, At, Junk, Region, RuntimeLost, Idle, Stopped
<1>17. CASE OpenpilotService
  BY <1>17 DEF OpenpilotService, OpenpilotStarts, OpenpilotStops, Replacing, Stopped
<1>18. CASE Flash
  BY <1>18 DEF Flash, Op, PrepareCut, FlashStart, Prepared, CacheValid, FlashGpt,
    InitializePersist, FlashRegion, FlashOperation, More, Current, AvoidsPersist, Blank,
      Region, HostIdle, Manifests
<1>19. CASE FlashEnds
  BY <1>19 DEF FlashEnds, FlashReset, FlashAbort, Fault, More, Current, AvoidsPersist, Torn,
    Blank, Junk, Region, HostIdle, Manifests
<1>20. CASE RestoreGpt
  BY <1>20 DEF RestoreGpt, Op
<1>21. CASE Rots
  BY <1>21 DEF Rots, Fault
<1>22. CASE UNCHANGED vars
  BY <1>22 DEF TypeOK, vars
<1> QED
  BY <1>1, <1>2, <1>3, <1>4, <1>5, <1>6, <1>7, <1>8, <1>9, <1>10, <1>11, <1>12, <1>13, <1>14,
    <1>15, <1>16, <1>17, <1>18, <1>19, <1>20, <1>21, <1>22
  DEF Next, Commands, Steps, Disturbs

LEMMA StepKeepsInv == ProvisionInv /\ [Next]_vars => ProvisionInv'
BY StepKeepsType, StepKeepsRegion, StepKeepsHost, StepKeepsLock, StepKeepsReady,
  StepKeepsOpenpilot
  DEF ProvisionInv

-----------------------------------------------------------------------------
\* The invariant holds throughout the life of a board.
THEOREM ProvisionInvariant == Spec => []ProvisionInv
<1> QED
  BY InitInv, StepKeepsInv, PTL DEF Spec

\* The board, its host and the commands stay within their types.
THEOREM ProvisionTypeCorrect == Spec => []TypeOK
<1>1. ProvisionInv => TypeOK
  BY DEF ProvisionInv
<1> QED
  BY <1>1, ProvisionInvariant, PTL

\* Flashes, tables put back, cuts, failed writes and a damaged key leave a board
\* the identity it was given; only replace gives it another.
THEOREM IdentityIsKept == Spec => []SameIdentity
<1>1. ProvisionInv => SameIdentity
  BY DEF ProvisionInv, RegionInv, SameIdentity
<1> QED
  BY <1>1, ProvisionInvariant, PTL

\* READY stands for a sound identity on a file system mounted read only.
THEOREM ReadyIsSound == Spec => []ReadyMeansProvisioned
<1>1. ProvisionInv => ReadyMeansProvisioned
  BY DEF ProvisionInv, ReadyInv, ReadyMeansProvisioned
<1> QED
  BY <1>1, ProvisionInvariant, PTL

\* openpilot does not run on an identity that was replaced under it.
THEOREM OpenpilotIsRight == Spec => []OneIdentity
<1>1. ProvisionInv => OneIdentity
  BY DEF ProvisionInv, OpenpilotInv, OneIdentity
<1> QED
  BY <1>1, ProvisionInvariant, PTL

-----------------------------------------------------------------------------
\* s enumerates the numbers in wanted in order.
Ordered(wanted, s) ==
  /\ s \in [1 .. Cardinality(wanted) -> wanted]
  /\ \A i, j \in DOMAIN s : i < j => s[i] < s[j]

\* The largest number goes to the end.
LEMMA OrderExtends ==
  ASSUME NEW m \in Nat \ {0}, NEW w \in SUBSET (1..m), m \in w,
         NEW t, Ordered(w \ {m}, t)
  PROVE  \E s : Ordered(w, s)
<1> DEFINE c == Cardinality(w)
           s == [i \in 1..c |-> IF i = c THEN m ELSE t[i]]
<1>1. IsFiniteSet(w)
  <2>1. IsFiniteSet(1..m)
    BY 1 \in Int, m \in Int, FS_Interval
  <2> QED
    BY <2>1, FS_Subset
<1>2. Cardinality(w \ {m}) = c - 1 /\ c \in Nat /\ Cardinality(w \ {m}) \in Nat
  <2>1. c \in Nat /\ Cardinality(w \ {m}) = c - 1
    BY <1>1, FS_RemoveElement, FS_CardinalityType
  <2>2. IsFiniteSet(w \ {m})
    BY <1>1, FS_RemoveElement
  <2> QED
    BY <2>1, <2>2, FS_CardinalityType
<1> HIDE DEF c
<1>3. t \in [1..(c - 1) -> w \ {m}] /\ \A i, j \in 1..(c - 1) : i < j => t[i] < t[j]
  BY <1>2 DEF Ordered
<1>4. \A i \in 1..(c - 1) : t[i] \in w /\ t[i] \in Nat /\ t[i] < m
  <2>1. \A x \in w \ {m} : x \in w /\ x \in Nat /\ x < m
    OBVIOUS
  <2>2. \A i \in 1..(c - 1) : t[i] \in w \ {m}
    BY <1>3
  <2> QED
    BY <2>1, <2>2
<1>5. s \in [1..c -> w]
  BY <1>2, <1>4
<1>6. \A i, j \in 1..c : i < j => s[i] < s[j]
  <2> SUFFICES ASSUME NEW i \in 1..c, NEW j \in 1..c, i < j PROVE s[i] < s[j]
    OBVIOUS
  <2>1. i \in 1..(c - 1) /\ s[i] = t[i]
    BY <1>2
  <2>2. CASE j = c
    BY <2>1, <2>2, <1>4
  <2>3. CASE j # c
    BY <2>1, <2>3, <1>2, <1>3
  <2> QED
    BY <2>2, <2>3
<1>7. DOMAIN s = 1..c
  OBVIOUS
<1> HIDE DEF s
<1>8. Ordered(w, s)
  BY <1>5, <1>6, <1>7 DEF Ordered, c
<1> QED
  BY <1>8

\* A finite set of numbers can be enumerated in order.
LEMMA OrderExists ==
  ASSUME NEW n \in Nat, NEW wanted \in SUBSET (1..n)
  PROVE  \E s : Ordered(wanted, s)
<1> DEFINE Fails == {m \in Nat : \E w \in SUBSET (1..m) : \A s : ~Ordered(w, s)}
<1>1. SUFFICES ASSUME Fails # {} PROVE FALSE
  OBVIOUS
<1>2. PICK m \in Fails : \A k \in Fails : ~(<<k, m>> \in OpToRel(<, Nat))
  <2>1. Fails \subseteq Nat
    OBVIOUS
  <2> HIDE DEF Fails
  <2> QED
    BY <1>1, <2>1, NatLessThanWellFounded, WFMin
<1>3. m \in Nat
  OBVIOUS
<1>4. \A k \in Nat : k < m => k \notin Fails
  BY <1>2, <1>3 DEF OpToRel
<1>5. PICK w \in SUBSET (1..m) : \A s : ~Ordered(w, s)
  OBVIOUS
<1>6. \A k \in Nat : k < m => \A v \in SUBSET (1..k) : \E s : Ordered(v, s)
  BY <1>4
<1> HIDE DEF Fails
<1>7. CASE m = 0
  <2>1. w = {}
    BY <1>7
  <2>2. Cardinality(w) = 0
    BY <2>1, FS_EmptySet
  <2>3. [i \in 1..0 |-> i] \in [1..0 -> w]
    OBVIOUS
  <2>4. Ordered(w, [i \in 1..0 |-> i])
    BY <2>2, <2>3 DEF Ordered
  <2> QED
    BY <1>5, <2>4
<1>8. CASE m > 0
  <2>1. m - 1 \in Nat /\ m - 1 < m
    BY <1>3, <1>8
  <2>2. \A v \in SUBSET (1..(m - 1)) : \E s : Ordered(v, s)
    BY <1>6, <2>1
  <2>3. m \in w
    <3>1. w \notin SUBSET (1..(m - 1))
      BY <1>5, <2>2
    <3> QED
      BY <3>1, <1>3, <1>8
  <2>4. w \ {m} \in SUBSET (1..(m - 1))
    BY <1>3
  <2>5. PICK t : Ordered(w \ {m}, t)
    BY <2>2, <2>4
  <2> QED
    BY <1>3, <1>5, <1>8, <2>3, <2>5, OrderExtends
<1> QED
  BY <1>3, <1>7, <1>8

\* What InOrder returns: every wanted block, once, in order.
LEMMA InOrderIs ==
  ASSUME NEW wanted \in SUBSET Blocks
  PROVE  /\ Cardinality(wanted) \in Nat
         /\ InOrder(wanted) \in [1 .. Cardinality(wanted) -> wanted]
         /\ \A i, j \in 1 .. Cardinality(wanted) :
              i # j => InOrder(wanted)[i] # InOrder(wanted)[j]
         /\ \A b \in wanted : \E i \in 1 .. Cardinality(wanted) : InOrder(wanted)[i] = b
<1> DEFINE s == InOrder(wanted)
           c == Cardinality(wanted)
<1>1. Ordered(wanted, s)
  <2>1. \E r : Ordered(wanted, r)
    BY OrderExists, DiskAssumption DEF Blocks
  <2> QED
    BY <2>1 DEF InOrder, Ordered
<1>2. IsFiniteSet(wanted) /\ c \in Nat
  <2>1. IsFiniteSet(1..Size)
    <3>1. 1 \in Int /\ Size \in Int
      BY DiskAssumption
    <3> QED
      BY <3>1, FS_Interval
  <2>2. IsFiniteSet(wanted)
    BY <2>1, FS_Subset DEF Blocks
  <2> QED
    BY <2>2, FS_CardinalityType
<1> HIDE DEF s, c
<1>3. s \in [1..c -> wanted] /\ \A i, j \in 1..c : i < j => s[i] < s[j]
  BY <1>1 DEF Ordered, c
<1>4. \A i \in 1..c : s[i] \in Nat
  <2>1. \A b \in wanted : b \in Nat
    BY DiskAssumption DEF Blocks
  <2> QED
    BY <1>3, <2>1
<1>5. \A i, j \in 1..c : i # j => s[i] # s[j]
  BY <1>2, <1>3, <1>4
<1>6. s \in Injection(1..c, wanted)
  BY <1>3, <1>5 DEF Injection, IsInjective
<1>7. IsFiniteSet(1..c) /\ Cardinality(1..c) = c
  BY <1>2, 1 \in Int, c \in Int, FS_Interval
<1>8. s \in Surjection(1..c, wanted)
  BY <1>2, <1>6, <1>7, FS_Injection DEF c
<1>9. \A b \in wanted : \E i \in 1..c : s[i] = b
  BY <1>8 DEF Surjection
<1> QED
  BY <1>2, <1>3, <1>5, <1>9 DEF s, c

-----------------------------------------------------------------------------
Op1 == Erase(1 .. (Persist - 1))
Op2 == Erase((Persist + 1) .. Size)
Nonzero == {b \in Others : Base[b] # "zero"}
Changed == {b \in Others : Openpilot[b] # Base[b]}
OperationSet == [op : {"erase", "program"}, blocks : SUBSET Others, data : Contents]

\* The base package: two erasures, then one operation per block that is not zero.
LEMMA BaseOperationsAre ==
  /\ BaseOperations \in Seq(OperationSet)
  /\ Cardinality(Nonzero) \in Nat
  /\ Len(BaseOperations) = Cardinality(Nonzero) + 2
  /\ BaseOperations[1] = Op1 /\ BaseOperations[2] = Op2
  /\ \A i \in 1 .. Cardinality(Nonzero) :
       BaseOperations[i + 2] = Program(Base, InOrder(Nonzero)[i])
<1> DEFINE n == Cardinality(Nonzero)
           ch == InOrder(Nonzero)
           first == <<Op1, Op2>>
           rest == [i \in DOMAIN ch |-> Program(Base, ch[i])]
<1>1. n \in Nat /\ ch \in [1..n -> Nonzero]
  BY InOrderIs DEF Nonzero, Others
<1>2. BaseOperations = first \o rest
  BY DEF BaseOperations, Nonzero, Op1, Op2
<1>3. Op1 \in OperationSet /\ Op2 \in OperationSet
  BY DiskAssumption DEF Op1, Op2, Erase, OperationSet, Others, Blocks, Contents
<1> HIDE DEF n, ch
<1>4. \A b \in Nonzero : Program(Base, b) \in OperationSet
  BY DiskAssumption DEF Nonzero, Program, OperationSet, Others, Blocks
<1>5. rest \in [1..n -> OperationSet]
  BY <1>1, <1>4
<1>6. rest \in Seq(OperationSet) /\ Len(rest) = n
  BY <1>1, <1>5
<1>7. first \in Seq(OperationSet) /\ Len(first) = 2 /\ first[1] = Op1 /\ first[2] = Op2
  BY <1>3
<1>8. \A i \in 1..n : rest[i] = Program(Base, ch[i])
  BY <1>1
<1> HIDE DEF first, rest
<1>9. /\ BaseOperations \in Seq(OperationSet) /\ Len(BaseOperations) = n + 2
      /\ \A i \in 1 .. (2 + n) : BaseOperations[i] = IF i <= 2 THEN first[i] ELSE rest[i - 2]
  <2>1. /\ BaseOperations \in Seq(OperationSet)
        /\ Len(BaseOperations) = Len(first) + Len(rest)
        /\ \A i \in 1 .. Len(first) + Len(rest) :
             BaseOperations[i] = IF i <= Len(first) THEN first[i] ELSE rest[i - Len(first)]
    BY <1>2, <1>6, <1>7, ConcatProperties
  <2> QED
    BY <1>1, <1>6, <1>7, <2>1
<1>10. BaseOperations[1] = Op1 /\ BaseOperations[2] = Op2
  BY <1>1, <1>7, <1>9
<1>11. \A i \in 1..n : BaseOperations[i + 2] = rest[i]
  <2> SUFFICES ASSUME NEW i \in 1..n PROVE BaseOperations[i + 2] = rest[i]
    OBVIOUS
  <2>1. i + 2 \in 1 .. (2 + n) /\ ~(i + 2 <= 2) /\ (i + 2) - 2 = i
    BY <1>1
  <2> QED
    BY <1>9, <2>1
<1> QED
  BY <1>1, <1>8, <1>9, <1>10, <1>11 DEF n, ch

\* The operation of the delta on a block that differs.
Update(b) == IF Openpilot[b] = "zero" THEN Erase({b}) ELSE Program(Openpilot, b)
\* The operations of the delta, in order.
LEMMA DeltaOperationsAre ==
  /\ DeltaOperations \in Seq(OperationSet)
  /\ Cardinality(Changed) \in Nat
  /\ Len(DeltaOperations) = Cardinality(Changed)
  /\ \A i \in 1 .. Cardinality(Changed) : DeltaOperations[i] = Update(InOrder(Changed)[i])
<1> DEFINE n == Cardinality(Changed)
           ch == InOrder(Changed)
<1>1. n \in Nat /\ ch \in [1..n -> Changed]
  BY InOrderIs DEF Changed, Others
<1>2. DeltaOperations = [i \in DOMAIN ch |-> Update(ch[i])]
  BY DEF DeltaOperations, Changed, Update
<1> HIDE DEF n, ch
<1>3. \A b \in Changed : Update(b) \in OperationSet
  BY DiskAssumption DEF Changed, Update, Program, Erase, OperationSet, Others, Blocks, Contents
<1>4. DeltaOperations \in [1..n -> OperationSet]
  BY <1>1, <1>2, <1>3
<1>5. DeltaOperations \in Seq(OperationSet) /\ Len(DeltaOperations) = n
  BY <1>1, <1>4
<1>6. \A i \in 1..n : DeltaOperations[i] = Update(ch[i])
  BY <1>1, <1>2
<1> QED
  BY <1>1, <1>5, <1>6 DEF n, ch

\* The manifests that leave the region alone.
Packages == {"base", "openpilot"}
\* No operation of a package touches the region.
LEMMA OperationsAre ==
  ASSUME NEW m \in Packages
  PROVE  Operations(m) \in Seq(OperationSet)
BY BaseOperationsAre, DeltaOperationsAre DEF Packages, Operations

\* The last operation that writes a block writes what the image has there.
LEMMA BaseWritesLast ==
  ASSUME NEW b \in Others
  PROVE  \E i \in DOMAIN BaseOperations :
           /\ b \in BaseOperations[i].blocks /\ BaseOperations[i].data = Base[b]
           /\ \A j \in DOMAIN BaseOperations : i < j => b \notin BaseOperations[j].blocks
<1> DEFINE n == Cardinality(Nonzero)
           ch == InOrder(Nonzero)
<1>1. /\ n \in Nat /\ ch \in [1..n -> Nonzero]
      /\ \A i, j \in 1..n : i # j => ch[i] # ch[j]
      /\ \A c \in Nonzero : \E i \in 1..n : ch[i] = c
  BY InOrderIs DEF Nonzero, Others
<1>2. /\ DOMAIN BaseOperations = 1 .. (n + 2)
      /\ BaseOperations[1] = Op1 /\ BaseOperations[2] = Op2
      /\ \A i \in 1..n : BaseOperations[i + 2] = Program(Base, ch[i])
  BY BaseOperationsAre
<1> HIDE DEF n, ch
<1>3. \A j \in 1 .. (n + 2) : j > 2 => BaseOperations[j] = Program(Base, ch[j - 2])
                                       /\ j - 2 \in 1..n
  <2> SUFFICES ASSUME NEW j \in 1 .. (n + 2), j > 2
               PROVE  BaseOperations[j] = Program(Base, ch[j - 2]) /\ j - 2 \in 1..n
    OBVIOUS
  <2>1. j - 2 \in 1..n /\ (j - 2) + 2 = j
    BY <1>1
  <2> QED
    BY <1>2, <2>1
<1>4. CASE Base[b] = "zero"
  <2>1. \A j \in 1 .. (n + 2) : j > 2 => b \notin BaseOperations[j].blocks
    <3> SUFFICES ASSUME NEW j \in 1 .. (n + 2), j > 2
                 PROVE  b \notin BaseOperations[j].blocks
      OBVIOUS
    <3>1. BaseOperations[j] = Program(Base, ch[j - 2]) /\ ch[j - 2] \in Nonzero
      BY <1>1, <1>3
    <3> QED
      BY <1>4, <3>1 DEF Program, Nonzero
  <2>2. CASE b < Persist
    <3>1. b \in BaseOperations[1].blocks /\ BaseOperations[1].data = Base[b]
          /\ b \notin BaseOperations[2].blocks
      BY <1>2, <1>4, <2>2, DiskAssumption DEF Op1, Op2, Erase, Others, Blocks
    <3>2. \A j \in 1 .. (n + 2) : 1 < j => b \notin BaseOperations[j].blocks
      BY <1>1, <2>1, <3>1
    <3> QED
      BY SMTT(30), <1>1, <1>2, <3>1, <3>2
  <2>3. CASE b > Persist
    <3>1. b \in BaseOperations[2].blocks /\ BaseOperations[2].data = Base[b]
      BY <1>2, <1>4, <2>3, DiskAssumption DEF Op1, Op2, Erase, Others, Blocks
    <3> QED
      BY <1>1, <1>2, <2>1, <3>1
  <2> QED
    BY <2>2, <2>3, DiskAssumption DEF Others, Blocks
<1>5. CASE Base[b] # "zero"
  <2>1. PICK k \in 1..n : ch[k] = b
    BY <1>1, <1>5 DEF Nonzero
  <2>2. k + 2 \in 1 .. (n + 2) /\ BaseOperations[k + 2] = Program(Base, b)
    BY <1>1, <1>2, <2>1
  <2>3. \A j \in 1 .. (n + 2) : k + 2 < j => b \notin BaseOperations[j].blocks
    <3> SUFFICES ASSUME NEW j \in 1 .. (n + 2), k + 2 < j
                 PROVE  b \notin BaseOperations[j].blocks
      OBVIOUS
    <3>1. BaseOperations[j] = Program(Base, ch[j - 2]) /\ j - 2 \in 1..n /\ j - 2 # k
      BY <1>1, <1>3
    <3>2. ch[j - 2] # b
      BY <1>1, <2>1, <3>1
    <3> QED
      BY <3>1, <3>2 DEF Program
  <2>4. b \in BaseOperations[k + 2].blocks /\ BaseOperations[k + 2].data = Base[b]
    BY <2>2 DEF Program
  <2> QED
    BY <1>2, <2>2, <2>3, <2>4
<1> QED
  BY <1>4, <1>5

\* The same of either package: a block that the delta leaves alone is as in the base.
LEMMA PackageWritesLast ==
  ASSUME NEW m \in Packages, NEW b \in Others
  PROVE  \E i \in DOMAIN Operations(m) :
           /\ b \in Operations(m)[i].blocks /\ Operations(m)[i].data = Image(m)[b]
           /\ \A j \in DOMAIN Operations(m) : i < j => b \notin Operations(m)[j].blocks
<1>1. CASE m = "base"
  BY <1>1, BaseWritesLast DEF Operations, Image
<1>2. CASE m = "openpilot"
  <2> DEFINE n == Cardinality(Changed)
             ch == InOrder(Changed)
             l == Len(BaseOperations)
             ops == Operations(m)
  <2>1. /\ n \in Nat /\ ch \in [1..n -> Changed]
        /\ \A i, j \in 1..n : i # j => ch[i] # ch[j]
        /\ \A c \in Changed : \E i \in 1..n : ch[i] = c
    BY InOrderIs DEF Changed, Others
  <2>2. /\ BaseOperations \in Seq(OperationSet) /\ DeltaOperations \in Seq(OperationSet)
        /\ Len(DeltaOperations) = n
        /\ \A i \in 1..n : DeltaOperations[i] = Update(ch[i])
    BY BaseOperationsAre, DeltaOperationsAre
  <2>3. ops = BaseOperations \o DeltaOperations
    BY <1>2 DEF Operations
  <2> HIDE DEF n, ch, ops
  <2>4. /\ l \in Nat /\ DOMAIN ops = 1 .. (l + n) /\ DOMAIN BaseOperations = 1..l
        /\ \A i \in 1..l : ops[i] = BaseOperations[i]
        /\ \A i \in 1..n : ops[l + i] = DeltaOperations[i]
    <3>1. /\ ops \in Seq(OperationSet) /\ Len(ops) = l + Len(DeltaOperations)
          /\ \A i \in 1 .. l + Len(DeltaOperations) :
               ops[i] = IF i <= l THEN BaseOperations[i] ELSE DeltaOperations[i - l]
      BY <2>2, <2>3, ConcatProperties
    <3>2. l \in Nat /\ DOMAIN BaseOperations = 1..l
      BY <2>2
    <3> HIDE DEF l
    <3>3. DOMAIN ops = 1 .. (l + n) /\ \A i \in 1..l : ops[i] = BaseOperations[i]
      BY <2>1, <2>2, <3>1, <3>2
    <3>4. ASSUME NEW i \in 1..n PROVE ops[l + i] = DeltaOperations[i]
      <4>1. l + i \in 1 .. (l + n) /\ ~(l + i <= l) /\ (l + i) - l = i
        BY <2>1, <3>2
      <4> QED
        BY <2>2, <3>1, <4>1
    <3> QED
      BY <3>2, <3>3, <3>4
  <2> HIDE DEF l
  <2>5. \A j \in 1 .. (l + n) : j > l => ops[j] = Update(ch[j - l]) /\ j - l \in 1..n
    <3> SUFFICES ASSUME NEW j \in 1 .. (l + n), j > l
                 PROVE  ops[j] = Update(ch[j - l]) /\ j - l \in 1..n
      OBVIOUS
    <3>1. j - l \in 1..n /\ l + (j - l) = j
      BY <2>1, <2>4
    <3> QED
      BY <2>2, <2>4, <3>1
  <2>6. \A c : Update(c).blocks = {c} /\ Update(c).data = Openpilot[c]
    BY DEF Update, Erase, Program
  <2>7. \A i \in 1..n : ch[i] \in Changed
    BY <2>1
  <2>8. CASE Openpilot[b] = Base[b]
    <3>1. \A j \in 1 .. (l + n) : j > l => b \notin ops[j].blocks
      BY <2>5, <2>6, <2>7, <2>8 DEF Changed
    <3>2. PICK i \in 1..l :
            /\ b \in BaseOperations[i].blocks /\ BaseOperations[i].data = Base[b]
            /\ \A j \in 1..l : i < j => b \notin BaseOperations[j].blocks
      BY <2>4, BaseWritesLast
    <3>3. i \in 1 .. (l + n) /\ b \in ops[i].blocks /\ ops[i].data = Openpilot[b]
      BY <2>1, <2>4, <2>8, <3>2
    <3>4. \A j \in 1 .. (l + n) : i < j => b \notin ops[j].blocks
      <4> SUFFICES ASSUME NEW j \in 1 .. (l + n), i < j PROVE b \notin ops[j].blocks
        OBVIOUS
      <4>1. CASE j > l
        BY <3>1, <4>1
      <4>2. CASE j \in 1..l
        BY <2>4, <3>2, <4>2
      <4> QED
        BY <2>4, <4>1, <4>2
    <3> QED
      BY <1>2, <2>4, <3>3, <3>4 DEF ops, Image
  <2>9. CASE Openpilot[b] # Base[b]
    <3>1. PICK k \in 1..n : ch[k] = b
      BY <2>1, <2>9 DEF Changed
    <3>2. l + k \in 1 .. (l + n) /\ ops[l + k] = Update(b)
      BY <2>1, <2>2, <2>4, <3>1
    <3>3. \A j \in 1 .. (l + n) : l + k < j => b \notin ops[j].blocks
      <4> SUFFICES ASSUME NEW j \in 1 .. (l + n), l + k < j PROVE b \notin ops[j].blocks
        OBVIOUS
      <4>1. ops[j] = Update(ch[j - l]) /\ j - l \in 1..n /\ j - l # k
        BY <2>1, <2>4, <2>5
      <4>2. ch[j - l] # b
        BY <2>1, <3>1, <4>1
      <4> QED
        BY <2>6, <4>1, <4>2
    <3>4. b \in ops[l + k].blocks /\ ops[l + k].data = Openpilot[b]
      BY <2>6, <3>2
    <3> QED
      BY <1>2, <2>4, <3>2, <3>3, <3>4 DEF ops, Image
  <2> QED
    BY <2>8, <2>9
<1> QED
  BY <1>1, <1>2 DEF Packages

\* The raw image is refused: its first operation writes to the region.
LEMMA RawIsRefused ==
  ASSUME NEW m \in Manifests, AvoidsPersist(m)
  PROVE  m \in Packages
<1> SUFFICES ASSUME m = "raw" PROVE FALSE
  BY DEF Manifests, Packages
<1> DEFINE first == <<Erase(Blocks)>>
           rest == [b \in Blocks |-> Program(Base, b)]
           Ops == {Erase(Blocks)} \cup {Program(Base, b) : b \in Blocks}
           all == Operations(m)
<1>1. all = first \o rest
  BY DEF Operations
<1>2. first \in Seq(Ops) /\ Len(first) = 1 /\ first[1] = Erase(Blocks)
  OBVIOUS
<1>3. rest \in Seq(Ops)
  <2>1. rest \in [1..Size -> Ops]
    BY DEF Blocks
  <2> QED
    BY SMTT(30), <2>1, DiskAssumption
<1> HIDE DEF first, rest, Ops, all
<1>4. 1 \in DOMAIN all /\ all[1] = Erase(Blocks)
  <2>1. /\ all \in Seq(Ops)
        /\ Len(all) = Len(first) + Len(rest)
        /\ \A i \in 1 .. Len(first) + Len(rest) :
             all[i] = IF i <= Len(first) THEN first[i] ELSE rest[i - Len(first)]
    BY <1>1, <1>2, <1>3, ConcatProperties
  <2>2. Len(rest) \in Nat
    BY <1>3
  <2> QED
    BY <1>2, <2>1, <2>2
<1> QED
  BY <1>4, DiskAssumption DEF all, AvoidsPersist, Erase, Blocks

-----------------------------------------------------------------------------
\* Every block that an operation before the current one writes holds what the
\* last of them wrote.
Written ==
  \A b \in Others : \A i \in DOMAIN Operations(host.m) :
    /\ i < host.at /\ b \in Operations(host.m)[i].blocks
    /\ \A j \in DOMAIN Operations(host.m) :
         i < j /\ j < host.at => b \notin Operations(host.m)[j].blocks
    => disk[b] = Operations(host.m)[i].data

\* A flash works from good chunks, on a region that holds no rubble but what is
\* counted as lost: while there is some, the first block has no table with persist.
FlashInv ==
  /\ disk \in [Others -> Contents]
  /\ Flashing => prepared = "good" /\ host.at >= 1 /\ host.m \in Packages
  /\ host.pc \in {"gpt", "region"} => host.at = 1
  /\ host.pc = "region" => disk[1] = "old"
  /\ region.fs = "junk" /\ ~lost => disk[1] \notin {"zero", "os"} /\ host.pc # "run"
  /\ host.pc = "run" => Written

LEMMA InitFlash == Init => FlashInv
<1> SUFFICES ASSUME Init PROVE FlashInv
  OBVIOUS
<1>1. 1 \in Others
  BY DiskAssumption DEF Others, Blocks
<1> QED
  BY <1>1 DEF Init, FlashInv, HostIdle, Flashing, Contents, Blank, Junk, Region

\* What leaves the disk and the host alone, and leaves no rubble in the region
\* that is not counted as lost.
LEMMA FlashUntouched ==
  ASSUME FlashInv, UNCHANGED <<disk, host, prepared>>,
         region'.fs = "junk" /\ ~lost' => region.fs = "junk" /\ ~lost
  PROVE  FlashInv'
BY DEF FlashInv, Flashing, Written

\* A flash writes what its manifest says, and leaves no rubble in the region.
LEMMA StepKeepsFlash == ProvisionInv /\ FlashInv /\ [Next]_vars => FlashInv'
<1> SUFFICES ASSUME ProvisionInv, FlashInv, [Next]_vars PROVE FlashInv'
  OBVIOUS
<1> DEFINE Elsewhere == /\ UNCHANGED <<disk, host, prepared>>
                        /\ region'.fs = "junk" /\ ~lost' => region.fs = "junk" /\ ~lost
<1> USE IdentityAssumption, BoundAssumption
  DEF Running, ProvisionInv, TypeOK, diskVars, flashVars, identityVars, RegionInv, HostInv,
    LockInv, Flashing
<1>1. ASSUME NEW p \in Procs, Steps(p), Running PROVE Elsewhere
  BY <1>1 DEF Steps, Lock, MountIdentity, Mkfs, Fresh, Region, Choose, Provision, WriteKey,
    ProvisionMarker, WriteMarker, Remount, Touch
<1>2. ASSUME NEW p \in Procs, Operates(p) \/ Disturbs(p) PROVE Elsewhere
  BY <1>2, ZenonT(60) DEF Operates, Begin, Disturbs, WriteFails, WriteKey, WriteMarker, Killed,
    Unformatted, Formatting, BadFile
<1>3. CASE PowerOn \/ Stage2 \/ EnterEdl \/ Cut \/ OpenpilotService \/ Rots \/ UNCHANGED vars
  <2>1. Elsewhere
    BY <1>3 DEF PowerOn, Stage2, EnterEdl, Cut, Unformatted, Formatting, OpenpilotService,
      OpenpilotStarts, OpenpilotStops, Rots, vars
  <2> QED
    BY <2>1, FlashUntouched
<1>4. 1 \in Others /\ Persist \notin Others
  BY DiskAssumption DEF Others, Blocks
<1>5. host.at \in Nat /\ host.m \in Manifests /\ DOMAIN host = {"pc", "m", "at"}
  BY DEF Manifests
<1>6. CASE Flash
  <2>1. UNCHANGED lost
    BY <1>6 DEF Flash
  <2>2. CASE PrepareCut
    BY <2>1, <2>2 DEF PrepareCut, FlashInv
  <2>3. ASSUME NEW m \in Manifests, FlashStart(m) PROVE FlashInv'
    <3>1. m \in Packages
      BY <2>3, RawIsRefused DEF FlashStart
    <3> QED
      BY <2>1, <2>3, <3>1 DEF FlashStart, Prepared, CacheValid, HostIdle, FlashInv
  <2>4. CASE FlashGpt
    <3>1. \A i \in DOMAIN Operations(host.m) : i \in Nat /\ i >= 1
      BY <2>4, OperationsAre DEF FlashGpt, FlashInv
    <3>2. host'.pc = "run" => Written'
      BY <2>4, <3>1 DEF FlashGpt, FlashInv, Written, HostIdle
    <3>3. CASE RefusesGpt \/ ~FitsBoard(host.m)
      BY <2>1, <2>4, <3>3 DEF FlashGpt, FlashInv, HostIdle
    <3>4. CASE ~(RefusesGpt \/ ~FitsBoard(host.m))
      BY <1>4, <2>1, <2>4, <3>2, <3>4
      DEF FlashGpt, RefusesGpt, InitializePersist, FlashInv, Contents
    <3> QED
      BY <3>3, <3>4
  <2>5. CASE FlashRegion
    <3>1. \A i \in DOMAIN Operations(host.m) : i \in Nat /\ i >= 1
      BY <2>5, OperationsAre DEF FlashRegion, FlashInv
    <3>2. Written'
      BY <2>5, <3>1 DEF FlashRegion, FlashInv, Written
    <3> QED
      BY <2>1, <2>5, <3>2 DEF FlashRegion, Blank, Region, FlashInv
  <2>6. CASE FlashOperation
    <3> DEFINE ops == Operations(host.m)
    <3>1. ops \in Seq(OperationSet) /\ host.at \in DOMAIN ops /\ prepared = "good"
      BY <2>6, OperationsAre DEF FlashOperation, More, FlashInv
    <3>2. Current \in OperationSet /\ Data(Current) = Current.data /\ Current = ops[host.at]
      BY <3>1 DEF Data, Current
    <3>3. region' = region
      BY <2>6, <1>4, <3>2 DEF FlashOperation, OperationSet
    <3>4. host' = [host EXCEPT !.at = host.at + 1] /\ host.pc = "run" /\ prepared' = prepared
      BY <2>6 DEF FlashOperation, More
    <3>5. disk' = [b \in Others |-> IF b \in ops[host.at].blocks THEN ops[host.at].data
                                    ELSE disk[b]]
      BY <2>6, <3>2 DEF FlashOperation
    <3>6. disk' \in [Others -> Contents]
      BY <3>2, <3>5 DEF FlashInv, OperationSet
    <3>7. Written'
      <4>1. host'.m = host.m /\ host'.at = host.at + 1
        BY <3>4, <1>5
      <4> HIDE DEF ops
      <4> SUFFICES ASSUME NEW b \in Others, NEW i \in DOMAIN ops,
                          i < host.at + 1, b \in ops[i].blocks,
                          \A j \in DOMAIN ops : i < j /\ j < host.at + 1 => b \notin ops[j].blocks
                   PROVE  disk'[b] = ops[i].data
        BY <4>1 DEF Written, ops
      <4>2. i \in Nat
        BY <3>1
      <4>3. CASE i = host.at
        BY <3>5, <4>3
      <4>4. CASE i < host.at
        <5>1. b \notin ops[host.at].blocks
          BY <3>1, <4>4, <1>5
        <5>2. \A j \in DOMAIN ops : i < j /\ j < host.at => b \notin ops[j].blocks
          BY <3>1, <1>5
        <5>3. disk[b] = ops[i].data
          BY <3>4, <4>4, <5>2 DEF FlashInv, Written, ops
        <5> QED
          BY <3>5, <5>1, <5>3
      <4> QED
        BY <1>5, <4>2, <4>3, <4>4
    <3> QED
      BY <1>5, <2>1, <3>3, <3>4, <3>6, <3>7 DEF FlashInv
  <2> QED
    BY <1>6, <2>2, <2>3, <2>4, <2>5, <2>6 DEF Flash
<1>7. CASE FlashEnds
  <2>1. UNCHANGED <<lost, prepared>>
    BY <1>7 DEF FlashEnds, FlashReset, FlashAbort
  <2>2. CASE FlashReset \/ (~Flashing /\ UNCHANGED <<flashVars, diskVars, budget>>)
    BY <2>1, <2>2 DEF FlashReset, Done, HostIdle, FlashInv
  <2>3. CASE FlashAbort
    <3>1. host' = HostIdle
      BY <2>3 DEF FlashAbort
    <3>2. CASE More /\ \E done, torn \in SUBSET (Current.blocks \ {Persist}) :
                  disk' = [b \in Others |-> IF b \in torn THEN "torn"
                                      ELSE IF b \in done THEN Data(Current) ELSE disk[b]]
               /\ region' \in Torn(Current.blocks)
      <4>1. Current \in OperationSet /\ Data(Current) = Current.data
        BY <3>2, OperationsAre DEF More, FlashInv, Current, Data
      <4>2. disk' \in [Others -> Contents]
        BY <3>2, <4>1 DEF FlashInv, OperationSet, Contents
      <4>3. region' = region
        BY <1>4, <3>2, <4>1 DEF Torn, OperationSet
      <4> QED
        BY <2>1, <3>1, <3>2, <4>2, <4>3 DEF More, FlashInv, HostIdle
    <3>3. CASE host.pc = "region" /\ UNCHANGED disk
      BY <2>1, <3>1, <3>3 DEF FlashInv, HostIdle
    <3>4. CASE UNCHANGED diskVars
      BY <2>1, <3>1, <3>4 DEF FlashInv, HostIdle
    <3> QED
      BY <2>3, <3>2, <3>3, <3>4, SMTT(30) DEF FlashAbort
  <2> QED
    BY <1>7, <2>2, <2>3 DEF FlashEnds
<1>8. CASE RestoreGpt
  BY <1>4, <1>8 DEF RestoreGpt, FlashInv, Contents
<1> HIDE DEF Elsewhere
<1>9. ASSUME NEW p \in Procs, Commands(p) \/ Operates(p) \/ Disturbs(p) PROVE Elsewhere
  BY <1>1, <1>2, <1>9 DEF Commands
<1>10. Elsewhere => FlashInv'
  BY FlashUntouched DEF Elsewhere
<1> QED
  BY <1>3, <1>6, <1>7, <1>8, <1>9, <1>10 DEF Next

\* At the end of the operations every block holds the image.
LEMMA FlashShows == ProvisionInv /\ FlashInv => FlashComplete
<1> SUFFICES ASSUME ProvisionInv, FlashInv, Done PROVE
      /\ \A b \in Others : disk[b] = Image(host.m)[b]
      /\ lost \/ region.fs # "junk"
  BY DEF FlashComplete
<1>1. host.pc = "run" /\ host.m \in Packages /\ Written /\ host.at \in Nat /\ host.at >= 1
  BY DEF Done, FlashInv, Flashing, ProvisionInv, TypeOK
<1>2. lost \/ region.fs # "junk"
  BY <1>1 DEF FlashInv
<1> DEFINE ops == Operations(host.m)
<1>3. ops \in Seq(OperationSet) /\ host.at \notin DOMAIN ops
  BY <1>1, OperationsAre DEF Done
<1>4. \A i \in DOMAIN ops : i < host.at
  BY <1>1, <1>3
<1>5. ASSUME NEW b \in Others PROVE disk[b] = Image(host.m)[b]
  <2>1. PICK i \in DOMAIN ops :
          /\ b \in ops[i].blocks /\ ops[i].data = Image(host.m)[b]
          /\ \A j \in DOMAIN ops : i < j => b \notin ops[j].blocks
    BY <1>1, PackageWritesLast
  <2> QED
    BY <1>1, <1>4, <2>1 DEF Written
<1> QED
  BY <1>2, <1>5

\* When a flash is about to reset the board, the disk holds the whole image,
\* whatever earlier flashes left of it and whatever lay on the host.
THEOREM FlashIsComplete == Spec => []FlashComplete
<1> QED
  BY InitFlash, StepKeepsFlash, ProvisionInvariant, FlashShows, PTL DEF Spec
=============================================================================
