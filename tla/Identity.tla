------------------------------ MODULE Identity -------------------------------
(***************************************************************************)
(* The device identity (userspace/root/usr/lib/vamos/identity.py): the     *)
(* commands initialize, status and replace on the identity region, and     *)
(* the openpilot service that starts only once the identity is ready.      *)
(* Stage 1 runs initialize; the others are the operator's.                 *)
(***************************************************************************)
EXTENDS FactoryDisk

CONSTANTS
  Procs,      \* the commands that may run at the same time
  Ids         \* the identities that are made or imported

ASSUME IdentityAssumption ==
  Procs # {} /\ Ids # {} /\ "none" \notin Procs /\ {NoKey, Damaged} \cap Ids = {}

VARIABLES
  mount,      \* /persist: "none", "ro" or "rw"
  ready,      \* /run/vamos-identity-ready exists
  lock,       \* who holds /run/vamos-identity.lock, a member of Procs or NoProc
  proc,       \* proc[p]: [kind, pc, ok] of a command
  openpilot,  \* [runs, key, raced]: the service, the identity it started with,
              \* and whether it started under a replacement already checked
  given       \* history: the identity the board was given last, or NoKey

identityVars == <<mount, ready, lock, proc, openpilot, given>>

NoProc == "none"
Kinds == {"initialize", "status", "replace"}
Idle == [kind |-> "status", pc |-> "idle", ok |-> FALSE]
Stopped == [runs |-> FALSE, key |-> NoKey, raced |-> FALSE]

\* What a start of the board resets.
RuntimeIdle ==
  /\ mount = "none" /\ ready = FALSE /\ lock = NoProc
  /\ proc = [p \in Procs |-> Idle]
  /\ openpilot = Stopped

RuntimeLost ==
  /\ mount' = "none" /\ ready' = FALSE /\ lock' = NoProc
  /\ proc' = [p \in Procs |-> Idle]
  /\ openpilot' = Stopped

At(p, pc) == proc[p].pc = pc
Go(p, pc) == proc' = [proc EXCEPT ![p].pc = pc]
Exit(p) == proc' = [proc EXCEPT ![p] = Idle] /\ lock' = NoProc

-----------------------------------------------------------------------------
\* main, up to the lock. Broken variant: openpilot may be running.
BeginUnchecked(p, kind) ==
  /\ At(p, "idle")
  /\ proc' = [proc EXCEPT ![p] = [kind |-> kind, pc |-> "lock", ok |-> FALSE]]
  /\ UNCHANGED <<diskVars, mount, ready, lock, openpilot, given>>
Begin(p, kind) ==
  /\ At(p, "idle")
  /\ kind = "replace" => ~openpilot.runs
  /\ proc' = [proc EXCEPT ![p] = [kind |-> kind, pc |-> "lock", ok |-> FALSE]]
  /\ UNCHANGED <<diskVars, mount, ready, lock, openpilot, given>>

Lock(p) ==
  /\ At(p, "lock") /\ lock = NoProc
  /\ lock' = p
  /\ Go(p, "mount")
  /\ UNCHANGED <<diskVars, mount, ready, openpilot, given>>

\* mount_identity: only the persist partition of this layout is mounted, read
\* only, and only a region of zeros is given a file system.
MountIdentity(p) ==
  /\ At(p, "mount")
  /\ IF disk[1] # "os" \/ (mount = "none" /\ region.fs = "junk")
     THEN Exit(p) /\ UNCHANGED mount
     ELSE IF mount = "none" /\ region.fs = "blank"
     THEN Go(p, "mkfs") /\ UNCHANGED <<mount, lock>>
     ELSE mount' = "ro" /\ Go(p, "choose") /\ UNCHANGED lock
  /\ UNCHANGED <<diskVars, ready, openpilot, given>>

Mkfs(p) ==
  /\ At(p, "mkfs")
  /\ region' = Fresh
  /\ mount' = "ro"
  /\ Go(p, "choose")
  /\ UNCHANGED <<disk, ready, lock, openpilot, given>>

\* READY goes first: openpilot is not started on an identity in motion.
\* Broken variant: a replacement leaves READY where it is.
StaysReady(p) == ready' = (ready /\ proc[p].kind = "replace")
NotReady(p) == ready' = FALSE

Choose(p) ==
  /\ At(p, "choose")
  /\ IF proc[p].kind = "status"
     THEN Exit(p) /\ UNCHANGED <<mount, ready>>
     ELSE /\ NotReady(p)
          /\ UNCHANGED lock
          /\ IF proc[p].kind = "replace" \/ region.key = NoKey \/ ~region.marker
             THEN mount' = "rw" /\ Go(p, "key")
             ELSE /\ proc' = [proc EXCEPT ![p].pc = "ro", ![p].ok = region.key # Damaged]
                  /\ UNCHANGED mount
  /\ UNCHANGED <<diskVars, openpilot, given>>

\* The file given to replace is not an identity.
BadFile(p) ==
  /\ At(p, "choose") /\ proc[p].kind = "replace"
  /\ NotReady(p)
  /\ Exit(p)
  /\ UNCHANGED <<diskVars, mount, openpilot, given>>

\* provision: which identities KEY may be given; none when it is damaged or
\* was lost. Broken variants: it is then made anew; a key without the marker,
\* left by a cut, is refused.
Remade(p) == IF proc[p].kind # "replace" /\ Held THEN {region.key} ELSE Ids
HalfRefused(p) ==
  IF proc[p].kind = "replace" \/ (region.key = NoKey /\ ~region.marker) THEN Ids
  ELSE IF Held /\ region.marker THEN {region.key} ELSE {}
Candidates(p) ==
  IF proc[p].kind = "replace" THEN Ids
  ELSE IF Held THEN {region.key}
  ELSE IF region.key = NoKey /\ ~region.marker THEN Ids
  ELSE {}

WriteKey(p, id) ==
  /\ region' = [region EXCEPT !.key = id]
  /\ given' = IF region.marker /\ proc[p].kind = "replace" THEN id ELSE given

WriteMarker(p) ==
  /\ region' = [region EXCEPT !.marker = TRUE]
  /\ given' = IF ~region.marker /\ Held THEN region.key ELSE given

Provision(p) ==
  /\ At(p, "key")
  /\ IF Candidates(p) = {} THEN Go(p, "ro") /\ UNCHANGED <<region, given>>
     ELSE /\ \E id \in Candidates(p) : WriteKey(p, id)
          /\ Go(p, "marker")
  /\ UNCHANGED <<disk, mount, ready, lock, openpilot>>

ProvisionMarker(p) ==
  /\ At(p, "marker")
  /\ WriteMarker(p)
  /\ proc' = [proc EXCEPT ![p].pc = "ro", ![p].ok = TRUE]
  /\ UNCHANGED <<disk, mount, ready, lock, openpilot>>

Remount(p) ==
  /\ At(p, "ro")
  /\ mount' = "ro"
  /\ IF proc[p].ok /\ proc[p].kind = "initialize"
     THEN Go(p, "touch") /\ UNCHANGED lock
     ELSE Exit(p)
  /\ UNCHANGED <<diskVars, ready, openpilot, given>>

Touch(p) ==
  /\ At(p, "touch")
  /\ ready' = TRUE
  /\ Exit(p)
  /\ UNCHANGED <<diskVars, mount, openpilot, given>>

Steps(p) ==
  Lock(p) \/ MountIdentity(p) \/ Mkfs(p) \/ Choose(p) \/ Provision(p)
    \/ ProvisionMarker(p) \/ Remount(p) \/ Touch(p)

-----------------------------------------------------------------------------
\* A write fails, before the file is in place or at the last fsync: /persist is
\* made read-only again and READY is not touched.
WriteFails(p) ==
  /\ \/ proc[p].pc \in {"key", "marker"} /\ UNCHANGED <<region, given>>
     \/ At(p, "key") /\ \E id \in Candidates(p) : WriteKey(p, id)
     \/ At(p, "marker") /\ WriteMarker(p)
  /\ proc' = [proc EXCEPT ![p].pc = "ro", ![p].ok = FALSE]
  /\ UNCHANGED <<disk, mount, ready, lock, openpilot>>

\* The command is killed, or mkfs or a mount fails. An unfinished mkfs leaves
\* what it wrote.
Formatting == \E p \in Procs : At(p, "mkfs")
Unformatted == IF Formatting THEN {region, Junk} ELSE {region}

Killed(p) ==
  /\ proc[p].pc \notin {"idle", "lock"}
  /\ region' \in IF At(p, "mkfs") THEN Unformatted ELSE {region}
  /\ Exit(p)
  /\ UNCHANGED <<disk, mount, ready, openpilot, given>>

\* etc/sv/openpilot/run: started by runit whenever it does not run.
Replacing(p) == proc[p].kind = "replace" /\ proc[p].pc \in {"lock", "mount", "mkfs", "choose"}
OpenpilotStarts ==
  /\ ~openpilot.runs /\ ready
  /\ openpilot' = [runs |-> TRUE, key |-> region.key,
                   raced |-> \E p \in Procs : Replacing(p)]
  /\ UNCHANGED <<diskVars, mount, ready, lock, proc, given>>

OpenpilotStops ==
  /\ openpilot.runs
  /\ openpilot' = Stopped
  /\ UNCHANGED <<diskVars, mount, ready, lock, proc, given>>
=============================================================================
