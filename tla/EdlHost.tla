------------------------------- MODULE EdlHost -------------------------------
(***************************************************************************)
(* Two host tools that write to a board in EDL: vamos uboot, which         *)
(* replaces U-Boot in the NOR flash (tools/flash: cli.py install_uboot,    *)
(* uboot_recipe.py), and the normal-boot request, which writes both        *)
(* boot-control records (edl_normal.py request_normal). Each is a sequence *)
(* of requests of one session; a tool that fails may be run again.         *)
(***************************************************************************)
EXTENDS FirehoseSession

CONSTANTS MaxFaults, MaxGen

ASSUME HostAssumption ==
  /\ Parts = {"layout", "a", "b", "nor"}
  /\ MaxFaults \in Nat /\ MaxGen \in Nat

VARIABLES
  host,      \* [pc, dev, seen, chosen]: the tool's step, the board it was started
             \* for, what it read first and the record it chose
  backups,   \* the NOR backups on the host: [dev, nor]
  plugged,   \* the boards on the cable
  faults,    \* how many have happened
  ghost      \* history: each board's first NOR, the generation last reported as
             \* requested, whether a board was exchanged behind the last check,
             \* and whether the child was left to itself

vars == <<sessionVars, host, backups, plugged, faults, ghost>>

\* What the NOR holds: a revision with a recipe, the current U-Boot, another
\* revision, or Torn. What a or b holds: the generation of its record, or Torn.
\* The layout is what leads to them: the partition table and both file systems.
Known == 1
Current == 2
Foreign == 3
Sound == 1

Idle == [pc |-> "idle", dev |-> "none", seen |-> Torn, chosen |-> Torn]

Init ==
  /\ \E d \in Boards, nor \in {Known, Current, Foreign},
        layout \in {Torn, Sound}, a, b \in {Torn, 1} :
       /\ a # Torn \/ b # Torn
       /\ layout = Sound \/ a = b                        \* bounds: the board has
       /\ nor = Current \/ (layout = Sound /\ a = b)    \* one part in trouble
       /\ store = [x \in Boards |->
            IF x = d THEN [layout |-> layout, a |-> a, b |-> b, nor |-> nor]
            ELSE [layout |-> Sound, a |-> 1, b |-> 1, nor |-> Known]]
  /\ session = Closed
  /\ plugged \in SUBSET Boards
  /\ child = Gone
  /\ host = Idle
  /\ backups = {}
  /\ faults = 0
  /\ ghost = [nor |-> [d \in Boards |-> store[d]["nor"]],
              asked |-> [d \in Boards |-> Torn], swapped |-> FALSE, left |-> FALSE]

Fault == faults < MaxFaults /\ faults' = faults + 1

-----------------------------------------------------------------------------
\* select_edl: exactly one board is in EDL.
Selects(d) == plugged = {d}

\* main: the board is selected and confirmed.
StartUboot ==
  /\ host.pc = "idle" /\ ~session.open
  /\ \E d \in Boards : Selects(d) /\ host' = [Idle EXCEPT !.pc = "access", !.dev = d]
  /\ UNCHANGED <<sessionVars, backups, plugged, faults, ghost>>

\* The signed manifests cannot be had, or do not verify.
DownloadFails ==
  /\ host.pc = "access"
  /\ host' = Idle
  /\ UNCHANGED <<sessionVars, backups, plugged, faults, ghost>>

\* access_device, after the downloads. (A board that was taken off and put back
\* has another address and is refused; here it passes.)
\* Broken variant: the board is not compared.
AccessAny ==
  /\ host.pc = "access"
  /\ host' = [host EXCEPT !.pc = "open"]
  /\ UNCHANGED <<sessionVars, backups, plugged, faults, ghost>>
Access ==
  /\ host.pc = "access"
  /\ host' = IF Selects(host.dev) THEN [host EXCEPT !.pc = "open"] ELSE Idle
  /\ UNCHANGED <<sessionVars, backups, plugged, faults, ghost>>

\* EdlDisk selects the board again, whichever it is.
Opens(d) ==
  /\ Selects(d)
  /\ OpenSession(d)
  /\ UNCHANGED <<backups, plugged, faults, ghost>>

OpenUboot ==
  /\ host.pc = "open"
  /\ \E d \in Boards : Opens(d)
  /\ host' = [host EXCEPT !.pc = "nor1"]

\* cmd_normal of dragon.py.
StartNormal ==
  /\ host.pc = "idle"
  /\ \E d \in Boards :
       Opens(d) /\ host' = [Idle EXCEPT !.pc = "layout", !.dev = d]

\* No board, more than one, or the interface is still claimed.
OpenRefused ==
  /\ host.pc = "open" /\ (child.alive \/ \A d \in Boards : ~Selects(d))
  /\ host' = Idle
  /\ UNCHANGED <<sessionVars, backups, plugged, faults, ghost>>

-----------------------------------------------------------------------------
\* The tools step by step: the request of each step, and the step after it.
Requests ==
  [nor1 |-> Read("nor"), nor2 |-> Read("nor"), norWrite |-> Write("nor", Current),
   norCheck |-> Read("nor"), norWhole |-> Read("nor"), norReset |-> Reset,
   layout |-> Read("layout"), readA |-> Read("a"), readB |-> Read("b"),
   writeB |-> Write("b", host.chosen + 1), checkB |-> Read("b"),
   writeA |-> Write("a", host.chosen + 1), checkA |-> Read("a"), reset |-> Reset]

Following ==
  [nor1 |-> "nor2", nor2 |-> "backup", norWrite |-> "norCheck",
   norCheck |-> "norWhole", norWhole |-> "norReset", norReset |-> "idle",
   layout |-> "readA", readA |-> "readB", readB |-> "writeB", writeB |-> "checkB",
   checkB |-> "writeA", writeA |-> "checkA", checkA |-> "reset", reset |-> "idle"]

Newer(x, y) == IF y > x THEN y ELSE x

\* esp_partitions, FatBootControl: the table and the paths to both records check
\* out. No path is followed in a layout that does not.
SoundLayout(v) == v # Torn

\* What an answer must be for the tool to go on: the layout and both records are
\* valid before the first write, and every write is read back.
\* Broken variants: a record that is not valid is passed over; a write is trusted.
PassesOne(v) ==
  CASE host.pc = "nor2" -> v = host.seen
    [] host.pc \in {"norCheck", "norWhole"} -> v = Current
    [] host.pc = "layout" -> SoundLayout(v)
    [] host.pc = "readB" -> Newer(host.seen, v) < MaxGen
    [] host.pc \in {"checkA", "checkB"} -> v = host.chosen + 1
    [] OTHER -> TRUE
PassesWrites(v) ==
  CASE host.pc = "nor2" -> v = host.seen
    [] host.pc = "layout" -> SoundLayout(v)
    [] host.pc = "readA" -> v # Torn
    [] host.pc = "readB" -> v # Torn /\ Newer(host.seen, v) < MaxGen
    [] OTHER -> TRUE
Passes(v) ==
  CASE host.pc = "nor2" -> v = host.seen
    [] host.pc \in {"norCheck", "norWhole"} -> v = Current
    [] host.pc = "layout" -> SoundLayout(v)
    [] host.pc = "readA" -> v # Torn
    [] host.pc = "readB" -> v # Torn /\ Newer(host.seen, v) < MaxGen
    [] host.pc \in {"checkA", "checkB"} -> v = host.chosen + 1
    [] OTHER -> TRUE

Ask ==
  /\ host.pc \in DOMAIN Requests
  /\ Send(Requests[host.pc])
  /\ UNCHANGED <<host, backups, plugged, faults, ghost>>

GoOn ==
  /\ Heard /\ Passes(Head(child.out))
  /\ Hear
  /\ LET v == Head(child.out) IN
     host' = [host EXCEPT !.pc = Following[@],
                          !.seen = IF host.pc \in {"nor1", "readA"} THEN v ELSE @,
                          !.chosen = IF host.pc = "readB" THEN Newer(host.seen, v) ELSE @]
  /\ ghost' = [ghost EXCEPT
       !.asked[host.dev] = IF host.pc = "checkA" THEN host.chosen + 1 ELSE @]
  /\ UNCHANGED <<backups, plugged, faults>>

\* _verify, or an error of the child: the session is closed.
Stop ==
  /\ \/ Heard /\ ~Passes(Head(child.out))
     \/ Waiting /\ child.out = <<>> /\ ~child.alive
  /\ CloseSession
  /\ host' = Idle
  /\ UNCHANGED <<backups, plugged, faults, ghost>>

\* with EdlDisk: the session of a finished tool is closed.
Finish ==
  /\ host.pc = "idle" /\ session.open
  /\ CloseSession
  /\ UNCHANGED <<host, backups, plugged, faults, ghost>>

\* The backup is named after the confirmed board and its content, and is on
\* disk before anything is written. Broken variant: the name is the board's.
SavedOver(backup) == {b \in backups : b.dev # backup.dev} \cup {backup}
Saved(backup) == backups \cup {backup}

\* prepare: a NOR with a recipe is written, the current one only checked, any
\* other one left alone.
Prepared(nor) ==
  CASE nor = Known -> "norWrite" [] nor = Current -> "norWhole" [] OTHER -> "idle"

\* Downloads.verified: the template of a known revision is what was signed, from
\* the cache or anew, or the tool ends.
Verified(next) == IF next = "norWrite" THEN {next, "idle"} ELSE {next}

Backup ==
  /\ host.pc = "backup"
  /\ backups' = Saved([dev |-> host.dev, nor |-> host.seen])
  /\ \E next \in Verified(Prepared(host.seen)) :
       IF next = "idle" THEN host' = Idle /\ CloseSession
       ELSE host' = [host EXCEPT !.pc = next] /\ UNCHANGED sessionVars
  /\ UNCHANGED <<plugged, faults, ghost>>

-----------------------------------------------------------------------------
TimeOut ==
  /\ Waiting /\ Fault
  /\ GiveUp
  /\ host' = Idle
  /\ UNCHANGED <<backups, plugged, ghost>>

\* The tool is killed, or sudo does not let it kill its child.
Abandon ==
  /\ session.open /\ Fault
  /\ LeaveSession
  /\ host' = Idle
  /\ ghost' = [ghost EXCEPT !.left = child'.alive]
  /\ UNCHANGED <<backups, plugged>>

Child ==
  /\ \/ (ChildWorks \/ ChildEnds) /\ UNCHANGED faults
     \/ (ChildErrs \/ ChildFails) /\ Fault
  /\ ghost' = [ghost EXCEPT !.left = @ /\ child'.alive]
  /\ UNCHANGED <<host, backups, plugged>>

\* Boards are put on the cable or taken off.
Exchange ==
  /\ ~child.alive
  /\ plugged' \in SUBSET Boards \ {plugged}
  /\ ghost' = [ghost EXCEPT !.swapped = @ \/ host.pc = "open"]
  /\ UNCHANGED <<sessionVars, host, backups, faults>>

Next ==
  \/ StartUboot \/ Access \/ DownloadFails \/ StartNormal \/ OpenUboot \/ OpenRefused
  \/ Ask \/ GoOn \/ Stop \/ Finish \/ Backup
  \/ TimeOut \/ Abandon \/ Child \/ Exchange

Spec == Init /\ [][Next]_vars

-----------------------------------------------------------------------------
\* A board whose NOR is not what it was has a backup of what it was under its own
\* name, whatever failed and however often the tool was run; unless it was put on
\* the cable between the last check of the board and the opening of the session,
\* which nothing compares.
BackupKept ==
  ghost.swapped \/ \A d \in Boards :
    store[d]["nor"] # ghost.nor[d] => [dev |-> d, nor |-> ghost.nor[d]] \in backups

\* However a request for a normal boot ends, a board keeps a valid record, and
\* none that was reported as requested is lost.
RecordsKept ==
  \A d \in Boards :
    /\ store[d]["a"] # Torn \/ store[d]["b"] # Torn
    /\ Newer(store[d]["a"], store[d]["b"]) >= ghost.asked[d]

\* What a step relies on is true of the board, not only of what was read: a record
\* is first written when the layout and both records are sound, and a tool that
\* comes to the reset has on the board what it was run for.
ChecksHold ==
  /\ host.pc = "writeB" /\ ~Waiting =>
       \A p \in {"layout", "a", "b"} : store[host.dev][p] # Torn
  /\ host.pc = "norReset" /\ child.alive => store[child.dev]["nor"] = Current
  /\ host.pc = "reset" => {store[host.dev]["a"], store[host.dev]["b"]} = {host.chosen + 1}

\* A board changes only while the tool waits for that write, at the end of which
\* it may give up, or by the child of a tool that could not end it: no write of
\* a session that was closed comes late.
NoLateWrite ==
  [][store' # store => Waiting \/ ghost.left]_vars
=============================================================================
