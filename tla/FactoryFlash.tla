---------------------------- MODULE FactoryFlash -----------------------------
(***************************************************************************)
(* Factory flashing from the host (tools/flash: cli.py install_factory,    *)
(* prepare_rawprogram.py, flash_factory.py): the payload is prepared and   *)
(* verified, the operations are checked, then run one by one over one      *)
(* Firehose session, every program read back.                              *)
(***************************************************************************)
EXTENDS FactoryDisk

VARIABLES
  host,       \* [pc, m, at]: the flash under way, its manifest and the operation
              \* it is at
  prepared    \* the prepared chunks on the host: "none", "stale" or "good"

flashVars == <<host, prepared>>

HostIdle == [pc |-> "idle", m |-> "base", at |-> 1]
Flashing == host.pc # "idle"

\* prepared_cache_valid: every chunk is looked at. Broken variant: none is.
AnyCache == prepared # "none"
CacheValid == prepared = "good"

\* prepare_payload: what cannot be used again is made again from verified objects.
Prepared == IF CacheValid THEN prepared ELSE "good"

FlashStart(m) ==
  /\ ~Flashing /\ Accepted(m) /\ AvoidsPersist(m)
  /\ prepared' = Prepared
  /\ host' = [HostIdle EXCEPT !.pc = "gpt", !.m = m]
  /\ UNCHANGED diskVars

\* The old directory is removed before the new one takes its place.
PrepareCut ==
  /\ ~Flashing
  /\ prepared' = "none"
  /\ UNCHANGED <<host, diskVars>>

\* Everything is checked against the board before the first destructive step.
FitsBoard(m) ==
  \A i \in DOMAIN Operations(m) :
    Operations(m)[i].blocks \subseteq Blocks \ {Persist}

\* flash_operations puts the erasure of the region before everything else.
FlashGpt ==
  /\ host.pc = "gpt"
  /\ host' = IF RefusesGpt \/ ~FitsBoard(host.m) THEN HostIdle
             ELSE [host EXCEPT !.pc = IF InitializePersist THEN "region" ELSE "run"]
  /\ UNCHANGED <<prepared, diskVars>>

FlashRegion ==
  /\ host.pc = "region"
  /\ region' = Blank
  /\ host' = [host EXCEPT !.pc = "run"]
  /\ UNCHANGED <<prepared, disk>>

More == host.pc = "run" /\ host.at \in DOMAIN Operations(host.m)
Done == host.pc = "run" /\ host.at \notin DOMAIN Operations(host.m)
Current == Operations(host.m)[host.at]
Data(op) == IF op.op = "program" /\ prepared = "stale" THEN "old" ELSE op.data

\* EdlDisk.erase, or write_file_verified with a readback that matches.
FlashOperation ==
  /\ More
  /\ disk' = [b \in Others |-> IF b \in Current.blocks THEN Data(Current) ELSE disk[b]]
  /\ region' = IF Persist \in Current.blocks THEN Blank ELSE region
  /\ host' = [host EXCEPT !.at = @ + 1]
  /\ UNCHANGED prepared

FlashReset ==
  /\ Done
  /\ host' = HostIdle
  /\ UNCHANGED <<prepared, diskVars>>

\* The session breaks or a readback differs: nothing else is written, and what
\* the operation was writing is old, new or neither.
Torn(written) == IF Persist \in written THEN {region, Blank, Junk} ELSE {region}

FlashAbort ==
  /\ Flashing
  /\ host' = HostIdle
  /\ \/ /\ More
        /\ \E done, torn \in SUBSET (Current.blocks \ {Persist}) :
             disk' = [b \in Others |-> IF b \in torn THEN "torn"
                                      ELSE IF b \in done THEN Data(Current) ELSE disk[b]]
        /\ region' \in Torn(Current.blocks)
     \/ host.pc = "region" /\ region' \in Torn({Persist}) /\ UNCHANGED disk
     \/ (host.pc = "gpt" \/ Done) /\ UNCHANGED diskVars
  /\ UNCHANGED prepared
=============================================================================
