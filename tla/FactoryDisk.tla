----------------------------- MODULE FactoryDisk -----------------------------
(***************************************************************************)
(* The UFS of a board as the factory tools see it: blocks of one chunk,    *)
(* the first one with the partition table, and one block, Persist, that is *)
(* the identity region. tools/build/package_flash.py makes the operations  *)
(* of a manifest from the images; tools/flash/persist.py reads the table.  *)
(***************************************************************************)
EXTENDS Naturals, Sequences, FiniteSets

CONSTANTS Size, Persist,      \* the number of blocks, and the identity region
          Base, Openpilot     \* the factory image, without and with openpilot

Blocks == 1..Size
Others == Blocks \ {Persist}

\* What a block holds. The first one: no table ("zero"), a table without persist
\* ("old"), with it ("os"), with it elsewhere ("moved"), or a bad one ("torn").
Contents == {"zero", "old", "os", "moved", "torn", "data", "openpilot"}

ASSUME DiskAssumption ==
  /\ Size \in Nat /\ Persist \in 2 .. (Size - 1)
  /\ Base \in [Blocks -> Contents] /\ Openpilot \in [Blocks -> Contents]
  /\ Base[1] = "os" /\ Openpilot[1] = "os"

VARIABLES
  disk,      \* disk[b]: what block b holds, for every block but Persist
  region     \* the identity region: [fs, key, marker]

diskVars == <<disk, region>>

\* fs: all zeros, an identity file system, or anything else. key: the identity
\* in KEY, NoKey for none, Damaged for one that fails its checks.
Damaged == "damaged"
NoKey == "none"
Region(fs, key, marker) == [fs |-> fs, key |-> key, marker |-> marker]
Blank == Region("blank", NoKey, FALSE)
Junk == Region("junk", NoKey, FALSE)
Fresh == Region("identity", NoKey, FALSE)

Held == region.key \notin {NoKey, Damaged}

-----------------------------------------------------------------------------
\* The operations of a manifest.
Erase(blocks) == [op |-> "erase", blocks |-> blocks, data |-> "zero"]
Program(image, b) == [op |-> "program", blocks |-> {b}, data |-> image[b]]

InOrder(wanted) ==
  CHOOSE s \in [1 .. Cardinality(wanted) -> wanted] :
    \A i, j \in DOMAIN s : i < j => s[i] < s[j]

\* package_base_image: everything but Persist is erased, then what is not zero
\* is programmed.
BaseOperations ==
  LET chunks == InOrder({b \in Others : Base[b] # "zero"}) IN
  <<Erase(1 .. (Persist - 1)), Erase((Persist + 1) .. Size)>>
    \o [i \in DOMAIN chunks |-> Program(Base, chunks[i])]

\* package_delta. Broken variant: a chunk that becomes zero is left out.
DeltaWithoutErase ==
  LET changed == InOrder({b \in Others : Openpilot[b] \notin {Base[b], "zero"}})
  IN [i \in DOMAIN changed |-> Program(Openpilot, changed[i])]
DeltaOperations ==
  LET changed == InOrder({b \in Others : Openpilot[b] # Base[b]}) IN
  [i \in DOMAIN changed |->
     IF Openpilot[changed[i]] = "zero" THEN Erase({changed[i]})
     ELSE Program(Openpilot, changed[i])]

\* The manifests a host may be given: the two packages, and one that writes a
\* raw image over the whole disk.
Manifests == {"base", "openpilot", "raw"}
Operations(m) ==
  CASE m = "base" -> BaseOperations
    [] m = "openpilot" -> BaseOperations \o DeltaOperations
    [] m = "raw" -> <<Erase(Blocks)>> \o [b \in Blocks |-> Program(Base, b)]

Image(m) == IF m = "openpilot" THEN Openpilot ELSE Base

\* operations_for_payload: no operation touches Persist.
AvoidsPersist(m) ==
  \A i \in DOMAIN Operations(m) : Persist \notin Operations(m)[i].blocks

\* validate_factory: the first two operations erase all the rest.
Accepted(m) ==
  SubSeq(Operations(m), 1, 2) =
    <<Erase(1 .. (Persist - 1)), Erase((Persist + 1) .. Size)>>

\* initialize_persist. Refusal: the table is bad or has persist elsewhere.
RefusesGpt == disk[1] \in {"moved", "torn", "data", "openpilot"}
\* Broken variant: the superblock in the region is not looked at.
InitializeBlindly == disk[1] = "old"
InitializePersist == disk[1] = "old" /\ region.fs # "identity"
=============================================================================
