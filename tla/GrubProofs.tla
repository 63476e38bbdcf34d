------------------------------ MODULE GrubProofs ------------------------------
(***************************************************************************)
(* The GRUB selector acts once on a request, keeps a recovery and decides  *)
(* what Linux reads, through any number of failing writes, torn copies,    *)
(* load errors and power cuts.  GRUB overwrites copies without a new       *)
(* generation, so the order of the copies alone does not say which one is  *)
(* the later.  The invariant relates both copies to what GRUB holds in its *)
(* variables: none is ahead of it (Under), and copies of one generation    *)
(* name the same default for as long as their trial is not decided         *)
(* (Twins).                                                                *)
(***************************************************************************)
EXTENDS GrubSelector, TLAPS

Arguments == {"none", "trial", "recovery"}
GrubSteps == {"start", "edl", "phase", "trial", "boot"}

Types ==
  /\ TypeOKStore
  /\ run \in [mode : Modes, pc : GrubSteps, mem : Controls, slot : Slots, arg : Arguments]
  /\ kernel \in [Slots -> BOOLEAN]
  /\ ghost \in [trials : {0, 1}, edls : {0, 1}, kept : Slots \cup {NoSlot}]

\* Copies of one generation whose trial is undecided have the same default.
Undecided(r) == r.phase # "stable"
Twins(copy) ==
  \A s, t \in Slots :
    /\ copy[s] # Damaged /\ copy[t] # Damaged
    /\ copy[s].gen = copy[t].gen
    /\ Undecided(copy[s]) /\ Undecided(copy[t])
    => copy[s].active = copy[t].active

\* GRUB's record m is at least as far as the copy c, which it came from.
Behind(c, m) ==
  \/ c.gen < m.gen
  \/ /\ c.gen = m.gen
     /\ Rank(c.phase) <= Rank(m.phase)
     /\ Undecided(c) /\ Undecided(m) => c.active = m.active

Under(copy, m) ==
  /\ ~m.edl /\ GrubSelected(copy).gen = m.gen
  /\ \A s \in Slots : copy[s] # Damaged => Behind(copy[s], m)

\* Every copy of m's generation has its default.
Alike(copy, m) ==
  \A s \in Slots : copy[s] # Damaged /\ copy[s].gen = m.gen => copy[s].active = m.active

\* Linux's record is new to a copy, or the copy itself.
Newest(copy, rec) ==
  \A s \in Slots : copy[s] # Damaged => copy[s].gen < rec.gen \/ copy[s] = rec

\* A request is carried out once, and each record that carries it may be the one.
Owed(r, g) == (r.phase = "armed" => g.trials = 1) /\ (r.edl => g.edls = 1)

CopiesInv == Readable(esp) /\ Twins(esp) /\ Owed(GrubSelected(esp), ghost)

LinuxInv ==
  writer["linux"].at # NoSlot =>
    LET rec == writer["linux"].rec IN
    run.mode = "linux" /\ rec \in Controls /\ Newest(esp, rec) /\ Owed(rec, ghost)

\* What GRUB has in its variables, and what of it is on record.
InGrub(pcs) == run.mode = "grub" /\ run.pc \in pcs

MemInv ==
  /\ writer["grub"].at # NoSlot =>
       InGrub({"edl", "trial", "boot"}) /\ writer["grub"].rec = run.mem
  /\ InGrub({"edl", "phase", "trial", "boot"}) => Under(esp, run.mem) /\ Owed(run.mem, ghost)
  /\ InGrub({"edl", "trial"}) /\ Saved => ~SupersedesGrub(run.mem, GrubSelected(esp))

OnDefault ==
  \/ Alike(esp, run.mem)
  \/ Settled("grub") /\ (Selected(esp).active = run.mem.active \/ Divided)

\* What a step of GRUB relies on.
StepInv ==
  /\ run.mode = "off" => run.pc = "start" /\ run.arg = "none"
  /\ InGrub({"start", "edl", "phase", "trial"}) => run.arg = "none"
  /\ InGrub({"edl"}) => ghost.edls = 1
  /\ InGrub({"edl", "phase"}) =>
       LET r == GrubSelected(esp) IN r.active = run.mem.active /\ r.phase = run.mem.phase
  /\ InGrub({"trial"}) => run.mem.phase = "attempted" /\ ghost.trials = 1
  /\ InGrub({"boot"}) =>
       CASE run.arg = "trial" ->
              /\ run.slot = run.mem.pending /\ run.mem.phase = "attempted"
              /\ GrubSelected(esp).phase = "attempted"
              /\ ghost.trials = 1 /\ Settled("grub")
         [] run.arg = "none" -> run.slot = run.mem.active /\ OnDefault
         [] run.arg = "recovery" -> run.slot = run.mem.active /\ run.mem.phase = "stable"

KeptInv ==
  ghost.kept # NoSlot =>
    LET r == GrubSelected(esp) IN
    /\ \A p \in Writers : Settled(p)
    /\ r.active = ghost.kept /\ r.phase = "stable" /\ ~r.edl

GrubInv == Types /\ CopiesInv /\ LinuxInv /\ MemInv /\ StepInv /\ KeptInv

-----------------------------------------------------------------------------
LEMMA WritersAre == Writers = {"grub", "linux"} /\ "grub" # "linux"
BY GrubAssumption

LEMMA PeersAre ==
  \A s \in Slots : Peer(s) \in Slots /\ Peer(s) # s /\ Peer(Peer(s)) = s
BY DEF Slots, Peer

\* The records of an image and of a factory disk.
LEMMA GivenRecords ==
  /\ ImageRecord \in Controls /\ FactoryRecord \in Controls
  /\ FactoryRecord.phase = "stable" /\ ~FactoryRecord.edl
BY DEF ImageRecord, FactoryRecord, Policy, Controls, ControlRecord, Valid, Slots, NoSlot,
       Phases, Stages

LEMMA RecordFields ==
  \A r \in Controls :
    /\ r.gen \in Nat /\ r.active \in Slots /\ r.phase \in Phases /\ r.edl \in BOOLEAN
    /\ r.phase # "stable" => r.pending = Peer(r.active) /\ r.pending \in Slots
    /\ r # Damaged
BY DamagedAssumption DEF Controls, ControlRecord, Valid, Slots, Peer

LEMMA Ranks ==
  \A x \in Phases : /\ Rank(x) \in 1..3
                    /\ (Rank(x) = 1) <=> (x = "armed")
                    /\ (Rank(x) = 2) <=> (x = "attempted")
                    /\ (Rank(x) = 3) <=> (x = "stable")
BY DEF Phases, Rank

\* What GRUB selects is a copy, no copy is ahead of it, and Linux selects one of
\* the same generation and phase; the same one unless b alone dropped a request.
LEMMA ReadersAgree ==
  ASSUME NEW copy \in [Slots -> Copies], Readable(copy)
  PROVE  LET g == GrubSelected(copy)
             r == Selected(copy) IN
         /\ g \in Controls /\ r \in Controls
         /\ \E s \in Slots : copy[s] = g
         /\ \E s \in Slots : copy[s] = r
         /\ \A s \in Slots : copy[s] # Damaged =>
              ~SupersedesGrub(copy[s], g) /\ ~Supersedes(copy[s], r)
         /\ r.gen = g.gen /\ r.phase = g.phase
         /\ r # g => copy["a"] = r /\ copy["b"] = g /\ r.edl /\ ~g.edl
<1> DEFINE a == copy["a"]
           b == copy["b"]
           g == GrubSelected(copy)
           r == Selected(copy)
<1>1. a \in Copies /\ b \in Copies /\ (a # Damaged \/ b # Damaged)
  BY DEF Slots, Readable, Selected
<1>2. CASE a = Damaged
  BY <1>1, <1>2, RecordFields, Ranks DEF Readable, Selected, GrubSelected, Slots, Copies,
     SupersedesGrub, Supersedes
<1>3. CASE b = Damaged
  BY <1>1, <1>3, RecordFields, Ranks DEF Readable, Selected, GrubSelected, Slots, Copies,
     SupersedesGrub, Supersedes
<1>4. CASE a # Damaged /\ b # Damaged
  <2>1. /\ a \in Controls /\ b \in Controls
        /\ g = IF SupersedesGrub(b, a) THEN b ELSE a
        /\ r = IF Supersedes(b, a) THEN b ELSE a
    BY <1>1, <1>4 DEF Readable, Selected, GrubSelected, Slots, Copies
  <2>2. /\ a.gen \in Nat /\ b.gen \in Nat /\ a.phase \in Phases /\ b.phase \in Phases
        /\ a.edl \in BOOLEAN /\ b.edl \in BOOLEAN
        /\ Rank(a.phase) \in 1..3 /\ Rank(b.phase) \in 1..3
        /\ Rank(a.phase) = Rank(b.phase) => a.phase = b.phase
    BY <2>1, RecordFields, Ranks
  <2> HIDE DEF a, b
  <2>3. /\ r.gen = g.gen /\ r.phase = g.phase
        /\ ~SupersedesGrub(a, g) /\ ~SupersedesGrub(b, g)
        /\ ~Supersedes(a, r) /\ ~Supersedes(b, r)
        /\ r # g => a = r /\ b = g /\ r.edl /\ ~g.edl
    <3>1. CASE Supersedes(b, a)
      BY <3>1, <2>1, <2>2 DEF Supersedes, SupersedesGrub
    <3>2. CASE ~Supersedes(b, a)
      BY <3>2, <2>1, <2>2 DEF Supersedes, SupersedesGrub
    <3> QED
      BY <3>1, <3>2
  <2> QED
    BY <2>1, <2>3 DEF Slots, a, b
<1> QED
  BY <1>2, <1>3, <1>4

\* Copy a is left only for one that is ahead of it.
LEMMA FirstWins ==
  ASSUME NEW copy, Readable(copy), copy["a"] # Damaged, GrubSelected(copy) # copy["a"]
  PROVE  SupersedesGrub(GrubSelected(copy), copy["a"])
BY DEF GrubSelected, Slots

\* What GRUB selects is decided by generation, phase and request alone.
LEMMA SelectedFacts ==
  ASSUME NEW copy \in [Slots -> Copies], Readable(copy)
  PROVE  LET g == GrubSelected(copy) IN
         /\ g \in Controls
         /\ \E s \in Slots : copy[s] = g
         /\ \A s \in Slots : copy[s] # Damaged =>
              \/ copy[s].gen < g.gen
              \/ copy[s].gen = g.gen /\ Rank(copy[s].phase) < Rank(g.phase)
              \/ copy[s].gen = g.gen /\ copy[s].phase = g.phase /\ (g.edl => copy[s].edl)
<1> DEFINE g == GrubSelected(copy)
<1>1. g \in Controls /\ \E s \in Slots : copy[s] = g
  BY ReadersAgree
<1>2. ASSUME NEW s \in Slots, copy[s] # Damaged
      PROVE  \/ copy[s].gen < g.gen
             \/ copy[s].gen = g.gen /\ Rank(copy[s].phase) < Rank(g.phase)
             \/ copy[s].gen = g.gen /\ copy[s].phase = g.phase /\ (g.edl => copy[s].edl)
  <2>1. copy[s] \in Controls /\ ~SupersedesGrub(copy[s], g)
    BY <1>2, ReadersAgree DEF Copies
  <2> HIDE DEF g
  <2> QED
    BY <2>1, <1>1, RecordFields, Ranks DEF SupersedesGrub, Supersedes
<1> QED
  BY <1>1, <1>2

\* A copy that is read as it is, after a change of the other one.
LEMMA OneOfTwo ==
  ASSUME NEW copy \in [Slots -> Copies], NEW s \in Slots, NEW rec \in Copies
  PROVE  LET new == [copy EXCEPT ![s] = rec] IN
         /\ new \in [Slots -> Copies]
         /\ new[s] = rec /\ new[Peer(s)] = copy[Peer(s)]
         /\ \A t \in Slots : t = s \/ t = Peer(s)
BY PeersAre DEF Slots, Peer

\* One copy that is not damaged is enough.
LEMMA IsReadable ==
  ASSUME NEW copy \in [Slots -> Copies]
  PROVE  Readable(copy) <=> \E s \in Slots : copy[s] # Damaged
BY DEF Readable, Selected, Slots

\* An ESP takes GRUB's record: it is read now, or what was read before still is.
LEMMA GrubTakes ==
  ASSUME NEW copy \in [Slots -> Copies], Readable(copy), Twins(copy),
         NEW m \in Controls, Under(copy, m), NEW s \in Slots
  PROVE  LET new == [copy EXCEPT ![s] = m] IN
         /\ new \in [Slots -> Copies] /\ Readable(new) /\ Twins(new) /\ Under(new, m)
         /\ GrubSelected(new) \in {GrubSelected(copy), m}
         /\ ~SupersedesGrub(m, GrubSelected(new))
         /\ Alike(copy, m) => Alike(new, m)
<1> DEFINE new == [copy EXCEPT ![s] = m]
           p == Peer(s)
<1>1. /\ new \in [Slots -> Copies] /\ new[s] = m /\ new[p] = copy[p]
      /\ \A t \in Slots : t = s \/ t = p
      /\ p \in Slots /\ m # Damaged /\ m \in Copies
  BY OneOfTwo, PeersAre, RecordFields DEF Copies
<1>2. Readable(new)
  BY <1>1, IsReadable
<1>3. \A t \in Slots : copy[t] # Damaged => copy[t] \in Controls /\ Behind(copy[t], m)
  BY DEF Under, Copies
<1>4. Behind(m, m)
  BY RecordFields, Ranks DEF Behind
<1>5. \A t \in Slots : new[t] # Damaged => new[t] \in Controls /\ Behind(new[t], m)
  BY <1>1, <1>3, <1>4
<1>6. Twins(new)
  <2> SUFFICES ASSUME copy[p] # Damaged, copy[p].gen = m.gen, Undecided(copy[p]), Undecided(m)
               PROVE  copy[p].active = m.active
    BY <1>1 DEF Twins
  <2> QED
    BY <1>1, <1>3, RecordFields DEF Behind
<1>7. /\ GrubSelected(new) \in Controls
      /\ ~SupersedesGrub(m, GrubSelected(new))
      /\ \E t \in Slots : new[t] = GrubSelected(new)
  BY <1>1, <1>2, ReadersAgree
<1>8. GrubSelected(new).gen = m.gen
  <2>1. PICK t \in Slots : new[t] = GrubSelected(new)
    BY <1>7
  <2>2. Behind(GrubSelected(new), m)
    BY <2>1, <1>5, <1>7, RecordFields
  <2> QED
    BY <2>2, <1>7, RecordFields DEF Behind, SupersedesGrub, Supersedes
<1>9. Under(new, m)
  BY <1>5, <1>8 DEF Under
<1>10. GrubSelected(new) \in {GrubSelected(copy), m}
  <2> DEFINE n == GrubSelected(new)
             g == GrubSelected(copy)
  <2> SUFFICES ASSUME n # m PROVE n = g
    OBVIOUS
  <2>1. n = copy[p] /\ n # Damaged
    BY <1>1, <1>7, RecordFields
  <2>2. g \in Controls /\ g.gen = m.gen /\ (g = copy[s] \/ g = copy[p])
    BY <1>1, ReadersAgree DEF Under
  <2>3. n \in Controls /\ Behind(n, m) /\ ~SupersedesGrub(m, n) /\ n.gen = m.gen
    BY <2>1, <1>1, <1>3, <1>7, <1>8
  <2>4. Rank(n.phase) = Rank(m.phase) /\ (n.edl => m.edl) /\ ~m.edl
    BY <2>3, RecordFields, Ranks DEF Behind, SupersedesGrub, Supersedes, Under
  <2>5. ASSUME g # n PROVE FALSE
    <3>1. g = copy[s] /\ copy[s] # Damaged
      BY <2>5, <2>1, <2>2, RecordFields
    <3>2. Behind(g, m)
      BY <3>1, <1>3
    <3>3. ~SupersedesGrub(copy[p], g) /\ copy[p] # Damaged
      BY <2>1, <1>1, ReadersAgree
    <3>4. Rank(g.phase) = Rank(n.phase) /\ ~g.edl
      BY <3>2, <3>3, <2>1, <2>2, <2>3, <2>4, RecordFields, Ranks
         DEF Behind, SupersedesGrub, Supersedes
    <3>5. ~SupersedesGrub(g, n) /\ ~SupersedesGrub(n, m) /\ m # Damaged
      BY <3>4, <2>2, <2>3, <2>4, RecordFields, Ranks DEF SupersedesGrub, Supersedes
    <3>6. ASSUME p = "a" PROVE FALSE
      <4>1. copy["a"] = n /\ copy["a"] # Damaged /\ g # copy["a"]
        BY <3>6, <2>1, <1>1, <2>5
      <4>2. SupersedesGrub(g, copy["a"])
        BY <4>1, FirstWins
      <4> QED
        BY <4>1, <4>2, <3>5
    <3>7. ASSUME s = "a" PROVE FALSE
      <4>1. new["a"] = m /\ new["a"] # Damaged /\ n # new["a"]
        BY <3>7, <1>1
      <4> HIDE DEF new
      <4>2. SupersedesGrub(n, new["a"])
        BY <4>1, <1>2, FirstWins
      <4> QED
        BY <4>1, <4>2, <3>5
    <3> QED
      BY <3>6, <3>7, <1>1 DEF Slots
  <2> QED
    BY <2>5
<1>11. Alike(copy, m) => Alike(new, m)
  BY <1>1 DEF Alike
<1> QED
  BY <1>1, <1>2, <1>6, <1>7, <1>9, <1>10, <1>11

\* A copy is lost while the other one is the selection: that stays as it is.
LEMMA CopyTorn ==
  ASSUME NEW copy \in [Slots -> Copies], Readable(copy), NEW s \in Slots,
         copy[Peer(s)] = GrubSelected(copy), NEW m \in Controls
  PROVE  LET new == [copy EXCEPT ![s] = Damaged] IN
         /\ new \in [Slots -> Copies] /\ Readable(new)
         /\ GrubSelected(new) = GrubSelected(copy)
         /\ Twins(copy) => Twins(new)
         /\ Under(copy, m) => Under(new, m)
         /\ Alike(copy, m) => Alike(new, m)
         /\ Newest(copy, m) => Newest(new, m)
<1> DEFINE new == [copy EXCEPT ![s] = Damaged]
           p == Peer(s)
<1>1. /\ new \in [Slots -> Copies] /\ new[s] = Damaged /\ new[p] = copy[p]
      /\ \A t \in Slots : t = s \/ t = p
      /\ p \in Slots /\ p # s
  BY OneOfTwo, PeersAre DEF Copies
<1>2. copy[p] # Damaged
  BY ReadersAgree, RecordFields
<1>3. Readable(new)
  BY <1>1, <1>2, IsReadable
<1>4. GrubSelected(new) = GrubSelected(copy)
  <2>1. /\ GrubSelected(new) \in Controls
        /\ \E t \in Slots : new[t] = GrubSelected(new)
    BY <1>1, <1>3, ReadersAgree
  <2> QED
    BY <2>1, <1>1, RecordFields
<1>5. \A t \in Slots : new[t] # Damaged => new[t] = copy[t]
  BY <1>1
<1> QED
  BY <1>1, <1>3, <1>4, <1>5 DEF Twins, Under, Alike, Newest

\* An ESP takes Linux's record: both readers select it.
LEMMA LinuxTakes ==
  ASSUME NEW copy \in [Slots -> Copies], NEW rec \in Controls, Newest(copy, rec),
         NEW s \in Slots
  PROVE  LET new == [copy EXCEPT ![s] = rec] IN
         /\ new \in [Slots -> Copies] /\ Readable(new) /\ Twins(new)
         /\ GrubSelected(new) = rec
         /\ Newest(new, rec)
<1> DEFINE new == [copy EXCEPT ![s] = rec]
           p == Peer(s)
<1>1. /\ new \in [Slots -> Copies] /\ new[s] = rec /\ new[p] = copy[p]
      /\ \A t \in Slots : t = s \/ t = p
      /\ p \in Slots /\ rec # Damaged
  BY OneOfTwo, PeersAre, RecordFields DEF Copies
<1>2. Readable(new)
  BY <1>1, IsReadable
<1>3. Newest(new, rec)
  BY <1>1 DEF Newest
<1>4. Twins(new)
  BY <1>1, <1>3, RecordFields DEF Twins, Newest, Copies
<1>5. GrubSelected(new) = rec
  <2>1. /\ GrubSelected(new) \in Controls
        /\ ~SupersedesGrub(rec, GrubSelected(new))
        /\ \E t \in Slots : new[t] = GrubSelected(new)
    BY <1>1, <1>2, ReadersAgree
  <2>2. GrubSelected(new).gen < rec.gen \/ GrubSelected(new) = rec
    BY <2>1, <1>3, RecordFields DEF Newest
  <2> QED
    BY <2>1, <2>2, RecordFields DEF SupersedesGrub, Supersedes
<1> QED
  BY <1>1, <1>2, <1>3, <1>4, <1>5

-----------------------------------------------------------------------------
\* A step of a write keeps the invariant: it takes, it fails with any effect, or
\* the copy is passed over.
LEMMA WriterGoes ==
  ASSUME Types, NEW p \in Writers, writer[p].at # NoSlot, NEW took \in BOOLEAN,
         Advance(p, took)
  PROVE  /\ writer' \in [Writers -> Writing]
         /\ writer'[p].rec = writer[p].rec
         /\ writer'[p].ok = (writer[p].ok \/ took)
         /\ \A q \in Writers : q # p => writer'[q] = writer[q]
<1>1. writer[p] \in Writing
  BY DEF Types, TypeOKStore
<1>2. writer' = [writer EXCEPT ![p] =
                  [rec |-> writer[p].rec, at |-> writer[p].after, after |-> NoSlot,
                   ok |-> writer[p].ok \/ took]]
  BY DEF Advance
<1>3. [rec |-> writer[p].rec, at |-> writer[p].after, after |-> NoSlot,
       ok |-> writer[p].ok \/ took] \in Writing
  BY <1>1 DEF Writing
<1> QED
  BY <1>2, <1>3 DEF Types, TypeOKStore

Lands(p, took) ==
  LET s == writer[p].at IN
  \/ esp' = [esp EXCEPT ![s] = writer[p].rec]
  \/ ~took /\ esp' = esp
  \/ ~took /\ Spare(s) /\ esp' = [esp EXCEPT ![s] = Damaged]

\* A step of a write by GRUB ...
LEMMA GrubWrites ==
  ASSUME GrubInv, writer["grub"].at # NoSlot, NEW took \in BOOLEAN,
         Lands("grub", took), Advance("grub", took), UNCHANGED <<run, kernel, ghost>>
  PROVE  GrubInv'
<1> DEFINE m == run.mem
           s == writer["grub"].at
           g == GrubSelected(esp)
<1>1. /\ s \in Slots /\ m \in Controls /\ esp \in [Slots -> Copies]
      /\ writer["grub"].rec = m /\ InGrub({"edl", "trial", "boot"})
      /\ Readable(esp) /\ Twins(esp) /\ Under(esp, m)
      /\ Owed(m, ghost) /\ Owed(g, ghost)
  BY WritersAre DEF GrubInv, Types, TypeOKStore, Writing, MemInv, CopiesInv, InGrub
<1>2. /\ writer' \in [Writers -> Writing]
      /\ writer'["grub"].rec = writer["grub"].rec
      /\ writer'["grub"].ok = (writer["grub"].ok \/ took)
      /\ writer'["linux"] = writer["linux"]
  BY WriterGoes, WritersAre DEF GrubInv
<1>3. /\ esp' \in [Slots -> Copies] /\ Readable(esp') /\ Twins(esp') /\ Under(esp', m)
      /\ GrubSelected(esp') \in {g, m}
      /\ took \/ ~SupersedesGrub(m, g) => ~SupersedesGrub(m, GrubSelected(esp'))
      /\ Alike(esp, m) => Alike(esp', m)
  <2>1. CASE esp' = [esp EXCEPT ![s] = m]
    BY <2>1, <1>1, GrubTakes
  <2>2. CASE ~took /\ esp' = esp
    BY <2>2, <1>1
  <2>3. CASE ~took /\ Spare(s) /\ esp' = [esp EXCEPT ![s] = Damaged]
    <3>1. esp[Peer(s)] = GrubSelected(esp)
      BY <2>3 DEF Spare
    <3> HIDE DEF m, s
    <3>2. /\ esp' \in [Slots -> Copies] /\ Readable(esp') /\ Twins(esp')
          /\ GrubSelected(esp') = GrubSelected(esp)
          /\ Under(esp, m) => Under(esp', m)
          /\ Alike(esp, m) => Alike(esp', m)
      BY <2>3, <3>1, <1>1, CopyTorn
    <3> QED
      BY <3>2, <2>3, <1>1 DEF g
  <2> QED
    BY <2>1, <2>2, <2>3, <1>1 DEF Lands
<1>4. Types'
  BY <1>2, <1>3 DEF GrubInv, Types, TypeOKStore
<1>5. CopiesInv'
  BY <1>1, <1>3 DEF CopiesInv
<1>6. LinuxInv'
  BY <1>1, <1>2 DEF GrubInv, LinuxInv, InGrub
<1>7. MemInv'
  <2>1. Saved' = (Saved \/ took)
    BY <1>2 DEF Saved
  <2> QED
    BY <2>1, <1>1, <1>2, <1>3 DEF GrubInv, MemInv, InGrub
<1>8. StepInv'
  <2>1. InGrub({"edl"}) => g.active = m.active /\ g.phase = m.phase /\ ghost.edls = 1
    BY DEF GrubInv, StepInv, InGrub
  <2>2. InGrub({"trial"}) => m.phase = "attempted" /\ ghost.trials = 1
    BY DEF GrubInv, StepInv
  <2>3. InGrub({"boot"}) =>
          CASE run.arg = "trial" -> FALSE
            [] run.arg = "none" -> run.slot = m.active /\ Alike(esp, m)
            [] run.arg = "recovery" -> run.slot = m.active /\ m.phase = "stable"
    BY DEF GrubInv, StepInv, OnDefault, Settled
  <2>4. run.arg \in Arguments
    BY DEF GrubInv, Types
  <2>5. /\ run.mode = "off" => run.pc = "start" /\ run.arg = "none"
        /\ InGrub({"start", "edl", "phase", "trial"}) => run.arg = "none"
    BY DEF GrubInv, StepInv
  <2>6. OnDefault' \/ ~Alike(esp, m)
    BY <1>3 DEF OnDefault
  <2>7. run.mode = "grub" /\ run.pc # "phase"
    BY <1>1 DEF InGrub
  <2>8. run' = run /\ ghost' = ghost
    OBVIOUS
  <2> QED
    BY <1>3, <2>1, <2>2, <2>3, <2>4, <2>5, <2>6, <2>7, <2>8 DEF StepInv, InGrub, Arguments
<1>9. KeptInv'
  BY WritersAre DEF GrubInv, KeptInv, Settled
<1> QED
  BY <1>4, <1>5, <1>6, <1>7, <1>8, <1>9 DEF GrubInv

\* ... and by Linux.
LEMMA LinuxWritesOn ==
  ASSUME GrubInv, writer["linux"].at # NoSlot, NEW took \in BOOLEAN,
         Lands("linux", took), Advance("linux", took), UNCHANGED <<run, kernel, ghost>>
  PROVE  GrubInv'
<1> DEFINE rec == writer["linux"].rec
           s == writer["linux"].at
<1>1. /\ s \in Slots /\ rec \in Controls /\ esp \in [Slots -> Copies]
      /\ run.mode = "linux" /\ Newest(esp, rec) /\ Owed(rec, ghost)
      /\ Readable(esp) /\ Twins(esp) /\ Owed(GrubSelected(esp), ghost)
  BY WritersAre DEF GrubInv, Types, TypeOKStore, Writing, LinuxInv, CopiesInv
<1>2. /\ writer' \in [Writers -> Writing]
      /\ writer'["linux"].rec = rec
      /\ writer'["grub"] = writer["grub"]
  BY WriterGoes, WritersAre DEF GrubInv
<1>3. /\ esp' \in [Slots -> Copies] /\ Readable(esp') /\ Twins(esp') /\ Newest(esp', rec)
      /\ GrubSelected(esp') \in {GrubSelected(esp), rec}
  <2>1. CASE esp' = [esp EXCEPT ![s] = rec]
    <3> HIDE DEF rec, s
    <3> QED
      BY <2>1, <1>1, LinuxTakes
  <2>2. CASE ~took /\ esp' = esp
    BY <2>2, <1>1
  <2>3. CASE ~took /\ Spare(s) /\ esp' = [esp EXCEPT ![s] = Damaged]
    <3>1. esp[Peer(s)] = GrubSelected(esp)
      BY <2>3 DEF Spare
    <3> HIDE DEF rec, s
    <3>2. /\ esp' \in [Slots -> Copies] /\ Readable(esp') /\ Twins(esp')
          /\ GrubSelected(esp') = GrubSelected(esp)
          /\ Newest(esp, rec) => Newest(esp', rec)
      BY <2>3, <3>1, <1>1, CopyTorn
    <3> QED
      BY <3>2, <2>3, <1>1
  <2> QED
    BY <2>1, <2>2, <2>3, <1>1 DEF Lands
<1>4. Types'
  BY <1>2, <1>3 DEF GrubInv, Types, TypeOKStore
<1>5. CopiesInv' /\ LinuxInv'
  BY <1>1, <1>2, <1>3 DEF CopiesInv, LinuxInv
<1>6. MemInv' /\ StepInv'
  BY <1>1, <1>2 DEF GrubInv, MemInv, StepInv, InGrub
<1>7. KeptInv'
  BY WritersAre DEF GrubInv, KeptInv, Settled
<1> QED
  BY <1>4, <1>5, <1>6, <1>7 DEF GrubInv

\* A write of either program goes on, whether an ESP takes it or not.
LEMMA WriteKeeps ==
  ASSUME GrubInv, NEW p \in Writers, Took(p) \/ Failed(p) \/ (p = "grub" /\ Skipped)
  PROVE  GrubInv'
<1>1. PICK took \in BOOLEAN :
        /\ writer[p].at # NoSlot /\ Lands(p, took) /\ Advance(p, took)
        /\ UNCHANGED <<run, kernel, ghost>>
  <2>1. CASE Took(p)
    BY <2>1 DEF Took, CopyWritten, Settled, Lands
  <2>2. CASE Failed(p)
    BY <2>2, ZenonT(60) DEF Failed, Settled, Lands, GrubInv, Types, TypeOKStore, Writing
  <2>3. CASE p = "grub" /\ Skipped
    BY <2>3 DEF Skipped, Settled, Lands
  <2> QED
    BY <2>1, <2>2, <2>3
<1> QED
  BY <1>1, WritersAre, GrubWrites, LinuxWritesOn

-----------------------------------------------------------------------------
\* What becomes of a record.
LEMMA RecordsMade ==
  ASSUME NEW r \in Controls, NEW s \in Slots
  PROVE  /\ Consumed(r) \in Controls /\ Consumed(r).gen = r.gen
         /\ Consumed(r).active = r.active /\ Consumed(r).phase = r.phase /\ ~Consumed(r).edl
         /\ r.phase = "armed" =>
              /\ Attempted(r) \in Controls /\ Attempted(r).gen = r.gen
              /\ Attempted(r).active = r.active /\ Attempted(r).phase = "attempted"
              /\ Attempted(r).edl = r.edl
         /\ RolledBack(r) \in Controls /\ RolledBack(r).gen = r.gen
         /\ RolledBack(r).active = r.active /\ RolledBack(r).phase = "stable"
         /\ RolledBack(r).edl = r.edl
         /\ Promoted(r, s) \in Controls /\ Promoted(r, s).gen = r.gen
         /\ Promoted(r, s).active = s /\ Promoted(r, s).phase = "stable"
         /\ Promoted(r, s).edl = r.edl
         /\ Armed(r, s) \in Controls /\ Armed(r, s).gen = r.gen + 1 /\ ~Armed(r, s).edl
         /\ Stabilised(r, s) \in Controls /\ Stabilised(r, s).gen = r.gen + 1
         /\ Stabilised(r, s).phase = "stable" /\ ~Stabilised(r, s).edl
         /\ RequestEdl(r) \in Controls /\ RequestEdl(r).gen = r.gen + 1
         /\ RequestEdl(r).phase = r.phase
         /\ Touched(r) \in Controls /\ Touched(r).gen = r.gen + 1
         /\ Touched(r).phase = r.phase /\ Touched(r).edl = r.edl
<1> USE DEF Controls, ControlRecord, Valid, Policy, Phases, Slots, Peer
<1>1. /\ Consumed(r) \in Controls /\ RolledBack(r) \in Controls
      /\ r.phase = "armed" => Attempted(r) \in Controls
  BY DEF Consumed, RolledBack, Attempted
<1>2. Promoted(r, s) \in Controls /\ Armed(r, s) \in Controls /\ Stabilised(r, s) \in Controls
  BY DEF Promoted, Armed, Stabilised
<1>3. RequestEdl(r) \in Controls /\ Touched(r) \in Controls
  BY DEF RequestEdl, Touched
<1> QED
  BY <1>1, <1>2, <1>3 DEF Consumed, RolledBack, Attempted, Promoted, Armed, Stabilised,
     RequestEdl, Touched

\* GRUB's record covers the copies when it is what it selected, but for the
\* request ...
LEMMA UnderSelected ==
  ASSUME NEW copy \in [Slots -> Copies], Readable(copy), Twins(copy), NEW m \in Controls,
         m.gen = GrubSelected(copy).gen, m.active = GrubSelected(copy).active,
         m.phase = GrubSelected(copy).phase, ~m.edl
  PROVE  Under(copy, m)
<1> DEFINE g == GrubSelected(copy)
<1>1. PICK t \in Slots : copy[t] = g
  BY ReadersAgree
<1>2. g \in Controls /\ g # Damaged
  BY ReadersAgree, RecordFields
<1>3. ASSUME NEW s \in Slots, copy[s] # Damaged PROVE Behind(copy[s], m)
  <2>1. \/ copy[s].gen < g.gen
        \/ copy[s].gen = g.gen /\ Rank(copy[s].phase) < Rank(g.phase)
        \/ copy[s].gen = g.gen /\ copy[s].phase = g.phase
    BY <1>3, SelectedFacts
  <2>2. /\ copy[s].gen = g.gen /\ Undecided(copy[s]) /\ Undecided(g)
        => copy[s].active = g.active
    BY <1>1, <1>2, <1>3 DEF Twins
  <2>3. copy[s] \in Controls
    BY <1>3 DEF Copies
  <2> HIDE DEF g
  <2> QED
    BY <2>1, <2>2, <2>3, <1>2, RecordFields, Ranks DEF Behind, Undecided, g
<1> QED
  BY <1>3 DEF Under

\* ... and goes on doing so when the phase moves on.
LEMMA UnderRaised ==
  ASSUME NEW copy \in [Slots -> Copies], NEW m \in Controls, Under(copy, m),
         NEW x \in Controls, x.gen = m.gen, ~x.edl, Rank(x.phase) >= Rank(m.phase),
         Undecided(x) => x.active = m.active
  PROVE  Under(copy, x)
<1> SUFFICES ASSUME NEW s \in Slots, copy[s] # Damaged PROVE Behind(copy[s], x)
  BY DEF Under
<1>1. copy[s] \in Controls /\ Behind(copy[s], m)
  BY DEF Under, Copies
<1>2. Undecided(x) => Undecided(m)
  BY RecordFields, Ranks DEF Undecided
<1> QED
  BY <1>1, <1>2, RecordFields, Ranks DEF Behind

\* While GRUB's record is undecided, so are the copies of its generation.
LEMMA UndecidedAlike ==
  ASSUME NEW copy \in [Slots -> Copies], NEW m \in Controls, Under(copy, m), Undecided(m)
  PROVE  /\ \A s \in Slots : copy[s] # Damaged /\ copy[s].gen = m.gen => Undecided(copy[s])
         /\ Alike(copy, m)
<1> SUFFICES ASSUME NEW s \in Slots, copy[s] # Damaged, copy[s].gen = m.gen
             PROVE  Undecided(copy[s]) /\ copy[s].active = m.active
  BY DEF Alike
<1>1. copy[s] \in Controls /\ Behind(copy[s], m)
  BY DEF Under, Copies
<1> QED
  BY <1>1, RecordFields, Ranks DEF Behind, Undecided

\* The beginning of a write.
LEMMA Starts ==
  ASSUME Types, NEW p \in Writers, NEW rec \in Controls, StartWrite(p, rec, "a")
  PROVE  /\ writer' \in [Writers -> Writing]
         /\ writer'[p].rec = rec /\ writer'[p].at = "a" /\ ~writer'[p].ok
         /\ \A q \in Writers : q # p => writer'[q] = writer[q]
<1>1. [rec |-> rec, at |-> "a", after |-> Peer("a"), ok |-> FALSE] \in Writing
  BY DEF Writing, Copies, Slots, Peer
<1> QED
  BY <1>1 DEF StartWrite, Types, TypeOKStore

\* The programs take turns.
LEMMA Turns ==
  ASSUME GrubInv
  PROVE  /\ run.mode # "linux" => Settled("linux")
         /\ run.mode # "grub" => Settled("grub")
         /\ run.mode = "grub" /\ run.pc = "start" => Settled("grub")
         /\ esp \in [Slots -> Copies] /\ writer \in [Writers -> Writing]
         /\ GrubSelected(esp) \in Controls /\ Selected(esp) \in Controls
         /\ GrubSelected(esp).gen = Selected(esp).gen
         /\ GrubSelected(esp).phase = Selected(esp).phase
BY ReadersAgree DEF GrubInv, Types, TypeOKStore, CopiesInv, LinuxInv, MemInv, Settled, InGrub

-----------------------------------------------------------------------------
\* GRUB sets out to write a record that covers the copies.
LEMMA Persists ==
  ASSUME GrubInv, run.mode = "grub", Types', esp' = esp,
         NEW m \in Controls, Under(esp, m), Owed(m, ghost),
         StartWrite("grub", m, "a"), run'.mode = "grub", run'.mem = m,
         run'.pc \in {"edl", "trial", "boot"},
         ghost' = [ghost EXCEPT !.kept = NoSlot],
         StepInv'
  PROVE  GrubInv'
<1>1. /\ writer'["grub"].rec = m /\ writer'["grub"].at = "a" /\ ~writer'["grub"].ok
      /\ writer'["linux"] = writer["linux"]
  BY Starts, WritersAre DEF GrubInv
<1>2. /\ ghost'.trials = ghost.trials /\ ghost'.edls = ghost.edls /\ ghost'.kept = NoSlot
  BY DEF GrubInv, Types
<1>3. CopiesInv' /\ KeptInv'
  BY <1>2 DEF GrubInv, CopiesInv, KeptInv, Owed
<1>4. LinuxInv'
  BY <1>1 DEF GrubInv, LinuxInv
<1>5. MemInv'
  BY <1>1, <1>2 DEF MemInv, InGrub, Saved, Owed
<1> QED
  BY <1>3, <1>4, <1>5 DEF GrubInv

\* A step that writes nothing.
LEMMA Moves ==
  ASSUME GrubInv, Types', UNCHANGED <<esp, writer>>,
         Settled("linux"), Settled("grub"),
         Owed(GrubSelected(esp), ghost'),
         ghost'.kept \in {NoSlot, ghost.kept} \/ KeptInv',
         InGrub({"edl", "phase", "trial", "boot"})' =>
           Under(esp, run'.mem) /\ Owed(run'.mem, ghost') /\ ~InGrub({"edl", "trial"})',
         StepInv'
  PROVE  GrubInv'
<1>1. CopiesInv' /\ LinuxInv'
  BY DEF GrubInv, CopiesInv, LinuxInv, Settled
<1>2. MemInv'
  BY DEF MemInv, Settled, InGrub
<1>3. KeptInv'
  BY DEF GrubInv, KeptInv, Settled
<1> QED
  BY <1>1, <1>2, <1>3 DEF GrubInv

LEMMA InitKeeps == Init => GrubInv
<1> SUFFICES ASSUME Init PROVE GrubInv
  OBVIOUS
<1>1. /\ esp = [s \in Slots |-> FactoryRecord] /\ writer = [p \in Writers |-> NoWrite]
      /\ run = Dark /\ kernel = [s \in Slots |-> TRUE]
      /\ ghost = [trials |-> 0, edls |-> 0, kept |-> NoSlot]
  BY DEF Init, StoreInit
<1>2. NoWrite \in Writing
  BY DEF NoWrite, Writing, Copies
<1>3. esp \in [Slots -> Copies]
  BY <1>1, GivenRecords DEF Copies
<1>4. Types
  BY <1>1, <1>2, <1>3, GivenRecords
     DEF Types, TypeOKStore, Dark, Modes, GrubSteps, Arguments, Slots
<1>5. Readable(esp)
  BY <1>1, <1>3, IsReadable, GivenRecords, RecordFields DEF Slots
<1>6. GrubSelected(esp) = FactoryRecord
  BY <1>1, <1>3, <1>5, ReadersAgree
<1>7. CopiesInv /\ KeptInv
  BY <1>1, <1>5, <1>6, GivenRecords DEF CopiesInv, Twins, Owed, KeptInv, Undecided
<1>8. LinuxInv /\ MemInv /\ StepInv
  BY <1>1, WritersAre DEF LinuxInv, MemInv, StepInv, InGrub, Dark, NoWrite
<1> QED
  BY <1>4, <1>7, <1>8 DEF GrubInv

\* The steps of grub.cfg, one lemma each.
LEMMA StartKeeps == GrubInv /\ Start => GrubInv'
<1> SUFFICES ASSUME GrubInv, Start PROVE GrubInv'
  OBVIOUS
<1> DEFINE r == GrubSelected(esp)
<1>1. /\ run.mode = "grub" /\ run.pc = "start" /\ Settled("grub") /\ Settled("linux")
      /\ esp \in [Slots -> Copies] /\ r \in Controls
      /\ Readable(esp) /\ Twins(esp) /\ Owed(r, ghost)
      /\ run \in [mode : Modes, pc : GrubSteps, mem : Controls, slot : Slots, arg : Arguments]
  BY Turns DEF Start, At, GrubInv, CopiesInv, Types
<1>2. CASE r.edl
  <2>1. /\ StartWrite("grub", Consumed(r), "a")
        /\ run' = [run EXCEPT !.pc = "edl", !.mem = Consumed(r)]
        /\ UNCHANGED <<esp, kernel, ghost>>
    BY <1>2, <1>1 DEF Start, Persist
  <2>2. /\ Consumed(r) \in Controls /\ Consumed(r).gen = r.gen
        /\ Consumed(r).active = r.active /\ Consumed(r).phase = r.phase /\ ~Consumed(r).edl
    BY <1>1, RecordsMade
  <2> HIDE DEF r
  <2>3. Under(esp, Consumed(r)) /\ Owed(Consumed(r), ghost)
    BY <1>1, <2>2, UnderSelected DEF Owed, r
  <2>4. Types'
    BY <1>1, <2>1, <2>2, Starts, WritersAre DEF GrubInv, Types, TypeOKStore, GrubSteps
  <2>5. ghost.kept = NoSlot /\ ghost.edls = 1
    BY <1>1, <1>2 DEF GrubInv, KeptInv, Owed, r
  <2>6. ghost' = [ghost EXCEPT !.kept = NoSlot]
    BY <2>1, <2>5 DEF GrubInv, Types
  <2>7. run'.mode = "grub" /\ run'.mem = Consumed(r) /\ run'.pc = "edl"
    BY <1>1, <2>1
  <2>8. StepInv'
    BY <1>1, <2>1, <2>2, <2>5, <2>7 DEF GrubInv, StepInv, InGrub, r
  <2> QED
    BY <1>1, <2>1, <2>2, <2>3, <2>4, <2>6, <2>7, <2>8, Persists
<1>3. CASE ~r.edl
  <2>1. /\ run' = [run EXCEPT !.pc = "phase", !.mem = r]
        /\ UNCHANGED <<esp, writer, kernel, ghost>>
    BY <1>3 DEF Start, Quietly, storeVars
  <2>2. Types'
    BY <1>1, <2>1 DEF GrubInv, Types, TypeOKStore, GrubSteps
  <2>3. run'.mode = "grub" /\ run'.mem = r /\ run'.pc = "phase"
    BY <1>1, <2>1
  <2>4. StepInv'
    BY <1>1, <2>1, <2>3 DEF GrubInv, StepInv, InGrub
  <2>5. Under(esp, r)
    BY <1>1, <1>3, UnderSelected
  <2> QED
    BY <1>1, <2>1, <2>2, <2>3, <2>4, <2>5, Moves DEF InGrub
<1> QED
  BY <1>2, <1>3

\* What holds at any step of GRUB.
LEMMA GrubAt ==
  ASSUME GrubInv, NEW pc, At(pc)
  PROVE  /\ run.mode = "grub" /\ run.pc = pc /\ Settled("grub") /\ Settled("linux")
         /\ esp \in [Slots -> Copies] /\ GrubSelected(esp) \in Controls
         /\ Readable(esp) /\ Twins(esp) /\ Owed(GrubSelected(esp), ghost)
         /\ run \in [mode : Modes, pc : GrubSteps, mem : Controls, slot : Slots, arg : Arguments]
         /\ run.mem \in Controls
         /\ pc # "start" => Under(esp, run.mem) /\ Owed(run.mem, ghost)
BY Turns DEF At, GrubInv, CopiesInv, Types, MemInv, InGrub, GrubSteps

LEMMA EdlKeeps == GrubInv /\ Edl => GrubInv'
<1> SUFFICES ASSUME GrubInv, Edl PROVE GrubInv'
  OBVIOUS
<1> DEFINE r == GrubSelected(esp)
           m == run.mem
<1>1. /\ run.mode = "grub" /\ run.pc = "edl" /\ Settled("grub") /\ Settled("linux")
      /\ esp \in [Slots -> Copies] /\ r \in Controls
      /\ Readable(esp) /\ Twins(esp) /\ Owed(r, ghost)
      /\ run \in [mode : Modes, pc : GrubSteps, mem : Controls, slot : Slots, arg : Arguments]
      /\ m \in Controls /\ Under(esp, m) /\ Owed(m, ghost)
  BY GrubAt DEF Edl
<1>2. /\ ghost.edls = 1 /\ r.active = m.active /\ r.phase = m.phase
      /\ Saved => ~SupersedesGrub(m, r)
      /\ run.arg = "none"
  BY <1>1 DEF GrubInv, StepInv, MemInv, InGrub
<1>3. CASE Saved /\ run' = [Dark EXCEPT !.mode = "edl"]
           /\ ghost' = [ghost EXCEPT !.edls = @ - 1] /\ UNCHANGED <<esp, writer, kernel>>
  <2>1. ~r.edl
    BY <1>1, <1>2, <1>3, RecordFields DEF SupersedesGrub, Under
  <2>2. /\ ghost'.edls = 0 /\ ghost'.trials = ghost.trials /\ ghost'.kept = ghost.kept
        /\ ghost' \in [trials : {0, 1}, edls : {0, 1}, kept : Slots \cup {NoSlot}]
    BY <1>2, <1>3 DEF GrubInv, Types
  <2>3. Types' /\ run'.mode = "edl"
    BY <1>3, <2>2, GivenRecords
       DEF GrubInv, Types, TypeOKStore, Dark, Modes, GrubSteps, Arguments, Slots
  <2>4. Owed(r, ghost')
    BY <1>1, <2>1, <2>2 DEF Owed
  <2>5. StepInv' /\ ~InGrub({"edl", "phase", "trial", "boot"})'
    BY <2>3 DEF StepInv, InGrub
  <2> QED
    BY <1>1, <1>3, <2>2, <2>3, <2>4, <2>5, Moves
<1>4. CASE Go("phase") /\ UNCHANGED <<esp, writer, kernel, ghost>>
  <2>1. /\ run' = [run EXCEPT !.pc = "phase"]
        /\ run'.mode = "grub" /\ run'.pc = "phase" /\ run'.mem = m
    BY <1>1, <1>4 DEF Go
  <2>2. Types'
    BY <1>1, <1>4, <2>1 DEF GrubInv, Types, TypeOKStore, GrubSteps
  <2>3. StepInv'
    BY <1>1, <1>2, <1>4, <2>1 DEF StepInv, InGrub
  <2> QED
    BY <1>1, <1>4, <2>1, <2>2, <2>3, Moves DEF InGrub
<1> QED
  BY <1>3, <1>4 DEF Edl, Quietly, storeVars

LEMMA PhaseKeeps == GrubInv /\ Phase => GrubInv'
<1> SUFFICES ASSUME GrubInv, Phase PROVE GrubInv'
  OBVIOUS
<1> DEFINE r == GrubSelected(esp)
           m == run.mem
<1>1. /\ run.mode = "grub" /\ run.pc = "phase" /\ Settled("grub") /\ Settled("linux")
      /\ esp \in [Slots -> Copies] /\ r \in Controls
      /\ Readable(esp) /\ Twins(esp) /\ Owed(r, ghost)
      /\ run \in [mode : Modes, pc : GrubSteps, mem : Controls, slot : Slots, arg : Arguments]
      /\ m \in Controls /\ Under(esp, m) /\ Owed(m, ghost)
  BY GrubAt DEF Phase
<1>2. r.active = m.active /\ r.phase = m.phase /\ run.arg = "none"
  BY <1>1 DEF GrubInv, StepInv, InGrub
<1>3. m.phase # "stable" => ghost.kept = NoSlot /\ ghost = [ghost EXCEPT !.kept = NoSlot]
  BY <1>2 DEF GrubInv, KeptInv, Types
<1>4. m.phase \in Phases /\ m.active \in Slots /\ ~m.edl
  BY <1>1, RecordFields DEF Under
<1>5. CASE m.phase = "armed"
  <2> DEFINE x == Attempted(m)
  <2>1. /\ StartWrite("grub", x, "a")
        /\ run' = [run EXCEPT !.pc = "trial", !.mem = x]
        /\ UNCHANGED <<esp, kernel, ghost>>
    BY <1>5 DEF Phase, Persist
  <2>2. /\ x \in Controls /\ x.gen = m.gen /\ x.active = m.active
        /\ x.phase = "attempted" /\ x.edl = m.edl
    BY <1>1, <1>4, <1>5, RecordsMade
  <2> HIDE DEF x
  <2>3. Under(esp, x)
    BY <1>1, <1>4, <1>5, <2>2, UnderRaised DEF Rank
  <2>4. Owed(x, ghost)
    BY <1>4, <2>2 DEF Owed
  <2>5. Types'
    BY <1>1, <2>1, <2>2, Starts, WritersAre DEF GrubInv, Types, TypeOKStore, GrubSteps
  <2>6. run'.mode = "grub" /\ run'.mem = x /\ run'.pc = "trial"
    BY <1>1, <2>1
  <2>7. ghost.trials = 1
    BY <1>1, <1>5 DEF Owed
  <2>8. StepInv'
    BY <1>2, <2>1, <2>2, <2>6, <2>7 DEF StepInv, InGrub
  <2> QED
    BY <1>1, <1>3, <1>5, <2>1, <2>2, <2>3, <2>4, <2>5, <2>6, <2>8, Persists
<1>6. CASE m.phase = "attempted"
  <2> DEFINE x == RolledBack(m)
  <2>1. /\ StartWrite("grub", x, "a")
        /\ run' = [run EXCEPT !.pc = "boot", !.slot = m.active, !.mem = x]
        /\ UNCHANGED <<esp, kernel, ghost>>
    BY <1>6 DEF Phase, Persist
  <2>2. /\ x \in Controls /\ x.gen = m.gen /\ x.active = m.active
        /\ x.phase = "stable" /\ x.edl = m.edl
    BY <1>1, RecordsMade, <1>4
  <2> HIDE DEF x
  <2>3. Under(esp, x) /\ Owed(x, ghost) /\ Alike(esp, x)
    BY <1>1, <1>4, <1>6, <2>2, UnderRaised, UndecidedAlike DEF Rank, Owed, Undecided, Alike
  <2>4. Types'
    BY <1>1, <1>4, <2>1, <2>2, Starts, WritersAre DEF GrubInv, Types, TypeOKStore, GrubSteps
  <2>5. /\ run'.mode = "grub" /\ run'.mem = x /\ run'.pc = "boot"
        /\ run'.slot = x.active /\ run'.arg = "none"
    BY <1>1, <1>2, <2>1, <2>2
  <2>6. StepInv'
    BY <2>1, <2>2, <2>3, <2>5 DEF StepInv, InGrub, OnDefault
  <2> QED
    BY <1>1, <1>3, <1>6, <2>1, <2>2, <2>3, <2>4, <2>5, <2>6, Persists
<1>7. CASE m.phase = "stable"
  <2>1. /\ run' = [run EXCEPT !.pc = "boot", !.slot = m.active, !.arg = "none"]
        /\ UNCHANGED <<esp, writer, kernel, ghost>>
    BY <1>7 DEF Phase, Choose, Quietly, storeVars
  <2>2. Types'
    BY <1>1, <1>4, <2>1 DEF GrubInv, Types, TypeOKStore, GrubSteps, Arguments
  <2>3. /\ run'.mode = "grub" /\ run'.mem = m /\ run'.pc = "boot"
        /\ run'.slot = m.active /\ run'.arg = "none"
    BY <1>1, <2>1
  <2>4. Selected(esp).active = m.active \/ Divided
    BY <1>1, <1>2, <1>7, ReadersAgree, RecordFields DEF Divided, Slots
  <2>5. OnDefault'
    BY <1>1, <2>1, <2>3, <2>4 DEF OnDefault, Divided, Settled
  <2>6. StepInv'
    BY <2>3, <2>5 DEF StepInv, InGrub
  <2> QED
    BY <1>1, <2>1, <2>2, <2>3, <2>6, Moves DEF InGrub
<1> QED
  BY <1>4, <1>5, <1>6, <1>7 DEF Phases

LEMMA TrialKeeps == GrubInv /\ Trial => GrubInv'
<1> SUFFICES ASSUME GrubInv, Trial PROVE GrubInv'
  OBVIOUS
<1> DEFINE r == GrubSelected(esp)
           m == run.mem
<1>1. /\ run.mode = "grub" /\ run.pc = "trial" /\ Settled("grub") /\ Settled("linux")
      /\ esp \in [Slots -> Copies] /\ r \in Controls
      /\ Readable(esp) /\ Twins(esp) /\ Owed(r, ghost)
      /\ run \in [mode : Modes, pc : GrubSteps, mem : Controls, slot : Slots, arg : Arguments]
      /\ m \in Controls /\ Under(esp, m) /\ Owed(m, ghost)
  BY GrubAt DEF Trial
<1>2. /\ m.phase = "attempted" /\ ghost.trials = 1
      /\ Saved => ~SupersedesGrub(m, r)
  BY <1>1 DEF GrubInv, StepInv, MemInv, InGrub
<1>3. m.pending \in Slots /\ m.active \in Slots
  BY <1>1, <1>2, RecordFields
<1>4. CASE Saved
  <2>1. /\ run' = [run EXCEPT !.pc = "boot", !.slot = m.pending, !.arg = "trial"]
        /\ UNCHANGED <<esp, writer, kernel, ghost>>
    BY <1>4 DEF Trial, Choose, Quietly, storeVars
  <2>2. Types'
    BY <1>1, <1>3, <2>1 DEF GrubInv, Types, TypeOKStore, GrubSteps, Arguments
  <2>3. /\ run'.mode = "grub" /\ run'.mem = m /\ run'.pc = "boot"
        /\ run'.slot = m.pending /\ run'.arg = "trial"
    BY <1>1, <2>1
  <2>4. Behind(r, m)
    BY <1>1, ReadersAgree, RecordFields DEF Under
  <2>5. r.phase = "attempted"
    BY <1>1, <1>2, <1>4, <2>4, RecordFields, Ranks DEF Behind, SupersedesGrub, Supersedes
  <2>6. StepInv'
    BY <1>1, <1>2, <2>1, <2>3, <2>5 DEF StepInv, InGrub, Settled
  <2> QED
    BY <1>1, <2>1, <2>2, <2>3, <2>6, Moves DEF InGrub
<1>5. CASE ~Saved
  <2>1. /\ run' = [run EXCEPT !.pc = "boot", !.slot = m.active, !.arg = "none"]
        /\ UNCHANGED <<esp, writer, kernel, ghost>>
    BY <1>5 DEF Trial, Choose, Quietly, storeVars
  <2>2. Types'
    BY <1>1, <1>3, <2>1 DEF GrubInv, Types, TypeOKStore, GrubSteps, Arguments
  <2>3. /\ run'.mode = "grub" /\ run'.mem = m /\ run'.pc = "boot"
        /\ run'.slot = m.active /\ run'.arg = "none"
    BY <1>1, <2>1
  <2>4. Alike(esp, m)
    BY <1>1, <1>2, UndecidedAlike DEF Undecided
  <2>5. StepInv'
    BY <2>1, <2>3, <2>4 DEF StepInv, InGrub, OnDefault
  <2> QED
    BY <1>1, <2>1, <2>2, <2>3, <2>5, Moves DEF InGrub
<1> QED
  BY <1>4, <1>5

LEMMA BootKeeps == GrubInv /\ Boot => GrubInv'
<1> SUFFICES ASSUME GrubInv, Boot PROVE GrubInv'
  OBVIOUS
<1> DEFINE r == GrubSelected(esp)
           m == run.mem
<1>1. /\ run.mode = "grub" /\ run.pc = "boot" /\ Settled("grub") /\ Settled("linux")
      /\ esp \in [Slots -> Copies] /\ r \in Controls
      /\ Readable(esp) /\ Twins(esp) /\ Owed(r, ghost)
      /\ run \in [mode : Modes, pc : GrubSteps, mem : Controls, slot : Slots, arg : Arguments]
      /\ m \in Controls /\ Under(esp, m) /\ Owed(m, ghost)
  BY GrubAt DEF Boot
<1>2. /\ run' = [Dark EXCEPT !.mode = "linux", !.slot = run.slot, !.arg = run.arg]
      /\ UNCHANGED <<esp, writer, kernel>>
      /\ ghost' = [ghost EXCEPT
           !.trials = IF run.arg = "trial" THEN @ - 1 ELSE @,
           !.kept = IF run.arg = "recovery" /\ esp["a"] = m THEN run.slot ELSE @]
  BY DEF Boot, storeVars
<1>3. run.arg = "trial" => ghost.trials = 1 /\ r.phase = "attempted"
  BY <1>1 DEF GrubInv, StepInv, InGrub
<1>4. run.arg = "recovery" => run.slot = m.active /\ m.phase = "stable"
  BY <1>1 DEF GrubInv, StepInv, InGrub
<1>5. /\ ghost'.trials = (IF run.arg = "trial" THEN 0 ELSE ghost.trials)
      /\ ghost'.edls = ghost.edls
      /\ ghost'.kept = (IF run.arg = "recovery" /\ esp["a"] = m THEN run.slot ELSE ghost.kept)
      /\ ghost' \in [trials : {0, 1}, edls : {0, 1}, kept : Slots \cup {NoSlot}]
  <2> DEFINE left == IF run.arg = "trial" THEN 0 ELSE ghost.trials
             keeps == IF run.arg = "recovery" /\ esp["a"] = m THEN run.slot ELSE ghost.kept
  <2>1. ghost \in [trials : {0, 1}, edls : {0, 1}, kept : Slots \cup {NoSlot}]
    BY DEF GrubInv, Types
  <2>2. left = (IF run.arg = "trial" THEN ghost.trials - 1 ELSE ghost.trials)
    BY <1>3
  <2>3. ghost' = [ghost EXCEPT !.trials = left, !.kept = keeps]
    BY <1>2, <2>2
  <2>4. left \in {0, 1} /\ keeps \in Slots \cup {NoSlot}
    BY <1>1, <2>1
  <2> HIDE DEF left, keeps
  <2>5. /\ ghost'.trials = left /\ ghost'.edls = ghost.edls /\ ghost'.kept = keeps
        /\ ghost' \in [trials : {0, 1}, edls : {0, 1}, kept : Slots \cup {NoSlot}]
    BY <2>1, <2>3, <2>4
  <2> QED
    BY <2>5 DEF left, keeps
<1>6. Types' /\ run'.mode = "linux"
  BY <1>1, <1>2, <1>5, GivenRecords
     DEF GrubInv, Types, TypeOKStore, Dark, Modes, GrubSteps, Arguments
<1>7. Owed(r, ghost')
  BY <1>1, <1>3, <1>5 DEF Owed
<1>8. ghost'.kept = ghost.kept \/ KeptInv'
  <2> SUFFICES ASSUME run.arg = "recovery", esp["a"] = m PROVE KeptInv'
    BY <1>5
  <2>1. r = m
    <3> SUFFICES ASSUME r # m PROVE FALSE
      OBVIOUS
    <3>1. SupersedesGrub(r, m)
      BY <1>1, RecordFields, FirstWins
    <3>2. Behind(r, m) /\ ~m.edl
      BY <1>1, ReadersAgree, RecordFields DEF Under
    <3> QED
      BY <1>1, <3>1, <3>2, RecordFields, Ranks DEF Behind, SupersedesGrub, Supersedes
  <2>2. ~m.edl /\ ghost'.kept = m.active /\ m.phase = "stable"
    BY <1>1, <1>4, <1>5 DEF Under
  <2> QED
    BY <1>1, <1>2, <2>1, <2>2, WritersAre DEF KeptInv, Settled
<1>9. StepInv' /\ ~InGrub({"edl", "phase", "trial", "boot"})'
  BY <1>6 DEF StepInv, InGrub
<1> QED
  BY <1>1, <1>2, <1>6, <1>7, <1>8, <1>9, Moves

LEMMA LoadFailsKeeps == GrubInv /\ LoadFails => GrubInv'
<1> SUFFICES ASSUME GrubInv, LoadFails PROVE GrubInv'
  OBVIOUS
<1> DEFINE m == run.mem
<1>1. /\ run.mode = "grub" /\ run.pc = "boot" /\ Settled("grub") /\ Settled("linux")
      /\ esp \in [Slots -> Copies] /\ Owed(GrubSelected(esp), ghost)
      /\ run \in [mode : Modes, pc : GrubSteps, mem : Controls, slot : Slots, arg : Arguments]
      /\ m \in Controls /\ Under(esp, m) /\ Owed(m, ghost)
  BY GrubAt DEF LoadFails
<1>2. /\ UNCHANGED <<esp, kernel>> /\ ghost' = [ghost EXCEPT !.kept = NoSlot]
      /\ ghost'.trials = ghost.trials /\ ghost'.edls = ghost.edls /\ ghost'.kept = NoSlot
      /\ ghost' \in [trials : {0, 1}, edls : {0, 1}, kept : Slots \cup {NoSlot}]
  BY DEF LoadFails, GrubInv, Types
<1>3. m.phase \in Phases /\ m.active \in Slots /\ ~m.edl
  BY <1>1, RecordFields DEF Under
<1>4. CASE run.arg = "trial"
  <2> DEFINE x == RolledBack(m)
  <2>1. /\ StartWrite("grub", x, "a")
        /\ run' = [run EXCEPT !.mem = x, !.slot = m.active, !.arg = "none"]
    BY <1>4 DEF LoadFails
  <2>2. /\ x \in Controls /\ x.gen = m.gen /\ x.active = m.active
        /\ x.phase = "stable" /\ x.edl = m.edl
    BY <1>1, <1>3, RecordsMade
  <2>3. m.phase = "attempted"
    BY <1>1, <1>4 DEF GrubInv, StepInv, InGrub
  <2> HIDE DEF x
  <2>4. Under(esp, x) /\ Owed(x, ghost) /\ Alike(esp, x)
    BY <1>1, <1>3, <2>2, <2>3, UnderRaised, UndecidedAlike DEF Rank, Owed, Undecided, Alike
  <2>5. Types'
    BY <1>1, <1>2, <1>3, <2>1, <2>2, Starts, WritersAre
       DEF GrubInv, Types, TypeOKStore, Arguments
  <2>6. /\ run'.mode = "grub" /\ run'.mem = x /\ run'.pc = "boot"
        /\ run'.slot = x.active /\ run'.arg = "none"
    BY <1>1, <2>1, <2>2
  <2>7. StepInv'
    BY <1>2, <2>4, <2>6 DEF StepInv, InGrub, OnDefault
  <2> QED
    BY <1>1, <1>2, <2>1, <2>2, <2>4, <2>5, <2>6, <2>7, Persists
<1>5. CASE run.arg = "none"
  <2> DEFINE x == Promoted(m, Peer(run.slot))
  <2>1. /\ StartWrite("grub", x, "a")
        /\ run' = [run EXCEPT !.mem = x, !.slot = x.active, !.arg = "recovery"]
    BY <1>5 DEF LoadFails
  <2>2. /\ x \in Controls /\ x.gen = m.gen /\ x.active \in Slots
        /\ x.phase = "stable" /\ x.edl = m.edl
    BY <1>1, PeersAre, RecordsMade
  <2> HIDE DEF x
  <2>3. Under(esp, x) /\ Owed(x, ghost)
    <3>1. Rank(x.phase) >= Rank(m.phase)
      BY <1>3, <2>2 DEF Rank, Phases
    <3>2. Under(esp, x)
      BY <1>1, <1>3, <2>2, <3>1, UnderRaised DEF Undecided
    <3> QED
      BY <1>3, <2>2, <3>2 DEF Owed
  <2>4. Types'
    BY <1>1, <1>2, <2>1, <2>2, Starts, WritersAre DEF GrubInv, Types, TypeOKStore, Arguments
  <2>5. /\ run'.mode = "grub" /\ run'.mem = x /\ run'.pc = "boot"
        /\ run'.slot = x.active /\ run'.arg = "recovery"
    BY <1>1, <2>1
  <2>6. StepInv'
    BY <2>2, <2>5 DEF StepInv, InGrub
  <2> QED
    BY <1>1, <1>2, <2>1, <2>2, <2>3, <2>4, <2>5, <2>6, Persists
<1>6. CASE run.arg = "recovery"
  <2>1. run' = [Dark EXCEPT !.mode = "halt"] /\ UNCHANGED writer
    BY <1>6 DEF LoadFails
  <2>2. Types' /\ run'.mode = "halt"
    BY <1>2, <2>1, GivenRecords
       DEF GrubInv, Types, TypeOKStore, Dark, Modes, GrubSteps, Arguments, Slots
  <2>3. StepInv' /\ ~InGrub({"edl", "phase", "trial", "boot"})'
    BY <2>2 DEF StepInv, InGrub
  <2>4. Owed(GrubSelected(esp), ghost')
    BY <1>1, <1>2 DEF Owed
  <2> QED
    BY <1>1, <1>2, <2>1, <2>2, <2>3, <2>4, Moves
<1> QED
  BY <1>1, <1>4, <1>5, <1>6 DEF Arguments

-----------------------------------------------------------------------------
\* Linux sets out to write a record of the next generation.
LEMMA LinuxStarts ==
  ASSUME GrubInv, NEW rec \in Controls, rec.gen = Selected(esp).gen + 1,
         run.mode = "linux", Settled("linux"), StartWrite("linux", rec, "a"),
         UNCHANGED <<esp, run>>, Types', ghost'.kept = NoSlot,
         Owed(rec, ghost'), Owed(GrubSelected(esp), ghost')
  PROVE  GrubInv'
<1>1. /\ writer'["linux"].rec = rec /\ writer'["grub"] = writer["grub"]
  BY Starts, WritersAre DEF GrubInv
<1>2. Newest(esp, rec)
  <2> SUFFICES ASSUME NEW s \in Slots, esp[s] # Damaged PROVE esp[s].gen < rec.gen
    BY DEF Newest
  <2>1. esp[s] \in Controls /\ ~Supersedes(esp[s], Selected(esp))
    BY Turns, ReadersAgree DEF GrubInv, CopiesInv, Copies
  <2> QED
    BY <2>1, Turns, RecordFields DEF Supersedes
<1>3. CopiesInv' /\ LinuxInv' /\ KeptInv'
  BY <1>1, <1>2 DEF GrubInv, CopiesInv, LinuxInv, KeptInv
<1>4. MemInv' /\ StepInv'
  BY <1>1, Turns DEF MemInv, StepInv, InGrub, Settled
<1> QED
  BY <1>3, <1>4 DEF GrubInv

\* The requests of Linux, each on the record it selects.
LEMMA LinuxKeeps ==
  GrubInv /\ (Arm \/ Commit \/ Request \/ SetUsbMode) => GrubInv'
<1> SUFFICES ASSUME GrubInv, Arm \/ Commit \/ Request \/ SetUsbMode PROVE GrubInv'
  OBVIOUS
<1> DEFINE r == Selected(esp)
           g == GrubSelected(esp)
<1>1. /\ r \in Controls /\ g \in Controls /\ g.phase = r.phase /\ Owed(g, ghost)
      /\ run.slot \in Slots
      /\ ghost \in [trials : {0, 1}, edls : {0, 1}, kept : Slots \cup {NoSlot}]
  BY Turns DEF GrubInv, CopiesInv, Types
<1>2. ASSUME NEW rec \in Controls, LinuxWrites(rec), rec.gen = r.gen + 1,
             kernel' \in [Slots -> BOOLEAN],
             ghost' \in [trials : {0, 1}, edls : {0, 1}, kept : Slots \cup {NoSlot}],
             ghost'.kept = NoSlot, Owed(rec, ghost'), Owed(g, ghost')
      PROVE  GrubInv'
  <2>1. /\ run.mode = "linux" /\ Settled("linux") /\ StartWrite("linux", rec, "a")
        /\ UNCHANGED <<esp, run>>
    BY <1>2 DEF LinuxWrites
  <2>2. Types'
    BY <1>2, <2>1, Starts, WritersAre DEF GrubInv, Types, TypeOKStore
  <2> QED
    BY <1>2, <2>1, <2>2, LinuxStarts
<1>3. CASE Arm
  <2>1. /\ LinuxWrites(Armed(r, run.slot)) /\ kernel' \in [Slots -> BOOLEAN]
        /\ ghost' = [ghost EXCEPT !.trials = 1, !.kept = NoSlot]
    BY <1>3 DEF Arm, GrubInv, Types
  <2>2. /\ Armed(r, run.slot) \in Controls /\ Armed(r, run.slot).gen = r.gen + 1
        /\ ~Armed(r, run.slot).edl
    BY <1>1, RecordsMade
  <2> QED
    BY <1>1, <1>2, <2>1, <2>2 DEF Owed
<1>4. CASE Commit
  <2>1. /\ LinuxWrites(Stabilised(r, run.slot)) /\ kernel' = kernel
        /\ ghost' = [ghost EXCEPT !.kept = NoSlot]
    BY <1>4 DEF Commit
  <2>2. /\ Stabilised(r, run.slot) \in Controls /\ Stabilised(r, run.slot).gen = r.gen + 1
        /\ Stabilised(r, run.slot).phase = "stable" /\ ~Stabilised(r, run.slot).edl
    BY <1>1, RecordsMade
  <2>3. kernel \in [Slots -> BOOLEAN]
    BY DEF GrubInv, Types
  <2> QED
    BY <1>1, <1>2, <2>1, <2>2, <2>3 DEF Owed
<1>5. CASE Request
  <2>1. /\ LinuxWrites(RequestEdl(r)) /\ kernel' = kernel
        /\ ghost' = [ghost EXCEPT !.edls = 1, !.kept = NoSlot]
    BY <1>5 DEF Request
  <2>2. /\ RequestEdl(r) \in Controls /\ RequestEdl(r).gen = r.gen + 1
        /\ RequestEdl(r).phase = r.phase
    BY <1>1, RecordsMade
  <2>3. kernel \in [Slots -> BOOLEAN]
    BY DEF GrubInv, Types
  <2> QED
    BY <1>1, <1>2, <2>1, <2>2, <2>3 DEF Owed
<1>6. CASE SetUsbMode
  <2>1. /\ LinuxWrites(Touched(r)) /\ kernel' = kernel
        /\ ghost' = [ghost EXCEPT !.edls = IF r.edl THEN 1 ELSE @, !.kept = NoSlot]
    BY <1>6 DEF SetUsbMode
  <2>2. /\ Touched(r) \in Controls /\ Touched(r).gen = r.gen + 1
        /\ Touched(r).phase = r.phase /\ Touched(r).edl = r.edl
    BY <1>1, RecordsMade
  <2>3. kernel \in [Slots -> BOOLEAN]
    BY DEF GrubInv, Types
  <2>4. /\ ghost' \in [trials : {0, 1}, edls : {0, 1}, kept : Slots \cup {NoSlot}]
        /\ ghost'.trials = ghost.trials /\ ghost'.kept = NoSlot
        /\ ghost'.edls = 1 \/ ghost'.edls = ghost.edls
        /\ r.edl => ghost'.edls = 1
    BY <1>1, <2>1
  <2>5. Owed(Touched(r), ghost') /\ Owed(g, ghost')
    BY <1>1, <2>2, <2>4 DEF Owed
  <2> QED
    BY <1>2, <2>1, <2>2, <2>3, <2>4, <2>5
<1> QED
  BY <1>3, <1>4, <1>5, <1>6

\* Power: a cut tears at most the copy being written, and ends all programs.
LEMMA PowerKeeps == GrubInv /\ (PowerOn \/ PowerCut \/ Restart) => GrubInv'
<1> SUFFICES ASSUME GrubInv, PowerOn \/ PowerCut \/ Restart PROVE GrubInv'
  OBVIOUS
<1> DEFINE g == GrubSelected(esp)
<1>1. /\ esp \in [Slots -> Copies] /\ Readable(esp) /\ Twins(esp) /\ Owed(g, ghost)
      /\ g \in Controls
  BY Turns DEF GrubInv, CopiesInv
<1>2. CASE PowerOn
  <2>1. /\ run.mode = "off" /\ run' = [run EXCEPT !.mode = "grub"]
        /\ UNCHANGED <<esp, writer, kernel, ghost>>
    BY <1>2 DEF PowerOn, Quietly, storeVars
  <2>2. /\ run.pc = "start" /\ run.arg = "none" /\ Settled("grub") /\ Settled("linux")
    BY <2>1, Turns DEF GrubInv, StepInv
  <2>3. Types' /\ run'.mode = "grub" /\ run'.pc = "start" /\ run'.arg = "none"
    BY <2>1, <2>2 DEF GrubInv, Types, TypeOKStore, Modes
  <2>4. StepInv' /\ ~InGrub({"edl", "phase", "trial", "boot"})'
    BY <2>3 DEF StepInv, InGrub
  <2> QED
    BY <1>1, <2>1, <2>2, <2>3, <2>4, Moves
<1>3. CASE PowerCut \/ Restart
  <2>1. /\ run' = Dark /\ writer' = [p \in Writers |-> NoWrite] /\ UNCHANGED <<kernel, ghost>>
    BY <1>3 DEF PowerCut, Restart
  <2>2. /\ esp' \in [Slots -> Copies] /\ Readable(esp') /\ Twins(esp')
        /\ GrubSelected(esp') = g
        /\ esp' = esp \/ ghost.kept = NoSlot
    <3>1. CASE esp' = esp
      BY <3>1, <1>1
    <3>2. ASSUME NEW p \in Writers, writer[p].at # NoSlot, Spare(writer[p].at),
                 esp' = [esp EXCEPT ![writer[p].at] = Damaged]
          PROVE  /\ esp' \in [Slots -> Copies] /\ Readable(esp') /\ Twins(esp')
                 /\ GrubSelected(esp') = g /\ ghost.kept = NoSlot
      <4>1. writer[p].at \in Slots /\ esp[Peer(writer[p].at)] = g
        BY <3>2 DEF GrubInv, Types, TypeOKStore, Writing, Spare
      <4>2. ghost.kept = NoSlot
        BY <3>2 DEF GrubInv, KeptInv, Settled
      <4> QED
        BY <1>1, <3>2, <4>1, <4>2, CopyTorn, GivenRecords
    <3>3. \/ esp' = esp
          \/ \E p \in Writers : /\ writer[p].at # NoSlot /\ Spare(writer[p].at)
                               /\ esp' = [esp EXCEPT ![writer[p].at] = Damaged]
      BY <1>3 DEF PowerCut, Restart, Settled
    <3> QED
      BY <3>1, <3>2, <3>3
  <2>3. NoWrite \in Writing
    BY DEF NoWrite, Writing, Copies
  <2>4. Types'
    BY <2>1, <2>2, <2>3, GivenRecords
       DEF GrubInv, Types, TypeOKStore, Dark, Modes, GrubSteps, Arguments, Slots
  <2>5. CopiesInv'
    BY <1>1, <2>1, <2>2 DEF CopiesInv
  <2>6. LinuxInv' /\ MemInv' /\ StepInv'
    BY <2>1, WritersAre DEF LinuxInv, MemInv, StepInv, InGrub, Dark, NoWrite
  <2>7. KeptInv'
    BY <2>1, <2>2 DEF GrubInv, KeptInv, Settled, NoWrite
  <2> QED
    BY <2>4, <2>5, <2>6, <2>7 DEF GrubInv
<1> QED
  BY <1>2, <1>3

-----------------------------------------------------------------------------
LEMMA StepKeeps == GrubInv /\ [Next]_vars => GrubInv'
<1> SUFFICES ASSUME GrubInv, [Next]_vars PROVE GrubInv'
  OBVIOUS
<1>1. CASE UNCHANGED vars
  BY <1>1, ZenonT(60) DEF vars, storeVars, GrubInv, Types, TypeOKStore, CopiesInv, LinuxInv, MemInv, StepInv,
     KeptInv, InGrub, Saved, Settled, OnDefault, Divided
<1>2. CASE Start \/ Edl \/ Phase \/ Trial \/ Boot \/ LoadFails
  BY <1>2, StartKeeps, EdlKeeps, PhaseKeeps, TrialKeeps, BootKeeps, LoadFailsKeeps
<1>3. CASE Arm \/ Commit \/ Request \/ SetUsbMode
  BY <1>3, LinuxKeeps
<1>4. CASE (\E p \in Writers : Took(p) \/ Failed(p)) \/ Skipped
  BY <1>4, WriteKeeps, WritersAre
<1>5. CASE PowerOn \/ PowerCut \/ Restart
  BY <1>5, PowerKeeps
<1> QED
  BY <1>1, <1>2, <1>3, <1>4, <1>5 DEF Next

\* The invariant holds, for any number of requests, faults and generations.
THEOREM GrubInvariant == Spec => []GrubInv
BY InitKeeps, StepKeeps, PTL DEF Spec

\* A trial is started once per activation and an EDL request carried out once,
\* however often an ESP does not take what grub.cfg saves: the copy with the
\* higher phase, or without the request, wins the tie in consider_state.
THEOREM ActsOnce == Spec => []OneShot
<1>1. GrubInv => OneShot
  BY DEF GrubInv, Types, OneShot
<1> QED
  BY <1>1, GrubInvariant, PTL

\* A recovery that ESP a took is what every later boot goes on with, until it
\* fails or Linux writes ("makes that recovery choice persistent", grub.cfg).
THEOREM RecoveryLasts == Spec => []RecoveryKept
<1>1. GrubInv => RecoveryKept
  <2> SUFFICES ASSUME GrubInv, At("phase"), ghost.kept # NoSlot
               PROVE  run.mem.active = ghost.kept /\ run.mem.phase = "stable"
    BY DEF RecoveryKept
  <2> QED
    BY DEF GrubInv, KeptInv, StepInv, InGrub, At
<1> QED
  BY <1>1, GrubInvariant, PTL

\* What grub.cfg decided is what update.py reads from the same copies.
LEMMA BootReads ==
  ASSUME GrubInv, Boot
  PROVE  LET r == Selected(esp) IN
         CASE run.arg = "trial"    -> r.phase = "attempted" /\ r.pending = run.slot
           [] run.arg = "none"     -> r.active = run.slot \/ Divided
           [] run.arg = "recovery" -> TRUE
<1> DEFINE r == Selected(esp)
           g == GrubSelected(esp)
           m == run.mem
<1>1. /\ run.mode = "grub" /\ run.pc = "boot" /\ Settled("grub")
      /\ esp \in [Slots -> Copies] /\ Readable(esp)
      /\ m \in Controls /\ Under(esp, m)
      /\ run.arg \in Arguments
  BY GrubAt DEF Boot, GrubInv, Types
<1>2. /\ r \in Controls /\ r.gen = m.gen /\ r.phase = g.phase
      /\ \E s \in Slots : esp[s] = r /\ esp[s] # Damaged
  BY <1>1, ReadersAgree, RecordFields DEF Under
<1>3. CASE run.arg = "trial"
  <2>1. /\ run.slot = m.pending /\ m.phase = "attempted" /\ g.phase = "attempted"
    BY <1>1, <1>3 DEF GrubInv, StepInv, InGrub
  <2>2. r.active = m.active
    BY <1>1, <1>2, <2>1, UndecidedAlike DEF Undecided, Alike
  <2> QED
    BY <1>1, <1>2, <1>3, <2>1, <2>2, RecordFields
<1>4. CASE run.arg = "none"
  <2>1. run.slot = m.active /\ OnDefault
    BY <1>1, <1>4 DEF GrubInv, StepInv, InGrub
  <2>2. Alike(esp, m) => r.active = m.active
    BY <1>2 DEF Alike
  <2> QED
    BY <1>4, <2>1, <2>2 DEF OnDefault
<1>5. CASE run.arg = "recovery"
  BY <1>5
<1> QED
  BY <1>1, <1>3, <1>4, <1>5 DEF Arguments

\* The record that update.py selects in a boot gives the slot that GRUB chose the
\* role it chose it for, though the two break ties differently; except after a
\* recovery, and where b alone has dropped a request.
THEOREM LinuxReadsIt == Spec => SameSelection
<1>1. GrubInv => [Boot /\ Readable(esp) =>
                   LET r == Selected(esp) IN
                   CASE run.arg = "trial"    -> r.phase = "attempted" /\ r.pending = run.slot
                     [] run.arg = "none"     -> r.active = run.slot \/ Divided
                     [] run.arg = "recovery" -> TRUE]_vars
  BY BootReads
<1> QED
  BY <1>1, GrubInvariant, PTL DEF SameSelection
=============================================================================
