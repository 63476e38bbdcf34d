---------------------------- MODULE EdlHostProofs ----------------------------
(***************************************************************************)
(* Whatever fails, is late, is killed or exchanged, the host tools leave a *)
(* board with its NOR backed up or unchanged and with a valid record, and  *)
(* nothing lands after a session: for all boards, faults and generations.  *)
(***************************************************************************)
EXTENDS EdlHost, TLAPS

\* The steps of each tool that follow the opening of its session.
NorSteps == {"nor1", "nor2", "norWrite", "norCheck", "norWhole", "norReset"}
RecordSteps ==
  {"layout", "readA", "readB", "writeB", "checkB", "writeA", "checkA", "reset"}
Asking == NorSteps \cup RecordSteps
RequestSet ==
  [op : {"none", "reset"}, part : {"none"}, data : Nat]
    \cup [op : {"read", "write"}, part : {"layout", "a", "b", "nor"}, data : Nat]

StoreOK == store \in [Boards -> [layout : Nat, a : Nat, b : Nat, nor : Nat]]
SessionOK ==
  /\ session \in [open : BOOLEAN, wait : RequestSet]
  /\ child \in [alive : BOOLEAN, dev : Boards \cup {"none"}, stdin : BOOLEAN,
                todo : Seq(RequestSet), out : Seq(Nat)]
HostOK ==
  /\ host \in [pc : Asking \cup {"idle", "access", "open", "backup"},
               dev : Boards \cup {"none"}, seen : Nat, chosen : Nat]
  /\ ghost \in [nor : [Boards -> Nat], asked : [Boards -> Nat], swapped : BOOLEAN,
                left : BOOLEAN]
TypeInv == StoreOK /\ SessionOK /\ HostOK

\* A session has one request on its way or one answer, and only while the tool
\* waits for it; without a session only a child that was left is alive.
Reply(v) ==
  /\ child.todo = <<>> /\ child.out = <<v>>
  /\ session.wait.op = "read" =>
       child.alive /\ v \in {Torn, store[child.dev][session.wait.part]}
PipeInv ==
  /\ child.alive => child.dev \in Boards
  /\ session.open => ~ghost.left /\ (child.alive => child.stdin)
  /\ child.alive /\ ~session.open => ghost.left
  /\ ghost.left => child.alive
  /\ Waiting => session.open
  /\ session.open /\ ~Waiting => child.todo = <<>> /\ child.out = <<>>
  /\ Waiting => \/ child.todo \in {<<>>, <<session.wait>>} /\ child.out = <<>>
                \/ \E v \in Nat : Reply(v)
  /\ child.alive /\ ~session.open =>
       child.todo = <<>> \/ \E r \in RequestSet : child.todo = <<r>>

\* Where the tool is in its session, and on which board.
PlaceInv ==
  /\ Waiting => host.pc \in Asking /\ session.wait = Requests[host.pc]
  /\ host.pc \in Asking \cup {"backup"} => session.open
  /\ host.pc \in {"access", "open"} => ~session.open
  /\ host.pc \in RecordSteps => host.dev \in Boards
  /\ host.pc \in RecordSteps /\ child.alive => child.dev = host.dev
  /\ host.pc \in NorSteps \cup {"backup"} /\ child.alive /\ ~ghost.swapped =>
       child.dev = host.dev
  /\ host.pc = "open" /\ ~ghost.swapped => plugged = {host.dev}

\* The boards: a valid record, none older than what was reported, and a backup
\* of a NOR that has changed.
Kept(d) == ghost.swapped \/ [dev |-> d, nor |-> ghost.nor[d]] \in backups
BoardInv ==
  \A d \in Boards :
    /\ store[d].a # Torn \/ store[d].b # Torn
    /\ store[d].a = Torn \/ store[d].a >= ghost.asked[d]
    /\ store[d].b = Torn \/ store[d].b >= ghost.asked[d]
    /\ store[d].nor = ghost.nor[d] \/ Kept(d)

\* A write on its way to the board, whoever still waits for it, may be cut at any
\* point: the other record is valid, or the NOR is backed up.
SafeWrite(r, d) ==
  /\ r.part \in {"a", "b", "nor"} /\ r.data # Torn
  /\ r.part = "a" => store[d].b # Torn /\ r.data >= ghost.asked[d]
  /\ r.part = "b" => store[d].a # Torn /\ r.data >= ghost.asked[d]
  /\ r.part = "nor" => Kept(d)
WriteInv == Working /\ Doing.op = "write" => SafeWrite(Doing, child.dev)

\* What the tool has read or written so far is so.
RecordInv ==
  LET s == store[host.dev] IN
  /\ host.pc \in {"readA", "readB"} => s.layout # Torn
  /\ host.pc = "readB" => s.a # Torn /\ host.seen = s.a
  /\ host.pc \in {"writeB", "checkB", "writeA", "checkA"} =>
       host.chosen >= ghost.asked[host.dev]
  /\ host.pc \in {"writeB", "checkB"} => s.a # Torn
  /\ host.pc = "writeB" /\ ~Waiting => s.layout # Torn /\ s.b # Torn
  /\ host.pc \in {"writeA", "checkA", "reset"} => s.b = host.chosen + 1
  /\ host.pc = "reset" => s.a = host.chosen + 1
NorInv ==
  child.alive =>
    /\ host.pc = "backup" => host.seen \in {Torn, store[child.dev].nor}
    /\ host.pc = "norWrite" => Kept(child.dev)
    /\ host.pc = "norReset" => store[child.dev].nor = Current

EdlInv ==
  TypeInv /\ PipeInv /\ PlaceInv /\ BoardInv /\ WriteInv /\ RecordInv /\ NorInv

-----------------------------------------------------------------------------
LEMMA One ==
  \A x : Head(<<x>>) = x /\ Tail(<<x>>) = <<>> /\ Append(<<>>, x) = <<x>> /\ <<x>> # <<>>
OBVIOUS

LEMMA RequestOf ==
  /\ DOMAIN Requests = Asking
  /\ \A pc \in {"nor1", "nor2", "norCheck", "norWhole"} : Requests[pc] = Read("nor")
  /\ Requests["norWrite"] = Write("nor", Current)
  /\ Requests["norReset"] = Reset /\ Requests["reset"] = Reset
  /\ Requests["layout"] = Read("layout")
  /\ Requests["readA"] = Read("a") /\ Requests["readB"] = Read("b")
  /\ Requests["checkA"] = Read("a") /\ Requests["checkB"] = Read("b")
  /\ Requests["writeA"] = Write("a", host.chosen + 1)
  /\ Requests["writeB"] = Write("b", host.chosen + 1)
BY DEF Requests, Asking, NorSteps, RecordSteps

LEMMA RequestType ==
  ASSUME HostOK, NEW pc \in Asking
  PROVE  Requests[pc] \in RequestSet /\ Requests[pc].op # "none"
BY RequestOf DEF HostOK, RequestSet, Request, Read, Write, Reset, Torn, Current, Asking,
   NorSteps, RecordSteps

LEMMA FollowingOf ==
  /\ Following["nor1"] = "nor2" /\ Following["nor2"] = "backup"
  /\ Following["norWrite"] = "norCheck" /\ Following["norCheck"] = "norWhole"
  /\ Following["norWhole"] = "norReset" /\ Following["norReset"] = "idle"
  /\ Following["layout"] = "readA" /\ Following["readA"] = "readB"
  /\ Following["readB"] = "writeB" /\ Following["writeB"] = "checkB"
  /\ Following["checkB"] = "writeA" /\ Following["writeA"] = "checkA"
  /\ Following["checkA"] = "reset" /\ Following["reset"] = "idle"
BY DEF Following

LEMMA Constants ==
  /\ NoRequest \in RequestSet /\ Closed \in [open : BOOLEAN, wait : RequestSet]
  /\ Closed.open = FALSE /\ Closed.wait = NoRequest
  /\ Gone \in [alive : BOOLEAN, dev : Boards \cup {"none"}, stdin : BOOLEAN,
               todo : Seq(RequestSet), out : Seq(Nat)]
  /\ ~Gone.alive /\ Gone.todo = <<>> /\ Gone.out = <<>>
BY DEF NoRequest, RequestSet, Request, Torn, Closed, Gone

\* The boards, and what was kept of them, after a write that was safe, whole or
\* cut in the middle. Only the part that is written changes.
LEMMA StoredSafely ==
  ASSUME EdlInv, NEW v \in Nat, store' = Stored(v),
         Working /\ Doing.op = "write" => v \in {Torn, Doing.data},
         ghost'.nor = ghost.nor, ghost'.asked = ghost.asked,
         ghost.swapped => ghost'.swapped, backups \subseteq backups'
  PROVE  StoreOK' /\ BoardInv'
<1>1. CASE ~(Working /\ Doing.op = "write")
  BY <1>1 DEF EdlInv, TypeInv, StoreOK, BoardInv, Kept, Stored
<1>2. CASE Working /\ Doing.op = "write"
  <2>1. PICK d \in Boards : d = child.dev /\ SafeWrite(Doing, d)
    BY <1>2 DEF EdlInv, PipeInv, WriteInv, Working
  <2>2. store' = [store EXCEPT ![d][Doing.part] = v]
    BY <1>2, <2>1 DEF Stored
  <2>3. Doing.part \in {"a", "b", "nor"} /\ v \in {Torn, Doing.data}
    BY <1>2, <2>1 DEF SafeWrite
  <2>4. StoreOK'
    BY <2>1, <2>2, <2>3 DEF EdlInv, TypeInv, StoreOK
  <2>5. ASSUME NEW e \in Boards \ {d} PROVE store'[e] = store[e]
    BY <2>2, <2>5 DEF EdlInv, TypeInv, StoreOK
  <2>6. store'[d] = [store[d] EXCEPT ![Doing.part] = v]
    BY <2>1, <2>2 DEF EdlInv, TypeInv, StoreOK
  <2>7. \A e \in Boards : Kept(e) => Kept(e)'
    BY DEF Kept
  <2> DEFINE Good(e) ==
        /\ store'[e].a # Torn \/ store'[e].b # Torn
        /\ store'[e].a = Torn \/ store'[e].a >= ghost.asked[e]
        /\ store'[e].b = Torn \/ store'[e].b >= ghost.asked[e]
        /\ store'[e].nor = ghost.nor[e] \/ Kept(e)'
  <2>8. ASSUME NEW e \in Boards \ {d} PROVE Good(e)
    BY <2>5, <2>7 DEF EdlInv, BoardInv
  <2>9. Good(d)
    <3>0. store[d] \in [layout : Nat, a : Nat, b : Nat, nor : Nat]
      BY <2>1 DEF EdlInv, TypeInv, StoreOK
    <3>1. /\ store[d].a # Torn \/ store[d].b # Torn
          /\ store[d].a = Torn \/ store[d].a >= ghost.asked[d]
          /\ store[d].b = Torn \/ store[d].b >= ghost.asked[d]
          /\ store[d].nor = ghost.nor[d] \/ Kept(d)
      BY <2>1 DEF EdlInv, BoardInv
    <3>2. CASE Doing.part = "a"
      <4>1. store'[d].a = v /\ store'[d].b = store[d].b /\ store'[d].nor = store[d].nor
        BY <3>0, <3>2, <2>6
      <4>2. store[d].b # Torn /\ (v # Torn => v >= ghost.asked[d])
        BY <3>2, <2>1, <2>3 DEF SafeWrite
      <4> QED
        BY <4>1, <4>2, <3>1, <2>1, <2>7
    <3>3. CASE Doing.part = "b"
      <4>1. store'[d].b = v /\ store'[d].a = store[d].a /\ store'[d].nor = store[d].nor
        BY <3>0, <3>3, <2>6
      <4>2. store[d].a # Torn /\ (v # Torn => v >= ghost.asked[d])
        BY <3>3, <2>1, <2>3 DEF SafeWrite
      <4> QED
        BY <4>1, <4>2, <3>1, <2>1, <2>7
    <3>4. CASE Doing.part = "nor"
      <4>1. store'[d].a = store[d].a /\ store'[d].b = store[d].b
        BY <3>0, <3>4, <2>6
      <4>2. Kept(d)
        BY <3>4, <2>1 DEF SafeWrite
      <4> QED
        BY <4>1, <4>2, <3>1, <2>1, <2>7
    <3> QED
      BY <3>2, <3>3, <3>4, <2>3
  <2>10. \A e \in Boards : Good(e)
    BY <2>8, <2>9
  <2> QED
    BY <2>4, <2>10 DEF BoardInv
<1> QED
  BY <1>1, <1>2

LEMMA InitInv == Init => EdlInv
<1> SUFFICES ASSUME Init PROVE EdlInv
  OBVIOUS
<1>1. PICK d \in Boards, nor \in {Known, Current, Foreign}, layout \in {Torn, Sound},
           a \in {Torn, 1}, b \in {Torn, 1} :
        /\ a # Torn \/ b # Torn
        /\ layout = Sound \/ a = b
        /\ nor = Current \/ (layout = Sound /\ a = b)
        /\ store = [x \in Boards |->
             IF x = d THEN [layout |-> layout, a |-> a, b |-> b, nor |-> nor]
             ELSE [layout |-> Sound, a |-> 1, b |-> 1, nor |-> Known]]
  BY Zenon DEF Init
<1>2. StoreOK
  BY <1>1 DEF StoreOK, Torn, Sound, Known, Current, Foreign
<1>3. HostOK
  BY <1>2 DEF Init, HostOK, StoreOK, Idle, Torn
<1>4. SessionOK
  BY Constants DEF Init, SessionOK
<1>5. BoardInv
  BY <1>1 DEF Init, BoardInv, Torn, Kept
<1> QED
  BY <1>2, <1>3, <1>4, <1>5, Constants
  DEF Init, EdlInv, TypeInv, PipeInv, PlaceInv, WriteInv, RecordInv, NorInv, Idle, Working,
      Waiting, Closed, NoRequest, Gone, Asking, NorSteps, RecordSteps

\* What a child that works is at.
LEMMA OneRequest ==
  ASSUME EdlInv, Working
  PROVE  /\ child.todo = <<Doing>> /\ Doing \in RequestSet /\ child.dev \in Boards
         /\ session.open =>
              /\ Waiting /\ Doing = session.wait /\ child.out = <<>> /\ child.stdin
              /\ host.pc \in Asking /\ Doing = Requests[host.pc]
         /\ ~session.open => ghost.left /\ host.pc \in {"idle", "access", "open"}
<1>1. child.alive /\ child.todo # <<>> /\ child.dev \in Boards
  BY DEF Working, EdlInv, PipeInv
<1>2. CASE session.open
  <2>1. Waiting /\ child.todo = <<session.wait>> /\ child.out = <<>> /\ child.stdin
    BY <1>1, <1>2 DEF EdlInv, PipeInv, Reply
  <2>2. session.wait \in RequestSet
    BY DEF EdlInv, TypeInv, SessionOK
  <2> QED
    BY <1>1, <1>2, <2>1, <2>2, One DEF Doing, EdlInv, PlaceInv
<1>3. CASE ~session.open
  <2>1. PICK r \in RequestSet : child.todo = <<r>>
    BY <1>1, <1>3 DEF EdlInv, PipeInv
  <2>2. host.pc \in {"idle", "access", "open"}
    BY <1>3 DEF EdlInv, PlaceInv, TypeInv, HostOK
  <2> QED
    BY <1>1, <1>3, <2>1, <2>2, One DEF Doing, EdlInv, PipeInv
<1> QED
  BY <1>2, <1>3

\* What the tool has read or written stays so while a request is carried out.
LEMMA StoredRecords ==
  ASSUME EdlInv, NEW v \in Nat, store' = Stored(v), ghost'.asked = ghost.asked,
         UNCHANGED <<session, host>>
  PROVE  RecordInv'
<1>1. CASE ~(Working /\ Doing.op = "write")
  BY <1>1 DEF EdlInv, RecordInv, Waiting, Stored
<1>2. CASE ~session.open
  <2>1. host.pc \notin RecordSteps
    BY <1>2 DEF EdlInv, PlaceInv, Asking
  <2> QED
    BY <2>1 DEF RecordInv, RecordSteps
<1>3. CASE session.open /\ Working /\ Doing.op = "write"
  <2>0. /\ child.dev \in Boards /\ Waiting
        /\ host.pc \in Asking /\ Doing = Requests[host.pc]
    BY <1>3, OneRequest
  <2>1. /\ host.pc \in {"norWrite", "writeA", "writeB"}
        /\ host.pc = "writeA" => Doing.part = "a"
        /\ host.pc = "writeB" => Doing.part = "b"
    BY <1>3, <2>0, RequestOf DEF Asking, NorSteps, RecordSteps, Read, Write, Reset, Request
  <2>2. CASE host.pc = "norWrite"
    BY <2>2 DEF RecordInv
  <2>3. CASE host.pc = "writeA"
    <3>1. store' = [store EXCEPT ![child.dev]["a"] = v]
      BY <1>3, <2>1, <2>3 DEF Stored
    <3>2. store'[host.dev].b = store[host.dev].b
      BY <3>1 DEF EdlInv, TypeInv, StoreOK
    <3> QED
      BY <2>0, <2>3, <3>2 DEF EdlInv, RecordInv, Waiting
  <2>4. CASE host.pc = "writeB"
    <3>1. store' = [store EXCEPT ![child.dev]["b"] = v]
      BY <1>3, <2>1, <2>4 DEF Stored
    <3>2. store'[host.dev].a = store[host.dev].a
      BY <3>1 DEF EdlInv, TypeInv, StoreOK
    <3> QED
      BY <2>0, <1>3, <2>4, <3>2 DEF EdlInv, RecordInv, Waiting
  <2> QED
    BY <2>1, <2>2, <2>3, <2>4
<1> QED
  BY <1>1, <1>2, <1>3

\* The child carries out a request, well or not.
LEMMA ChildCarriesOut ==
  ASSUME EdlInv, Working, NEW v \in Nat, NEW data \in Nat,
         Doing.op = "write" => v \in {Torn, Doing.data},
         Doing.op = "read" => data \in {Torn, store[child.dev][Doing.part]},
         store' = Stored(v), ChildAnswers(data),
         ghost' = [ghost EXCEPT !.left = @ /\ child'.alive],
         UNCHANGED <<session, host, backups, plugged>>
  PROVE  EdlInv'
<1>0. /\ child.todo = <<Doing>> /\ Doing \in RequestSet /\ child.dev \in Boards
      /\ session.open =>
           /\ Waiting /\ Doing = session.wait /\ child.out = <<>> /\ child.stdin
           /\ host.pc \in Asking /\ Doing = Requests[host.pc]
      /\ ~session.open => ghost.left /\ host.pc \in {"idle", "access", "open"}
  BY OneRequest
<1> USE <1>0
<1>1. /\ child' \in [alive : BOOLEAN, dev : Boards \cup {"none"}, stdin : BOOLEAN,
                     todo : Seq(RequestSet), out : Seq(Nat)]
      /\ child'.alive = (Doing.op # "reset") /\ child'.dev = child.dev
      /\ child'.stdin = child.stdin /\ child'.todo = <<>>
      /\ child'.out = IF child.stdin THEN Append(child.out, data) ELSE child.out
  <2>1. child' = [child EXCEPT
                    !.alive = Doing.op # "reset", !.todo = <<>>,
                    !.out = IF child.stdin THEN Append(child.out, data) ELSE child.out]
    <3>1. Tail(child.todo) = <<>>
      BY One
    <3> QED
      BY <3>1 DEF ChildAnswers
  <2>2. Append(child.out, data) \in Seq(Nat)
    BY DEF EdlInv, TypeInv, SessionOK
  <2> QED
    <3>1. child \in [alive : BOOLEAN, dev : Boards \cup {"none"}, stdin : BOOLEAN,
                     todo : Seq(RequestSet), out : Seq(Nat)]
      BY DEF EdlInv, TypeInv, SessionOK
    <3>2. <<>> \in Seq(RequestSet)
      OBVIOUS
    <3> HIDE <1>0
    <3> QED
      BY <2>1, <2>2, <3>1, <3>2
<1>2. /\ ghost' \in [nor : [Boards -> Nat], asked : [Boards -> Nat], swapped : BOOLEAN,
                     left : BOOLEAN]
      /\ ghost'.nor = ghost.nor /\ ghost'.asked = ghost.asked
      /\ ghost'.swapped = ghost.swapped /\ ghost'.left = (ghost.left /\ child'.alive)
  BY <1>1 DEF EdlInv, TypeInv, HostOK
<1>3. StoreOK' /\ BoardInv'
  BY <1>2, StoredSafely
<1>4. TypeInv'
  BY <1>1, <1>2, <1>3 DEF EdlInv, TypeInv, SessionOK, HostOK
<1>5. Doing.op # "write" => store' = store
  BY DEF Stored
<1>6. PipeInv'
  <2>1. CASE session.open
    <3>1. child'.out = <<data>>
      BY ZenonT(60), <1>1, <2>1, One
    <3>2. Reply(data)'
      <4> SUFFICES ASSUME Doing.op = "read"
                   PROVE  child'.alive /\ data \in {Torn, store'[child'.dev][Doing.part]}
        BY <1>1, <2>1, <3>1 DEF Reply
      <4> QED
        BY <1>1, <1>5
    <3> QED
      BY <1>1, <1>2, <2>1, <3>1, <3>2 DEF EdlInv, PipeInv, Waiting
  <2>2. CASE ~session.open
    BY <1>1, <1>2, <2>2 DEF EdlInv, PipeInv, Waiting
  <2> QED
    BY <2>1, <2>2
<1>7. PlaceInv'
  <2>1. Requests' = Requests
    BY DEF Requests
  <2>2. host' = host /\ session' = session /\ plugged' = plugged
    OBVIOUS
  <2> QED
    BY <1>1, <1>2, <2>1, <2>2 DEF EdlInv, PlaceInv, Waiting, Working
<1>8. WriteInv'
  BY <1>1 DEF WriteInv, Working
<1>9. RecordInv'
  BY <1>2, StoredRecords
<1>10. NorInv'
  <2> SUFFICES ASSUME child'.alive PROVE NorInv'
    BY DEF NorInv
  <2>1. host.pc \notin {"backup", "norReset"}
    BY <1>1, RequestOf DEF Asking, NorSteps, RecordSteps, Reset, Request
  <2>2. Kept(child.dev) => Kept(child.dev)'
    BY <1>1, <1>2 DEF Kept
  <2> QED
    BY <1>1, <2>1, <2>2 DEF EdlInv, NorInv, Working
<1> QED
  BY <1>3, <1>4, <1>6, <1>7, <1>8, <1>9, <1>10 DEF EdlInv

\* The child is gone, and with it what it was at.
LEMMA ChildGone ==
  ASSUME EdlInv, StoreOK', BoardInv', RecordInv', child' = Gone, session' = session,
         host' = host, plugged' = plugged, ghost' = [ghost EXCEPT !.left = FALSE]
  PROVE  EdlInv'
<1>1. /\ ghost' \in [nor : [Boards -> Nat], asked : [Boards -> Nat], swapped : BOOLEAN,
                     left : BOOLEAN]
      /\ ghost'.swapped = ghost.swapped /\ ~ghost'.left
  BY DEF EdlInv, TypeInv, HostOK
<1>2. TypeInv'
  BY <1>1, Constants DEF EdlInv, TypeInv, SessionOK, HostOK
<1>3. PipeInv'
  BY <1>1, Constants DEF EdlInv, PipeInv, Waiting
<1>4. Requests' = Requests
  BY DEF Requests
<1>5. PlaceInv'
  BY <1>1, <1>4, Constants DEF EdlInv, PlaceInv, Waiting
<1>6. WriteInv' /\ NorInv'
  BY Constants DEF WriteInv, NorInv, Working
<1> QED
  BY <1>2, <1>3, <1>5, <1>6 DEF EdlInv

LEMMA ChildKeeps == EdlInv /\ Child => EdlInv'
<1> SUFFICES ASSUME EdlInv, Child PROVE EdlInv'
  OBVIOUS
<1>1. /\ ghost' = [ghost EXCEPT !.left = @ /\ child'.alive]
      /\ UNCHANGED <<host, backups, plugged>>
  BY DEF Child
<1>2. CASE ChildWorks
  <2> DEFINE data == IF Doing.op = "read" THEN store[child.dev][Doing.part] ELSE Torn
  <2>1. Working /\ store' = Stored(Doing.data) /\ ChildAnswers(data) /\ session' = session
    BY <1>2 DEF ChildWorks
  <2>2. Doing \in RequestSet /\ child.dev \in Boards
    BY <2>1, OneRequest
  <2>3. data \in Nat /\ Doing.data \in Nat
    BY <2>2 DEF EdlInv, TypeInv, StoreOK, Torn, RequestSet
  <2>4. Doing.op = "read" => data = store[child.dev][Doing.part]
    OBVIOUS
  <2> HIDE DEF data
  <2> QED
    BY <1>1, <2>1, <2>3, <2>4, ChildCarriesOut
<1>3. CASE ChildErrs
  BY <1>1, <1>3, ChildCarriesOut DEF ChildErrs, Torn
<1>4. ASSUME child' = Gone, store' = store, session' = session PROVE EdlInv'
  <2>1. ghost' = [ghost EXCEPT !.left = FALSE]
    BY <1>1, <1>4, Constants
  <2>2. StoreOK' /\ BoardInv' /\ RecordInv'
    BY <1>1, <1>4, <2>1
    DEF EdlInv, TypeInv, StoreOK, HostOK, BoardInv, RecordInv, Kept, Waiting
  <2> QED
    BY <1>1, <1>4, <2>1, <2>2, ChildGone
<1>5. CASE ChildFails /\ store' # store
  <2>1. store' = Stored(Torn) /\ child' = Gone /\ session' = session
    BY <1>5 DEF ChildFails
  <2>2. ghost' = [ghost EXCEPT !.left = FALSE]
    BY <1>1, <2>1, Constants
  <2>3. /\ ghost'.nor = ghost.nor /\ ghost'.asked = ghost.asked
        /\ ghost'.swapped = ghost.swapped
    BY <2>2 DEF EdlInv, TypeInv, HostOK
  <2>4. StoreOK' /\ BoardInv' /\ RecordInv'
    BY <1>1, <2>1, <2>3, StoredSafely, StoredRecords DEF Torn
  <2> QED
    BY <1>1, <2>1, <2>2, <2>4, ChildGone
<1> QED
  BY <1>2, <1>3, <1>4, <1>5 DEF Child, ChildFails, ChildEnds

\* A step of the host alone, outside of a session.
LEMMA HostMoves ==
  ASSUME EdlInv, ~session.open,
         host' \in [pc : {"idle", "access", "open"}, dev : Boards \cup {"none"},
                    seen : Nat, chosen : Nat],
         host'.pc = "open" => plugged = {host'.dev},
         UNCHANGED <<sessionVars, backups, plugged, ghost>>
  PROVE  EdlInv'
<1>1. TypeInv' /\ PipeInv'
  BY DEF EdlInv, TypeInv, StoreOK, SessionOK, HostOK, PipeInv, sessionVars, Waiting, Reply
<1>2. ~Waiting
  BY DEF EdlInv, PipeInv
<1>3. PlaceInv' /\ RecordInv' /\ NorInv'
  BY <1>2 DEF PlaceInv, RecordInv, NorInv, sessionVars, Waiting, Asking, NorSteps, RecordSteps
<1>4. BoardInv' /\ WriteInv'
  BY DEF EdlInv, BoardInv, WriteInv, SafeWrite, Kept, Working, Doing, sessionVars
<1> QED
  BY <1>1, <1>3, <1>4 DEF EdlInv

LEMMA StepsAlone ==
  EdlInv /\ (StartUboot \/ Access \/ DownloadFails \/ OpenRefused) => EdlInv'
<1> SUFFICES ASSUME EdlInv, StartUboot \/ Access \/ DownloadFails \/ OpenRefused
             PROVE  EdlInv'
  OBVIOUS
<1>1. host.pc \in {"access", "open"} => ~session.open
  BY DEF EdlInv, PlaceInv
<1>2. HostOK
  BY DEF EdlInv, TypeInv
<1>3. CASE StartUboot
  <2>1. PICK d \in Boards :
          plugged = {d} /\ host' = [Idle EXCEPT !.pc = "access", !.dev = d]
    BY <1>3 DEF StartUboot, Selects
  <2>2. host' = [pc |-> "access", dev |-> d, seen |-> Torn, chosen |-> Torn]
    BY <2>1 DEF Idle
  <2> QED
    BY <1>3, <2>2, HostMoves DEF StartUboot, Torn
<1>4. CASE Access
  BY <1>1, <1>2, <1>4, HostMoves DEF Access, Selects, Idle, HostOK, Torn
<1>5. CASE DownloadFails
  BY <1>1, <1>2, <1>5, HostMoves DEF DownloadFails, Idle, HostOK, Torn
<1>6. CASE OpenRefused
  BY <1>1, <1>2, <1>6, HostMoves DEF OpenRefused, Idle, HostOK, Torn
<1> QED
  BY <1>3, <1>4, <1>5, <1>6

\* A session is opened on the one board that is there.
LEMMA SessionOpens ==
  ASSUME EdlInv, NEW d \in Boards, Opens(d),
         \/ /\ host.pc = "open" /\ host' = [host EXCEPT !.pc = "nor1"]
         \/ host' = [Idle EXCEPT !.pc = "layout", !.dev = d]
  PROVE  EdlInv'
<1>1. /\ plugged = {d} /\ plugged' = plugged /\ ghost' = ghost /\ backups' = backups
      /\ store' = store /\ ~session.open /\ ~child.alive
      /\ session' = [Closed EXCEPT !.open = TRUE]
      /\ child' = [Gone EXCEPT !.alive = TRUE, !.dev = d, !.stdin = TRUE]
  BY DEF Opens, Selects, OpenSession
<1>2. /\ session'.open /\ session'.wait = NoRequest
      /\ session' \in [open : BOOLEAN, wait : RequestSet]
  BY <1>1, Constants DEF Closed
<1>3. /\ child' \in [alive : BOOLEAN, dev : Boards \cup {"none"}, stdin : BOOLEAN,
                     todo : Seq(RequestSet), out : Seq(Nat)]
      /\ child'.alive /\ child'.dev = d /\ child'.stdin
      /\ child'.todo = <<>> /\ child'.out = <<>>
  BY <1>1, Constants DEF Gone
<1>4. /\ HostOK' /\ host'.pc \in {"nor1", "layout"}
      /\ host'.pc = "layout" => host'.dev = d
      /\ host'.pc = "nor1" /\ ~ghost.swapped => host'.dev = d
  <2>1. CASE host.pc = "open" /\ host' = [host EXCEPT !.pc = "nor1"]
    <3>1. ~ghost.swapped => host.dev = d
      BY <1>1, <2>1 DEF EdlInv, PlaceInv
    <3> QED
      BY <1>1, <2>1, <3>1 DEF EdlInv, TypeInv, HostOK, Asking, NorSteps, RecordSteps
  <2>2. CASE host' = [Idle EXCEPT !.pc = "layout", !.dev = d]
    <3>1. host' = [pc |-> "layout", dev |-> d, seen |-> Torn, chosen |-> Torn]
      BY <2>2 DEF Idle
    <3> QED
      BY <1>1, <3>1 DEF EdlInv, TypeInv, HostOK, Asking, NorSteps, RecordSteps, Torn
  <2> QED
    BY <2>1, <2>2
<1>5. TypeInv'
  BY <1>1, <1>2, <1>3, <1>4 DEF EdlInv, TypeInv, StoreOK, SessionOK
<1>6. PipeInv'
  BY <1>1, <1>2, <1>3 DEF EdlInv, PipeInv, Waiting
<1>7. PlaceInv'
  BY <1>1, <1>2, <1>3, <1>4 DEF PlaceInv, Waiting, Asking, NorSteps, RecordSteps
<1>8. BoardInv'
  BY <1>1 DEF EdlInv, BoardInv, Kept
<1>9. WriteInv' /\ RecordInv' /\ NorInv'
  BY <1>3, <1>4 DEF WriteInv, Working, RecordInv, NorInv
<1> QED
  BY <1>5, <1>6, <1>7, <1>8, <1>9 DEF EdlInv

\* The session is closed, and what the child was at may be done, cut or dropped.
LEMMA SessionCloses ==
  ASSUME EdlInv, session.open, CloseSession, host'.pc = "idle", HostOK',
         UNCHANGED <<plugged, ghost>>, backups \subseteq backups'
  PROVE  EdlInv'
<1>1. /\ session' = Closed /\ child' = Gone
      /\ store' \in IF Working THEN {store, Stored(Torn), Stored(Doing.data)} ELSE {store}
  BY DEF CloseSession
<1>2. StoreOK' /\ BoardInv'
  <2>1. CASE store' = store
    BY <2>1 DEF EdlInv, TypeInv, StoreOK, BoardInv, Kept
  <2>2. CASE store' # store
    <3>1. Working /\ Doing.data \in Nat
      BY <1>1, <2>2, OneRequest DEF RequestSet
    <3> QED
      BY <1>1, <2>2, <3>1, StoredSafely DEF Torn
  <2> QED
    BY <2>1, <2>2
<1>3. ~ghost'.left
  BY DEF EdlInv, PipeInv
<1>4. TypeInv' /\ PipeInv' /\ PlaceInv' /\ WriteInv' /\ RecordInv' /\ NorInv'
  BY <1>1, <1>2, <1>3, Constants
  DEF TypeInv, SessionOK, PipeInv, PlaceInv, WriteInv, RecordInv, NorInv, Waiting, Working,
      Asking, NorSteps, RecordSteps
<1> QED
  BY <1>2, <1>4 DEF EdlInv

LEMMA AskKeeps == EdlInv /\ Ask => EdlInv'
<1> SUFFICES ASSUME EdlInv, Ask PROVE EdlInv'
  OBVIOUS
<1> DEFINE r == Requests[host.pc]
<1>1. /\ host.pc \in Asking /\ session.open /\ ~Waiting
      /\ session' = [session EXCEPT !.wait = r]
      /\ child' = [child EXCEPT !.todo = Append(child.todo, r)]
      /\ UNCHANGED <<store, host, backups, plugged, ghost>>
  BY RequestOf DEF Ask, Send
<1>2. r \in RequestSet /\ r # NoRequest
  BY <1>1, RequestType DEF EdlInv, TypeInv, NoRequest, Request
<1>3. child.todo = <<>> /\ child.out = <<>> /\ ~ghost.left /\ (child.alive => child.stdin)
  BY <1>1 DEF EdlInv, PipeInv
<1>4. /\ child'.todo = <<r>> /\ child'.alive = child.alive /\ child'.dev = child.dev
      /\ child'.out = <<>> /\ child'.stdin = child.stdin
      /\ session'.open /\ session'.wait = r
  BY <1>1, <1>3 DEF EdlInv, TypeInv, SessionOK
<1>5. TypeInv'
  <2>1. child'.todo \in Seq(RequestSet)
    BY <1>2, <1>4
  <2> QED
    BY <1>1, <1>2, <2>1 DEF EdlInv, TypeInv, StoreOK, SessionOK, HostOK
<1>6. Waiting'
  BY <1>2, <1>4 DEF Waiting
<1>7. PipeInv'
  BY <1>1, <1>3, <1>4, <1>6 DEF EdlInv, PipeInv
<1>8. Requests' = Requests
  BY <1>1 DEF Requests
<1>9. PlaceInv'
  BY <1>1, <1>4, <1>8 DEF EdlInv, PlaceInv
<1>10. BoardInv' /\ NorInv' /\ RecordInv'
  BY <1>1, <1>4, <1>6 DEF EdlInv, BoardInv, NorInv, RecordInv, Kept
<1>11. WriteInv'
  <2> SUFFICES ASSUME child.alive, r.op = "write" PROVE SafeWrite(r, child.dev)
    BY <1>1, <1>4, One, SMTT(30) DEF WriteInv, Working, Doing, SafeWrite, Kept
  <2>1. host.chosen \in Nat /\ child.dev \in Boards
    BY DEF EdlInv, TypeInv, HostOK, PipeInv
  <2>2. host.pc \in {"norWrite", "writeA", "writeB"}
    BY <1>1, RequestOf DEF Asking, NorSteps, RecordSteps, Read, Reset, Request
  <2>3. CASE host.pc = "norWrite"
    BY <2>3, RequestOf DEF EdlInv, NorInv, SafeWrite, Write, Request, Current, Torn
  <2>4. CASE host.pc = "writeA"
    <3>1. child.dev = host.dev
      BY <2>4 DEF EdlInv, PlaceInv, RecordSteps
    <3>2. store[child.dev].b = host.chosen + 1 /\ host.chosen >= ghost.asked[child.dev]
      BY <2>4, <3>1 DEF EdlInv, RecordInv
    <3>3. r.part = "a" /\ r.data = host.chosen + 1
      BY <2>4, RequestOf DEF Write, Request
    <3> QED
      BY <2>1, <3>2, <3>3 DEF SafeWrite, Torn, EdlInv, TypeInv, HostOK
  <2>5. CASE host.pc = "writeB"
    <3>1. child.dev = host.dev
      BY <2>5 DEF EdlInv, PlaceInv, RecordSteps
    <3>2. store[child.dev].a # Torn /\ host.chosen >= ghost.asked[child.dev]
      BY <2>5, <3>1 DEF EdlInv, RecordInv
    <3>3. r.part = "b" /\ r.data = host.chosen + 1
      BY <2>5, RequestOf DEF Write, Request
    <3> QED
      BY <2>1, <3>2, <3>3 DEF SafeWrite, Torn, EdlInv, TypeInv, HostOK
  <2> QED
    BY <2>2, <2>3, <2>4, <2>5
<1> QED
  BY <1>5, <1>7, <1>9, <1>10, <1>11 DEF EdlInv

LEMMA AbandonKeeps == EdlInv /\ Abandon => EdlInv'
<1> SUFFICES ASSUME EdlInv, Abandon PROVE EdlInv'
  OBVIOUS
<1>1. /\ session.open /\ session' = Closed /\ host' = Idle
      /\ child' = [child EXCEPT !.stdin = FALSE, !.out = <<>>]
      /\ ghost' = [ghost EXCEPT !.left = child'.alive]
      /\ UNCHANGED <<store, backups, plugged>>
  BY DEF Abandon, LeaveSession
<1>2. /\ child'.alive = child.alive /\ child'.dev = child.dev /\ child'.todo = child.todo
      /\ child'.alive \in BOOLEAN
  BY <1>1 DEF EdlInv, TypeInv, SessionOK
<1>3. /\ ghost'.nor = ghost.nor /\ ghost'.asked = ghost.asked
      /\ ghost'.swapped = ghost.swapped /\ ghost'.left = child'.alive
  BY <1>1 DEF EdlInv, TypeInv, HostOK
<1>4. TypeInv'
  BY <1>1, <1>2, Constants DEF EdlInv, TypeInv, StoreOK, SessionOK, HostOK, Idle, Torn
<1>5. PipeInv'
  <2>1. child.todo = <<>> \/ child.todo = <<session.wait>>
    BY <1>1 DEF EdlInv, PipeInv, Reply
  <2>2. session.wait \in RequestSet
    BY DEF EdlInv, TypeInv, SessionOK
  <2> QED
    BY <1>1, <1>2, <1>3, <2>1, <2>2, Constants DEF EdlInv, PipeInv, Waiting
<1>6. BoardInv' /\ WriteInv'
  BY <1>1, <1>2, <1>3
  DEF EdlInv, BoardInv, WriteInv, SafeWrite, Kept, Working, Doing
<1>7. PlaceInv' /\ RecordInv' /\ NorInv'
  BY <1>1, Constants DEF PlaceInv, RecordInv, NorInv, Waiting, Idle, Asking, NorSteps, RecordSteps
<1> QED
  BY <1>4, <1>5, <1>6, <1>7 DEF EdlInv

LEMMA ExchangeKeeps == EdlInv /\ Exchange => EdlInv'
<1> SUFFICES ASSUME EdlInv, Exchange PROVE EdlInv'
  OBVIOUS
<1>1. /\ ~child.alive /\ ghost' = [ghost EXCEPT !.swapped = @ \/ host.pc = "open"]
      /\ UNCHANGED <<store, session, child, host, backups>>
  BY DEF Exchange, sessionVars
<1>2. /\ ghost'.nor = ghost.nor /\ ghost'.asked = ghost.asked
      /\ ghost.swapped \/ host.pc = "open" => ghost'.swapped
      /\ ghost'.left = ghost.left
  BY <1>1 DEF EdlInv, TypeInv, HostOK
<1>3. TypeInv' /\ PipeInv'
  BY ZenonT(60), <1>1, <1>2
  DEF EdlInv, TypeInv, StoreOK, SessionOK, HostOK, PipeInv, Reply, Waiting
<1>4. Requests' = Requests
  BY <1>1 DEF Requests
<1>5. PlaceInv' /\ RecordInv'
  BY <1>1, <1>2, <1>4 DEF EdlInv, PlaceInv, RecordInv, Waiting
<1>6. BoardInv' /\ WriteInv' /\ NorInv'
  <2>1. \A d \in Boards : Kept(d) => Kept(d)'
    BY <1>1, <1>2 DEF Kept
  <2>2. BoardInv'
    BY <1>1, <1>2, <2>1 DEF EdlInv, BoardInv
  <2> QED
    BY <1>1, <2>2 DEF WriteInv, NorInv, Working
<1> QED
  BY <1>3, <1>5, <1>6 DEF EdlInv

\* An answer that is let pass is what the board holds.
LEMMA GoodAnswer ==
  ASSUME EdlInv, Heard, Passes(Head(child.out))
  PROVE  /\ session.open /\ host.pc \in Asking /\ session.wait = Requests[host.pc]
         /\ child.todo = <<>> /\ Tail(child.out) = <<>> /\ Head(child.out) \in Nat
         /\ session.wait.op = "read" =>
              /\ child.alive /\ child.dev \in Boards
              /\ Head(child.out) \in {Torn, store[child.dev][session.wait.part]}
<1>1. Waiting /\ child.out # <<>>
  BY DEF Heard
<1>2. PICK v \in Nat : Reply(v)
  BY <1>1 DEF EdlInv, PipeInv
<1>3. Head(child.out) = v /\ Tail(child.out) = <<>> /\ child.todo = <<>>
  BY <1>2, One DEF Reply
<1> QED
  BY <1>1, <1>2, <1>3 DEF EdlInv, PipeInv, PlaceInv, Reply

LEMMA GoOnKeeps == EdlInv /\ GoOn => EdlInv'
<1> SUFFICES ASSUME EdlInv, GoOn PROVE EdlInv'
  OBVIOUS
<1> DEFINE v == Head(child.out)
           s == store[host.dev]
<1>1. /\ Heard /\ Passes(v)
      /\ session' = [session EXCEPT !.wait = NoRequest]
      /\ child' = [child EXCEPT !.out = Tail(child.out)]
      /\ host' = [host EXCEPT !.pc = Following[host.pc],
                    !.seen = IF host.pc \in {"nor1", "readA"} THEN v ELSE host.seen,
                    !.chosen = IF host.pc = "readB" THEN Newer(host.seen, v)
                               ELSE host.chosen]
      /\ ghost' = [ghost EXCEPT !.asked[host.dev] =
                     IF host.pc = "checkA" THEN host.chosen + 1 ELSE ghost.asked[host.dev]]
      /\ UNCHANGED <<store, backups, plugged>>
  BY DEF GoOn, Hear
<1>2. /\ session.open /\ host.pc \in Asking /\ session.wait = Requests[host.pc]
      /\ child.todo = <<>> /\ Tail(child.out) = <<>> /\ v \in Nat
      /\ session.wait.op = "read" =>
           /\ child.alive /\ child.dev \in Boards
           /\ v \in {Torn, store[child.dev][session.wait.part]}
  BY <1>1, GoodAnswer
<1> HIDE DEF v
<1>3. /\ host \in [pc : Asking \cup {"idle", "access", "open", "backup"},
                   dev : Boards \cup {"none"}, seen : Nat, chosen : Nat]
      /\ ghost \in [nor : [Boards -> Nat], asked : [Boards -> Nat], swapped : BOOLEAN,
                    left : BOOLEAN]
  BY DEF EdlInv, TypeInv, HostOK
<1>4. /\ host'.pc = Following[host.pc] /\ host'.dev = host.dev
      /\ host'.seen = IF host.pc \in {"nor1", "readA"} THEN v ELSE host.seen
      /\ host'.chosen = IF host.pc = "readB" THEN Newer(host.seen, v) ELSE host.chosen
  BY <1>1, <1>3
<1>5. /\ Following[host.pc] \in Asking \cup {"idle", "backup"}
      /\ Following[host.pc] \in RecordSteps => host.pc \in RecordSteps
      /\ Following[host.pc] \in NorSteps \cup {"backup"} => host.pc \in NorSteps
  BY <1>2, FollowingOf DEF Asking, NorSteps, RecordSteps
<1>6. /\ ghost'.nor = ghost.nor /\ ghost'.swapped = ghost.swapped
      /\ ghost'.left = ghost.left
      /\ ghost'.asked = IF host.pc = "checkA"
                        THEN [ghost.asked EXCEPT ![host.dev] = host.chosen + 1]
                        ELSE ghost.asked
  BY <1>1, <1>3
<1>7. TypeInv'
  <2>1. HostOK'
    <3>1. Newer(host.seen, v) \in Nat
      BY <1>2, <1>3 DEF Newer
    <3>2. host' \in [pc : Asking \cup {"idle", "access", "open", "backup"},
                     dev : Boards \cup {"none"}, seen : Nat, chosen : Nat]
      BY <1>1, <1>2, <1>3, <1>5, <3>1
    <3>3. ghost'.asked \in [Boards -> Nat]
      <4>1. ghost.asked \in [Boards -> Nat] /\ host.chosen + 1 \in Nat
        BY <1>3
      <4> QED
        BY <1>6, <4>1
    <3>4. ghost' \in [nor : [Boards -> Nat], asked : [Boards -> Nat], swapped : BOOLEAN,
                      left : BOOLEAN]
      BY <1>1, <1>3, <3>3
    <3> QED
      BY <3>2, <3>4 DEF HostOK
  <2>2. SessionOK'
    BY <1>1, <1>2, Constants DEF EdlInv, TypeInv, SessionOK
  <2> QED
    BY <1>1, <2>1, <2>2 DEF EdlInv, TypeInv, StoreOK
<1>8. /\ ~Waiting' /\ session'.open /\ child'.todo = <<>> /\ child'.out = <<>>
      /\ child'.alive = child.alive /\ child'.dev = child.dev
      /\ child'.stdin = child.stdin
  BY <1>1, <1>2 DEF EdlInv, TypeInv, SessionOK, Waiting
<1>9. PipeInv'
  BY <1>2, <1>6, <1>8 DEF EdlInv, PipeInv
<1>10. PlaceInv'
  BY <1>1, <1>2, <1>4, <1>5, <1>6, <1>8
  DEF EdlInv, PlaceInv, Asking, NorSteps, RecordSteps
<1>11. WriteInv'
  BY <1>8 DEF WriteInv, Working
\* What the answers to the reads of the two tools say.
<1>12. ASSUME host.pc \in RecordSteps
       PROVE  /\ host.dev \in Boards /\ s \in [layout : Nat, a : Nat, b : Nat, nor : Nat]
              /\ ghost.asked[host.dev] \in Nat
              /\ host.pc = "layout" => s.layout # Torn
              /\ host.pc \in {"readA", "checkA"} => v \in {Torn, s.a}
              /\ host.pc \in {"readB", "checkB"} => v \in {Torn, s.b}
              /\ s.a = Torn \/ s.a >= ghost.asked[host.dev]
              /\ s.b = Torn \/ s.b >= ghost.asked[host.dev]
  <2>1. host.dev \in Boards /\ (child.alive => child.dev = host.dev)
    BY <1>12 DEF EdlInv, PlaceInv
  <2>2. s \in [layout : Nat, a : Nat, b : Nat, nor : Nat] /\ ghost.asked[host.dev] \in Nat
    BY <2>1, <1>3 DEF EdlInv, TypeInv, StoreOK
  <2>3. /\ host.pc = "layout" => v \in {Torn, s.layout}
        /\ host.pc \in {"readA", "checkA"} => v \in {Torn, s.a}
        /\ host.pc \in {"readB", "checkB"} => v \in {Torn, s.b}
    BY <1>2, <2>1, RequestOf DEF Read, Request
  <2>4. host.pc = "layout" => v # Torn
    BY <1>1 DEF Passes, SoundLayout
  <2> QED
    BY <2>1, <2>2, <2>3, <2>4 DEF EdlInv, BoardInv
<1>13. BoardInv'
  <2>1. CASE host.pc # "checkA"
    BY <1>1, <1>6, <2>1 DEF EdlInv, BoardInv, Kept
  <2>2. CASE host.pc = "checkA"
    <3>1. s.a = host.chosen + 1 /\ s.b = host.chosen + 1
      BY <1>1, <1>3, <1>12, <2>2 DEF Passes, EdlInv, RecordInv, RecordSteps, Torn
    <3> QED
      BY <1>1, <1>3, <1>6, <1>12, <2>2, <3>1 DEF EdlInv, BoardInv, Kept, RecordSteps, Torn
  <2> QED
    BY <2>1, <2>2
<1>14. RecordInv'
  <2> SUFFICES ASSUME host'.pc \in RecordSteps PROVE RecordInv'
    BY DEF RecordInv, RecordSteps
  <2>0. host.pc \in RecordSteps /\ RecordInv
    BY <1>4, <1>5 DEF EdlInv
  <2>1. CASE host.pc = "layout"
    BY <1>1, <1>4, <1>12, <2>0, <2>1, FollowingOf DEF RecordInv
  <2>2. CASE host.pc = "readA"
    BY <1>1, <1>4, <1>12, <2>0, <2>2, FollowingOf DEF RecordInv, Passes
  <2>3. CASE host.pc = "readB"
    <3>1. /\ s.a # Torn /\ s.layout # Torn /\ host.seen = s.a /\ s.b = v /\ v # Torn
          /\ host'.pc = "writeB" /\ host'.chosen = Newer(s.a, v)
      BY <1>1, <1>4, <1>12, <2>0, <2>3, FollowingOf DEF RecordInv, Passes
    <3>2. Newer(s.a, v) >= ghost.asked[host.dev]
      BY <1>2, <1>12, <2>0, <3>1 DEF Newer
    <3> QED
      BY <1>1, <1>4, <1>6, <2>3, <3>1, <3>2 DEF RecordInv
  <2>4. CASE host.pc = "writeB"
    BY <1>1, <1>4, <1>6, <2>0, <2>4, FollowingOf DEF RecordInv
  <2>5. CASE host.pc = "checkB"
    <3>1. s.b = host.chosen + 1
      BY <1>1, <1>3, <1>12, <2>0, <2>5 DEF Passes, Torn
    <3> QED
      BY <1>1, <1>4, <1>6, <2>0, <2>5, <3>1, FollowingOf DEF RecordInv
  <2>6. CASE host.pc = "writeA"
    BY <1>1, <1>4, <1>6, <2>0, <2>6, FollowingOf DEF RecordInv
  <2>7. CASE host.pc = "checkA"
    <3>1. s.a = host.chosen + 1
      BY <1>1, <1>3, <1>12, <2>0, <2>7 DEF Passes, Torn
    <3> QED
      BY <1>1, <1>4, <2>0, <2>7, <3>1, FollowingOf DEF RecordInv
  <2>8. CASE host.pc = "reset"
    BY <1>4, <2>8, FollowingOf DEF RecordInv
  <2> QED
    BY <2>0, <2>1, <2>2, <2>3, <2>4, <2>5, <2>6, <2>7, <2>8 DEF RecordSteps
<1>15. NorInv'
  <2> SUFFICES ASSUME child.alive PROVE NorInv'
    BY <1>8 DEF NorInv
  <2>1. CASE host.pc \in {"nor2", "norWhole"}
    <3>1. child.dev \in Boards /\ v \in {Torn, store[child.dev].nor}
      BY <1>2, <2>1, RequestOf DEF Read, Request
    <3>2. /\ host.pc = "nor2" => host'.pc = "backup" /\ host'.seen = v
          /\ host.pc = "norWhole" => host'.pc = "norReset" /\ v = Current
      BY <1>1, <1>4, <2>1, FollowingOf DEF Passes
    <3> QED
      BY <1>1, <1>8, <2>1, <3>1, <3>2 DEF NorInv, Current, Torn
  <2>2. CASE host.pc \notin {"nor2", "norWhole"}
    <3>1. host'.pc \notin {"backup", "norWrite", "norReset"}
      BY <1>2, <1>4, <2>2, FollowingOf DEF Asking, NorSteps, RecordSteps
    <3> QED
      BY <3>1 DEF NorInv
  <2> QED
    BY <2>1, <2>2
<1> QED
  BY <1>7, <1>9, <1>10, <1>11, <1>13, <1>14, <1>15 DEF EdlInv

LEMMA BackupKeeps == EdlInv /\ Backup => EdlInv'
<1> SUFFICES ASSUME EdlInv, Backup PROVE EdlInv'
  OBVIOUS
<1> DEFINE copy == [dev |-> host.dev, nor |-> host.seen]
<1>1. PICK next \in Verified(Prepared(host.seen)) :
        IF next = "idle" THEN host' = Idle /\ CloseSession
        ELSE host' = [host EXCEPT !.pc = next] /\ UNCHANGED sessionVars
  BY DEF Backup
<1>2. /\ host.pc = "backup" /\ backups' = backups \cup {copy}
      /\ UNCHANGED <<plugged, ghost>>
  BY DEF Backup, Saved
<1>3. session.open
  BY <1>2 DEF EdlInv, PlaceInv
<1>4. CASE next = "idle"
  <2>1. HostOK' /\ host'.pc = "idle"
    BY <1>1, <1>2, <1>4 DEF EdlInv, TypeInv, HostOK, Idle, Torn
  <2> QED
    BY <1>1, <1>2, <1>3, <1>4, <2>1, SessionCloses
<1>5. CASE next # "idle"
  <2>1. /\ next \in {"norWrite", "norWhole"}
        /\ next = "norWrite" => host.seen = Known
    BY <1>1, <1>5 DEF Verified, Prepared
  <2>2. /\ HostOK /\ host'.pc = next /\ host'.dev = host.dev /\ HostOK'
        /\ UNCHANGED <<store, session, child>>
    BY <1>1, <1>2, <1>5, <2>1 DEF EdlInv, TypeInv, HostOK, sessionVars, Asking, NorSteps
  <2>3. ~Waiting
    BY <1>2 DEF EdlInv, PlaceInv, Asking, NorSteps, RecordSteps
  <2>4. TypeInv' /\ PipeInv'
    BY <1>2, <2>2 DEF EdlInv, TypeInv, StoreOK, SessionOK, PipeInv, Reply, Waiting
  <2>5. PlaceInv' /\ RecordInv'
    BY <1>2, <1>3, <2>1, <2>2, <2>3
    DEF EdlInv, PlaceInv, RecordInv, Waiting, Asking, NorSteps, RecordSteps
  <2>6. \A d \in Boards : Kept(d) => Kept(d)'
    BY <1>2 DEF Kept
  <2>7. BoardInv'
    BY <1>2, <2>2, <2>6 DEF EdlInv, BoardInv
  <2>8. WriteInv'
    BY <2>2, <2>3, <1>3 DEF EdlInv, PipeInv, WriteInv, Working
  <2>9. NorInv'
    <3> SUFFICES ASSUME child.alive, next = "norWrite" PROVE Kept(child.dev)'
      BY <2>1, <2>2 DEF NorInv
    <3>1. PICK d \in Boards : d = child.dev
      BY DEF EdlInv, PipeInv
    <3>2. host.seen = store[d].nor
      BY <1>2, <2>1, <3>1 DEF EdlInv, NorInv, Known, Torn
    <3>3. ghost.swapped \/ d = host.dev
      BY <1>2, <3>1 DEF EdlInv, PlaceInv
    <3>4. store[d].nor = ghost.nor[d] \/ Kept(d)
      BY DEF EdlInv, BoardInv
    <3>5. Kept(d)'
      BY <1>2, <2>6, <3>2, <3>3, <3>4 DEF Kept
    <3> QED
      BY <2>2, <3>1, <3>5
  <2> QED
    BY <2>4, <2>5, <2>7, <2>8, <2>9 DEF EdlInv
<1> QED
  BY <1>4, <1>5

LEMMA ClosingKeeps == EdlInv /\ (Stop \/ Finish \/ TimeOut) => EdlInv'
<1> SUFFICES ASSUME EdlInv, Stop \/ Finish \/ TimeOut PROVE EdlInv'
  OBVIOUS
<1>1. Waiting => session.open
  BY DEF EdlInv, PipeInv
<1>2. CASE Stop \/ TimeOut
  <2>1. session.open /\ CloseSession /\ host' = Idle /\ UNCHANGED <<backups, plugged, ghost>>
    BY <1>1, <1>2 DEF Stop, TimeOut, Heard, GiveUp
  <2>2. HostOK' /\ host'.pc = "idle"
    BY <2>1 DEF EdlInv, TypeInv, HostOK, Idle, Torn
  <2> QED
    BY <2>1, <2>2, SessionCloses
<1>3. CASE Finish
  <2>1. HostOK' /\ host'.pc = "idle"
    BY <1>3 DEF EdlInv, TypeInv, HostOK, Finish
  <2> QED
    BY <1>3, <2>1, SessionCloses DEF Finish
<1> QED
  BY <1>2, <1>3

LEMMA Inductive == EdlInv /\ [Next]_vars => EdlInv'
<1> SUFFICES ASSUME EdlInv, [Next]_vars PROVE EdlInv'
  OBVIOUS
<1>1. CASE OpenUboot
  <2>1. PICK d \in Boards : Opens(d)
    BY <1>1 DEF OpenUboot
  <2> QED
    BY <1>1, <2>1, SessionOpens DEF OpenUboot
<1>2. CASE StartNormal
  <2>1. PICK d \in Boards : Opens(d) /\ host' = [Idle EXCEPT !.pc = "layout", !.dev = d]
    BY <1>2 DEF StartNormal
  <2> QED
    BY <2>1, SessionOpens
<1>3. CASE UNCHANGED vars
  <2>1. Requests' = Requests
    BY <1>3 DEF vars, Requests
  <2>2. UNCHANGED <<store, session, child, host, backups, plugged, faults, ghost>>
    BY <1>3 DEF vars, sessionVars
  <2>3. TypeInv' /\ PipeInv'
    BY ZenonT(60), <2>2
    DEF EdlInv, TypeInv, StoreOK, SessionOK, HostOK, PipeInv, Reply, Waiting
  <2>4. PlaceInv' /\ RecordInv' /\ NorInv'
    BY <2>1, <2>2 DEF EdlInv, PlaceInv, RecordInv, NorInv, Kept, Waiting
  <2>5. BoardInv' /\ WriteInv'
    BY <2>2 DEF EdlInv, BoardInv, WriteInv, SafeWrite, Kept, Working, Doing
  <2> QED
    BY <2>3, <2>4, <2>5 DEF EdlInv
<1> QED
  BY <1>1, <1>2, <1>3, StepsAlone, AskKeeps, GoOnKeeps, ClosingKeeps, BackupKeeps,
     AbandonKeeps, ChildKeeps, ExchangeKeeps DEF Next

LEMMA EdlInvariant == Spec => []EdlInv
<1>1. EdlInv /\ [Next]_vars => EdlInv'
  BY Inductive
<1> QED
  BY InitInv, <1>1, PTL DEF Spec

-----------------------------------------------------------------------------
\* The boards, the session and the tools stay within their types.
THEOREM EdlTypeCorrect == Spec => []TypeInv
BY EdlInvariant, PTL DEF EdlInv

\* A board whose NOR has changed has a backup of what it was, for any number of
\* boards and faults and however often vamos uboot is run.
THEOREM BackupIsKept == Spec => []BackupKept
<1>1. EdlInv => BackupKept
  BY DEF EdlInv, BoardInv, Kept, BackupKept
<1> QED
  BY <1>1, EdlInvariant, PTL

\* Every board keeps a valid record that is no older than the last one reported as
\* requested, however the requests for a normal boot end.
THEOREM RecordsAreKept == Spec => []RecordsKept
<1>1. EdlInv => RecordsKept
  <2> SUFFICES ASSUME EdlInv, NEW d \in Boards
               PROVE  /\ store[d].a # Torn \/ store[d].b # Torn
                      /\ Newer(store[d].a, store[d].b) >= ghost.asked[d]
    BY DEF RecordsKept
  <2>1. /\ store[d] \in [layout : Nat, a : Nat, b : Nat, nor : Nat]
        /\ ghost.asked[d] \in Nat
    BY DEF EdlInv, TypeInv, StoreOK, HostOK
  <2> QED
    BY <2>1 DEF EdlInv, BoardInv, Newer, Torn
<1> QED
  BY <1>1, EdlInvariant, PTL

\* What a tool checked before its first write of a record and before its reset is
\* true of the board.
THEOREM ChecksAreTrue == Spec => []ChecksHold
<1>1. EdlInv => ChecksHold
  BY DEF EdlInv, RecordInv, NorInv, ChecksHold
<1> QED
  BY <1>1, EdlInvariant, PTL

\* No write lands after the session that asked for it, unless its tool was killed
\* or could not end the child.
THEOREM NothingLate == Spec => NoLateWrite
<1>1. EdlInv /\ [Next]_vars => [store' # store => Waiting \/ ghost.left]_vars
  <2> SUFFICES ASSUME EdlInv, Next, store' # store PROVE Waiting \/ ghost.left
    OBVIOUS
  <2>1. Working
    BY DEF Next, StartUboot, Access, DownloadFails, StartNormal, OpenUboot, OpenRefused, Ask,
       GoOn, Stop, Finish, Backup, TimeOut, Abandon, Child, Exchange, sessionVars, Opens,
       OpenSession, Send, Hear, CloseSession, GiveUp, LeaveSession, ChildWorks, ChildErrs,
       ChildFails, ChildEnds, Stored
  <2> QED
    BY <2>1, OneRequest
<1> QED
  BY <1>1, EdlInvariant, PTL DEF Spec, NoLateWrite

=============================================================================
