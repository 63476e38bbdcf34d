--------------------------- MODULE FirehoseSession ---------------------------
(***************************************************************************)
(* The session between a host tool and a board in EDL (tools/flash:        *)
(* edl_session.py, EdlDisk of edl_normal.py): a child process that holds   *)
(* the USB interface takes one request at a time over a pipe. A request    *)
(* that gets no answer in time ends the session, and the child with it.    *)
(***************************************************************************)
EXTENDS Naturals, Sequences

CONSTANTS
  Boards,     \* the boards that may be on the cable
  Parts       \* what is addressed on a board

ASSUME SessionAssumption == Boards # {} /\ Parts # {} /\ "none" \notin Parts

VARIABLES
  store,      \* store[d][p]: what part p of board d holds
  session,    \* [open, wait]: the session, and the request it waits for
  child       \* [alive, dev, stdin, todo, out]: the process, its board, whether its
              \* input is open, the requests and the answers not yet read

sessionVars == <<store, session, child>>

Torn == 0
Request(op, part, data) == [op |-> op, part |-> part, data |-> data]
NoRequest == Request("none", "none", Torn)
Read(part) == Request("read", part, Torn)
Write(part, data) == Request("write", part, data)
Reset == Request("reset", "none", Torn)

Closed == [open |-> FALSE, wait |-> NoRequest]
Gone == [alive |-> FALSE, dev |-> "none", stdin |-> FALSE, todo |-> <<>>, out |-> <<>>]

Waiting == session.wait # NoRequest
Working == child.alive /\ child.todo # <<>>
Doing == Head(child.todo)

\* EdlDisk.__enter__ on the board that is plugged in: the interface can be
\* claimed only when no other child holds it.
OpenSession(d) ==
  /\ ~session.open /\ ~child.alive
  /\ session' = [Closed EXCEPT !.open = TRUE]
  /\ child' = [Gone EXCEPT !.alive = TRUE, !.dev = d, !.stdin = TRUE]
  /\ UNCHANGED store

\* request, up to the wait for the answer.
Send(request) ==
  /\ session.open /\ ~Waiting
  /\ session' = [session EXCEPT !.wait = request]
  /\ child' = [child EXCEPT !.todo = Append(@, request)]
  /\ UNCHANGED store

Stored(value) ==
  IF Working /\ Doing.op = "write" THEN [store EXCEPT ![child.dev][Doing.part] = value]
  ELSE store

\* The child carries out one request and answers; after a reset it ends.
ChildAnswers(data) ==
  child' = [child EXCEPT
    !.alive = Doing.op # "reset",
    !.todo = Tail(@),
    !.out = IF child.stdin THEN Append(@, data) ELSE @]

ChildWorks ==
  /\ Working
  /\ store' = Stored(Doing.data)
  /\ ChildAnswers(IF Doing.op = "read" THEN store[child.dev][Doing.part] ELSE Torn)
  /\ UNCHANGED session

\* A bad sector is written or read without an error.
ChildErrs ==
  /\ Working /\ Doing.op \in {"read", "write"}
  /\ store' = Stored(Torn)
  /\ ChildAnswers(Torn)
  /\ UNCHANGED session

\* The child fails, or the cable is pulled, in the middle of a request.
ChildFails ==
  /\ child.alive
  /\ store' \in {store, Stored(Torn)}
  /\ child' = Gone
  /\ UNCHANGED session

ChildEnds ==
  /\ child.alive /\ ~child.stdin /\ ~Working
  /\ child' = Gone
  /\ UNCHANGED <<store, session>>

Heard == Waiting /\ child.out # <<>>
\* The answer that is read is the first one in the pipe.
Hear ==
  /\ Heard
  /\ session' = [session EXCEPT !.wait = NoRequest]
  /\ child' = [child EXCEPT !.out = Tail(@)]
  /\ UNCHANGED store

\* close: the input is closed, the child is given time to finish, then killed.
CloseSession ==
  /\ session' = Closed
  /\ child' = Gone
  /\ store' \in IF Working THEN {store, Stored(Torn), Stored(Doing.data)} ELSE {store}

\* The tool is killed, or may not kill the child, which finishes what it does.
LeaveSession ==
  /\ session' = Closed
  /\ child' = [child EXCEPT !.stdin = FALSE, !.out = <<>>]
  /\ UNCHANGED store

\* What follows a request without an answer. Broken variant: the child is left
\* to itself.
Forget == LeaveSession
GiveUp == CloseSession
=============================================================================
