-------------------------- MODULE RaveSync_proofs ----------------------------
(***************************************************************************)
(* Terminals and server together, for any number of terminals, voters,     *)
(* syncs, crashes and lost replies.                                        *)
(*                                                                         *)
(* Both refinements are proved first: in the composition the server keeps  *)
(* the promise Honest that RaveTerminal assumes, so Spec implements        *)
(* TerminalSpec, and the terminals send only bodies a client can send, so  *)
(* it implements ServerSpec.  What was proved of either half then holds of *)
(* the whole.  The rest of SyncInvariant says where the rows on a terminal *)
(* come from and what a sync has stored of its reply so far.               *)
(***************************************************************************)
EXTENDS RaveSync, RaveTerminal_proofs, RaveServer_proofs

\* Two copies of one request.
Same(r, q) ==
    r.clientId = q.clientId /\ r.cac = q.cac /\ r.machineId = q.machineId

PendingRequests(h) == {p.row : p \in {q \in h.pending : q.table = "requests"}}

CallRequests(h) ==
    h.input.requests \cup h.output.requests \cup PendingRequests(h)

\* What a copy says was filed by a terminal.
CopiesFiled == Filings(RequestCopies) \subseteq filed

\* Replies and the rows left to store are rows of the server.
Copied ==
    /\ \A c \in Calls, k \in Kinds : calls[c].output[k] \subseteq srv[k]
    /\ \A t \in Terminals, a \in Attempts :
           LET todo == sync[t][a].todo
           IN  /\ todo.requests \subseteq srv.requests
               /\ todo.elections \subseteq srv.elections
               /\ todo.registrations \subseteq srv.registrations

\* The rows of a table that are stored or about to be.
StampedIn(k) ==
    srv[k] \cup UNION {{p.row : p \in {q \in calls[c].pending : q.table = k}} : c \in Calls}

UniqueStamps ==
    \A j, k \in Kinds : \A r \in StampedIn(j), q \in StampedIn(k) :
        r.id = q.id => j = k /\ r = q

\* A server id on a terminal is that of a row of the server.
KnownId(id, rows) == id # None /\ id[1] = Server => \E r \in rows : r.id = id

Learned ==
    \A t \in Terminals :
        /\ \A e \in db[t].elections : KnownId(e.serverId, srv.elections)
        /\ \A g \in db[t].registrations : KnownId(g.serverId, srv.registrations)
        /\ \A b \in db[t].ballots : b.serverId = None

\* The voter of a reply's request has a request, and that one is synced.
Arrived(d, q) ==
    /\ \E r \in d.requests : r.cac = q.cac
    /\ \A r \in d.requests : r.clientId = q.clientId => r.serverId # None

\* The sync has accepted its reply and stores it, or has stored it.
Storing(t, a) ==
    \/ sync[t][a].pc \in {"reset", "applying"}
    \/ sync[t][a].pc = "done" /\ attempts[t][a] = "success"

\* What the sync has not stored yet is left in todo.
Progress ==
    \A t \in Terminals, a \in Attempts :
        /\ sync[t][a].pc \notin {"reset", "applying"} => sync[t][a].todo = NoTodo
        /\ Storing(t, a) =>
              /\ calls[<<t, a>>].pc = "replied"
              /\ calls[<<t, a>>].output.status = 200
              /\ \A q \in calls[<<t, a>>].output.requests :
                     q \in sync[t][a].todo.requests \/ Arrived(db[t], q)

\* The reply that emptied the table of admins, if one did.
EmptiedBy(t, a) ==
    \/ sync[t][a].pc = "halfApplied"
    \/ sync[t][a].pc = "applying" /\ sync[t][a].todo.admins # {}
    \/ /\ sync[t][a].pc \in {"applying", "done"}
       /\ calls[<<t, a>>].pc = "replied"
       /\ calls[<<t, a>>].output.status = 200
       /\ calls[<<t, a>>].output.admins = {}

Admins ==
    /\ \A t \in Terminals, a \in Attempts :
           sync[t][a].pc = "reset" =>
               sync[t][a].todo.admins = calls[<<t, a>>].output.admins
    /\ \A t \in Terminals :
           db[t].admins = {} => InitialAdmins = {} \/ \E a \in Attempts : EmptiedBy(t, a)

BaseInvariant ==
    /\ Invariant
    /\ AttemptsInvariant
    /\ ServerInv
    /\ FiledOnce
    /\ CopiesFiled
    /\ Copied

SyncInvariant ==
    /\ BaseInvariant
    /\ OneFilingOneVoter
    /\ UniqueStamps
    /\ Learned
    /\ SyncedOnServer
    /\ Progress
    /\ Admins

-----------------------------------------------------------------------------
(* What a step of the server does to its rows.                              *)

\* The handler starts the INSERT of a row stamped now.
Started(c) ==
    \E table \in Stored : \E row :
        /\ calls'[c].pending = {[table |-> table, row |-> row]}
        /\ row.id = NewId
        /\ table = "requests" => \E item \in calls[c].input.requests : Same(row, item)
        /\ srv' = srv

Committed(c) ==
    \E p \in calls[c].pending :
        /\ srv' = [srv EXCEPT ![p.table] = @ \cup {p.row}]
        /\ calls'[c].pending = {}

Quiet(c) == srv' = srv /\ calls'[c].pending \subseteq calls[c].pending

HandlerMove(c) ==
    /\ calls[c].pc # "replied"
    /\ \A d \in Calls \ {c} : calls'[d] = calls[d]
    /\ calls'[c].input.requests \subseteq calls[c].input.requests
    /\ OutputStep(srv, calls[c], calls'[c])
    /\ Started(c) \/ Committed(c) \/ Quiet(c)

LEMMA HandlerMoves ==
    ASSUME ServerInv, NEW c \in Calls, Handle(c) \/ Fault(c)
    PROVE  HandlerMove(c)
<1> DEFINE g == calls[c]
<1>1. calls \in [Calls -> CallType] /\ g \in CallType
  BY DEF ServerInv
<1>2. \A d \in Calls \ {c} : calls'[d] = calls[d]
  BY CallSteps
<1>3. OutputStep(srv, calls[c], calls'[c])
  BY CallSteps
<1>4. ASSUME NEW h, calls' = [calls EXCEPT ![c] = h], srv' = srv, g.pc # "replied",
             h.pending \subseteq g.pending, h.input.requests \subseteq g.input.requests
      PROVE  HandlerMove(c)
  <2>1. calls'[c] = h
    BY <1>1, <1>4
  <2> QED
    BY <1>2, <1>3, <1>4, <2>1 DEF Quiet, HandlerMove
<1>5. ASSUME NEW table \in Stored, NEW item, NEW row, CanStartInsert(c),
             StartInsert(c, table, item, row), row.id = NewId,
             table = "requests" => \E x \in g.input.requests : Same(row, x)
      PROVE  HandlerMove(c)
  <2> DEFINE h == [g EXCEPT !.input[table] = g.input[table] \ {item},
                            !.pending = {[table |-> table, row |-> row]}]
  <2>1. calls' = [calls EXCEPT ![c] = h] /\ srv' = srv /\ g.pc # "replied"
    BY <1>1, <1>5 DEF StartInsert, CanStartInsert
  <2>2. h.pending = {[table |-> table, row |-> row]}
    BY <1>1 DEF CallType
  <2>3. h.input.requests \subseteq g.input.requests
    BY <1>1 DEF CallType, SyncInput, Stored
  <2> HIDE DEF h
  <2>4. calls'[c] = h
    BY <1>1, <2>1
  <2>5. Started(c)
    BY <1>5, <2>1, <2>2, <2>4 DEF Started
  <2> QED
    BY <1>2, <1>3, <2>1, <2>3, <2>4, <2>5 DEF HandlerMove
<1>6. CASE AddRequest(c)
  <2>1. PICK item \in g.input.requests :
            StartInsert(c, "requests", item,
                [id |-> NewId, clientId |-> item.clientId,
                 machineId |-> item.machineId, cac |-> item.cac])
    BY <1>6 DEF AddRequest
  <2> DEFINE row == [id |-> NewId, clientId |-> item.clientId,
                     machineId |-> item.machineId, cac |-> item.cac]
  <2>2. row.id = NewId /\ Same(row, item) /\ "requests" \in Stored /\ CanStartInsert(c)
    BY <1>6 DEF Same, Stored, AddRequest
  <2>3. StartInsert(c, "requests", item, row)
    BY <2>1
  <2> HIDE DEF row
  <2> QED
    BY <1>5, <2>2, <2>3
<1>7. CASE AddRegistration(c) \/ AddBallot(c)
  <2>1. PICK table \in {"registrations", "ballots"} :
            \E item, row : StartInsert(c, table, item, row) /\ row.id = NewId
    <3>1. CASE AddRegistration(c)
      BY <3>1 DEF AddRegistration
    <3>2. CASE AddBallot(c)
      BY <3>2 DEF AddBallot
    <3> QED
      BY <1>7, <3>1, <3>2
  <2>2. PICK item, row : StartInsert(c, table, item, row) /\ row.id = NewId
    BY <2>1
  <2>3. CanStartInsert(c)
    BY <1>7 DEF AddRegistration, AddBallot
  <2> QED
    BY <1>5, <2>2, <2>3 DEF Stored
<1>8. CASE DropRegistration(c) \/ DropBallot(c)
  <2>1. PICK table \in {"registrations", "ballots"} : \E item : Drop(c, table, item)
    BY <1>8 DEF DropRegistration, DropBallot
  <2>2. PICK item : Drop(c, table, item)
    BY <2>1
  <2> DEFINE h == [g EXCEPT !.input[table] = @ \ {item}]
  <2>3. calls' = [calls EXCEPT ![c] = h] /\ srv' = srv
    BY <1>1, <2>2 DEF Drop
  <2>4. h.pending = g.pending /\ h.input.requests = g.input.requests
    BY <1>1 DEF CallType, SyncInput
  <2>5. g.pc # "replied"
    BY <1>8 DEF DropRegistration, DropBallot, CanStartInsert
  <2> HIDE DEF h
  <2> QED
    BY <1>4, <2>3, <2>4, <2>5
<1>9. CASE CommitInsert(c)
  <2>1. PICK p \in g.pending :
            /\ srv' = [srv EXCEPT ![p.table] = @ \cup {p.row}]
            /\ calls' = [calls EXCEPT ![c] = [g EXCEPT !.pending = {},
                                              !.added = g.added \cup {p.row.id}]]
    BY <1>9 DEF CommitInsert
  <2>2. g.pc # "replied"
    BY <1>9 DEF CommitInsert, ServerInv, CallOK, Phases
  <2>3. calls'[c] = [g EXCEPT !.pending = {}, !.added = g.added \cup {p.row.id}]
    BY <1>1, <2>1
  <2>4. calls'[c].pending = {} /\ calls'[c].input = g.input
    BY <1>1, <2>3 DEF CallType
  <2>5. Committed(c)
    BY <2>1, <2>4 DEF Committed
  <2> QED
    BY <1>2, <1>3, <2>2, <2>4, <2>5 DEF HandlerMove
<1>10. CASE FailInsert(c)
  <2> DEFINE h == [g EXCEPT !.pending = {}]
  <2>1. g.pc # "replied"
    BY <1>10 DEF FailInsert, ServerInv, CallOK, Phases
  <2>2. calls' = [calls EXCEPT ![c] = h] /\ srv' = srv
    BY <1>1, <1>10 DEF FailInsert
  <2>3. h.pending = {} /\ h.input = g.input
    BY <1>1 DEF CallType
  <2> HIDE DEF h
  <2> QED
    BY <1>4, <2>1, <2>2, <2>3
<1>11. CASE FinishInserts(c)
  <2> DEFINE h == [g EXCEPT !.pc = "getAdmins"]
  <2>1. calls' = [calls EXCEPT ![c] = h] /\ srv' = srv /\ g.pc # "replied"
    BY <1>1, <1>11 DEF FinishInserts, CanStartInsert
  <2>2. h.pending = g.pending /\ h.input = g.input
    BY <1>1 DEF CallType
  <2> HIDE DEF h
  <2> QED
    BY <1>4, <2>1, <2>2
<1>12. CASE GetAdmins(c) \/ GetElections(c) \/ GetRequests(c) \/ GetRegistrations(c)
  <2>1. PICK here \in Reading : \E next, table, rows : Read(c, here, next, table, rows)
    BY <1>12 DEF GetAdmins, GetElections, GetRequests, GetRegistrations, Reading
  <2>2. PICK next, table, rows : Read(c, here, next, table, rows)
    BY <2>1
  <2> DEFINE h == [g EXCEPT !.pc = next, !.output[table] = rows]
  <2>3. calls' = [calls EXCEPT ![c] = h] /\ srv' = srv /\ g.pc # "replied"
    BY <1>1, <2>2 DEF Read, Reading
  <2>4. h.pending = g.pending /\ h.input = g.input
    BY <1>1 DEF CallType
  <2> HIDE DEF h
  <2> QED
    BY <1>4, <2>3, <2>4
<1>13. CASE GetBallots(c)
  <2> DEFINE rows == Since(srv.ballots, g.input.lastBallot)
             out == [g.output EXCEPT !.status = 200, !.ballots = rows]
             h == [g EXCEPT !.pc = "replied", !.input = NoInput, !.output = out]
  <2>1. calls' = [calls EXCEPT ![c] = h] /\ srv' = srv /\ g.pc # "replied"
    BY <1>13 DEF GetBallots
  <2>2. h.pending = g.pending /\ h.input.requests = {}
    BY <1>1 DEF CallType, NoInput
  <2> HIDE DEF h
  <2> QED
    BY <1>4, <2>1, <2>2
<1>14. CASE FailRead(c)
  <2> DEFINE h == [g EXCEPT !.pc = "replied", !.input = NoInput, !.output = IdleCall.output]
  <2>1. calls' = [calls EXCEPT ![c] = h] /\ srv' = srv /\ g.pc # "replied"
    BY <1>1, <1>14 DEF FailRead, Reading
  <2>2. h.pending = g.pending /\ h.input.requests = {}
    BY <1>1 DEF CallType, NoInput
  <2> HIDE DEF h
  <2> QED
    BY <1>4, <2>1, <2>2
<1>15. CASE DropCall(c)
  <2> DEFINE h == [IdleCall EXCEPT !.pc = "dropped", !.added = g.added]
  <2>1. calls' = [calls EXCEPT ![c] = h] /\ srv' = srv /\ g.pc # "replied"
    BY <1>1, <1>15 DEF DropCall, Reading
  <2>2. h.pending = {} /\ h.input.requests = {}
    BY DEF IdleCall, NoInput
  <2> HIDE DEF h
  <2> QED
    BY <1>4, <2>1, <2>2
<1> QED
  BY <1>6, <1>7, <1>8, <1>9, <1>10, <1>11, <1>12, <1>13, <1>14, <1>15 DEF Handle, Fault

LEMMA OperatorMoves ==
    ASSUME ServerInv, Operator
    PROVE  /\ calls' = calls
           /\ \E table \in Tables \ {"requests"} : \E row :
                  /\ srv' = [srv EXCEPT ![table] = @ \cup {row}]
                  /\ table # "admins" => row.id = NewId
<1>1. calls' = calls
  BY DEF Operator, InsertAdmin, InsertElection, InsertRegistration, External
<1>2. PICK table \in Tables \ {"requests"} :
          \E row : External(table, row) /\ (table # "admins" => row.id = NewId)
  <2>1. CASE InsertAdmin
    BY <2>1, TablesNames DEF InsertAdmin
  <2>2. CASE InsertElection
    <3> DEFINE row == [id |-> NewId, clientId |-> NewId, machineId |-> Server,
                       json |-> "object"]
    <3>1. External("elections", row) /\ row.id = NewId /\ "elections" \in Tables
      BY <2>2, TablesNames DEF InsertElection
    <3> HIDE DEF row
    <3> QED
      BY <3>1
  <2>3. CASE InsertRegistration
    <3>1. PICK row : External("registrations", row) /\ row.id = NewId
      BY <2>3 DEF InsertRegistration
    <3> QED
      BY <3>1, TablesNames
  <2> QED
    BY <2>1, <2>2, <2>3 DEF Operator
<1>3. PICK row : External(table, row) /\ (table # "admins" => row.id = NewId)
  BY <1>2
<1> QED
  BY <1>1, <1>3 DEF External

LEMMA KindsAreTables == Kinds = Tables \ {"admins"}
BY TablesNames DEF Kinds

LEMMA HandlerTables ==
    ASSUME ServerInv, NEW c \in Calls, HandlerMove(c)
    PROVE  /\ Grown(srv, srv')
           /\ \A k \in Tables : \A r \in srv'[k] \ srv[k] :
                  [table |-> k, row |-> r] \in calls[c].pending
<1>1. srv \in ServerTables /\ calls[c] \in CallType
  BY DEF ServerInv, TablesOK
<1>2. CASE srv' = srv
  BY <1>2 DEF Grown
<1>3. CASE Committed(c)
  <2>1. PICK p \in calls[c].pending : srv' = [srv EXCEPT ![p.table] = @ \cup {p.row}]
    BY <1>3 DEF Committed
  <2>2. p = [table |-> p.table, row |-> p.row]
    BY <1>1 DEF CallType, PendingInsert
  <2>3. \A k \in Tables : srv'[k] = IF k = p.table THEN srv[k] \cup {p.row} ELSE srv[k]
    BY <1>1, <2>1, TablesNames DEF ServerTables
  <2> QED
    BY <2>2, <2>3 DEF Grown
<1> QED
  BY <1>2, <1>3 DEF HandlerMove, Started, Quiet

LEMMA OperatorTables ==
    ASSUME ServerInv, Operator
    PROVE  Grown(srv, srv') /\ srv'.requests = srv.requests
<1>1. srv \in ServerTables
  BY DEF ServerInv, TablesOK
<1>2. PICK table \in Tables \ {"requests"} : \E row :
          srv' = [srv EXCEPT ![table] = @ \cup {row}]
  BY OperatorMoves
<1>3. PICK row : srv' = [srv EXCEPT ![table] = @ \cup {row}]
  BY <1>2
<1>4. \A k \in Tables : srv'[k] = IF k = table THEN srv[k] \cup {row} ELSE srv[k]
  BY <1>1, <1>3, TablesNames DEF ServerTables
<1> QED
  BY <1>4, TablesNames DEF Grown

(* The copies of requests that a handler makes are copies of what it has.   *)
LEMMA HandlerRequests ==
    ASSUME ServerInv, NEW c \in Calls, HandlerMove(c),
           NEW r \in srv'.requests \cup CallRequests(calls'[c])
    PROVE  \E q \in srv.requests \cup CallRequests(calls[c]) : Same(r, q)
<1> DEFINE Old == srv.requests \cup CallRequests(calls[c])
<1>1. /\ srv \in ServerTables /\ calls[c] \in CallType
      /\ "requests" \in Tables /\ "requests" \in Kinds
  BY TablesNames DEF ServerInv, TablesOK, Kinds
<1>2. ASSUME r \in Old PROVE \E q \in Old : Same(r, q)
  BY <1>2 DEF Same
<1>3. CASE r \in srv'.requests
  <2>1. CASE r \in srv.requests
    BY <1>2, <2>1
  <2>2. CASE r \notin srv.requests
    <3>1. [table |-> "requests", row |-> r] \in calls[c].pending
      BY <1>1, <1>3, <2>2, HandlerTables
    <3>2. r \in PendingRequests(calls[c])
      BY <3>1 DEF PendingRequests
    <3> QED
      BY <1>2, <3>2 DEF CallRequests
  <2> QED
    BY <2>1, <2>2
<1>4. CASE r \in calls'[c].input.requests
  BY <1>2, <1>4 DEF HandlerMove, CallRequests
<1>5. CASE r \in calls'[c].output.requests
  <2>1. r \in calls[c].output.requests \cup srv.requests
    BY <1>1, <1>5, SinceIsOfTable DEF HandlerMove, OutputStep
  <2> QED
    BY <1>2, <2>1 DEF CallRequests
<1>6. CASE r \in PendingRequests(calls'[c])
  <2>1. PICK p \in calls'[c].pending : p.table = "requests" /\ p.row = r
    BY <1>6 DEF PendingRequests
  <2>2. CASE p \in calls[c].pending
    BY <1>2, <2>1, <2>2 DEF CallRequests, PendingRequests
  <2>3. CASE Started(c)
    <3>1. PICK table \in Stored : \E row :
              /\ calls'[c].pending = {[table |-> table, row |-> row]}
              /\ table = "requests" =>
                     \E item \in calls[c].input.requests : Same(row, item)
      BY <2>3 DEF Started
    <3>2. table = "requests" /\ \E item \in calls[c].input.requests : Same(r, item)
      BY <2>1, <3>1
    <3> QED
      BY <3>2 DEF CallRequests
  <2> QED
    BY <2>1, <2>2, <2>3 DEF HandlerMove, Committed, Quiet
<1> QED
  BY <1>3, <1>4, <1>5, <1>6 DEF CallRequests

-----------------------------------------------------------------------------
(* Stamps are unique: each new row is stamped later than all rows before.   *)

LEMMA StampsAreOld ==
    ASSUME ServerInv, NEW k \in Kinds, NEW r \in StampedIn(k)
    PROVE  r.id # NewId
<1>1. CASE r \in srv[k]
  <2>1. r.id[2] \in Nat /\ r.id[2] < clock /\ clock \in Nat
    BY <1>1 DEF ServerInv, TablesOK, ByClock, Stamped, ServerTables, Kinds, ElectionOutput,
                RequestOutput, RegistrationOutput, BallotOutput, Uuid
  <2> QED
    BY <1>1, <2>1 DEF NewId
<1>2. ASSUME NEW c \in Calls, NEW p \in calls[c].pending, p.row = r
      PROVE  r.id # NewId
  <2>1. CallOK(srv, clock, calls[c]) /\ calls[c] \in CallType /\ clock \in Nat
    BY DEF ServerInv, TablesOK
  <2>2. p \in PendingInsert /\ Stamped(r.id, clock)
    BY <1>2, <2>1 DEF CallOK, CallType, Cursors
  <2>3. r.id[2] \in Nat
    BY <1>2, <2>2 DEF PendingInsert, RequestOutput, RegistrationOutput, BallotOutput, Uuid
  <2>4. r.id[2] < clock
    BY <2>2 DEF Stamped
  <2> QED
    BY <2>1, <2>3, <2>4 DEF NewId
<1> QED
  BY <1>1, <1>2 DEF StampedIn

\* A step that stamps at most one row, with the id NewId.
LEMMA StampsStayUnique ==
    ASSUME ServerInv, UniqueStamps, NEW j, NEW row,
           \A k \in Kinds : \A r \in StampedIn(k)' :
               r \in StampedIn(k) \/ (k = j /\ r = row /\ row.id = NewId)
    PROVE  UniqueStamps'
BY StampsAreOld DEF UniqueStamps

LEMMA HandlerStamps ==
    ASSUME ServerInv, UniqueStamps, NEW c \in Calls, HandlerMove(c)
    PROVE  UniqueStamps'
<1>1. ASSUME NEW k \in Kinds, NEW r \in StampedIn(k)'
      PROVE  r \in StampedIn(k) \/ [table |-> k, row |-> r] \in calls'[c].pending
  <2>1. CASE r \in srv'[k]
    BY <2>1, HandlerTables, KindsAreTables DEF StampedIn
  <2>2. ASSUME NEW d \in Calls, NEW p \in calls'[d].pending, p.row = r, p.table = k
        PROVE  r \in StampedIn(k) \/ [table |-> k, row |-> r] \in calls'[c].pending
    <3>1. CASE p \in calls[d].pending
      BY <2>2, <3>1 DEF StampedIn
    <3>2. CASE d = c /\ p \notin calls[d].pending
      BY <2>2, <3>2 DEF HandlerMove, Started, Committed, Quiet
    <3> QED
      BY <2>2, <3>1, <3>2 DEF HandlerMove
  <2> QED
    BY <2>1, <2>2 DEF StampedIn
<1>2. CASE calls'[c].pending \subseteq calls[c].pending
  <2>1. ASSUME NEW k \in Kinds, NEW r \in StampedIn(k)' PROVE r \in StampedIn(k)
    <3> DEFINE p == [table |-> k, row |-> r]
    <3>1. CASE p \in calls[c].pending
      <4>1. r \in {q.row : q \in {x \in calls[c].pending : x.table = k}}
        BY <3>1
      <4> QED
        BY <4>1 DEF StampedIn
    <3> QED
      BY <1>1, <1>2, <3>1
  <2> QED
    BY <2>1, StampsStayUnique
<1>3. CASE Started(c)
  <2>1. PICK table \in Stored : \E row :
            calls'[c].pending = {[table |-> table, row |-> row]} /\ row.id = NewId
    BY <1>3 DEF Started
  <2>2. PICK row : calls'[c].pending = {[table |-> table, row |-> row]} /\ row.id = NewId
    BY <2>1
  <2>3. \A k \in Kinds : \A r \in StampedIn(k)' :
            r \in StampedIn(k) \/ (k = table /\ r = row /\ row.id = NewId)
    BY <1>1, <2>2
  <2> QED
    BY <2>3, StampsStayUnique
<1> QED
  BY <1>2, <1>3 DEF HandlerMove, Committed, Quiet

LEMMA OperatorStamps ==
    ASSUME ServerInv, UniqueStamps, Operator
    PROVE  UniqueStamps'
<1>1. srv \in ServerTables
  BY DEF ServerInv, TablesOK
<1>2. PICK table \in Tables \ {"requests"} : \E row :
          /\ srv' = [srv EXCEPT ![table] = @ \cup {row}]
          /\ table # "admins" => row.id = NewId
  BY OperatorMoves
<1>3. PICK row : /\ srv' = [srv EXCEPT ![table] = @ \cup {row}]
                 /\ table # "admins" => row.id = NewId
  BY <1>2
<1>4. \A k \in Tables : srv'[k] = IF k = table THEN srv[k] \cup {row} ELSE srv[k]
  BY <1>1, <1>3, TablesNames DEF ServerTables
<1>5. \A k \in Kinds : \A r \in StampedIn(k)' :
          r \in StampedIn(k) \/ (k = table /\ r = row /\ row.id = NewId)
  BY <1>3, <1>4, OperatorMoves, KindsAreTables DEF StampedIn
<1> QED
  BY <1>5, StampsStayUnique

-----------------------------------------------------------------------------
(* What a step of a terminal does to its tables.                            *)

\* The statement puts a request under a fresh id.
PutsRequest(t, d, new) ==
    /\ d.requests = (db[t].requests \ DisplacedRequests(db[t], new)) \cup {new}
    /\ \A r \in db[t].requests : r.id # new.id

\* A request of a voter of t, under a client id that t draws now.
FreshRequest(t, new) ==
    /\ new.clientId[1] = t /\ \E n \in Nat : new.clientId[2] = n /\ n > issued[t]
    /\ new.serverId # None => new.serverId[1] = t

\* Other rows of d that are new have no server id, or one of the rows given.
OtherTables(t, d, elections, registrations) ==
    /\ \A e \in d.elections \ db[t].elections :
           e.serverId = None \/ e.serverId \in Ids(elections)
    /\ \A g \in d.registrations \ db[t].registrations :
           g.serverId = None \/ g.serverId \in Ids(registrations)
    /\ \A b \in d.ballots \ db[t].ballots : b.serverId = None

LocalMove(t, d) ==
    /\ Store(t, d)
    /\ UNCHANGED <<attempts, sync>>
    /\ db[t].admins \subseteq d.admins
    /\ OtherTables(t, d, {}, {})
    /\ \/ d.requests = db[t].requests
       \/ \E new : PutsRequest(t, d, new) /\ FreshRequest(t, new)

LEMMA FreshIsNew ==
    ASSUME Invariant, NEW t \in Terminals, NEW k \in Nat, k > 0
    PROVE  /\ Fresh(t, k)[1] = t /\ \E n \in Nat : Fresh(t, k)[2] = n /\ n > issued[t]
           /\ \A r \in db[t].requests : r.id # Fresh(t, k)
BY DEF Invariant, Types, Databases, Numbered, Fresh

LEMMA TestVoterMove ==
    ASSUME Invariant, NEW t \in Terminals, NEW cac \in Cacs, NEW isAdmin \in BOOLEAN,
           NEW kind \in TestRecords, CreateTestVoter(t, cac, isAdmin, kind)
    PROVE  \E d : LocalMove(t, d)
<1> DEFINE d0 == IF isAdmin THEN PutAdmin(db[t], cac) ELSE db[t]
           d == WithTestRecords(t, d0, cac, kind)
           local == LocalRequest(t, cac)
           synced == [id |-> Fresh(t, 3), serverId |-> Fresh(t, 1),
                      clientId |-> Fresh(t, 2), machineId |-> t, cac |-> cac, at |-> now[t]]
           election == [id |-> Fresh(t, 4), serverId |-> None,
                        clientId |-> Fresh(t, 4), machineId |-> t, at |-> now[t]]
           registration == [id |-> Fresh(t, 5), serverId |-> None,
                            clientId |-> Fresh(t, 5), machineId |-> t,
                            cac |-> cac, requestId |-> synced.id,
                            electionId |-> election.id, at |-> now[t]]
<1>1. Store(t, d) /\ UNCHANGED <<attempts, sync>>
  BY DEF CreateTestVoter
<1>2. db[t] \in Database
  BY DEF Invariant, Types
<1>3. /\ d0.requests = db[t].requests /\ d0.elections = db[t].elections
      /\ d0.registrations = db[t].registrations /\ d0.ballots = db[t].ballots
      /\ db[t].admins \subseteq d0.admins /\ d0 \in Database
  BY <1>2 DEF PutAdmin, Database
<1>4. /\ FreshRequest(t, local) /\ FreshRequest(t, synced)
      /\ \A r \in db[t].requests : r.id # local.id /\ r.id # synced.id
  BY FreshIsNew DEF FreshRequest, LocalRequest
<1>5. election.serverId = None /\ registration.serverId = None
  OBVIOUS
<1>6. \/ d = d0
      \/ d = PutRequest(d0, local)
      \/ d = PutRequest(d0, synced)
      \/ d = PutRegistration(PutElection(PutRequest(d0, synced), election), registration)
  BY DEF WithTestRecords, TestRecords
<1> HIDE DEF d0, local, synced, election, registration
<1>7. ASSUME NEW new, new = local \/ new = synced
      PROVE  LET e == PutRequest(d0, new)
             IN  /\ e.elections = db[t].elections /\ e.registrations = db[t].registrations
                 /\ e.ballots = db[t].ballots /\ e.admins = d0.admins
                 /\ PutsRequest(t, e, new) /\ FreshRequest(t, new)
  BY <1>3, <1>4, <1>7 DEF PutRequest, Database, DisplacedRequests, PutsRequest
<1>8. CASE d = d0
  BY <1>1, <1>3, <1>8 DEF LocalMove, OtherTables
<1>9. CASE d = PutRequest(d0, local) \/ d = PutRequest(d0, synced)
  <2>1. PICK new : d = PutRequest(d0, new) /\ (new = local \/ new = synced)
    BY <1>9
  <2> HIDE DEF d
  <2> QED
    BY <1>1, <1>3, <1>7, <2>1 DEF LocalMove, OtherTables
<1>10. CASE d = PutRegistration(PutElection(PutRequest(d0, synced), election), registration)
  <2> DEFINE d1 == PutRequest(d0, synced)
             d2 == PutElection(d1, election)
  <2>1. /\ d1.elections = db[t].elections /\ d1.registrations = db[t].registrations
        /\ d1.ballots = db[t].ballots /\ d1.admins = d0.admins
        /\ PutsRequest(t, d1, synced) /\ FreshRequest(t, synced)
    BY <1>7
  <2>2. d0 = [admins |-> d0.admins, requests |-> d0.requests, elections |-> d0.elections,
              registrations |-> d0.registrations, ballots |-> d0.ballots]
    BY <1>3 DEF Database
  <2>3. d1 = [admins |-> d1.admins, requests |-> d1.requests, elections |-> d1.elections,
              registrations |-> d1.registrations, ballots |-> d1.ballots]
    BY <2>2 DEF PutRequest
  <2> HIDE DEF d1
  <2>4. d2 = [admins |-> d1.admins, requests |-> d1.requests,
              elections |-> d1.elections \cup {election},
              registrations |-> d1.registrations, ballots |-> d1.ballots]
    BY <2>3 DEF PutElection
  <2>5. d = PutRegistration(d2, registration)
    BY <1>10 DEF d1
  <2> HIDE DEF d2, d
  <2>6. /\ d.admins = d1.admins /\ d.requests = d1.requests /\ d.ballots = d1.ballots
        /\ d.elections = d1.elections \cup {election}
        /\ d.registrations \subseteq d1.registrations \cup {registration}
    BY <2>4, <2>5 DEF PutRegistration
  <2>7. OtherTables(t, d, {}, {})
    BY <1>5, <2>1, <2>6 DEF OtherTables
  <2>8. PutsRequest(t, d, synced)
    BY <2>1, <2>6 DEF PutsRequest
  <2> QED
    BY <1>1, <1>3, <2>1, <2>6, <2>7, <2>8 DEF LocalMove
<1> QED
  BY <1>6, <1>8, <1>9, <1>10

LEMMA LocalMoves ==
    ASSUME Invariant, NEW t \in Terminals, Local(t)
    PROVE  \E d : LocalMove(t, d)
<1>1. db[t] \in Database
  BY DEF Invariant, Types
<1>2. ASSUME NEW cac \in Cacs, CreateVoterRegistration(t, cac)
      PROVE  \E d : LocalMove(t, d)
  <2> DEFINE new == LocalRequest(t, cac)
             d == PutRequest(db[t], new)
  <2>1. Store(t, d) /\ UNCHANGED <<attempts, sync>>
    BY <1>2 DEF CreateVoterRegistration
  <2>2. FreshRequest(t, new) /\ \A r \in db[t].requests : r.id # new.id
    BY FreshIsNew DEF FreshRequest, LocalRequest
  <2> HIDE DEF new
  <2>3. /\ d.elections = db[t].elections /\ d.registrations = db[t].registrations
        /\ d.ballots = db[t].ballots /\ d.admins = db[t].admins
        /\ PutsRequest(t, d, new)
    BY <1>1, <2>2 DEF PutRequest, Database, DisplacedRequests, PutsRequest
  <2> HIDE DEF d
  <2> QED
    BY <2>1, <2>2, <2>3 DEF LocalMove, OtherTables
<1>3. ASSUME NEW cac \in Cacs, SaveVotes(t, cac)
      PROVE  \E d : LocalMove(t, d)
  <2>1. PICK ballot : Store(t, PutBallot(db[t], ballot)) /\ ballot.serverId = None
    BY <1>3 DEF SaveVotes
  <2> DEFINE d == PutBallot(db[t], ballot)
  <2>2. /\ d.elections = db[t].elections /\ d.registrations = db[t].registrations
        /\ d.ballots = db[t].ballots \cup {ballot} /\ d.admins = db[t].admins
        /\ d.requests = db[t].requests
    BY <1>1 DEF PutBallot, Database
  <2>3. Store(t, d) /\ UNCHANGED <<attempts, sync>>
    BY <1>3, <2>1 DEF SaveVotes
  <2> HIDE DEF d
  <2> QED
    BY <2>1, <2>2, <2>3 DEF LocalMove, OtherTables
<1> QED
  BY <1>2, <1>3, TestVoterMove DEF Local, Voter

\* A statement of the sync a stores something and leaves rest to store.
StatementMove(t, a, d, rest) ==
    LET todo == sync[t][a].todo IN
    /\ Store(t, d)
    /\ Continue(t, a, rest)
    /\ UNCHANGED attempts
    /\ rest \in TodoType
    /\ rest.elections \subseteq todo.elections
    /\ rest.registrations \subseteq todo.registrations
    /\ OtherTables(t, d, todo.elections, todo.registrations)
    /\ \/ d.requests = db[t].requests /\ rest.requests = todo.requests
       \/ \E q \in todo.requests :
              /\ rest.requests = todo.requests \ {q}
              /\ PutsRequest(t, d, RequestFromServer(t, q))
    /\ \/ sync[t][a].pc = "reset" /\ d.admins = {} /\ rest = todo
       \/ sync[t][a].pc = "applying" /\ d.admins # {}
       \/ /\ sync[t][a].pc = "applying" /\ d.admins = db[t].admins
          /\ todo.admins = {} /\ rest.admins = {}

FailMove(t, a) ==
    /\ Fail(t, a)
    /\ UNCHANGED db
    /\ sync[t][a].pc = "applying" /\ sync[t][a].todo.admins = {}

ApplyMove(t, a) == FailMove(t, a) \/ \E d, rest : StatementMove(t, a, d, rest)

LEMMA ApplyMoves ==
    ASSUME Invariant, NEW t \in Terminals, NEW a \in Attempts, Apply(t, a)
    PROVE  ApplyMove(t, a)
<1> DEFINE todo == sync[t][a].todo
<1>1. todo \in TodoType /\ db[t] \in Database
  BY TodoOfCall
<1>2. ASSUME NEW d, NEW rest, StatementMove(t, a, d, rest)
      PROVE  ApplyMove(t, a)
  BY <1>2 DEF ApplyMove
<1>3. CASE ResetAdminsStep(t, a)
  <2> DEFINE d == ResetAdmins(db[t])
  <2>1. /\ d.elections = db[t].elections /\ d.registrations = db[t].registrations
        /\ d.ballots = db[t].ballots /\ d.admins = {} /\ d.requests = db[t].requests
    BY <1>1 DEF ResetAdmins, Database
  <2>2. /\ Store(t, d) /\ Continue(t, a, todo) /\ UNCHANGED attempts
        /\ sync[t][a].pc = "reset"
    BY <1>3 DEF ResetAdminsStep
  <2> HIDE DEF d
  <2>3. StatementMove(t, a, d, todo)
    BY <1>1, <2>1, <2>2 DEF StatementMove, OtherTables
  <2> QED
    BY <1>2, <2>3
<1>4. CASE ApplyAdmin(t, a)
  <2>1. PICK cac \in todo.admins :
            /\ Store(t, PutAdmin(db[t], cac))
            /\ Continue(t, a, [todo EXCEPT !.admins = @ \ {cac}])
    BY <1>4 DEF ApplyAdmin
  <2> DEFINE d == PutAdmin(db[t], cac)
             rest == [todo EXCEPT !.admins = @ \ {cac}]
  <2>2. /\ d.elections = db[t].elections /\ d.registrations = db[t].registrations
        /\ d.ballots = db[t].ballots /\ d.admins # {} /\ d.requests = db[t].requests
    BY <1>1 DEF PutAdmin, Database
  <2>3. /\ rest \in TodoType /\ rest.elections = todo.elections
        /\ rest.requests = todo.requests /\ rest.registrations = todo.registrations
    BY <1>1 DEF TodoType
  <2>4. /\ Store(t, d) /\ Continue(t, a, rest) /\ UNCHANGED attempts
        /\ sync[t][a].pc = "applying"
    BY <1>4, <2>1 DEF ApplyAdmin, Applying
  <2> HIDE DEF d, rest
  <2>5. StatementMove(t, a, d, rest)
    BY <1>1, <2>2, <2>3, <2>4 DEF StatementMove, OtherTables
  <2> QED
    BY <1>2, <2>5
<1>5. CASE ApplyElection(t, a)
  <2>1. PICK e \in Newest(todo.elections) :
            LET row == ElectionFromServer(t, e) IN
            IF CanPutElection(db[t], row, t)
            THEN /\ Store(t, PutElection(db[t], row))
                 /\ Continue(t, a, [todo EXCEPT !.elections = @ \ {e}])
                 /\ UNCHANGED attempts
            ELSE Fail(t, a) /\ UNCHANGED db
    BY <1>5 DEF ApplyElection
  <2> DEFINE row == ElectionFromServer(t, e)
             d == PutElection(db[t], row)
             rest == [todo EXCEPT !.elections = @ \ {e}]
  <2>2. sync[t][a].pc = "applying" /\ todo.admins = {}
    BY <1>5 DEF ApplyElection, Applying
  <2>3. CASE CanPutElection(db[t], row, t)
    <3>1. Store(t, d) /\ Continue(t, a, rest) /\ UNCHANGED attempts
      BY <2>1, <2>3
    <3>2. /\ d.elections = db[t].elections \cup {row} /\ d.registrations = db[t].registrations
          /\ d.ballots = db[t].ballots /\ d.admins = db[t].admins
          /\ d.requests = db[t].requests
      BY <1>1 DEF PutElection, Database
    <3>3. row.serverId \in Ids(todo.elections)
      BY DEF ElectionFromServer, Newest, Ids
    <3>4. /\ rest \in TodoType /\ rest.elections \subseteq todo.elections
          /\ rest.requests = todo.requests /\ rest.registrations = todo.registrations
          /\ rest.admins = todo.admins
      BY <1>1 DEF TodoType
    <3> HIDE DEF d, rest, row
    <3>5. OtherTables(t, d, todo.elections, todo.registrations)
      BY <3>2, <3>3 DEF OtherTables
    <3>6. StatementMove(t, a, d, rest)
      BY <2>2, <3>1, <3>2, <3>4, <3>5 DEF StatementMove
    <3> QED
      BY <1>2, <3>6
  <2>4. CASE ~CanPutElection(db[t], row, t)
    BY <2>1, <2>2, <2>4 DEF FailMove, ApplyMove
  <2> QED
    BY <2>3, <2>4
<1>6. CASE ApplyRequest(t, a)
  <2>1. PICK r \in Newest(todo.requests) :
            LET row == RequestFromServer(t, r) IN
            IF CanPutRequest(db[t], row)
            THEN /\ Store(t, PutRequest(db[t], row))
                 /\ Continue(t, a, [todo EXCEPT !.requests = @ \ {r}])
                 /\ UNCHANGED attempts
            ELSE Fail(t, a) /\ UNCHANGED db
    BY <1>6 DEF ApplyRequest
  <2> DEFINE row == RequestFromServer(t, r)
             d == PutRequest(db[t], row)
             rest == [todo EXCEPT !.requests = @ \ {r}]
  <2>2. sync[t][a].pc = "applying" /\ todo.admins = {}
    BY <1>6 DEF ApplyRequest, Applying
  <2>3. CASE CanPutRequest(db[t], row)
    <3>1. Store(t, d) /\ Continue(t, a, rest) /\ UNCHANGED attempts
      BY <2>1, <2>3
    <3>2. \A q \in db[t].requests : q.id # row.id
      BY FreshIsNew DEF RequestFromServer
    <3>3. /\ rest \in TodoType /\ rest.elections = todo.elections
          /\ rest.requests = todo.requests \ {r} /\ rest.registrations = todo.registrations
          /\ rest.admins = todo.admins /\ r \in todo.requests
      BY <1>1 DEF TodoType, Newest
    <3> HIDE DEF rest, row
    <3>4. /\ d.elections = db[t].elections /\ d.registrations = db[t].registrations
          /\ d.ballots = db[t].ballots /\ d.admins = db[t].admins
          /\ d.requests = (db[t].requests \ DisplacedRequests(db[t], row)) \cup {row}
      BY <1>1 DEF PutRequest, Database
    <3> HIDE DEF d
    <3>5. OtherTables(t, d, todo.elections, todo.registrations)
      BY <3>4 DEF OtherTables
    <3>6. PutsRequest(t, d, RequestFromServer(t, r))
      BY <3>2, <3>4 DEF PutsRequest, row
    <3>7. StatementMove(t, a, d, rest)
      BY <2>2, <3>1, <3>3, <3>4, <3>5, <3>6 DEF StatementMove
    <3> QED
      BY <1>2, <3>7
  <2>4. CASE ~CanPutRequest(db[t], row)
    BY <2>1, <2>2, <2>4 DEF FailMove, ApplyMove
  <2> QED
    BY <2>3, <2>4
<1>7. CASE ApplyRegistration(t, a)
  <2> DEFINE Rows(g) == {row \in RegistrationsFromServer(t, g) :
                            CanPutRegistration(db[t], row)}
  <2>1. PICK g \in Newest(todo.registrations) :
            IF Rows(g) # {}
            THEN /\ \E row \in Rows(g) : Store(t, PutRegistration(db[t], row))
                 /\ Continue(t, a, [todo EXCEPT !.registrations = @ \ {g}])
                 /\ UNCHANGED attempts
            ELSE Fail(t, a) /\ UNCHANGED db
    BY <1>7 DEF ApplyRegistration
  <2> DEFINE rest == [todo EXCEPT !.registrations = @ \ {g}]
  <2>2. sync[t][a].pc = "applying" /\ todo.admins = {}
    BY <1>7 DEF ApplyRegistration, Applying
  <2>3. CASE Rows(g) # {}
    <3>1. PICK row \in Rows(g) : Store(t, PutRegistration(db[t], row))
      BY <2>1, <2>3
    <3> DEFINE d == PutRegistration(db[t], row)
    <3>2. Store(t, d) /\ Continue(t, a, rest) /\ UNCHANGED attempts
      BY <2>1, <2>3, <3>1
    <3>3. /\ d.elections = db[t].elections
          /\ d.registrations \subseteq db[t].registrations \cup {row}
          /\ d.ballots = db[t].ballots /\ d.admins = db[t].admins
          /\ d.requests = db[t].requests
      BY <1>1 DEF PutRegistration, Database
    <3>4. row.serverId \in Ids(todo.registrations)
      BY <3>1 DEF RegistrationsFromServer, Newest, Ids
    <3>5. /\ rest \in TodoType /\ rest.elections = todo.elections
          /\ rest.requests = todo.requests /\ rest.registrations \subseteq todo.registrations
          /\ rest.admins = todo.admins
      BY <1>1 DEF TodoType
    <3> HIDE DEF d, rest, Rows
    <3>6. OtherTables(t, d, todo.elections, todo.registrations)
      BY <3>3, <3>4 DEF OtherTables
    <3>7. StatementMove(t, a, d, rest)
      BY <2>2, <3>2, <3>3, <3>5, <3>6 DEF StatementMove
    <3> QED
      BY <1>2, <3>7
  <2>4. CASE Rows(g) = {}
    BY <2>1, <2>2, <2>4 DEF FailMove, ApplyMove
  <2> QED
    BY <2>3, <2>4
<1> QED
  BY <1>3, <1>4, <1>5, <1>6, <1>7 DEF Apply

-----------------------------------------------------------------------------
(* Both refinements.                                                        *)

LEMMA CopiesAre ==
    /\ srv.requests \subseteq RequestCopies
    /\ \A t \in Terminals : db[t].requests \subseteq RequestCopies
    /\ \A t \in Terminals, a \in Attempts : sync[t][a].todo.requests \subseteq RequestCopies
    /\ \A c \in Calls : CallRequests(calls[c]) \subseteq RequestCopies
<1>1. srv.requests \subseteq RequestCopies
  BY DEF RequestCopies
<1>2. \A t \in Terminals : db[t].requests \subseteq RequestCopies
  BY DEF RequestCopies
<1>3. \A t \in Terminals, a \in Attempts : sync[t][a].todo.requests \subseteq RequestCopies
  BY DEF RequestCopies
<1>4. ASSUME NEW c \in Calls PROVE CallRequests(calls[c]) \subseteq RequestCopies
  <2>1. calls[c].input.requests \cup calls[c].output.requests \subseteq RequestCopies
    BY DEF RequestCopies
  <2>2. ASSUME NEW p \in calls[c].pending, p.table = "requests"
        PROVE  p.row \in RequestCopies
    BY <2>2 DEF RequestCopies
  <2> QED
    BY <2>1, <2>2 DEF CallRequests, PendingRequests
<1> QED
  BY <1>1, <1>2, <1>3, <1>4

LEMMA CopiesWillBe ==
    ASSUME NEW r \in RequestCopies'
    PROVE  \/ r \in srv'.requests
           \/ \E t \in Terminals : r \in db'[t].requests
           \/ \E t \in Terminals, a \in Attempts : r \in sync'[t][a].todo.requests
           \/ \E c \in Calls : r \in CallRequests(calls'[c])
<1>1. ASSUME NEW c \in Calls, NEW p \in calls'[c].pending, p.table = "requests", r = p.row
      PROVE  \E d \in Calls : r \in CallRequests(calls'[d])
  BY <1>1 DEF CallRequests, PendingRequests
<1> QED
  BY <1>1 DEF RequestCopies, CallRequests

\* What a terminal sends is a body a client can send, of requests it has.
LEMMA InputsAreKnown ==
    ASSUME SyncInvariant, NEW t \in Terminals, NEW input \in SyncInputs(db[t])
    PROVE  /\ input \in AnyInput
           /\ \A r \in input.requests : \E q \in db[t].requests : Same(r, q)
<1> DEFINE d == db[t]
<1>1. /\ d \in Database /\ TablesOK(srv, clock)
      /\ \A r \in d.requests : KnownId(r.serverId, srv.requests)
      /\ \A e \in d.elections : KnownId(e.serverId, srv.elections)
      /\ \A g \in d.registrations : KnownId(g.serverId, srv.registrations)
      /\ \A b \in d.ballots : b.serverId = None
  <2>1. d \in Database /\ TablesOK(srv, clock)
    BY DEF SyncInvariant, BaseInvariant, Invariant, Types, ServerInv
  <2>2. \A r \in d.requests : KnownId(r.serverId, srv.requests)
    BY DEF SyncInvariant, SyncedOnServer, KnownId
  <2> QED
    BY <2>1, <2>2 DEF SyncInvariant, Learned
<1>2. ASSUME NEW k \in Kinds, NEW id \in Optional(Uuid), KnownId(id, srv[k])
      PROVE  id \in Optional(Past)
  <2>1. ASSUME id # None, id[1] = Server PROVE id[2] < clock
    <3>1. PICK r \in srv[k] : r.id = id
      BY <1>2, <2>1 DEF KnownId
    <3>2. Stamped(r.id, clock)
      BY <1>1 DEF TablesOK, ByClock
    <3> QED
      BY <3>1, <3>2 DEF Stamped
  <2> QED
    BY <2>1 DEF Optional, Past
<1>3. PICK lr \in LastSynced(d.requests), lg \in LastSynced(d.registrations),
           le \in LastSynced(d.elections), lb \in LastSynced(d.ballots) :
          input = [lastRequest |-> lr, lastRegistration |-> lg, lastElection |-> le,
                   lastBallot |-> lb, requests |-> RequestsToSync(d), registrations |-> {},
                   ballots |-> BallotsToSync(d)]
  BY DEF SyncInputs
<1>4. ASSUME NEW rows, NEW last \in LastSynced(rows)
      PROVE  last = None \/ \E r \in rows : last = r.serverId
  BY DEF LastSynced
<1>5. lr \in Optional(Past)
  <2>1. lr = None \/ \E r \in d.requests : lr = r.serverId
    BY <1>4
  <2>2. lr \in Optional(Uuid) /\ KnownId(lr, srv["requests"])
    BY <1>1, <2>1 DEF Optional, KnownId, Database, RequestRow
  <2> QED
    BY <1>2, <2>2 DEF Kinds
<1>6. lg \in Optional(Past)
  <2>1. lg = None \/ \E r \in d.registrations : lg = r.serverId
    BY <1>4
  <2>2. lg \in Optional(Uuid) /\ KnownId(lg, srv["registrations"])
    BY <1>1, <2>1 DEF Optional, KnownId, Database, RegistrationRow
  <2> QED
    BY <1>2, <2>2 DEF Kinds
<1>7. le \in Optional(Past)
  <2>1. le = None \/ \E r \in d.elections : le = r.serverId
    BY <1>4
  <2>2. le \in Optional(Uuid) /\ KnownId(le, srv["elections"])
    BY <1>1, <2>1 DEF Optional, KnownId, Database, ElectionRow
  <2> QED
    BY <1>2, <2>2 DEF Kinds
<1>8. lb \in Optional(Past)
  <2>1. lb = None \/ \E r \in d.ballots : lb = r.serverId
    BY <1>4
  <2> QED
    BY <1>1, <2>1 DEF Optional
<1>9. RequestsToSync(d) \subseteq RequestInput
  BY <1>1 DEF RequestsToSync, Unsynced, RequestInput, Database, RequestRow
<1>10. BallotsToSync(d) \subseteq BallotInput
  BY <1>1 DEF BallotsToSync, Unsynced, BallotInput, Database, BallotRow
<1>11. Optional(Past) \subseteq Optional(Uuid)
  BY DEF Optional, Past
<1>12. input \in AnyInput
  <2>1. input \in SyncInput
    BY <1>3, <1>5, <1>6, <1>7, <1>8, <1>9, <1>10, <1>11 DEF SyncInput
  <2> QED
    BY <1>3, <1>5, <1>6, <1>7, <1>8, <2>1 DEF AnyInput
<1>13. \A r \in input.requests : \E q \in d.requests : Same(r, q)
  BY <1>3 DEF RequestsToSync, Unsynced, Same
<1> QED
  BY <1>12, <1>13

LEMMA CallOfTerminal ==
    ASSUME NEW t \in Terminals, NEW a \in Attempts
    PROVE  <<t, a>> \in Calls
BY SyncAssumption

LEMMA TerminalsStep ==
    ASSUME SyncInvariant, [Next]_vars
    PROVE  [TerminalNext(SyncOutput)]_terminalVars
<1>1. CASE ServerStep \/ OperatorStep \/ UNCHANGED vars
  BY <1>1 DEF ServerStep, OperatorStep, vars
<1>2. ASSUME NEW t \in Terminals, Terminal(t)
      PROVE  TerminalNext(SyncOutput)
  <2>1. CASE Local(t)
    BY <2>1 DEF TerminalNext
  <2>2. CASE (Tick(t) \/ Crash(t)) /\ UNCHANGED filed
    BY <2>2 DEF TerminalNext
  <2>3. ASSUME NEW a \in Attempts, Begin(t, a) \/ (FailFetch(t, a) /\ UNCHANGED filed) \/ Work(t, a)
        PROVE  TerminalNext(SyncOutput)
    <3>1. SyncStep(t, a)
      BY <2>3 DEF Begin, Work, SyncStep
    <3> QED
      BY <3>1 DEF TerminalNext
  <2>4. ASSUME NEW a \in Attempts, Deliver(t, a)
        PROVE  TerminalNext(SyncOutput)
    <3> DEFINE output == calls[<<t, a>>].output
    <3>1. output \in SyncOutput /\ output.requests \subseteq RequestCopies
      BY CallOfTerminal, CopiesAre
      DEF SyncInvariant, BaseInvariant, ServerInv, CallType, CallRequests
    <3>2. Filings(output.requests) \subseteq filed
      BY <3>1 DEF SyncInvariant, BaseInvariant, CopiesFiled, Filings
    <3>3. Honest(output)
      <4>1. filed \cup Filings(output.requests) = filed
        BY <3>2
      <4>2. \A f, g \in filed : f[1] = g[1] => f = g
        BY DEF SyncInvariant, BaseInvariant, FiledOnce
      <4>3. \A r \in output.requests : <<r.clientId, r.cac>> \in filed
        BY <3>2 DEF Filings
      <4> HIDE DEF output
      <4> QED
        BY <4>1, <4>2, <4>3 DEF Honest
    <3>4. Receive(t, a, output)
      BY <2>4, <3>3 DEF Deliver, Receive
    <3> QED
      BY <3>1, <3>4 DEF TerminalNext
  <2> QED
    BY <1>2, <2>1, <2>2, <2>3, <2>4 DEF Terminal, Settle
<1> QED
  BY <1>1, <1>2 DEF Next

LEMMA ServersStep ==
    ASSUME SyncInvariant, [Next]_vars
    PROVE  [ServerNext(AnyInput)]_serverVars
<1>1. CASE ServerStep \/ OperatorStep
  BY <1>1 DEF ServerStep, OperatorStep, ServerNext
<1>2. ASSUME NEW t \in Terminals, NEW a \in Attempts, Begin(t, a)
      PROVE  ServerNext(AnyInput)
  <2>1. PICK input \in SyncInputs(db[t]) : Submit(<<t, a>>, input)
    BY <1>2 DEF Begin
  <2>2. input \in AnyInput /\ <<t, a>> \in Calls
    BY InputsAreKnown, CallOfTerminal
  <2> QED
    BY <2>1, <2>2 DEF ServerNext, Client
<1>3. CASE UNCHANGED serverVars
  BY <1>3
<1>4. UNCHANGED vars => UNCHANGED serverVars
  BY DEF vars
<1> QED
  BY <1>1, <1>2, <1>3, <1>4 DEF Next, Terminal, Settle, Deliver, Work

LEMMA HalvesKeep ==
    ASSUME SyncInvariant, [Next]_vars
    PROVE  Invariant' /\ AttemptsInvariant' /\ FiledOnce' /\ ServerInv'
<1>1. Invariant' /\ FiledOnce'
  BY TerminalsStep, NextKeepsInvariant, StepIsJourney DEF SyncInvariant, BaseInvariant
<1>2. AttemptsInvariant'
  BY <1>1, TerminalsStep, KeepAttempts DEF SyncInvariant, BaseInvariant
<1>3. ServerInv'
  BY ServersStep, NextServerInv DEF SyncInvariant, BaseInvariant
<1> QED
  BY <1>1, <1>2, <1>3

-----------------------------------------------------------------------------
(* The moves of the composition, as far as the rows that are kept go.       *)

LEMMA StoreIs ==
    ASSUME Invariant, NEW t \in Terminals, NEW d, Store(t, d)
    PROVE  db'[t] = d /\ \A s \in Terminals : s # t => db'[s] = db[s]
BY DEF Invariant, Types, Store

LEMMA GotoIs ==
    ASSUME Invariant, NEW t \in Terminals, NEW a \in Attempts, NEW pc, NEW todo,
           Goto(t, a, pc, todo)
    PROVE  /\ sync'[t][a] = [pc |-> pc, todo |-> todo]
           /\ \A s \in Terminals, b \in Attempts :
                  s # t \/ b # a => sync'[s][b] = sync[s][b]
BY DEF Invariant, CallTypes, Goto

LEMMA GotoElsewhere ==
    ASSUME Invariant, NEW t \in Terminals, NEW a \in Attempts, NEW pc, NEW todo,
           Goto(t, a, pc, todo), NEW s \in Terminals, NEW b \in Attempts,
           s # t \/ b # a
    PROVE  sync'[s][b] = sync[s][b]
BY DEF Invariant, CallTypes, Goto

LEMMA GotoPc ==
    ASSUME Invariant, NEW t \in Terminals, NEW a \in Attempts, NEW pc, NEW todo,
           Goto(t, a, pc, todo)
    PROVE  sync'[t][a].pc = pc /\ sync'[t][a].todo = todo
<1>1. sync'[t][a] = [pc |-> pc, todo |-> todo]
  BY GotoIs
<1> QED
  BY <1>1

LEMMA GotoTodo ==
    ASSUME Invariant, NEW t \in Terminals, NEW a \in Attempts, NEW pc, NEW todo,
           Goto(t, a, pc, todo), NEW s \in Terminals, NEW b \in Attempts
    PROVE  sync'[s][b].todo.requests \subseteq sync[s][b].todo.requests \cup todo.requests
<1>1. CASE s = t /\ b = a
  <2>1. sync'[t][a] = [pc |-> pc, todo |-> todo]
    BY GotoIs
  <2>2. sync'[t][a].todo = todo
    BY <2>1
  <2> QED
    BY <1>1, <2>2
<1>2. CASE s # t \/ b # a
  <2>1. sync'[s][b] = sync[s][b]
    BY <1>2, GotoElsewhere
  <2> QED
    BY <2>1
<1> QED
  BY <1>1, <1>2

LEMMA NothingToDo ==
    /\ NoTodo.requests = {} /\ NoTodo.elections = {}
    /\ NoTodo.registrations = {} /\ NoTodo.admins = {}
BY DEF NoTodo, Todo, NoRows

Still == UNCHANGED <<db, attempts, sync, filed, srv, calls>>

VoterMove(t) ==
    /\ \E d : LocalMove(t, d)
    /\ filed' = filed \cup Filings(db'[t].requests)
    /\ UNCHANGED <<srv, calls>>

CrashMove(t) ==
    /\ sync' = [sync EXCEPT ![t] = [a \in Attempts |-> Died(sync[t][a])]]
    /\ UNCHANGED <<db, attempts, filed, srv, calls>>

\* The sync starts: it sends copies of the requests of t.
BeginMove(t, a) ==
    /\ ~Busy(t)
    /\ attempts[t][a] = "none"
    /\ Goto(t, a, "fetching", NoTodo)
    /\ Mark(t, a, "pending")
    /\ calls[<<t, a>>].pc = "idle"
    /\ \E input \in SyncInputs(db[t]) :
           calls' = [calls EXCEPT ![<<t, a>>] = [@ EXCEPT !.pc = "inserting", !.input = input]]
    /\ UNCHANGED <<db, filed, srv>>

\* The sync fails.
EndMove(t, a) ==
    /\ Fail(t, a)
    /\ \/ Fetching(t, a)
       \/ sync[t][a].pc = "applying" /\ sync[t][a].todo.admins = {}
    /\ filed \subseteq filed'
    /\ UNCHANGED <<db, srv, calls>>

AcceptMove(t, a) ==
    LET output == calls[<<t, a>>].output IN
    /\ Fetching(t, a)
    /\ calls[<<t, a>>].pc = "replied" /\ output.status = 200
    /\ Mark(t, a, "success")
    /\ Goto(t, a, "reset", Todo(output))
    /\ filed \subseteq filed'
    /\ UNCHANGED <<db, srv, calls>>

StoreMove(t, a) ==
    (\E d, rest : StatementMove(t, a, d, rest)) /\ UNCHANGED <<filed, srv, calls>>

TerminalMove(t) ==
    \/ VoterMove(t) \/ CrashMove(t)
    \/ \E a \in Attempts :
           BeginMove(t, a) \/ EndMove(t, a) \/ AcceptMove(t, a) \/ StoreMove(t, a)

ServerMove ==
    /\ (\E c \in Calls : HandlerMove(c)) \/ Operator
    /\ UNCHANGED <<db, attempts, sync, filed>>

LEMMA StepMoves ==
    ASSUME SyncInvariant, [Next]_vars
    PROVE  Still \/ ServerMove \/ \E t \in Terminals : TerminalMove(t)
<1>1. Invariant /\ ServerInv
  BY DEF SyncInvariant, BaseInvariant
<1>2. CASE UNCHANGED vars
  BY <1>2 DEF vars, terminalVars, serverVars, Still
<1>3. CASE ServerStep \/ OperatorStep
  BY <1>1, <1>3, HandlerMoves DEF ServerStep, OperatorStep, ServerMove, terminalVars
<1>4. ASSUME NEW t \in Terminals, Terminal(t)
      PROVE  Still \/ TerminalMove(t)
  <2>1. CASE Local(t) /\ UNCHANGED serverVars
    BY <1>1, <2>1, LocalMoves DEF Local, VoterMove, TerminalMove, serverVars
  <2>2. CASE Tick(t) /\ UNCHANGED <<filed, serverVars>>
    BY <2>2 DEF Tick, Still, serverVars
  <2>3. CASE Crash(t) /\ UNCHANGED <<filed, serverVars>>
    BY <2>3 DEF Crash, CrashMove, TerminalMove, serverVars
  <2>4. ASSUME NEW a \in Attempts, Begin(t, a) PROVE TerminalMove(t)
    <3>1. PICK input \in SyncInputs(db[t]) :
              StartSync(t, a, input) /\ Submit(<<t, a>>, input)
      BY <2>4 DEF Begin
    <3>2. calls' = [calls EXCEPT ![<<t, a>>] = [@ EXCEPT !.pc = "inserting", !.input = input]]
      BY <1>1, <3>1 DEF Submit, ServerInv
    <3>3. BeginMove(t, a)
      BY <2>4, <3>1, <3>2 DEF Begin, StartSync, NextAttempt, Submit, BeginMove
    <3> QED
      BY <3>3 DEF TerminalMove
  <2>5. ASSUME NEW a \in Attempts, Deliver(t, a) PROVE TerminalMove(t)
    <3>1. EndMove(t, a) \/ AcceptMove(t, a)
      BY <2>5 DEF Deliver, AcceptReply, RejectReply, Acceptable, EndMove, AcceptMove, serverVars
    <3> QED
      BY <3>1 DEF TerminalMove
  <2>6. ASSUME NEW a \in Attempts, FailFetch(t, a) /\ UNCHANGED <<filed, serverVars>>
        PROVE  TerminalMove(t)
    BY <2>6 DEF FailFetch, EndMove, TerminalMove, serverVars
  <2>7. ASSUME NEW a \in Attempts, Work(t, a) PROVE TerminalMove(t)
    <3>1. ApplyMove(t, a) /\ UNCHANGED <<filed, srv, calls>>
      BY <1>1, <2>7, ApplyMoves DEF Work, serverVars
    <3>2. EndMove(t, a) \/ StoreMove(t, a)
      BY <3>1 DEF ApplyMove, FailMove, EndMove, StoreMove
    <3> QED
      BY <3>2 DEF TerminalMove
  <2> QED
    BY <1>4, <2>1, <2>2, <2>3, <2>4, <2>5, <2>6, <2>7 DEF Terminal, Settle
<1> QED
  BY <1>2, <1>3, <1>4 DEF Next

-----------------------------------------------------------------------------
(* Copies of requests: a step copies what there is, or files a new request. *)

LEMMA VoterCopies ==
    ASSUME SyncInvariant, NEW t \in Terminals, VoterMove(t)
    PROVE  \E new : /\ FreshRequest(t, new)
                    /\ \A r \in RequestCopies' :
                           r \in RequestCopies \/ (r = new /\ r \in db'[t].requests)
<1>1. PICK d : LocalMove(t, d)
  BY DEF VoterMove
<1>2. Invariant /\ Store(t, d) /\ sync' = sync /\ srv' = srv /\ calls' = calls
  BY <1>1 DEF SyncInvariant, BaseInvariant, LocalMove, VoterMove
<1>3. PICK new : /\ FreshRequest(t, new)
                 /\ d.requests \subseteq db[t].requests \cup {new}
  <2>1. CASE d.requests = db[t].requests
    <3>1. issued[t] + 1 \in Nat /\ issued[t] + 1 > issued[t]
      BY <1>2 DEF Invariant, Types
    <3> DEFINE new == [clientId |-> <<t, issued[t] + 1>>, serverId |-> None]
    <3>2. FreshRequest(t, new)
      BY <3>1 DEF FreshRequest
    <3> QED
      BY <2>1, <3>2
  <2> QED
    BY <1>1, <2>1 DEF LocalMove, PutsRequest
<1>4. ASSUME NEW r \in RequestCopies'
      PROVE  r \in RequestCopies \/ (r = new /\ r \in db'[t].requests)
  BY <1>2, <1>3, CopiesWillBe, CopiesAre, StoreIs
<1> QED
  BY <1>3, <1>4

LEMMA TerminalCopies ==
    ASSUME SyncInvariant, NEW t \in Terminals, TerminalMove(t), ~VoterMove(t),
           NEW r \in RequestCopies'
    PROVE  \E q \in RequestCopies : Same(r, q)
<1>1. Invariant /\ srv' = srv /\ ServerInv
  BY DEF SyncInvariant, BaseInvariant, TerminalMove, CrashMove, BeginMove, EndMove, AcceptMove,
         StoreMove
<1>2. ASSUME r \in RequestCopies PROVE \E q \in RequestCopies : Same(r, q)
  BY <1>2 DEF Same
<1>3. CASE CrashMove(t)
  <2>1. \A s \in Terminals, a \in Attempts :
            sync'[s][a].todo.requests \subseteq sync[s][a].todo.requests
    BY <1>1, <1>3 DEF Invariant, CallTypes, CrashMove, Died, NoTodo, Todo, NoRows
  <2> QED
    BY <1>2, <1>3, <2>1, CopiesWillBe, CopiesAre DEF CrashMove
<1>4. ASSUME NEW a \in Attempts, BeginMove(t, a)
      PROVE  \E q \in RequestCopies : Same(r, q)
  <2>1. PICK input \in SyncInputs(db[t]) :
            calls' = [calls EXCEPT ![<<t, a>>] = [@ EXCEPT !.pc = "inserting", !.input = input]]
    BY <1>4 DEF BeginMove
  <2>2. \A s \in Terminals, b \in Attempts :
            sync'[s][b].todo.requests \subseteq sync[s][b].todo.requests
    BY <1>1, <1>4, GotoTodo, NothingToDo DEF BeginMove
  <2>3. CASE \E c \in Calls : r \in CallRequests(calls'[c])
    <3>1. PICK c \in Calls : r \in CallRequests(calls'[c])
      BY <2>3
    <3>2. calls'[c].output = calls[c].output /\ calls'[c].pending = calls[c].pending
      BY <1>1, <2>1 DEF ServerInv, CallType
    <3>3. calls'[c].input \in {calls[c].input, input}
      BY <1>1, <2>1 DEF ServerInv, CallType
    <3>4. r \in CallRequests(calls[c]) \/ r \in input.requests
      BY <3>1, <3>2, <3>3 DEF CallRequests, PendingRequests
    <3>5. CASE r \in input.requests
      BY <3>5, InputsAreKnown, CopiesAre
    <3> QED
      BY <1>2, <3>4, <3>5, CopiesAre
  <2> QED
    BY <1>2, <1>4, <2>2, <2>3, CopiesWillBe, CopiesAre DEF BeginMove
<1>5. ASSUME NEW a \in Attempts, EndMove(t, a)
      PROVE  \E q \in RequestCopies : Same(r, q)
  <2>1. \A s \in Terminals, b \in Attempts :
            sync'[s][b].todo.requests \subseteq sync[s][b].todo.requests
    BY <1>1, <1>5, GotoTodo, NothingToDo DEF EndMove, Fail
  <2> QED
    BY <1>2, <1>5, <2>1, CopiesWillBe, CopiesAre DEF EndMove
<1>6. ASSUME NEW a \in Attempts, AcceptMove(t, a)
      PROVE  \E q \in RequestCopies : Same(r, q)
  <2> DEFINE output == calls[<<t, a>>].output
  <2>1. \A s \in Terminals, b \in Attempts :
            sync'[s][b].todo.requests \subseteq sync[s][b].todo.requests \cup output.requests
    <3>1. Goto(t, a, "reset", Todo(output)) /\ Todo(output).requests = output.requests
      BY <1>6 DEF AcceptMove, Todo
    <3> QED
      BY <1>1, <3>1, GotoTodo
  <2>2. output.requests \subseteq RequestCopies
    BY CopiesAre, CallOfTerminal DEF CallRequests
  <2> HIDE DEF output
  <2> QED
    BY <1>2, <1>6, <2>1, <2>2, CopiesWillBe, CopiesAre DEF AcceptMove
<1>7. ASSUME NEW a \in Attempts, StoreMove(t, a)
      PROVE  \E q \in RequestCopies : Same(r, q)
  <2> DEFINE todo == sync[t][a].todo
  <2>1. PICK d, rest : StatementMove(t, a, d, rest)
    BY <1>7 DEF StoreMove
  <2>2. \A s \in Terminals, b \in Attempts :
            sync'[s][b].todo.requests \subseteq sync[s][b].todo.requests
    <3>1. rest.requests \subseteq todo.requests
      BY <2>1 DEF StatementMove
    <3>2. PICK pc : Goto(t, a, pc, rest)
      BY <2>1 DEF StatementMove, Continue
    <3>3. \A s \in Terminals, b \in Attempts : s # t \/ b # a => sync'[s][b] = sync[s][b]
      BY <1>1, <3>2, GotoIs
    <3>4. sync'[t][a] = [pc |-> pc, todo |-> rest]
      BY <1>1, <3>2, GotoIs
    <3> QED
      BY <3>1, <3>3, <3>4
  <2>3. \A x \in d.requests : x \in db[t].requests \/ \E q \in todo.requests : Same(x, q)
    <3>1. \A q : Same(RequestFromServer(t, q), q)
      BY DEF RequestFromServer, Same
    <3>2. \/ d.requests = db[t].requests
          \/ \E q \in todo.requests : PutsRequest(t, d, RequestFromServer(t, q))
      BY <2>1 DEF StatementMove
    <3> QED
      BY <3>1, <3>2 DEF PutsRequest
  <2>4. \A s \in Terminals : \A x \in db'[s].requests :
            x \in db[s].requests \/ \E q \in todo.requests : Same(x, q)
    BY <1>1, <2>1, <2>3, StoreIs DEF StatementMove
  <2>5. todo.requests \subseteq RequestCopies
    BY CopiesAre
  <2> HIDE DEF todo
  <2> QED
    BY <1>2, <1>7, <2>2, <2>4, <2>5, CopiesWillBe, CopiesAre DEF StoreMove
<1> QED
  BY <1>3, <1>4, <1>5, <1>6, <1>7 DEF TerminalMove

LEMMA ServerCopies ==
    ASSUME SyncInvariant, ServerMove, NEW r \in RequestCopies'
    PROVE  \E q \in RequestCopies : Same(r, q)
<1>1. ServerInv /\ db' = db /\ sync' = sync
  BY DEF SyncInvariant, BaseInvariant, ServerMove
<1>2. ASSUME r \in RequestCopies PROVE \E q \in RequestCopies : Same(r, q)
  BY <1>2 DEF Same
<1>3. CASE Operator
  BY <1>1, <1>2, <1>3, OperatorTables, OperatorMoves, CopiesWillBe, CopiesAre
<1>4. ASSUME NEW c \in Calls, HandlerMove(c)
      PROVE  \E q \in RequestCopies : Same(r, q)
  <2>1. CASE r \in srv'.requests \cup CallRequests(calls'[c])
    <3>1. \E q \in srv.requests \cup CallRequests(calls[c]) : Same(r, q)
      BY <1>1, <1>4, <2>1, HandlerRequests
    <3> QED
      BY <3>1, CopiesAre
  <2>2. ASSUME NEW d \in Calls, d # c, r \in CallRequests(calls'[d])
        PROVE  r \in RequestCopies
    BY <1>4, <2>2, CopiesAre DEF HandlerMove
  <2> QED
    BY <1>1, <1>2, <2>1, <2>2, CopiesWillBe, CopiesAre
<1> QED
  BY <1>3, <1>4 DEF ServerMove

LEMMA CopiesStay ==
    ASSUME SyncInvariant, [Next]_vars
    PROVE  CopiesFiled' /\ OneFilingOneVoter'
<1>1. /\ Invariant /\ OneFilingOneVoter
      /\ \A q \in RequestCopies : <<q.clientId, q.cac>> \in filed
  BY DEF SyncInvariant, BaseInvariant, CopiesFiled, Filings
<1>2. filed \subseteq filed'
  BY StepMoves DEF Still, ServerMove, TerminalMove, VoterMove, CrashMove, BeginMove, EndMove,
                   AcceptMove, StoreMove
<1>3. CASE \A r \in RequestCopies' : \E q \in RequestCopies : Same(r, q)
  <2>1. CopiesFiled'
    BY <1>1, <1>2, <1>3 DEF CopiesFiled, Filings, Same
  <2>2. OneFilingOneVoter'
    BY <1>1, <1>3 DEF OneFilingOneVoter, Same
  <2> QED
    BY <2>1, <2>2
<1>4. ASSUME NEW t \in Terminals, VoterMove(t)
      PROVE  CopiesFiled' /\ OneFilingOneVoter'
  <2>1. PICK new : /\ FreshRequest(t, new)
                   /\ \A r \in RequestCopies' :
                          r \in RequestCopies \/ (r = new /\ r \in db'[t].requests)
    BY <1>4, VoterCopies
  <2>2. ASSUME NEW q \in RequestCopies PROVE q.clientId # new.clientId
    <3>1. <<q.clientId, q.cac>> \in filed /\ <<q.clientId, q.cac>>[1] = q.clientId
      BY <1>1
    <3>2. q.clientId[1] = t => q.clientId[2] \in 1 .. issued[t]
      BY <1>1, <3>1 DEF Invariant, DrawnIds
    <3>3. issued[t] \in Nat
      BY <1>1 DEF Invariant, Types
    <3> QED
      BY <2>1, <3>2, <3>3 DEF FreshRequest
  <2>3. OneFilingOneVoter'
    BY <1>1, <2>1, <2>2 DEF OneFilingOneVoter
  <2>4. ASSUME NEW r \in RequestCopies' PROVE <<r.clientId, r.cac>> \in filed'
    BY <1>1, <1>2, <1>4, <2>1 DEF VoterMove, Filings
  <2>5. CopiesFiled'
    BY <2>4 DEF CopiesFiled, Filings
  <2> QED
    BY <2>3, <2>5
<1>5. CASE Still
  <2>1. RequestCopies' = RequestCopies
    BY <1>5 DEF Still, RequestCopies
  <2> QED
    BY <1>3, <2>1 DEF Same
<1> QED
  BY <1>3, <1>4, <1>5, StepMoves, TerminalCopies, ServerCopies

-----------------------------------------------------------------------------
(* Rows of the server: what is copied from them, and what they are known by.*)

LEMMA ServerGrows ==
    ASSUME SyncInvariant, [Next]_vars
    PROVE  Grown(srv, srv')
<1>1. ServerInv
  BY DEF SyncInvariant, BaseInvariant
<1>2. CASE ServerMove
  BY <1>1, <1>2, HandlerTables, OperatorTables DEF ServerMove
<1>3. CASE srv' = srv
  BY <1>3 DEF Grown
<1> QED
  BY <1>2, <1>3, StepMoves DEF Still, TerminalMove, VoterMove, CrashMove, BeginMove, EndMove,
                               AcceptMove, StoreMove

LEMMA StillCalls ==
    ASSUME SyncInvariant, NEW t \in Terminals, TerminalMove(t), NEW c \in Calls
    PROVE  calls'[c].output = calls[c].output /\ calls'[c].pending = calls[c].pending
<1>1. CASE calls' = calls
  BY <1>1
<1>2. ASSUME NEW a \in Attempts, BeginMove(t, a)
      PROVE  calls'[c].output = calls[c].output /\ calls'[c].pending = calls[c].pending
  <2>1. PICK input :
            calls' = [calls EXCEPT ![<<t, a>>] = [@ EXCEPT !.pc = "inserting", !.input = input]]
    BY <1>2 DEF BeginMove
  <2>2. calls \in [Calls -> CallType]
    BY DEF SyncInvariant, BaseInvariant, ServerInv
  <2> QED
    BY <2>1, <2>2 DEF CallType
<1> QED
  BY <1>1, <1>2 DEF TerminalMove, VoterMove, CrashMove, EndMove, AcceptMove, StoreMove

\* What the rows left to store are rows of.
TodoIsOf(todo, rows) ==
    /\ todo.requests \subseteq rows.requests
    /\ todo.elections \subseteq rows.elections
    /\ todo.registrations \subseteq rows.registrations

LEMMA TodoStaysCopied ==
    ASSUME SyncInvariant, NEW t \in Terminals, TerminalMove(t),
           NEW s \in Terminals, NEW b \in Attempts
    PROVE  TodoIsOf(sync'[s][b].todo, srv)
<1>1. Invariant /\ TodoIsOf(sync[s][b].todo, srv)
  BY DEF SyncInvariant, BaseInvariant, Copied, TodoIsOf
<1>2. TodoIsOf(NoTodo, srv)
  BY NothingToDo DEF TodoIsOf
<1>3. ASSUME NEW a \in Attempts, NEW pc, NEW todo, Goto(t, a, pc, todo), TodoIsOf(todo, srv)
      PROVE  TodoIsOf(sync'[s][b].todo, srv)
  <2>1. sync'[t][a] = [pc |-> pc, todo |-> todo]
    BY <1>1, <1>3, GotoIs
  <2>2. s # t \/ b # a => sync'[s][b] = sync[s][b]
    BY <1>1, <1>3, GotoElsewhere
  <2>3. CASE sync'[s][b] = sync[s][b]
    BY <1>1, <2>3
  <2>4. CASE s = t /\ b = a
    <3>1. sync'[t][a].todo = todo
      BY <2>1
    <3> QED
      BY <1>3, <2>4, <3>1
  <2> QED
    BY <2>2, <2>3, <2>4
<1>4. CASE VoterMove(t)
  BY <1>1, <1>4 DEF VoterMove, LocalMove
<1>5. CASE CrashMove(t)
  <2>1. sync'[s][b] \in {sync[s][b], Died(sync[s][b])}
    BY <1>1, <1>5 DEF Invariant, CallTypes, CrashMove
  <2>2. \A call : Died(call) = call \/ Died(call).todo = NoTodo
    BY DEF Died
  <2>3. sync'[s][b].todo \in {sync[s][b].todo, NoTodo}
    BY <2>1, <2>2
  <2> QED
    BY <1>1, <1>2, <2>3
<1>6. ASSUME NEW a \in Attempts, BeginMove(t, a) \/ EndMove(t, a)
      PROVE  TodoIsOf(sync'[s][b].todo, srv)
  BY <1>2, <1>3, <1>6 DEF BeginMove, EndMove, Fail
<1>7. ASSUME NEW a \in Attempts, AcceptMove(t, a)
      PROVE  TodoIsOf(sync'[s][b].todo, srv)
  <2>1. TodoIsOf(Todo(calls[<<t, a>>].output), srv)
    BY CallOfTerminal DEF SyncInvariant, BaseInvariant, Copied, Kinds, Todo, TodoIsOf
  <2> QED
    BY <1>3, <1>7, <2>1 DEF AcceptMove
<1>8. ASSUME NEW a \in Attempts, StoreMove(t, a)
      PROVE  TodoIsOf(sync'[s][b].todo, srv)
  <2>1. PICK d, rest : StatementMove(t, a, d, rest)
    BY <1>8 DEF StoreMove
  <2>2. TodoIsOf(sync[t][a].todo, srv)
    BY DEF SyncInvariant, BaseInvariant, Copied, TodoIsOf
  <2>3. TodoIsOf(rest, srv)
    BY <2>1, <2>2 DEF StatementMove, TodoIsOf
  <2> QED
    BY <1>3, <2>1, <2>3 DEF StatementMove, Continue
<1> QED
  BY <1>4, <1>5, <1>6, <1>7, <1>8 DEF TerminalMove

LEMMA CopiedStays ==
    ASSUME SyncInvariant, [Next]_vars
    PROVE  Copied'
<1>1. /\ ServerInv /\ Copied
      /\ \A k \in Tables : srv[k] \subseteq srv'[k]
  BY ServerGrows DEF SyncInvariant, BaseInvariant, Grown
<1>2. \A c \in Calls, k \in Kinds : calls'[c].output[k] \subseteq srv'[k]
  <2> SUFFICES ASSUME NEW c \in Calls, NEW k \in Kinds
               PROVE  calls'[c].output[k] \subseteq srv'[k]
    OBVIOUS
  <2>1. calls[c].output[k] \subseteq srv[k] /\ srv[k] \subseteq srv'[k]
    BY <1>1, KindsAreTables DEF Copied
  <2>2. CASE calls'[c].output = calls[c].output
    BY <2>1, <2>2
  <2>3. ASSUME HandlerMove(c) PROVE calls'[c].output[k] \subseteq srv'[k]
    BY <2>1, <2>3, SinceIsOfTable DEF HandlerMove, OutputStep
  <2>4. CASE ServerMove
    BY <1>1, <2>2, <2>3, <2>4, OperatorMoves DEF ServerMove, HandlerMove
  <2> QED
    BY <2>2, <2>4, StepMoves, StillCalls DEF Still
<1>3. ASSUME NEW t \in Terminals, NEW a \in Attempts
      PROVE  TodoIsOf(sync'[t][a].todo, srv')
  <2>1. TodoIsOf(sync'[t][a].todo, srv)
    <3>1. CASE sync' = sync
      BY <1>1, <3>1 DEF Copied, TodoIsOf
    <3> QED
      BY <3>1, StepMoves, TodoStaysCopied DEF Still, ServerMove
  <2> QED
    BY <1>1, <2>1, TablesNames DEF TodoIsOf
<1> QED
  BY <1>2, <1>3 DEF Copied, TodoIsOf

LEMMA StampsStay ==
    ASSUME SyncInvariant, [Next]_vars
    PROVE  UniqueStamps'
<1>1. ServerInv /\ UniqueStamps
  BY DEF SyncInvariant, BaseInvariant
<1>2. CASE srv' = srv /\ \A c \in Calls : calls'[c].pending = calls[c].pending
  <2>1. \A k \in Kinds : StampedIn(k)' = StampedIn(k)
    BY <1>2 DEF StampedIn
  <2> QED
    BY <1>1, <2>1 DEF UniqueStamps
<1>3. CASE ServerMove
  BY <1>1, <1>3, HandlerStamps, OperatorStamps DEF ServerMove
<1>4. ASSUME NEW t \in Terminals, TerminalMove(t)
      PROVE  srv' = srv
  BY <1>4 DEF TerminalMove, VoterMove, CrashMove, BeginMove, EndMove, AcceptMove, StoreMove
<1> QED
  BY <1>2, <1>3, <1>4, StepMoves, StillCalls DEF Still

\* A step stores only what the voter files now and what the server has.
TablesMove(t, d) ==
    /\ Store(t, d)
    /\ OtherTables(t, d, srv.elections, srv.registrations)
    /\ \/ d.requests = db[t].requests
       \/ \E new : /\ PutsRequest(t, d, new)
                   /\ \/ FreshRequest(t, new)
                      \/ \E q \in srv.requests : new = RequestFromServer(t, q)

LEMMA TablesMoves ==
    ASSUME SyncInvariant, [Next]_vars
    PROVE  db' = db \/ \E t \in Terminals : \E d : TablesMove(t, d)
<1>1. ASSUME NEW t \in Terminals, VoterMove(t)
      PROVE  \E d : TablesMove(t, d)
  <2>1. PICK d : LocalMove(t, d)
    BY <1>1 DEF VoterMove
  <2>2. TablesMove(t, d)
    BY <2>1 DEF LocalMove, OtherTables, Ids, TablesMove
  <2> QED
    BY <2>2
<1>2. ASSUME NEW t \in Terminals, NEW a \in Attempts, StoreMove(t, a)
      PROVE  \E d : TablesMove(t, d)
  <2> DEFINE todo == sync[t][a].todo
  <2>1. PICK d, rest : StatementMove(t, a, d, rest)
    BY <1>2 DEF StoreMove
  <2>2. TodoIsOf(todo, srv)
    BY DEF SyncInvariant, BaseInvariant, Copied, TodoIsOf
  <2> HIDE DEF todo
  <2>3. OtherTables(t, d, todo.elections, todo.registrations)
    BY <2>1 DEF StatementMove, todo
  <2>4. OtherTables(t, d, srv.elections, srv.registrations)
    BY <2>2, <2>3 DEF OtherTables, TodoIsOf, Ids
  <2>5. \/ d.requests = db[t].requests
        \/ \E q \in todo.requests : PutsRequest(t, d, RequestFromServer(t, q))
    BY <2>1 DEF StatementMove, todo
  <2>6. TablesMove(t, d)
    BY <2>1, <2>2, <2>4, <2>5 DEF StatementMove, TablesMove, TodoIsOf
  <2> QED
    BY <2>6
<1> QED
  BY <1>1, <1>2, StepMoves DEF Still, ServerMove, TerminalMove, CrashMove, BeginMove, EndMove,
                               AcceptMove

LEMMA LearnedStays ==
    ASSUME SyncInvariant, [Next]_vars
    PROVE  Learned'
<1>1. /\ Invariant /\ Learned
      /\ srv.elections \subseteq srv'.elections /\ srv.registrations \subseteq srv'.registrations
  BY ServerGrows, TablesNames DEF SyncInvariant, BaseInvariant, Grown
<1>2. CASE db' = db
  BY <1>1, <1>2 DEF Learned, KnownId
<1>3. ASSUME NEW t \in Terminals, NEW d, TablesMove(t, d)
      PROVE  Learned'
  <2> SUFFICES ASSUME NEW s \in Terminals
               PROVE  /\ \A e \in db'[s].elections : KnownId(e.serverId, srv'.elections)
                      /\ \A g \in db'[s].registrations : KnownId(g.serverId, srv'.registrations)
                      /\ \A b \in db'[s].ballots : b.serverId = None
    BY DEF Learned
  <2>1. CASE s # t
    <3>1. db'[s] = db[s]
      BY <1>1, <1>3, <2>1, StoreIs DEF TablesMove
    <3> QED
      BY <1>1, <3>1 DEF Learned, KnownId
  <2>2. CASE s = t
    <3>1. db'[s] = d /\ OtherTables(s, d, srv.elections, srv.registrations)
      BY <1>1, <1>3, <2>2, StoreIs DEF TablesMove
    <3>2. ASSUME NEW e \in d.elections PROVE KnownId(e.serverId, srv'.elections)
      BY <1>1, <3>1 DEF Learned, OtherTables, Ids, KnownId
    <3>3. ASSUME NEW g \in d.registrations PROVE KnownId(g.serverId, srv'.registrations)
      BY <1>1, <3>1 DEF Learned, OtherTables, Ids, KnownId
    <3>4. ASSUME NEW b \in d.ballots PROVE b.serverId = None
      BY <1>1, <3>1 DEF Learned, OtherTables
    <3> QED
      BY <3>1, <3>2, <3>3, <3>4
  <2> QED
    BY <2>1, <2>2
<1> QED
  BY <1>2, <1>3, TablesMoves

LEMMA SyncedStays ==
    ASSUME SyncInvariant, [Next]_vars
    PROVE  SyncedOnServer'
<1>1. /\ Invariant /\ SyncedOnServer /\ srv.requests \subseteq srv'.requests
      /\ srv.requests \subseteq RequestOutput
  BY ServerGrows, TablesNames
  DEF SyncInvariant, BaseInvariant, Grown, ServerInv, TablesOK, ServerTables
<1>2. CASE db' = db
  BY <1>1, <1>2 DEF SyncedOnServer
<1>3. ASSUME NEW t \in Terminals, NEW d, TablesMove(t, d)
      PROVE  SyncedOnServer'
  <2> SUFFICES ASSUME NEW s \in Terminals, NEW r \in db'[s].requests,
                      r.serverId # None, r.serverId[1] = Server
               PROVE  [id |-> r.serverId, clientId |-> r.clientId,
                       machineId |-> r.machineId, cac |-> r.cac] \in srv'.requests
    BY DEF SyncedOnServer
  <2>1. CASE r \in db[s].requests
    BY <1>1, <2>1 DEF SyncedOnServer
  <2>2. CASE r \notin db[s].requests
    <3>1. s = t /\ db'[t] = d
      BY <1>1, <1>3, <2>2, StoreIs DEF TablesMove
    <3>2. PICK new : /\ PutsRequest(t, d, new)
                     /\ \/ FreshRequest(t, new)
                        \/ \E q \in srv.requests : new = RequestFromServer(t, q)
      BY <1>3, <2>2, <3>1 DEF TablesMove
    <3>3. r = new
      BY <2>2, <3>1, <3>2 DEF PutsRequest
    <3>4. ~FreshRequest(t, new)
      BY <3>3, IdsAssumption DEF FreshRequest
    <3>5. PICK q \in srv.requests : r = RequestFromServer(t, q)
      BY <3>2, <3>3, <3>4
    <3>6. q = [id |-> r.serverId, clientId |-> r.clientId,
               machineId |-> r.machineId, cac |-> r.cac]
      BY <1>1, <3>5 DEF RequestOutput, RequestFromServer
    <3> QED
      BY <1>1, <3>6
  <2> QED
    BY <2>1, <2>2
<1> QED
  BY <1>2, <1>3, TablesMoves

-----------------------------------------------------------------------------
(* How one sync moves, and what it has stored of its reply.                 *)

LEMMA MarkIs ==
    ASSUME Invariant, NEW t \in Terminals, NEW a \in Attempts, NEW outcome, Mark(t, a, outcome)
    PROVE  /\ attempts'[t][a] = outcome
           /\ \A s \in Terminals, b \in Attempts :
                  s # t \/ b # a => attempts'[s][b] = attempts[s][b]
BY DEF Invariant, CallTypes, Mark

Untouched(t, a) == sync'[t][a] = sync[t][a] /\ attempts'[t][a] = attempts[t][a]

Lost(t, a) ==
    /\ sync[t][a].pc \in {"fetching", "reset", "applying"}
    /\ sync'[t][a].pc \in {"lost", "halfApplied"} /\ sync'[t][a].todo = NoTodo
    /\ sync[t][a].pc \in {"reset", "applying"} => sync'[t][a].pc = "halfApplied"

LEMMA OneSync ==
    ASSUME SyncInvariant, [Next]_vars, NEW t \in Terminals, NEW a \in Attempts
    PROVE  \/ Untouched(t, a) \/ Lost(t, a)
           \/ BeginMove(t, a) \/ EndMove(t, a) \/ AcceptMove(t, a) \/ StoreMove(t, a)
<1>1. Invariant
  BY DEF SyncInvariant, BaseInvariant
<1>2. CASE sync' = sync /\ attempts' = attempts
  BY <1>2 DEF Untouched
<1>3. ASSUME NEW s \in Terminals, CrashMove(s)
      PROVE  Untouched(t, a) \/ Lost(t, a)
  <2>1. attempts' = attempts /\ sync'[t][a] \in {sync[t][a], Died(sync[t][a])}
    BY <1>1, <1>3 DEF Invariant, CallTypes, CrashMove
  <2>2. Died(sync[t][a]) = sync[t][a] \/ (sync'[t][a] = Died(sync[t][a]) => Lost(t, a))
    BY DEF Died, Lost
  <2> QED
    BY <2>1, <2>2 DEF Untouched
<1>4. ASSUME NEW s \in Terminals, NEW b \in Attempts, s # t \/ b # a,
             NEW pc, NEW todo, Goto(s, b, pc, todo),
             attempts' = attempts \/ \E outcome : Mark(s, b, outcome)
      PROVE  Untouched(t, a)
  <2>1. sync'[t][a] = sync[t][a]
    <3>1. \A u \in Terminals, v \in Attempts : u # s \/ v # b => sync'[u][v] = sync[u][v]
      BY <1>1, <1>4, GotoIs
    <3> QED
      BY <1>4, <3>1
  <2>2. CASE attempts' = attempts
    BY <2>1, <2>2 DEF Untouched
  <2>3. ASSUME NEW outcome, Mark(s, b, outcome) PROVE Untouched(t, a)
    <3>1. attempts'[t][a] = attempts[t][a]
      BY <1>1, <1>4, <2>3, MarkIs
    <3> QED
      BY <2>1, <3>1 DEF Untouched
  <2> QED
    BY <1>4, <2>2, <2>3
<1>5. ASSUME NEW s \in Terminals, NEW b \in Attempts, s # t \/ b # a,
             BeginMove(s, b) \/ EndMove(s, b) \/ AcceptMove(s, b) \/ StoreMove(s, b)
      PROVE  Untouched(t, a)
  <2>1. CASE BeginMove(s, b)
    BY <1>4, <1>5, <2>1 DEF BeginMove
  <2>2. CASE EndMove(s, b)
    BY <1>4, <1>5, <2>2 DEF EndMove, Fail
  <2>3. CASE AcceptMove(s, b)
    BY <1>4, <1>5, <2>3 DEF AcceptMove
  <2>4. CASE StoreMove(s, b)
    <3>1. PICK d, rest : StatementMove(s, b, d, rest)
      BY <2>4 DEF StoreMove
    <3> QED
      BY <1>4, <1>5, <3>1 DEF StatementMove, Continue
  <2> QED
    BY <1>5, <2>1, <2>2, <2>3, <2>4
<1> QED
  BY <1>2, <1>3, <1>5, StepMoves DEF Still, ServerMove, TerminalMove, VoterMove, LocalMove

LEMMA ReplyStays ==
    ASSUME SyncInvariant, [Next]_vars, NEW c \in Calls, calls[c].pc = "replied"
    PROVE  calls'[c] = calls[c]
<1>1. ServerInv
  BY DEF SyncInvariant, BaseInvariant
<1>2. CASE ServerMove
  BY <1>1, <1>2, OperatorMoves DEF ServerMove, HandlerMove
<1>3. ASSUME NEW t \in Terminals, NEW a \in Attempts, BeginMove(t, a)
      PROVE  calls'[c] = calls[c]
  <2>1. c # <<t, a>>
    BY <1>3 DEF BeginMove
  <2> QED
    BY <1>1, <1>3, <2>1 DEF BeginMove, ServerInv
<1> QED
  BY <1>2, <1>3, StepMoves DEF Still, TerminalMove, VoterMove, CrashMove, EndMove, AcceptMove,
                               StoreMove

\* Rows that displace each other by client id belong to one voter.
LEMMA ArrivedStays ==
    ASSUME SyncInvariant, [Next]_vars, NEW t \in Terminals, NEW c \in Calls,
           NEW q \in calls[c].output.requests, Arrived(db[t], q)
    PROVE  Arrived(db'[t], q)
<1>1. /\ Invariant /\ OneFilingOneVoter
      /\ \A r \in RequestCopies : <<r.clientId, r.cac>> \in filed
      /\ \A x \in srv.requests : x.id # None
  <2>1. \A x \in srv.requests : x.id \in Uuid
    BY DEF SyncInvariant, BaseInvariant, ServerInv, TablesOK, ServerTables, RequestOutput
  <2> QED
    BY <2>1, IdsAssumption DEF SyncInvariant, BaseInvariant, CopiesFiled, Filings
<1>2. q \in RequestCopies /\ db[t].requests \subseteq RequestCopies /\ srv.requests \subseteq RequestCopies
  BY CopiesAre DEF CallRequests
<1>3. CASE db' = db
  BY <1>3
<1>4. ASSUME NEW s \in Terminals, NEW d, TablesMove(s, d)
      PROVE  Arrived(db'[t], q)
  <2>1. CASE s # t \/ d.requests = db[t].requests
    <3>1. db'[t].requests = db[t].requests
      BY <1>1, <1>4, <2>1, StoreIs DEF TablesMove
    <3> QED
      BY <3>1 DEF Arrived
  <2>2. CASE s = t /\ d.requests # db[t].requests
    <3>1. db'[t] = d
      BY <1>1, <1>4, <2>2, StoreIs DEF TablesMove
    <3>2. PICK new : /\ PutsRequest(t, d, new)
                     /\ \/ FreshRequest(t, new)
                        \/ \E x \in srv.requests : new = RequestFromServer(t, x)
      BY <1>4, <2>2 DEF TablesMove
    <3>3. ASSUME FreshRequest(t, new), NEW r \in RequestCopies
          PROVE  r.clientId # new.clientId
      <4>1. <<r.clientId, r.cac>> \in filed /\ <<r.clientId, r.cac>>[1] = r.clientId
        BY <1>1
      <4>2. r.clientId[1] = t => r.clientId[2] \in 1 .. issued[t]
        BY <1>1, <4>1 DEF Invariant, DrawnIds
      <4>3. issued[t] \in Nat
        BY <1>1 DEF Invariant, Types
      <4> QED
        BY <3>3, <4>2, <4>3 DEF FreshRequest
    <3>4. ASSUME NEW x \in srv.requests, new = RequestFromServer(t, x)
          PROVE  /\ new.serverId # None
                 /\ \A r \in RequestCopies : r.clientId = new.clientId => r.cac = new.cac
      BY <1>1, <1>2, <3>4 DEF RequestFromServer, OneFilingOneVoter
    <3>5. PICK r \in db[t].requests : r.cac = q.cac
      BY DEF Arrived
    <3>8. ASSUME NEW x \in d.requests, x.clientId = q.clientId
          PROVE  x.serverId # None
      <4>1. CASE x \in db[t].requests
        BY <3>8, <4>1 DEF Arrived
      <4>2. CASE x = new
        BY <1>2, <3>2, <3>3, <3>4, <3>8, <4>2
      <4> QED
        BY <3>2, <4>1, <4>2 DEF PutsRequest
    <3>6. CASE r \in d.requests
      BY <3>1, <3>5, <3>6, <3>8 DEF Arrived
    <3>7. CASE r \notin d.requests
      <4>1. r \in DisplacedRequests(db[t], new) /\ r.id # new.id
        BY <3>2, <3>7 DEF PutsRequest
      <4>2. new.cac = q.cac /\ new \in d.requests
        BY <1>2, <3>2, <3>3, <3>4, <3>5, <4>1 DEF DisplacedRequests, PutsRequest
      <4> QED
        BY <3>1, <3>8, <4>2 DEF Arrived
    <3> QED
      BY <3>6, <3>7
  <2> QED
    BY <2>1, <2>2
<1> QED
  BY <1>3, <1>4, TablesMoves

LEMMA StatementIs ==
    ASSUME Invariant, NEW t \in Terminals, NEW a \in Attempts, NEW d, NEW rest,
           StatementMove(t, a, d, rest)
    PROVE  /\ db'[t] = d
           /\ sync[t][a].pc \in {"reset", "applying"}
           /\ sync'[t][a] = [pc |-> IF rest = NoTodo THEN "done" ELSE "applying", todo |-> rest]
           /\ sync'[t][a].pc \in {"applying", "done"} /\ sync'[t][a].todo = rest
           /\ attempts' = attempts
<1>1. PICK pc : pc = IF rest = NoTodo THEN "done" ELSE "applying"
  OBVIOUS
<1>2. /\ sync[t][a].pc \in {"reset", "applying"} /\ Store(t, d) /\ Goto(t, a, pc, rest)
      /\ attempts' = attempts
  BY <1>1 DEF StatementMove, Continue
<1>3. db'[t] = d
  BY <1>2, StoreIs
<1>4. sync'[t][a] = [pc |-> pc, todo |-> rest]
  BY <1>2, GotoIs
<1>5. sync'[t][a].pc = pc /\ sync'[t][a].todo = rest
  BY <1>2, GotoPc
<1> QED
  BY <1>1, <1>2, <1>3, <1>4, <1>5

LEMMA ProgressStays ==
    ASSUME SyncInvariant, [Next]_vars
    PROVE  Progress'
<1> SUFFICES ASSUME NEW t \in Terminals, NEW a \in Attempts
             PROVE  /\ sync'[t][a].pc \notin {"reset", "applying"} => sync'[t][a].todo = NoTodo
                    /\ Storing(t, a)' =>
                          /\ calls'[<<t, a>>].pc = "replied"
                          /\ calls'[<<t, a>>].output.status = 200
                          /\ \A q \in calls'[<<t, a>>].output.requests :
                                 q \in sync'[t][a].todo.requests \/ Arrived(db'[t], q)
  BY DEF Progress
<1> DEFINE c == <<t, a>>
           s == sync[t][a]
<1>1. /\ Invariant /\ c \in Calls
      /\ s.pc \notin {"reset", "applying"} => s.todo = NoTodo
      /\ Storing(t, a) =>
            /\ calls[c].pc = "replied" /\ calls[c].output.status = 200
            /\ \A q \in calls[c].output.requests : q \in s.todo.requests \/ Arrived(db[t], q)
  BY CallOfTerminal DEF SyncInvariant, BaseInvariant, Progress
<1>2. CASE Untouched(t, a)
  <2>1. Storing(t, a)' => Storing(t, a) /\ calls'[c] = calls[c]
    BY <1>1, <1>2, ReplyStays DEF Untouched, Storing
  <2> QED
    BY <1>1, <1>2, <2>1, ArrivedStays DEF Untouched
<1>3. CASE Lost(t, a)
  BY <1>3 DEF Lost, Storing
<1>4. CASE BeginMove(t, a)
  <2>1. sync'[t][a] = [pc |-> "fetching", todo |-> NoTodo]
    BY <1>1, <1>4, GotoIs DEF BeginMove
  <2> QED
    BY <2>1 DEF Storing
<1>5. CASE EndMove(t, a)
  <2>1. sync'[t][a] = [pc |-> "done", todo |-> NoTodo] /\ attempts'[t][a] = "failure"
    BY <1>1, <1>5, GotoIs, MarkIs DEF EndMove, Fail
  <2> QED
    BY <2>1 DEF Storing
<1>6. CASE AcceptMove(t, a)
  <2>1. sync'[t][a] = [pc |-> "reset", todo |-> Todo(calls[c].output)]
    BY <1>1, <1>6, GotoIs DEF AcceptMove
  <2>2. sync'[t][a].todo.requests = calls[c].output.requests
    BY <2>1 DEF Todo
  <2>3. calls' = calls /\ calls[c].pc = "replied" /\ calls[c].output.status = 200
    BY <1>6 DEF AcceptMove
  <2> QED
    BY <2>1, <2>2, <2>3
<1>7. CASE StoreMove(t, a)
  <2>1. PICK d, rest : StatementMove(t, a, d, rest)
    BY <1>7 DEF StoreMove
  <2>2. /\ db'[t] = d /\ s.pc \in {"reset", "applying"}
        /\ sync'[t][a] = [pc |-> IF rest = NoTodo THEN "done" ELSE "applying", todo |-> rest]
    BY <1>1, <2>1, StatementIs
  <2>3. Storing(t, a) /\ calls' = calls
    BY <1>7, <2>2 DEF Storing, StoreMove
  <2>4. ASSUME NEW q \in calls[c].output.requests
        PROVE  q \in rest.requests \/ Arrived(d, q)
    <3>1. CASE Arrived(db[t], q)
      BY <1>1, <2>2, <3>1, ArrivedStays
    <3>2. CASE q \in s.todo.requests /\ q \notin rest.requests
      <4>1. PutsRequest(t, d, RequestFromServer(t, q))
        BY <2>1, <3>2 DEF StatementMove
      <4>2. q.id # None
        <5>1. q.id \in Uuid
          BY <1>1 DEF SyncInvariant, BaseInvariant, ServerInv, CallType, SyncOutput, RequestOutput
        <5> QED
          BY <5>1, IdsAssumption
      <4> QED
        <5> DEFINE new == RequestFromServer(t, q)
        <5>1. new.cac = q.cac /\ new.clientId = q.clientId /\ new.serverId # None
          BY <4>2 DEF RequestFromServer
        <5>2. PutsRequest(t, d, new)
          BY <4>1
        <5> HIDE DEF new
        <5> QED
          BY <5>1, <5>2 DEF PutsRequest, DisplacedRequests, Arrived
    <3> QED
      BY <1>1, <2>3, <3>1, <3>2
  <2> QED
    BY <1>1, <2>2, <2>3, <2>4
<1> QED
  BY <1>2, <1>3, <1>4, <1>5, <1>6, <1>7, OneSync

LEMMA AdminsStay ==
    ASSUME SyncInvariant, [Next]_vars
    PROVE  Admins'
<1>1. Invariant /\ AttemptsInvariant /\ Progress /\ Admins
  BY DEF SyncInvariant, BaseInvariant
<1>2. ASSUME NEW t \in Terminals, NEW a \in Attempts, sync'[t][a].pc = "reset"
      PROVE  sync'[t][a].todo.admins = calls'[<<t, a>>].output.admins
  <2> DEFINE c == <<t, a>>
  <2>1. CASE Untouched(t, a)
    <3>1. calls'[c] = calls[c]
      BY <1>1, <1>2, <2>1, ReplyStays, CallOfTerminal DEF Untouched, Progress, Storing
    <3> QED
      BY <1>1, <1>2, <2>1, <3>1 DEF Untouched, Admins
  <2>2. CASE AcceptMove(t, a)
    <3>1. sync'[t][a] = [pc |-> "reset", todo |-> Todo(calls[c].output)] /\ calls' = calls
      BY <1>1, <2>2, GotoIs DEF AcceptMove
    <3>2. sync'[t][a].todo.admins = calls[c].output.admins
      BY <3>1 DEF Todo
    <3> QED
      BY <3>1, <3>2
  <2>3. CASE StoreMove(t, a)
    <3>1. PICK d, rest : StatementMove(t, a, d, rest)
      BY <2>3 DEF StoreMove
    <3> QED
      BY <1>1, <1>2, <3>1, StatementIs
  <2>4. CASE BeginMove(t, a) \/ EndMove(t, a)
    BY <1>1, <1>2, <2>4, GotoPc DEF BeginMove, EndMove, Fail
  <2> QED
    BY <1>2, <2>1, <2>2, <2>3, <2>4, OneSync DEF Lost
<1>3. ASSUME NEW t \in Terminals, db'[t].admins = {}, InitialAdmins # {}
      PROVE  \E a \in Attempts : EmptiedBy(t, a)'
  <2>1. ASSUME NEW a \in Attempts, EmptiedBy(t, a) PROVE EmptiedBy(t, a)'
    <3> DEFINE c == <<t, a>>
    <3>1. c \in Calls /\ sync[t][a].pc \in {"halfApplied", "applying", "done"}
      BY <2>1, CallOfTerminal DEF EmptiedBy
    <3>2. CASE Untouched(t, a)
      BY <2>1, <3>1, <3>2, ReplyStays DEF Untouched, EmptiedBy
    <3>3. CASE Lost(t, a)
      BY <3>1, <3>3 DEF Lost, EmptiedBy
    <3>4. CASE BeginMove(t, a) \/ AcceptMove(t, a)
      BY <1>1, <3>1, <3>4
      DEF BeginMove, AcceptMove, Fetching, AttemptsInvariant, AttemptsTell, AttemptOf
    <3>5. CASE EndMove(t, a)
      <4>1. sync'[t][a].pc = "done" /\ calls' = calls
        BY <1>1, <3>5, GotoPc DEF EndMove, Fail
      <4>2. sync[t][a].pc = "applying" /\ sync[t][a].todo.admins = {}
        BY <3>1, <3>5 DEF EndMove, Fetching
      <4> QED
        BY <2>1, <4>1, <4>2 DEF EmptiedBy
    <3>6. CASE StoreMove(t, a)
      <4>1. PICK d, rest : StatementMove(t, a, d, rest)
        BY <3>6 DEF StoreMove
      <4>2. sync'[t][a].pc \in {"applying", "done"}
        BY <1>1, <4>1, StatementIs
      <4>4. db'[t] = d /\ calls' = calls
        BY <1>1, <3>6, <4>1, StoreIs DEF StoreMove, StatementMove
      <4>3. sync[t][a].todo.admins = {} /\ sync[t][a].pc = "applying"
        BY <1>3, <3>1, <4>1, <4>4 DEF StatementMove
      <4> QED
        BY <2>1, <4>2, <4>3, <4>4 DEF EmptiedBy
    <3> QED
      BY <3>2, <3>3, <3>4, <3>5, <3>6, OneSync
  <2>2. CASE db[t].admins = {}
    BY <1>1, <1>3, <2>1, <2>2 DEF Admins
  <2>3. ASSUME NEW s \in Terminals, VoterMove(s) PROVE db[t].admins = {}
    <3>1. PICK d : LocalMove(s, d)
      BY <2>3 DEF VoterMove
    <3> QED
      BY <1>1, <1>3, <3>1, StoreIs DEF LocalMove
  <2>4. ASSUME NEW s \in Terminals, NEW a \in Attempts, StoreMove(s, a), db[t].admins # {}
        PROVE  EmptiedBy(t, a)'
    <3> DEFINE c == <<t, a>>
    <3>1. PICK d, rest : StatementMove(s, a, d, rest)
      BY <2>4 DEF StoreMove
    <3>2. s = t /\ db'[t] = d
      BY <1>1, <1>3, <2>4, <3>1, StoreIs DEF StatementMove
    <3>3. sync[t][a].pc = "reset" /\ rest = sync[t][a].todo
      BY <1>3, <2>4, <3>1, <3>2 DEF StatementMove
    <3>4. rest.admins = calls[c].output.admins /\ calls' = calls
      BY <1>1, <2>4, <3>3 DEF Admins, StoreMove
    <3>5. calls[c].pc = "replied" /\ calls[c].output.status = 200
      BY <1>1, <3>3 DEF Progress, Storing
    <3>6. sync'[t][a] = [pc |-> IF rest = NoTodo THEN "done" ELSE "applying", todo |-> rest]
      BY <1>1, <3>1, <3>2, StatementIs
    <3> QED
      BY <3>4, <3>5, <3>6, NothingToDo DEF EmptiedBy
  <2> QED
    BY <1>3, <2>2, <2>3, <2>4, StepMoves
    DEF Still, ServerMove, TerminalMove, CrashMove, BeginMove, EndMove, AcceptMove
<1> QED
  BY <1>2, <1>3 DEF Admins

-----------------------------------------------------------------------------
(* The invariant holds, so both refinements do.                             *)

LEMMA InitSync == Init => SyncInvariant
<1> SUFFICES ASSUME Init PROVE SyncInvariant
  OBVIOUS
<1>1. Invariant /\ AttemptsInvariant /\ ServerInv /\ FiledOnce
  BY InitInvariant, InitAttempts, InitServerInv, InitIsJourney DEF Init
<1>2. /\ srv = NoRows
      /\ \A c \in Calls : calls[c] = IdleCall
      /\ \A t \in Terminals : db[t] = EmptyDatabase
      /\ \A t \in Terminals, a \in Attempts : sync[t][a] = IdleSync
  BY DEF Init, TerminalInit, MarkInit, ServerInit
<1>3. RequestCopies = {}
  BY <1>2 DEF RequestCopies, NoRows, IdleCall, NoInput, EmptyDatabase, IdleSync, NoTodo, Todo
<1>4. CopiesFiled /\ OneFilingOneVoter
  BY <1>3 DEF CopiesFiled, Filings, OneFilingOneVoter
<1>5. Copied
  BY <1>2 DEF Copied, Kinds, NoRows, IdleCall, IdleSync, NoTodo, Todo
<1>6. UniqueStamps
  <2>1. \A k \in Kinds : StampedIn(k) = {}
    BY <1>2 DEF StampedIn, Kinds, NoRows, IdleCall
  <2> QED
    BY <2>1 DEF UniqueStamps
<1>7. Learned /\ SyncedOnServer
  BY <1>2 DEF Learned, SyncedOnServer, EmptyDatabase
<1>8. Progress
  BY <1>2 DEF Progress, Storing, IdleSync
<1>9. Admins
  BY <1>2 DEF Admins, IdleSync, EmptyDatabase
<1> QED
  BY <1>1, <1>4, <1>5, <1>6, <1>7, <1>8, <1>9 DEF SyncInvariant, BaseInvariant

LEMMA NextSync == SyncInvariant /\ [Next]_vars => SyncInvariant'
<1> SUFFICES ASSUME SyncInvariant, [Next]_vars PROVE SyncInvariant'
  OBVIOUS
<1>1. BaseInvariant'
  BY HalvesKeep, CopiesStay, CopiedStays DEF BaseInvariant
<1> QED
  BY <1>1, CopiesStay, StampsStay, LearnedStays, SyncedStays, ProgressStays, AdminsStay
  DEF SyncInvariant

LEMMA SyncInvariantHolds == Spec => []SyncInvariant
BY InitSync, NextSync, PTL DEF Spec

(* The server of rave-server is one RaveTerminal allows: in the composition *)
(* every reply a terminal receives keeps the promise Honest.  All that is   *)
(* proved of TerminalSpec holds of the terminals here.                      *)
THEOREM TerminalsFaceAnHonestServer == Spec => TerminalSpec
<1>1. Init => TerminalInit
  BY DEF Init
<1> QED
  BY <1>1, TerminalsStep, SyncInvariantHolds, PTL DEF Spec, TerminalSpec

(* The terminals are clients RaveServer allows: they name as last synced    *)
(* row only a row the server has had, whatever replies were lost.  All that *)
(* is proved of ServerSpec holds of the server here.                        *)
THEOREM ServerFacesTheTerminals == Spec => ServerSpec
<1>1. Init => ServerInit
  BY DEF Init
<1> QED
  BY <1>1, ServersStep, SyncInvariantHolds, PTL DEF Spec, ServerSpec

(* One filing, one voter: every copy of a request, stored, on the wire or   *)
(* half inserted, has the CAC and the machine it was filed with.            *)
THEOREM CopiesOfOneVoter == Spec => []OneFilingOneVoter
<1>1. SyncInvariant => OneFilingOneVoter
  BY DEF SyncInvariant
<1> QED
  BY <1>1, SyncInvariantHolds, PTL

(* A request with a server id on a terminal is a committed row of the       *)
(* server, with that client id, CAC and machine.                            *)
THEOREM SyncedRowsExist == Spec => []SyncedOnServer
<1>1. SyncInvariant => SyncedOnServer
  BY DEF SyncInvariant
<1> QED
  BY <1>1, SyncInvariantHolds, PTL

(* After a sync that ended as a success every voter of its reply has a      *)
(* request on the terminal.                                                 *)
THEOREM NoVoterOfReplyLost == Spec => []VotersOfReplyKnown
<1>1. SyncInvariant => VotersOfReplyKnown
  <2> SUFFICES ASSUME SyncInvariant, NEW t \in Terminals, NEW a \in Attempts,
                      sync[t][a].pc = "done", attempts[t][a] = "success",
                      NEW q \in calls[<<t, a>>].output.requests
               PROVE  \E r \in db[t].requests : r.cac = q.cac
    BY DEF VotersOfReplyKnown
  <2>1. sync[t][a].todo = NoTodo /\ (q \in sync[t][a].todo.requests \/ Arrived(db[t], q))
    BY DEF SyncInvariant, Progress, Storing
  <2> QED
    BY <2>1, NothingToDo DEF Arrived
<1> QED
  BY <1>1, SyncInvariantHolds, PTL

(* After a sync that ended as a success no request the server stored for it *)
(* waits to be sent again.                                                  *)
THEOREM NothingStoredIsResent == Spec => []StoredIsNotResent
<1>1. SyncInvariant => StoredIsNotResent
  <2> SUFFICES ASSUME SyncInvariant, NEW t \in Terminals, NEW a \in Attempts,
                      sync[t][a].pc = "done", attempts[t][a] = "success",
                      NEW r \in db[t].requests, NEW q \in srv.requests,
                      q.id \in calls[<<t, a>>].added, q.clientId = r.clientId
               PROVE  r.serverId # None
    BY DEF StoredIsNotResent
  <2> DEFINE c == <<t, a>>
             output == calls[c].output
  <2>1. /\ c \in Calls /\ sync[t][a].todo = NoTodo
        /\ calls[c].pc = "replied" /\ output.status = 200
        /\ \A x \in output.requests : x \in sync[t][a].todo.requests \/ Arrived(db[t], x)
    BY CallOfTerminal DEF SyncInvariant, Progress, Storing
  <2>2. AcceptedIsReturned
    BY ServerInvImplies DEF SyncInvariant, BaseInvariant
  <2>3. PICK x \in output.requests \cup output.registrations \cup output.ballots : x.id = q.id
    BY <2>1, <2>2 DEF AcceptedIsReturned
  <2>4. PICK k \in {"requests", "registrations", "ballots"} : x \in output[k]
    BY <2>3
  <2>5. x \in StampedIn(k) /\ q \in StampedIn("requests") /\ {k, "requests"} \subseteq Kinds
    BY <2>1, <2>4 DEF SyncInvariant, BaseInvariant, Copied, StampedIn, Kinds
  <2>6. k = "requests" /\ x = q
    BY <2>3, <2>5 DEF SyncInvariant, UniqueStamps
  <2>7. Arrived(db[t], q)
    BY <2>1, <2>4, <2>6, NothingToDo
  <2> QED
    BY <2>7 DEF Arrived
<1> QED
  BY <1>1, SyncInvariantHolds, PTL

(* Only a crash while a reply is stored, or a reply that names no admin,    *)
(* leaves a terminal without the admins it had.                             *)
THEOREM AdminsLostOnlyThen == Spec => []AdminsSurvive
<1>1. SyncInvariant => AdminsSurvive
  BY DEF SyncInvariant, Admins, EmptiedBy, AdminsSurvive, Busy
<1> QED
  BY <1>1, SyncInvariantHolds, PTL

(* So the server's replies return all they accepted, the records of the     *)
(* server and of the terminals belong to one voter, and a voter's status    *)
(* moves as VoterJourney allows, with both sides running.                   *)
THEOREM HalvesHoldTogether ==
    Spec => []AcceptedIsReturned /\ []ServerRecordsOfOneVoter /\ []RecordsOfOneVoter
            /\ []OneRecordPerVoter /\ JourneySpec
BY TerminalsFaceAnHonestServer, ServerFacesTheTerminals, RepliesReturnAccepted,
   RecordsHangTogether, RecordsStayTogether, NoVoterTwice, TerminalsImplementJourney, PTL
=============================================================================
