----------------------------- MODULE RaveServer ------------------------------
(***************************************************************************)
(* services/rave-server: the Postgres tables and the handler of            *)
(* POST /api/rave-mark/sync (routes.rs, db.rs).                            *)
(*                                                                         *)
(* A call is one HTTP request.  Its handler awaits every SQL statement on  *)
(* a pooled connection of its own and uses no transaction, so the handlers *)
(* of several calls interleave statement by statement.  An INSERT takes    *)
(* its created_at when it starts and its row is seen by others when it     *)
(* commits.  Rows enter the tables admins, elections and (but for the      *)
(* terminals' empty list) registrations only by SQL run by an operator.    *)
(***************************************************************************)
EXTENDS RaveWire

CONSTANTS
    Calls,        \* names of the HTTP requests
    MaxExternal   \* bound on the rows an operator inserts by hand

ASSUME ServerAssumption == MaxExternal \in Nat

VARIABLES
    srv,     \* the committed tables
    clock,   \* the clock of the server, which also numbers its rows
    external,\* number of rows inserted by hand
    calls    \* the handlers

serverVars == <<srv, clock, external, calls>>

Tables == DOMAIN NoRows

NoInput == [lastRequest |-> None, lastRegistration |-> None,
            lastElection |-> None, lastBallot |-> None,
            requests |-> {}, registrations |-> {}, ballots |-> {}]

\* "inserting" handles the body, the get... states read one table each.
CallStates ==
    {"idle", "inserting", "getAdmins", "getElections", "getRequests",
     "getRegistrations", "getBallots", "replied", "dropped"}

Reading == {"getAdmins", "getElections", "getRequests", "getRegistrations",
            "getBallots"}

\* pc: where the handler is; input: the body, less the items handled;
\* pending: the INSERT that has started, as a set of at most one record;
\* added: the ServerIds the add_... functions returned; output: the reply.
IdleCall ==
    [pc |-> "idle", input |-> NoInput, pending |-> {}, added |-> {},
     output |-> [status |-> 500, admins |-> {}, elections |-> {},
                 requests |-> {}, registrations |-> {}, ballots |-> {}]]

\* The clock starts at 1: no row is numbered 0.
ServerInit ==
    /\ srv = NoRows
    /\ clock = 1
    /\ external = 0
    /\ calls = [c \in Calls |-> IdleCall]

-----------------------------------------------------------------------------
(* The handler: the loops that insert what the terminal sent                *)

\* The request reaches the server; a call is made once.
Submit(c, input) ==
    /\ calls[c].pc = "idle"
    /\ calls' = [calls EXCEPT ![c] = [@ EXCEPT !.pc = "inserting", !.input = input]]
    /\ UNCHANGED <<srv, clock, external>>

CanStartInsert(c) == calls[c].pc = "inserting" /\ calls[c].pending = {}

NewId == <<Server, clock>>

\* INSERT INTO table: created_at is current_timestamp when it starts.
StartInsert(c, table, item, row) ==
    /\ calls' = [calls EXCEPT ![c] =
                    [calls[c] EXCEPT !.input[table] = calls[c].input[table] \ {item},
                                     !.pending = {[table |-> table, row |-> row]}]]
    /\ clock' = clock + 1
    /\ UNCHANGED <<srv, external>>

AddRequest(c) ==
    /\ CanStartInsert(c)
    /\ \E item \in calls[c].input.requests :
           StartInsert(c, "requests", item,
               [id |-> NewId, clientId |-> item.clientId,
                machineId |-> item.machineId, cac |-> item.cac])

\* fetch_one takes any row that matches; with none the item is dropped, and
\* the error is only logged.
RequestsFor(item) ==
    {r \in srv.requests : /\ r.clientId = item.requestId
                          /\ r.machineId = item.machineId
                          /\ r.cac = item.cac}

ElectionsFor(item) == {e \in srv.elections : e.id = item.electionId}

AddRegistration(c) ==
    /\ CanStartInsert(c)
    /\ calls[c].input.requests = {}
    /\ \E item \in calls[c].input.registrations :
       \E r \in RequestsFor(item), e \in ElectionsFor(item) :
           StartInsert(c, "registrations", item,
               [id |-> NewId, clientId |-> item.clientId,
                machineId |-> item.machineId, cac |-> item.cac,
                requestId |-> r.id, electionId |-> e.id])

\* A slip to detect: the ballot's voter and machine are not compared.
RegistrationsOfAnyone(item) ==
    {g \in srv.registrations : g.clientId = item.registrationId}

RegistrationsFor(item) ==
    {g \in srv.registrations : /\ g.clientId = item.registrationId
                               /\ g.machineId = item.machineId
                               /\ g.cac = item.cac}

AddBallot(c) ==
    /\ CanStartInsert(c)
    /\ calls[c].input.requests = {}
    /\ calls[c].input.registrations = {}
    /\ \E item \in calls[c].input.ballots : \E g \in RegistrationsFor(item) :
           StartInsert(c, "ballots", item,
               [id |-> NewId, clientId |-> item.clientId,
                machineId |-> item.machineId, cac |-> item.cac,
                registrationId |-> g.id])

Drop(c, table, item) ==
    /\ calls' = [calls EXCEPT ![c].input[table] = @ \ {item}]
    /\ UNCHANGED <<srv, clock, external>>

DropRegistration(c) ==
    /\ CanStartInsert(c)
    /\ calls[c].input.requests = {}
    /\ \E item \in calls[c].input.registrations :
           /\ RequestsFor(item) = {} \/ ElectionsFor(item) = {}
           /\ Drop(c, "registrations", item)

DropBallot(c) ==
    /\ CanStartInsert(c)
    /\ calls[c].input.requests = {}
    /\ calls[c].input.registrations = {}
    /\ \E item \in calls[c].input.ballots :
           /\ RegistrationsFor(item) = {}
           /\ Drop(c, "ballots", item)

\* The INSERT commits, and the add_... function returns the new id.
CommitInsert(c) ==
    \E p \in calls[c].pending :
        /\ srv' = [srv EXCEPT ![p.table] = @ \cup {p.row}]
        /\ calls' = [calls EXCEPT ![c] = [calls[c] EXCEPT !.pending = {},
                                    !.added = calls[c].added \cup {p.row.id}]]
        /\ UNCHANGED <<clock, external>>

\* The INSERT fails (a value too long for its column, a lost connection):
\* the error is logged and the loop goes on.
FailInsert(c) ==
    /\ calls[c].pending # {}
    /\ calls' = [calls EXCEPT ![c].pending = {}]
    /\ UNCHANGED <<srv, clock, external>>

-----------------------------------------------------------------------------
(* The handler: one query per table of the reply                            *)

\* A slip to detect: off by one at the row the terminal names.
SinceSkipsOne(rows, last) ==
    IF \E r \in rows : r.id = last
    THEN {r \in rows : r.id[2] > last[2] + 1}
    ELSE rows

\* A slip to detect: every row but the one the terminal names.
SinceAllButLast(rows, last) == {r \in rows : r.id # last}

\* The rows of a table created after the row the terminal names, or all of
\* them when the terminal names no row of this table.
Since(rows, last) ==
    IF \E r \in rows : r.id = last
    THEN {r \in rows : r.id[2] > last[2]}
    ELSE rows

Read(c, here, next, table, rows) ==
    /\ calls[c].pc = here
    /\ calls' = [calls EXCEPT ![c] = [@ EXCEPT !.pc = next, !.output[table] = rows]]
    /\ UNCHANGED <<srv, clock, external>>

FinishInserts(c) ==
    /\ CanStartInsert(c)
    /\ calls[c].input.requests = {}
    /\ calls[c].input.registrations = {}
    /\ calls[c].input.ballots = {}
    /\ calls' = [calls EXCEPT ![c].pc = "getAdmins"]
    /\ UNCHANGED <<srv, clock, external>>

GetAdmins(c) == Read(c, "getAdmins", "getElections", "admins", srv.admins)

GetElections(c) ==
    Read(c, "getElections", "getRequests", "elections",
         Since(srv.elections, calls[c].input.lastElection))

GetRequests(c) ==
    Read(c, "getRequests", "getRegistrations", "requests",
         Since(srv.requests, calls[c].input.lastRequest))

GetRegistrations(c) ==
    Read(c, "getRegistrations", "getBallots", "registrations",
         Since(srv.registrations, calls[c].input.lastRegistration))

\* The last query; the handler returns 200 with all it has read.
GetBallots(c) ==
    /\ calls[c].pc = "getBallots"
    /\ LET rows == Since(srv.ballots, calls[c].input.lastBallot) IN
       calls' = [calls EXCEPT ![c] =
                    [calls[c] EXCEPT
                        !.pc = "replied", !.input = NoInput,
                        !.output = [calls[c].output EXCEPT !.status = 200,
                                                           !.ballots = rows]]]
    /\ UNCHANGED <<srv, clock, external>>

\* A query fails: the handler returns 500.
FailRead(c) ==
    /\ calls[c].pc \in Reading
    /\ calls' = [calls EXCEPT ![c] = [@ EXCEPT !.pc = "replied", !.input = NoInput,
                                              !.output = IdleCall.output]]
    /\ UNCHANGED <<srv, clock, external>>

\* The server stops, or the connection breaks and the handler is dropped at
\* one of its awaits.  A statement Postgres has committed stays.
DropCall(c) ==
    /\ calls[c].pc \in Reading \cup {"inserting"}
    /\ calls' = [calls EXCEPT ![c] = [IdleCall EXCEPT !.pc = "dropped",
                                                     !.added = calls[c].added]]
    /\ UNCHANGED <<srv, clock, external>>

Handle(c) ==
    \/ AddRequest(c) \/ AddRegistration(c) \/ AddBallot(c)
    \/ DropRegistration(c) \/ DropBallot(c) \/ CommitInsert(c)
    \/ FinishInserts(c) \/ GetAdmins(c) \/ GetElections(c) \/ GetRequests(c)
    \/ GetRegistrations(c) \/ GetBallots(c)

Fault(c) == FailInsert(c) \/ FailRead(c) \/ DropCall(c)

-----------------------------------------------------------------------------
(* Rows an operator inserts by hand                                         *)

External(table, row) ==
    /\ external < MaxExternal
    /\ srv' = [srv EXCEPT ![table] = @ \cup {row}]
    /\ external' = external + 1
    /\ clock' = clock + 1
    /\ UNCHANGED calls

InsertAdmin == \E cac \in Cacs \ srv.admins : External("admins", cac)

\* createElection's INSERT names no client_id, a not null column: the
\* endpoint never stores an election and only an operator can.
InsertElection ==
    External("elections", [id |-> NewId, clientId |-> NewId,
                           machineId |-> Server, json |-> "object"])

InsertRegistration ==
    \E r \in srv.requests, e \in srv.elections :
        External("registrations",
            [id |-> NewId, clientId |-> NewId, machineId |-> r.machineId,
             cac |-> r.cac, requestId |-> r.id, electionId |-> e.id])

Operator == InsertAdmin \/ InsertElection \/ InsertRegistration

-----------------------------------------------------------------------------
(* The server and its clients, which send one of a set of bodies            *)

Client(c, inputs) == \E input \in inputs : Submit(c, input)

ServerNext(inputs) ==
    Operator \/ \E c \in Calls : Client(c, inputs) \/ Handle(c) \/ Fault(c)

\* What any client can send: as its last synced rows it names whatever ids it
\* likes, except that it cannot know the id of a row that is not there yet.
Past == {id \in Uuid : id[1] = Server => id[2] < clock}

AnyInput ==
    {input \in SyncInput :
        {input.lastRequest, input.lastRegistration, input.lastElection,
         input.lastBallot} \subseteq Optional(Past)}

ServerSpec == ServerInit /\ [][ServerNext(AnyInput)]_serverVars

-----------------------------------------------------------------------------
PendingInsert ==
    [table : {"requests"}, row : RequestOutput]
    \cup [table : {"registrations"}, row : RegistrationOutput]
    \cup [table : {"ballots"}, row : BallotOutput]

CallType == [pc : CallStates, input : SyncInput, pending : SUBSET PendingInsert,
             added : SUBSET Uuid, output : SyncOutput]

ServerTables ==
    [admins : SUBSET Cacs, elections : SUBSET ElectionOutput,
     requests : SUBSET RequestOutput, registrations : SUBSET RegistrationOutput,
     ballots : SUBSET BallotOutput]

(* Type invariant of the server: its tables, clock and handlers.  No run    *)
(* lists it; it is where a proof about the server starts.                   *)
ServerTypeOK ==
    /\ srv \in ServerTables
    /\ clock \in Nat
    /\ external \in Nat
    /\ calls \in [Calls -> CallType]

(* A 200 reply of rave_mark_sync returns every row its own handler stored,  *)
(* although the client asks only for what is newer than the last row it     *)
(* knows and other handlers insert meanwhile: the client can learn the id   *)
(* of everything it sent.                                                   *)
AcceptedIsReturned ==
    \A c \in Calls :
        calls[c].pc = "replied" /\ calls[c].output.status = 200 =>
            calls[c].added \subseteq
                {r.id : r \in calls[c].output.requests
                              \cup calls[c].output.registrations
                              \cup calls[c].output.ballots}

(* A ballot of the server belongs to a registration of its voter and        *)
(* machine, and a registration to a request of its voter and to an election:*)
(* add_registration_from_voter_terminal and add_ballot_from_voter_terminal  *)
(* look the parent up before they start their INSERT.                       *)
ServerRecordsOfOneVoter ==
    /\ \A g \in srv.registrations :
           /\ \E r \in srv.requests :
                  r.id = g.requestId /\ r.cac = g.cac /\ r.machineId = g.machineId
           /\ \E e \in srv.elections : e.id = g.electionId
    /\ \A b \in srv.ballots :
           \E g \in srv.registrations :
               g.id = b.registrationId /\ g.cac = b.cac /\ g.machineId = b.machineId

Kinds == {"elections", "requests", "registrations", "ballots"}

\* No row of the server is stamped between two rows of a reply and left out.
NoGapInReply ==
    \A c \in Calls, k \in Kinds :
        calls[c].pc = "replied" =>
            \A r, q \in calls[c].output[k], row \in srv[k] :
                r.id[2] < row.id[2] /\ row.id[2] < q.id[2] =>
                    row \in calls[c].output[k]

\* A call that has left "idle" never comes back to it.
OneCallEver == \A c, d \in Calls : c # d => "idle" \in {calls[c].pc, calls[d].pc}

(* The reply to a call that runs alone leaves no gap, whatever operators    *)
(* insert meanwhile (routes.rs): the terminal's next cursor is the newest   *)
(* row, so a row in a gap would never be sent again.  With two handlers an  *)
(* INSERT that commits after a later-stamped one does leave a gap.          *)
NoGapWhenAlone == OneCallEver => NoGapInReply
=============================================================================
