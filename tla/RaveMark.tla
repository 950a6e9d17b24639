------------------------------ MODULE RaveMark -------------------------------
(***************************************************************************)
(* The voter terminals, apps/rave-mark/backend: the handlers of app.ts that *)
(* write the database, and RaveServerClientImpl.sync.                      *)
(*                                                                         *)
(* A terminal runs one JavaScript thread.  A handler runs from one await   *)
(* to the next without any other handler in between, so each is one action,*)
(* except the loops of sync that apply a reply: each statement there       *)
(* commits on its own and the terminal may lose power between two of them, *)
(* so they are one action per statement, and Busy keeps the other handlers *)
(* of that terminal out while they last.                                   *)
(*                                                                         *)
(* The card reader has told the handler who is logged in (\E cac): the     *)
(* authentication libraries are not part of this module.                   *)
(***************************************************************************)
EXTENDS RaveMarkStore

CONSTANTS
    MaxSyncs,        \* bound on the sync attempts of a terminal
    MaxCrashes,      \* bound on the crashes of a terminal
    MaxNow,          \* bound on the clock of a terminal
    MaxIds,          \* bound on the ids a terminal draws for voters' records
    IntegrationTest, \* IS_INTEGRATION_TEST
    MockServer,      \* USE_MOCK_RAVE_SERVER
    InitialAdmins    \* CACs entered in admins when the terminal was set up

ASSUME MarkAssumption ==
    /\ MaxSyncs \in Nat /\ MaxCrashes \in Nat /\ MaxNow \in Nat /\ MaxIds \in Nat
    /\ IntegrationTest \in BOOLEAN /\ MockServer \in BOOLEAN
    /\ InitialAdmins \subseteq Cacs

VARIABLES
    db,       \* db[t]: the database of terminal t
    attempts, \* attempts[t][a]: the row of server_sync_attempts
    sync,     \* sync[t][a]: the running RaveServerClientImpl.sync call
    issued,   \* issued[t]: how many ids t has drawn
    now,      \* now[t]: the clock of t
    crashes   \* crashes[t]: how often t has crashed

markVars == <<db, attempts, sync, issued, now, crashes>>

Attempts == 1 .. MaxSyncs

\* A row of server_sync_attempts: success is null, true or false.
AttemptStates == {"none", "pending", "success", "failure"}

\* "fetching" awaits the reply; "reset" is about to clear admins; "applying"
\* stores the rows of todo; "lost" and "halfApplied" calls died in a crash.
SyncStates ==
    {"idle", "fetching", "reset", "applying", "done", "lost", "halfApplied"}

\* The rows of a reply that sync stores; it looks at no ballot.

\* A slip to detect: the admins are cleared and not read back.
TodoWithoutAdmins(output) ==
    [admins |-> {}, elections |-> output.elections,
     requests |-> output.requests, registrations |-> output.registrations]

Todo(output) ==
    [admins |-> output.admins, elections |-> output.elections,
     requests |-> output.requests, registrations |-> output.registrations]

NoTodo == Todo(NoRows)

IdleSync == [pc |-> "idle", todo |-> NoTodo]

EmptyDatabase == [admins |-> InitialAdmins, requests |-> {}, elections |-> {},
                  registrations |-> {}, ballots |-> {}]

MarkInit ==
    /\ db = [t \in Terminals |-> EmptyDatabase]
    /\ attempts = [t \in Terminals |-> [a \in Attempts |-> "none"]]
    /\ sync = [t \in Terminals |-> [a \in Attempts |-> IdleSync]]
    /\ issued = [t \in Terminals |-> 0]
    /\ now = [t \in Terminals |-> 0]
    /\ crashes = [t \in Terminals |-> 0]

Busy(t) == \E a \in Attempts : sync[t][a].pc \in {"reset", "applying"}

\* The k-th fresh id of terminal t.
Fresh(t, k) == <<t, issued[t] + k>>

Store(t, d) == db' = [db EXCEPT ![t] = d]

\* A slip to detect: the generator repeats an id.
DrawRepeats(t, k) == UNCHANGED issued

Draw(t, k) == issued' = [issued EXCEPT ![t] = @ + k]
Mark(t, a, status) == attempts' = [attempts EXCEPT ![t][a] = status]
Goto(t, a, pc, todo) ==
    sync' = [sync EXCEPT ![t][a] = [pc |-> pc, todo |-> todo]]

Tick(t) ==
    /\ now[t] < MaxNow
    /\ now' = [now EXCEPT ![t] = @ + 1]
    /\ UNCHANGED <<db, attempts, sync, issued, crashes>>

-----------------------------------------------------------------------------
(* Handlers of the voter                                                    *)

LocalRequest(t, cac) ==
    [id |-> Fresh(t, 1), serverId |-> None, clientId |-> Fresh(t, 1),
     machineId |-> t, cac |-> cac, at |-> now[t]]

\* The status of the voter is not looked at.
CreateVoterRegistration(t, cac) ==
    /\ ~Busy(t)
    /\ issued[t] < MaxIds
    /\ CanPutRequest(db[t], LocalRequest(t, cac))
    /\ Store(t, PutRequest(db[t], LocalRequest(t, cac)))
    /\ Draw(t, 1)
    /\ UNCHANGED <<attempts, sync, now, crashes>>

\* The voter's registration, when its election is stored too.
VotingRegistrations(d, cac) ==
    {g \in d.registrations :
        g.cac = cac /\ \E e \in d.elections : e.id = g.electionId}

SaveVotes(t, cac) ==
    /\ ~Busy(t)
    /\ issued[t] < MaxIds
    /\ \E g \in VotingRegistrations(db[t], cac) :
       LET ballot == [id |-> Fresh(t, 1), serverId |-> None,
                      clientId |-> Fresh(t, 1), machineId |-> t, cac |-> g.cac,
                      registrationId |-> g.id, at |-> now[t]]
       IN  /\ CanPutBallot(db[t], ballot)
           /\ Store(t, PutBallot(db[t], ballot))
    /\ Draw(t, 1)
    /\ UNCHANGED <<attempts, sync, now, crashes>>

\* createTestVoter: with no record; with a request of this terminal; with one
\* that looks synced (serverId and clientId are made up here); and with that
\* and a registration in an election of this terminal.  Its CAC is random.
TestRecords == {"none", "request", "syncedRequest", "registration"}

WithTestRecords(t, d, cac, kind) ==
    LET synced == [id |-> Fresh(t, 3), serverId |-> Fresh(t, 1),
                   clientId |-> Fresh(t, 2), machineId |-> t, cac |-> cac,
                   at |-> now[t]]
        election == [id |-> Fresh(t, 4), serverId |-> None,
                     clientId |-> Fresh(t, 4), machineId |-> t, at |-> now[t]]
        registration == [id |-> Fresh(t, 5), serverId |-> None,
                         clientId |-> Fresh(t, 5), machineId |-> t,
                         cac |-> cac, requestId |-> synced.id,
                         electionId |-> election.id, at |-> now[t]]
    IN  CASE kind = "none" -> d
          [] kind = "request" -> PutRequest(d, LocalRequest(t, cac))
          [] kind = "syncedRequest" -> PutRequest(d, synced)
          [] kind = "registration" ->
                PutRegistration(PutElection(PutRequest(d, synced), election),
                                registration)

NewCac(cac) ==
    \A t \in Terminals : /\ cac \notin db[t].admins
                         /\ \A r \in db[t].requests : r.cac # cac

CreateTestVoter(t, cac, isAdmin, kind) ==
    /\ IntegrationTest
    /\ ~Busy(t)
    /\ issued[t] < MaxIds
    /\ NewCac(cac)
    /\ Store(t, WithTestRecords(t, IF isAdmin THEN PutAdmin(db[t], cac) ELSE db[t],
                                cac, kind))
    /\ Draw(t, 5)
    /\ UNCHANGED <<attempts, sync, now, crashes>>

-----------------------------------------------------------------------------
(* RaveServerClientImpl.sync                                                *)

\* Attempt rows are used in order.
NextAttempt(t, a) ==
    /\ attempts[t][a] = "none"
    /\ \A b \in 1 .. (a - 1) : attempts[t][b] # "none"

\* An admin is logged in.  The attempt is recorded and the input is read
\* before the first await; nothing keeps a second sync from starting.
StartSync(t, a, input) ==
    /\ ~Busy(t)
    /\ db[t].admins # {}
    /\ NextAttempt(t, a)
    /\ input \in SyncInputs(db[t])
    /\ Mark(t, a, "pending")
    /\ Goto(t, a, "fetching", NoTodo)
    /\ UNCHANGED <<db, issued, now, crashes>>

\* A slip to detect: the catch block forgets the attempt row.
FailSilently(t, a) ==
    /\ Goto(t, a, "done", NoTodo)
    /\ UNCHANGED attempts

\* The catch block of sync.
Fail(t, a) ==
    /\ Mark(t, a, "failure")
    /\ Goto(t, a, "done", NoTodo)

\* A slip to detect: an answer is taken again after the sync has ended.
FetchingTwice(t, a) ==
    ~MockServer /\ ~Busy(t) /\ sync[t][a].pc \in {"fetching", "done"}

Fetching(t, a) == ~MockServer /\ ~Busy(t) /\ sync[t][a].pc = "fetching"

Acceptable(output) == output.status = 200 /\ MatchesSchema(output)

\* The attempt is a success before any row of the reply is stored.
AcceptReply(t, a, output) ==
    /\ Fetching(t, a)
    /\ Acceptable(output)
    /\ Mark(t, a, "success")
    /\ Goto(t, a, "reset", Todo(output))
    /\ UNCHANGED <<db, issued, now, crashes>>

RejectReply(t, a, output) ==
    /\ Fetching(t, a)
    /\ ~Acceptable(output)
    /\ Fail(t, a)
    /\ UNCHANGED <<db, issued, now, crashes>>

\* fetch rejects: no connection, or the connection breaks before the reply.
FailFetch(t, a) ==
    /\ Fetching(t, a)
    /\ Fail(t, a)
    /\ UNCHANGED <<db, issued, now, crashes>>

\* A slip to detect: the mock's timer forgets the attempt row.
MockForgets(t, a) ==
    /\ MockServer
    /\ sync[t][a].pc = "fetching"
    /\ Goto(t, a, "done", NoTodo)
    /\ UNCHANGED <<db, attempts, issued, now, crashes>>

\* MockRaveServerClient reports success after a second.
MockReply(t, a) ==
    /\ MockServer
    /\ sync[t][a].pc = "fetching"
    /\ Mark(t, a, "success")
    /\ Goto(t, a, "done", NoTodo)
    /\ UNCHANGED <<db, issued, now, crashes>>

\* Slips to detect: sync returns after one statement; sync never returns.
ContinueStops(t, a, todo) == Goto(t, a, "done", NoTodo)
ContinueForever(t, a, todo) == Goto(t, a, "applying", todo)

\* After a statement: the next one, or the end of sync.
Continue(t, a, todo) ==
    Goto(t, a, IF todo = NoTodo THEN "done" ELSE "applying", todo)

ResetAdminsStep(t, a) ==
    /\ sync[t][a].pc = "reset"
    /\ Store(t, ResetAdmins(db[t]))
    /\ Continue(t, a, sync[t][a].todo)
    /\ UNCHANGED <<attempts, issued, now, crashes>>

Applying(t, a) == sync[t][a].pc = "applying"

ApplyAdmin(t, a) ==
    LET todo == sync[t][a].todo IN
    /\ Applying(t, a)
    /\ \E cac \in todo.admins :
        /\ Store(t, PutAdmin(db[t], cac))
        /\ Continue(t, a, [todo EXCEPT !.admins = @ \ {cac}])
    /\ UNCHANGED <<attempts, issued, now, crashes>>

\* The schema drops machineId from a reply's elections, so createElection
\* defaults it to this machine; id is fresh.
ElectionFromServer(t, e) ==
    [id |-> Fresh(t, 1), serverId |-> e.id, clientId |-> e.clientId,
     machineId |-> t, at |-> now[t]]

ApplyElection(t, a) ==
    LET todo == sync[t][a].todo IN
    /\ Applying(t, a)
    /\ todo.admins = {}
    /\ \E e \in Newest(todo.elections) :
       LET row == ElectionFromServer(t, e) IN
       IF CanPutElection(db[t], row, t)
       THEN /\ Store(t, PutElection(db[t], row))
            /\ Continue(t, a, [todo EXCEPT !.elections = @ \ {e}])
            /\ UNCHANGED attempts
       ELSE /\ Fail(t, a)
            /\ UNCHANGED db
    /\ Draw(t, 1)
    /\ UNCHANGED <<now, crashes>>

\* Slips to detect: the machine is not sent; clientId defaults to the new id;
\* the server id is not stored.
RequestWithoutMachine(t, r) ==
    [id |-> Fresh(t, 1), serverId |-> r.id, clientId |-> r.clientId,
     machineId |-> None, cac |-> r.cac, at |-> now[t]]
RequestWithNewClientId(t, r) ==
    [id |-> Fresh(t, 1), serverId |-> r.id, clientId |-> Fresh(t, 1),
     machineId |-> r.machineId, cac |-> r.cac, at |-> now[t]]
RequestStillUnsynced(t, r) ==
    [id |-> Fresh(t, 1), serverId |-> None, clientId |-> r.clientId,
     machineId |-> r.machineId, cac |-> r.cac, at |-> now[t]]

RequestFromServer(t, r) ==
    [id |-> Fresh(t, 1), serverId |-> r.id, clientId |-> r.clientId,
     machineId |-> r.machineId, cac |-> r.cac, at |-> now[t]]

ApplyRequest(t, a) ==
    LET todo == sync[t][a].todo IN
    /\ Applying(t, a)
    /\ todo.admins = {} /\ todo.elections = {}
    /\ \E r \in Newest(todo.requests) :
       LET row == RequestFromServer(t, r) IN
       IF CanPutRequest(db[t], row)
       THEN /\ Store(t, PutRequest(db[t], row))
            /\ Continue(t, a, [todo EXCEPT !.requests = @ \ {r}])
            /\ UNCHANGED attempts
       ELSE /\ Fail(t, a)
            /\ UNCHANGED db
    /\ Draw(t, 1)
    /\ UNCHANGED <<now, crashes>>

\* createRegistration looks the request up by client_id, but sync passes the
\* id of the local row.
RegistrationsFromServer(t, g) ==
    {[id |-> Fresh(t, 1), serverId |-> g.id, clientId |-> g.clientId,
      machineId |-> g.machineId, cac |-> r.cac, requestId |-> r.id,
      electionId |-> e.id, at |-> now[t]] :
        r \in UNION {RequestsByClientId(db[t], local.id) :
                        local \in RequestsByServerId(db[t], g.requestId)},
        e \in ElectionsByServerId(db[t], g.electionId)}

ApplyRegistration(t, a) ==
    LET todo == sync[t][a].todo IN
    /\ Applying(t, a)
    /\ todo.admins = {} /\ todo.elections = {} /\ todo.requests = {}
    /\ \E g \in Newest(todo.registrations) :
       LET rows == {row \in RegistrationsFromServer(t, g) :
                       CanPutRegistration(db[t], row)} IN
       IF rows # {}
       THEN /\ \E row \in rows : Store(t, PutRegistration(db[t], row))
            /\ Continue(t, a, [todo EXCEPT !.registrations = @ \ {g}])
            /\ UNCHANGED attempts
       ELSE /\ Fail(t, a)
            /\ UNCHANGED db
    /\ Draw(t, 1)
    /\ UNCHANGED <<now, crashes>>

Apply(t, a) ==
    \/ ResetAdminsStep(t, a) \/ ApplyAdmin(t, a) \/ ApplyElection(t, a)
    \/ ApplyRequest(t, a) \/ ApplyRegistration(t, a)

\* The terminal loses power or its process dies, and starts again: the
\* database stays, the running syncs are gone.  Only a crash with a running
\* sync makes a difference.
Died(s) ==
    CASE s.pc = "fetching" -> [pc |-> "lost", todo |-> NoTodo]
      [] s.pc \in {"reset", "applying"} -> [pc |-> "halfApplied", todo |-> NoTodo]
      [] OTHER -> s

Crash(t) ==
    /\ crashes[t] < MaxCrashes
    /\ \E a \in Attempts : sync[t][a].pc \in {"fetching", "reset", "applying"}
    /\ sync' = [sync EXCEPT ![t] = [a \in Attempts |-> Died(sync[t][a])]]
    /\ crashes' = [crashes EXCEPT ![t] = @ + 1]
    /\ UNCHANGED <<db, attempts, issued, now>>

Voter(t) ==
    \/ \E cac \in Cacs : CreateVoterRegistration(t, cac) \/ SaveVotes(t, cac)
    \/ \E cac \in Cacs, isAdmin \in BOOLEAN, kind \in TestRecords :
           CreateTestVoter(t, cac, isAdmin, kind)

-----------------------------------------------------------------------------
TodoType ==
    [admins : SUBSET Cacs, elections : SUBSET ElectionOutput,
     requests : SUBSET RequestOutput, registrations : SUBSET RegistrationOutput]

(* Type invariant of the terminals: every table, attempt row and running    *)
(* sync has its shape.                                                      *)
MarkTypeOK ==
    /\ db \in [Terminals -> Database]
    /\ attempts \in [Terminals -> [Attempts -> AttemptStates]]
    /\ sync \in [Terminals -> [Attempts -> [pc : SyncStates, todo : TodoType]]]
    /\ issued \in [Terminals -> Nat]
    /\ now \in [Terminals -> Nat]
    /\ crashes \in [Terminals -> Nat]
=============================================================================
