---------------------------- MODULE RaveMarkStore ----------------------------
(***************************************************************************)
(* The SQLite database of one terminal (schema.sql) and the statements of  *)
(* store.ts on it, as operators on a record of tables.  A statement that   *)
(* SQLite would reject has a Can... operator: the statement changes the    *)
(* database only where that operator is true, and throws otherwise.        *)
(* The text columns that no decision depends on (names, addresses, the     *)
(* election and cast vote record bodies) are left out.  "at" is created_at *)
(* in the terminal's clock of seconds.                                     *)
(***************************************************************************)
EXTENDS RaveWire

RequestRow ==
    [id : Uuid, serverId : Optional(Uuid), clientId : Uuid,
     machineId : Owners, cac : Cacs, at : Nat]

ElectionRow ==
    [id : Uuid, serverId : Optional(Uuid), clientId : Uuid,
     machineId : Owners, at : Nat]

RegistrationRow ==
    [id : Uuid, serverId : Optional(Uuid), clientId : Uuid, machineId : Owners,
     cac : Cacs, requestId : Uuid, electionId : Uuid, at : Nat]

BallotRow ==
    [id : Uuid, serverId : Optional(Uuid), clientId : Uuid,
     machineId : Owners, cac : Cacs, registrationId : Uuid, at : Nat]

Database ==
    [admins : SUBSET Cacs, requests : SUBSET RequestRow,
     elections : SUBSET ElectionRow, registrations : SUBSET RegistrationRow,
     ballots : SUBSET BallotRow]

-----------------------------------------------------------------------------
(* registration_requests: id, client_id and the CAC are unique, and         *)
(* "insert or replace" deletes every row that conflicts with the new one.   *)

\* A slip to detect: the CAC column of registration_requests is not unique.
DisplacedByIdsOnly(d, new) ==
    {r \in d.requests : r.id = new.id \/ r.clientId = new.clientId}

DisplacedRequests(d, new) ==
    {r \in d.requests :
        r.id = new.id \/ r.clientId = new.clientId \/ r.cac = new.cac}

\* A slip to detect: foreign keys are off.
CanAlwaysPut(d, new) == TRUE

\* A displaced row that a registration references makes the statement fail
\* (foreign keys are on), and SQLite then undoes the statement.
CanPutRequest(d, new) ==
    \A r \in DisplacedRequests(d, new), g \in d.registrations :
        g.requestId = r.id => r.id = new.id

\* A slip to detect: the row that is replaced goes, the new one is lost.
ReplaceLosesRow(d, new) ==
    [d EXCEPT !.requests =
        IF DisplacedRequests(d, new) = {} THEN @ \cup {new}
                                          ELSE @ \ DisplacedRequests(d, new)]

PutRequest(d, new) ==
    [d EXCEPT !.requests = (@ \ DisplacedRequests(d, new)) \cup {new}]

(* registrations: id and the CAC are unique, client_id is not.              *)

DisplacedRegistrations(d, new) ==
    {g \in d.registrations : g.id = new.id \/ g.cac = new.cac}

CanPutRegistration(d, new) ==
    /\ \E r \in d.requests : r.id = new.requestId
    /\ \E e \in d.elections : e.id = new.electionId
    /\ \A g \in DisplacedRegistrations(d, new), b \in d.ballots :
           b.registrationId = g.id => g.id = new.id

PutRegistration(d, new) ==
    [d EXCEPT !.registrations = (@ \ DisplacedRegistrations(d, new)) \cup {new}]

(* ballots: a plain insert, so a second ballot of one CAC is refused.       *)

CanPutBallot(d, new) ==
    /\ \E g \in d.registrations : g.id = new.registrationId
    /\ \A b \in d.ballots : b.id # new.id /\ b.cac # new.cac

PutBallot(d, new) == [d EXCEPT !.ballots = @ \cup {new}]

(* elections: a plain insert behind an assertion of createElection.         *)

CanPutElection(d, new, self) ==
    /\ (new.id = new.clientId) <=> (new.machineId = self)
    /\ \A e \in d.elections : e.id # new.id

PutElection(d, new) == [d EXCEPT !.elections = @ \cup {new}]

(* admins *)

ResetAdmins(d) == [d EXCEPT !.admins = {}]
PutAdmin(d, cac) == [d EXCEPT !.admins = @ \cup {cac}]

-----------------------------------------------------------------------------
(* Queries *)

RequestsByServerId(d, id) == {r \in d.requests : r.serverId = id}
RequestsByClientId(d, id) == {r \in d.requests : r.clientId = id}
ElectionsByServerId(d, id) == {e \in d.elections : e.serverId = id}

\* The ids getLastSynced... may return: the server id of a newest synced row
\* (rows stamped with the same second are in no particular order), or nothing.
LastSynced(rows) ==
    LET synced == {r \in rows : r.serverId # None}
        newest == {r \in synced : \A q \in synced : q.at <= r.at}
    IN  IF synced = {} THEN {None} ELSE {r.serverId : r \in newest}

Unsynced(rows) == {r \in rows : r.serverId = None}

RequestsToSync(d) ==
    {[clientId |-> r.clientId, machineId |-> r.machineId, cac |-> r.cac] :
        r \in Unsynced(d.requests)}

BallotsToSync(d) ==
    {[clientId |-> b.clientId, machineId |-> b.machineId, cac |-> b.cac,
      registrationId |-> b.registrationId] : b \in Unsynced(d.ballots)}

\* The bodies RaveServerClientImpl.sync may send: no registration, ever.
SyncInputs(d) ==
    {[lastRequest |-> lr, lastRegistration |-> lg, lastElection |-> le,
      lastBallot |-> lb, requests |-> RequestsToSync(d), registrations |-> {},
      ballots |-> BallotsToSync(d)] :
        lr \in LastSynced(d.requests), lg \in LastSynced(d.registrations),
        le \in LastSynced(d.elections), lb \in LastSynced(d.ballots)}

\* The status app.ts reports to a voter, as a rank.
unregistered == 0
registration_pending == 1
registered == 2
voted == 3

VoterStatus(d, cac) ==
    LET mine == {g \in d.registrations : g.cac = cac}
    IN  IF mine = {}
        THEN IF \E r \in d.requests : r.cac = cac
             THEN registration_pending ELSE unregistered
        ELSE IF \E g \in mine, b \in d.ballots : b.registrationId = g.id
             THEN voted ELSE registered

-----------------------------------------------------------------------------
(* What the keys of schema.sql keep true of a database.                     *)

UniqueRequests(d) ==
    \A r, q \in d.requests :
        r.cac = q.cac \/ r.clientId = q.clientId \/ r.id = q.id => r = q

UniqueRegistrations(d) ==
    \A g, h \in d.registrations : g.cac = h.cac \/ g.id = h.id => g = h

UniqueBallots(d) == \A b, c \in d.ballots : b.cac = c.cac \/ b.id = c.id => b = c

Unique(d) == UniqueRequests(d) /\ UniqueRegistrations(d) /\ UniqueBallots(d)

LinkedRegistrations(d) ==
    \A g \in d.registrations :
        /\ \E r \in d.requests : r.id = g.requestId /\ r.cac = g.cac
        /\ \E e \in d.elections : e.id = g.electionId

LinkedBallots(d) ==
    \A b \in d.ballots :
        \E g \in d.registrations : g.id = b.registrationId /\ g.cac = b.cac

Linked(d) == LinkedRegistrations(d) /\ LinkedBallots(d)
=============================================================================
