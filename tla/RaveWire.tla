------------------------------ MODULE RaveWire -------------------------------
(***************************************************************************)
(* The body of POST /api/rave-mark/sync and of its reply.                  *)
(***************************************************************************)
EXTENDS RaveIds

RequestInput == [clientId : Uuid, machineId : Owners, cac : Cacs]

RegistrationInput ==
    [clientId : Uuid, machineId : Owners, cac : Cacs,
     requestId : Uuid, electionId : Uuid]

BallotInput ==
    [clientId : Uuid, machineId : Owners, cac : Cacs, registrationId : Uuid]

SyncInput ==
    [lastRequest : Optional(Uuid), lastRegistration : Optional(Uuid),
     lastElection : Optional(Uuid), lastBallot : Optional(Uuid),
     requests : SUBSET RequestInput, registrations : SUBSET RegistrationInput,
     ballots : SUBSET BallotInput]

(* The rows of a reply are rows of the server; "id" is the serverId.        *)

RequestOutput == [id : Uuid, clientId : Uuid, machineId : Owners, cac : Cacs]

RegistrationOutput ==
    [id : Uuid, clientId : Uuid, machineId : Owners, cac : Cacs,
     requestId : Uuid, electionId : Uuid]

\* "json" is the JSON type the election definition has on the wire.
ElectionOutput ==
    [id : Uuid, clientId : Uuid, machineId : Owners, json : {"string", "object"}]

BallotOutput ==
    [id : Uuid, clientId : Uuid, machineId : Owners, cac : Cacs,
     registrationId : Uuid]

SyncOutput ==
    [status : {200, 500}, admins : SUBSET Cacs,
     elections : SUBSET ElectionOutput, requests : SUBSET RequestOutput,
     registrations : SUBSET RegistrationOutput, ballots : SUBSET BallotOutput]

NoRows == [admins |-> {}, elections |-> {}, requests |-> {},
           registrations |-> {}, ballots |-> {}]

\* RaveMarkSyncOutputSchema accepts the reply: an election must be a string.
MatchesSchema(output) == \A e \in output.elections : e.json = "string"

\* Replies list the newest row first (ORDER BY created_at DESC); the server's
\* ids are numbered in that order, and rows with one number come in any.
Newest(rows) == {r \in rows : \A q \in rows : q.id[2] <= r.id[2]}
=============================================================================
