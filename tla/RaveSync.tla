------------------------------ MODULE RaveSync -------------------------------
(***************************************************************************)
(* The terminals and the server together.  Sync a of terminal t makes the  *)
(* one HTTP request <<t, a>>.  The request may be lost (its handler takes  *)
(* no step), the connection may break while the handler goes on (the       *)
(* terminal's FailFetch), and a terminal may run several syncs at once.    *)
(***************************************************************************)
EXTENDS RaveTerminal, RaveServer

ASSUME SyncAssumption == Calls = Terminals \X Attempts

vars == <<terminalVars, serverVars>>

Init == TerminalInit /\ ServerInit

Begin(t, a) ==
    /\ \E input \in SyncInputs(db[t]) :
           StartSync(t, a, input) /\ Submit(<<t, a>>, input)
    /\ UNCHANGED filed

Deliver(t, a) ==
    /\ calls[<<t, a>>].pc = "replied"
    /\ LET output == calls[<<t, a>>].output IN
       /\ AcceptReply(t, a, output) \/ RejectReply(t, a, output)
       /\ filed' = filed \cup Filings(output.requests)
    /\ UNCHANGED serverVars

Work(t, a) == Apply(t, a) /\ UNCHANGED <<filed, serverVars>>

Settle(t, a) ==
    Deliver(t, a) \/ (FailFetch(t, a) /\ UNCHANGED <<filed, serverVars>>)

Terminal(t) ==
    \/ Local(t) /\ UNCHANGED serverVars
    \/ (Tick(t) \/ Crash(t)) /\ UNCHANGED <<filed, serverVars>>
    \/ \E a \in Attempts : Begin(t, a) \/ Settle(t, a) \/ Work(t, a)

ServerStep ==
    /\ \E c \in Calls : Handle(c) \/ Fault(c)
    /\ UNCHANGED terminalVars

OperatorStep == Operator /\ UNCHANGED terminalVars

Next == (\E t \in Terminals : Terminal(t)) \/ ServerStep \/ OperatorStep

Spec == Init /\ [][Next]_vars

\* fetch resolves or rejects in the end (it has timeouts), and the loops of
\* sync run on without waiting for anything.
Fairness ==
    \A t \in Terminals, a \in Attempts :
        WF_vars(Settle(t, a)) /\ WF_vars(Work(t, a))

FairSpec == Spec /\ Fairness

-----------------------------------------------------------------------------
(* Properties.                                                             *)

\* Every place a registration request is kept or is under way in.
RequestCopies ==
    LET stored == UNION {db[t].requests : t \in Terminals}
        toStore == UNION {sync[t][a].todo.requests : t \in Terminals, a \in Attempts}
        onTheWire == UNION {calls[c].input.requests \cup calls[c].output.requests : c \in Calls}
        halfDone == {p \in UNION {calls[c].pending : c \in Calls} : p.table = "requests"}
    IN  srv.requests \cup stored \cup toStore \cup onTheWire \cup {p.row : p \in halfDone}

(* One filing, one voter: all copies of a request, on the terminals, on the *)
(* wire, in a half done INSERT and on the server, agree on its CAC and on   *)
(* its machine, through lost replies, repeated INSERTs and replaced rows.   *)
(* RaveTerminal relies on this promise of the server.                       *)
OneFilingOneVoter ==
    \A r, q \in RequestCopies :
        r.clientId = q.clientId => r.cac = q.cac /\ r.machineId = q.machineId

(* A terminal calls a request synced (server_id) only for a row the server  *)
(* has committed, with that id and the same client id, CAC and machine.     *)
SyncedOnServer ==
    \A t \in Terminals : \A r \in db[t].requests :
        r.serverId # None /\ r.serverId[1] = Server =>
            [id |-> r.serverId, clientId |-> r.clientId,
             machineId |-> r.machineId, cac |-> r.cac] \in srv.requests

(* Once a sync has run to its end as a success, no request the server       *)
(* stored for it is still waiting to be sent: it is synced, or another      *)
(* request of that voter has replaced it.                                   *)
StoredIsNotResent ==
    \A t \in Terminals, a \in Attempts :
        sync[t][a].pc = "done" /\ attempts[t][a] = "success" =>
            \A r \in db[t].requests, q \in srv.requests :
                q.id \in calls[<<t, a>>].added /\ q.clientId = r.clientId =>
                    r.serverId # None

(* Once a sync has run to its end as a success, every voter whose request   *)
(* the reply carried has a request on that terminal, and keeps one: rows    *)
(* that replace each other by client id and by CAC lose no voter.           *)
VotersOfReplyKnown ==
    \A t \in Terminals, a \in Attempts :
        sync[t][a].pc = "done" /\ attempts[t][a] = "success" =>
            \A q \in calls[<<t, a>>].output.requests :
                \E r \in db[t].requests : r.cac = q.cac

(* A terminal that was set up with an admin is left without one only by a   *)
(* crash in the middle of storing a reply, or by a reply that named none:   *)
(* sync clears the table and fills it again in separate statements, and may *)
(* still fail at a later row.                                               *)
AdminsSurvive ==
    \A t \in Terminals :
        db[t].admins = {} /\ ~Busy(t) =>
            \/ InitialAdmins = {}
            \/ \E a \in Attempts :
                   \/ sync[t][a].pc = "halfApplied"
                   \/ /\ sync[t][a].pc = "done"
                      /\ calls[<<t, a>>].pc = "replied"
                      /\ calls[<<t, a>>].output.status = 200
                      /\ calls[<<t, a>>].output.admins = {}

(* A sync that has started ends, unless its terminal crashes.               *)
SyncEnds ==
    \A t \in Terminals, a \in Attempts :
        sync[t][a].pc \in {"fetching", "reset", "applying"} ~>
            sync[t][a].pc \in {"done", "lost", "halfApplied"}

(* The comment of schema.sql on registration_requests.client_id: it should  *)
(* match id if the record was generated on this machine.                    *)
OwnRequestsKeepTheirId ==
    \A t \in Terminals : \A r \in db[t].requests :
        r.machineId = t => r.clientId = r.id

(* RaveMarkSyncOutputSchema, the terminal's statement of what the endpoint  *)
(* returns, accepts every 200 reply of the server.                          *)
RepliesMatchSchema ==
    \A c \in Calls :
        calls[c].pc = "replied" /\ calls[c].output.status = 200 =>
            MatchesSchema(calls[c].output)
=============================================================================
