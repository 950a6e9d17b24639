---------------------------- MODULE RaveTerminal -----------------------------
(***************************************************************************)
(* Terminals that face any server whose replies the client library can     *)
(* read and that keeps one promise: a client id always comes back with the *)
(* CAC it was filed for.  What holds here holds for every such server.     *)
(***************************************************************************)
EXTENDS RaveMark

VARIABLE filed  \* the pairs <<client id, CAC>> of the requests filed so far

terminalVars == <<db, attempts, sync, issued, now, crashes, filed>>

Filings(rows) == {<<r.clientId, r.cac>> : r \in rows}

\* No client id comes with two CACs, and the ids the terminals draw come
\* back only for what they filed.
Honest(output) ==
    LET all == filed \cup Filings(output.requests)
    IN  /\ \A f, g \in all : f[1] = g[1] => f = g
        /\ \A r \in output.requests :
               r.clientId[1] \in Terminals => <<r.clientId, r.cac>> \in filed

Receive(t, a, output) ==
    /\ Honest(output)
    /\ AcceptReply(t, a, output) \/ RejectReply(t, a, output)
    /\ filed' = filed \cup Filings(output.requests)

Local(t) ==
    /\ Voter(t)
    /\ filed' = filed \cup Filings(db'[t].requests)

SyncStep(t, a) ==
    /\ \/ \E input \in SyncInputs(db[t]) : StartSync(t, a, input)
       \/ FailFetch(t, a) \/ MockReply(t, a) \/ Apply(t, a)
    /\ UNCHANGED filed

\* The steps of the terminals, when the server sends one of a set of replies.
TerminalNext(outputs) ==
    \E t \in Terminals :
        \/ Local(t)
        \/ \E a \in Attempts :
               SyncStep(t, a) \/ \E output \in outputs : Receive(t, a, output)
        \/ (Tick(t) \/ Crash(t)) /\ UNCHANGED filed

TerminalInit == MarkInit /\ filed = {}

TerminalSpec == TerminalInit /\ [][TerminalNext(SyncOutput)]_terminalVars

-----------------------------------------------------------------------------
(* Type invariant: the terminals' state, and what has been filed.           *)
TypeOK == MarkTypeOK /\ filed \subseteq Uuid \X Cacs

(* A ballot, its registration and its registration request exist together   *)
(* and carry one CAC, whatever is replaced in between: the foreign keys of  *)
(* schema.sql and the CACs that createRegistration and createBallot copy.   *)
RecordsOfOneVoter == \A t \in Terminals : Linked(db[t])

(* No voter has two requests, two registrations or two ballots on one       *)
(* terminal, and no client id names two requests, although requests arrive  *)
(* from the voter and from the server under different keys.                 *)
OneRecordPerVoter == \A t \in Terminals : Unique(db[t])

(* An attempt row never reopens and a failure is final; success may still   *)
(* turn into failure, since sync reports it before it stores the reply.     *)
AttemptsMoveForward ==
    [][\A t \in Terminals, a \in Attempts :
          attempts'[t][a] # attempts[t][a] =>
             <<attempts[t][a], attempts'[t][a]>> \in
                {<<"none", "pending">>, <<"pending", "success">>,
                 <<"pending", "failure">>, <<"success", "failure">>}]_terminalVars

(* A pending attempt still has its sync running, unless the terminal        *)
(* crashed: sync reports an end on every path out of it.                    *)
PendingMeansRunning ==
    \A t \in Terminals, a \in Attempts :
        attempts[t][a] = "pending" => sync[t][a].pc \in {"fetching", "lost"}

(* What getVoterStatus reports moves as VoterJourney allows.                *)
status ==
    [t \in Terminals |-> [cac \in Cacs |-> VoterStatus(db[t], cac)]]

Journey == INSTANCE VoterJourney

JourneySpec == Journey!Spec

(* createElection asserts that an election's id equals its clientId if and  *)
(* only if it was created on this machine (store.ts): every election of a   *)
(* reply that parses should pass it.                                        *)
ElectionAssertionHolds ==
    \A t \in Terminals, a \in Attempts :
        Applying(t, a) /\ sync[t][a].todo.admins = {} =>
            \A e \in Newest(sync[t][a].todo.elections) :
                LET row == ElectionFromServer(t, e)
                IN  (row.id = row.clientId) <=> (row.machineId = t)
=============================================================================
