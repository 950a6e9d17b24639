------------------------- MODULE RaveTerminal_proofs -------------------------
(***************************************************************************)
(* Type correctness of the terminals, and the two invariants of their      *)
(* database, for any number of terminals, voters, syncs and crashes and    *)
(* any server that keeps the promise Honest.                               *)
(*                                                                         *)
(* RecordsOfOneVoter and OneRecordPerVoter are not inductive: a statement  *)
(* keeps them only if the id it stores under is fresh, and createTestVoter *)
(* only if no request has the client id it makes up.  Invariant adds where *)
(* ids come from: those in a terminal's database were drawn by it          *)
(* (Numbered), and a client id drawn by a terminal, stored or about to be  *)
(* stored, is one it has drawn already (DrawnIds, with Recorded and        *)
(* TodoFiled).  Then what the rows of server_sync_attempts tell about the  *)
(* sync calls, for any server, and last that the terminals implement       *)
(* VoterJourney.                                                           *)
(***************************************************************************)
EXTENDS RaveTerminal, TLAPS

----------------------------------------------------------------------------
(* What each statement of the terminal's store keeps true: the shape of    *)
(* the tables, one record per voter (Unique) and foreign keys that stay    *)
(* with one voter (Linked).  Ids are fresh where the code draws them.      *)

Sound(d) == d \in Database /\ Unique(d) /\ Linked(d)

(* insert or replace into registration_requests, under a fresh id.          *)
LEMMA PutRequestSound ==
    ASSUME NEW d, Sound(d), NEW new \in RequestRow,
           \A r \in d.requests : r.id # new.id,
           CanPutRequest(d, new)
    PROVE  Sound(PutRequest(d, new))
<1> DEFINE e == PutRequest(d, new)
<1>1. /\ d \in Database
      /\ e.requests = (d.requests \ DisplacedRequests(d, new)) \cup {new}
      /\ e.registrations = d.registrations
      /\ e.elections = d.elections
      /\ e.ballots = d.ballots
      /\ e \in Database
  BY DEF Sound, PutRequest, Database
<1>2. UniqueRequests(e)
  BY <1>1 DEF Sound, Unique, UniqueRequests, DisplacedRequests
<1>3. Unique(e)
  BY <1>1, <1>2 DEF Sound, Unique, UniqueRegistrations, UniqueBallots
<1>4. LinkedRegistrations(e)
  <2> SUFFICES ASSUME NEW g \in d.registrations
               PROVE  /\ \E r \in e.requests : r.id = g.requestId /\ r.cac = g.cac
                      /\ \E x \in e.elections : x.id = g.electionId
    BY <1>1 DEF LinkedRegistrations
  <2>1. PICK r \in d.requests : r.id = g.requestId /\ r.cac = g.cac
    BY DEF Sound, Linked, LinkedRegistrations
  <2>2. r \notin DisplacedRequests(d, new)
    BY <2>1 DEF CanPutRequest
  <2> QED
    BY <1>1, <2>1, <2>2 DEF Sound, Linked, LinkedRegistrations
<1>5. Linked(e)
  BY <1>1, <1>4 DEF Sound, Linked, LinkedBallots
<1> QED
  BY <1>1, <1>3, <1>5 DEF Sound

(* insert or replace into registrations, under a fresh id and for the voter *)
(* of the request it names.                                                 *)
LEMMA PutRegistrationSound ==
    ASSUME NEW d, Sound(d), NEW new \in RegistrationRow,
           \A g \in d.registrations : g.id # new.id,
           \E r \in d.requests : r.id = new.requestId /\ r.cac = new.cac,
           CanPutRegistration(d, new)
    PROVE  Sound(PutRegistration(d, new))
<1> DEFINE e == PutRegistration(d, new)
<1>1. /\ d \in Database
      /\ e.registrations =
            (d.registrations \ DisplacedRegistrations(d, new)) \cup {new}
      /\ e.requests = d.requests
      /\ e.elections = d.elections
      /\ e.ballots = d.ballots
      /\ e \in Database
  BY DEF Sound, PutRegistration, Database
<1>2. UniqueRegistrations(e)
  BY <1>1 DEF Sound, Unique, UniqueRegistrations, DisplacedRegistrations
<1>3. Unique(e)
  BY <1>1, <1>2 DEF Sound, Unique, UniqueRequests, UniqueBallots
<1>4. LinkedRegistrations(e)
  BY <1>1 DEF Sound, Linked, LinkedRegistrations, CanPutRegistration
<1>5. LinkedBallots(e)
  <2> SUFFICES ASSUME NEW b \in d.ballots
               PROVE  \E g \in e.registrations :
                          g.id = b.registrationId /\ g.cac = b.cac
    BY <1>1 DEF LinkedBallots
  <2>1. PICK g \in d.registrations : g.id = b.registrationId /\ g.cac = b.cac
    BY DEF Sound, Linked, LinkedBallots
  <2>2. g \notin DisplacedRegistrations(d, new)
    BY <2>1 DEF CanPutRegistration
  <2> QED
    BY <1>1, <2>1, <2>2
<1> QED
  BY <1>1, <1>3, <1>4, <1>5 DEF Sound, Linked

(* insert into ballots, for the voter of the registration it names.         *)
LEMMA PutBallotSound ==
    ASSUME NEW d, Sound(d), NEW new \in BallotRow,
           \E g \in d.registrations :
               g.id = new.registrationId /\ g.cac = new.cac,
           CanPutBallot(d, new)
    PROVE  Sound(PutBallot(d, new))
<1> DEFINE e == PutBallot(d, new)
<1>1. /\ d \in Database
      /\ e.ballots = d.ballots \cup {new}
      /\ e.requests = d.requests
      /\ e.registrations = d.registrations
      /\ e.elections = d.elections
      /\ e \in Database
  BY DEF Sound, PutBallot, Database
<1>2. UniqueBallots(e)
  BY <1>1 DEF Sound, Unique, UniqueBallots, CanPutBallot
<1>3. Unique(e)
  BY <1>1, <1>2 DEF Sound, Unique, UniqueRequests, UniqueRegistrations
<1>4. Linked(e)
  BY <1>1 DEF Sound, Linked, LinkedRegistrations, LinkedBallots
<1> QED
  BY <1>1, <1>3, <1>4 DEF Sound

(* insert into elections.                                                   *)
LEMMA PutElectionSound ==
    ASSUME NEW d, Sound(d), NEW new \in ElectionRow
    PROVE  Sound(PutElection(d, new))
<1> DEFINE e == PutElection(d, new)
<1>1. /\ d \in Database
      /\ e.elections = d.elections \cup {new}
      /\ e.requests = d.requests
      /\ e.registrations = d.registrations
      /\ e.ballots = d.ballots
      /\ e \in Database
  BY DEF Sound, PutElection, Database
<1>2. Unique(e)
  BY <1>1 DEF Sound, Unique, UniqueRequests, UniqueRegistrations, UniqueBallots
<1>3. Linked(e)
  BY <1>1 DEF Sound, Linked, LinkedRegistrations, LinkedBallots
<1> QED
  BY <1>1, <1>2, <1>3 DEF Sound

(* delete from admins, and insert or replace into admins.                   *)
LEMMA AdminsSound ==
    ASSUME NEW d, Sound(d), NEW admins \in SUBSET Cacs
    PROVE  Sound([d EXCEPT !.admins = admins])
<1> DEFINE e == [d EXCEPT !.admins = admins]
<1>1. /\ d \in Database
      /\ e.elections = d.elections
      /\ e.requests = d.requests
      /\ e.registrations = d.registrations
      /\ e.ballots = d.ballots
      /\ e \in Database
  BY DEF Sound, Database
<1>2. Unique(e)
  BY <1>1 DEF Sound, Unique, UniqueRequests, UniqueRegistrations, UniqueBallots
<1>3. Linked(e)
  BY <1>1 DEF Sound, Linked, LinkedRegistrations, LinkedBallots
<1> QED
  BY <1>1, <1>2, <1>3 DEF Sound

LEMMA ResetAdminsSound ==
    ASSUME NEW d, Sound(d)
    PROVE  Sound(ResetAdmins(d))
BY AdminsSound, {} \in SUBSET Cacs DEF ResetAdmins

LEMMA PutAdminSound ==
    ASSUME NEW d, Sound(d), NEW cac \in Cacs
    PROVE  Sound(PutAdmin(d, cac))
<1>1. d.admins \cup {cac} \in SUBSET Cacs
  BY DEF Sound, Database
<1>2. Sound([d EXCEPT !.admins = d.admins \cup {cac}])
  BY <1>1, AdminsSound
<1> QED
  BY <1>2 DEF PutAdmin

----------------------------------------------------------------------------
(* The databases of the terminals.                                         *)

\* The ids of t's requests and registrations are among the first n drawn by t.
Numbered(t, d, n) ==
    /\ \A r \in d.requests : r.id[1] = t /\ r.id[2] \in 1 .. n
    /\ \A g \in d.registrations : g.id[1] = t /\ g.id[2] \in 1 .. n

\* A client id of a terminal is one that terminal has drawn.
DrawnIds(F, n) == \A f \in F : f[1][1] \in Terminals => f[1][2] \in 1 .. n[f[1][1]]

\* Every request of a database has been filed.
Recorded(d, F) == Filings(d.requests) \subseteq F

Types ==
    /\ db \in [Terminals -> Database]
    /\ issued \in [Terminals -> Nat]
    /\ filed \subseteq Uuid \X Cacs

CallTypes ==
    /\ attempts \in [Terminals -> [Attempts -> AttemptStates]]
    /\ sync \in [Terminals -> [Attempts -> [pc : SyncStates, todo : TodoType]]]
    /\ now \in [Terminals -> Nat]
    /\ crashes \in [Terminals -> Nat]

\* Every request a sync is about to store has been filed.
TodoFiled ==
    \A t \in Terminals, a \in Attempts :
        Filings(sync[t][a].todo.requests) \subseteq filed

Databases ==
    \A t \in Terminals : /\ Sound(db[t])
                         /\ Numbered(t, db[t], issued[t])
                         /\ Recorded(db[t], filed)

Invariant ==
    /\ Types
    /\ CallTypes
    /\ DrawnIds(filed, issued)
    /\ Databases
    /\ TodoFiled

LEMMA InvariantImplies ==
    Invariant => TypeOK /\ RecordsOfOneVoter /\ OneRecordPerVoter
BY DEF Invariant, Types, CallTypes, Databases, Sound, TypeOK, MarkTypeOK,
       RecordsOfOneVoter, OneRecordPerVoter

-----------------------------------------------------------------------------
LEMMA InitInvariant == TerminalInit => Invariant
<1> SUFFICES ASSUME TerminalInit PROVE Invariant
  OBVIOUS
<1> USE DEF TerminalInit, MarkInit
<1>1. EmptyDatabase \in Database
  BY MarkAssumption DEF EmptyDatabase, Database
<1>2. Sound(EmptyDatabase)
  BY <1>1 DEF Sound, EmptyDatabase, Unique, UniqueRequests, UniqueRegistrations,
              UniqueBallots, Linked, LinkedRegistrations, LinkedBallots
<1>3. Types
  BY <1>1 DEF Types
<1>4. IdleSync \in [pc : SyncStates, todo : TodoType] /\ IdleSync.todo.requests = {}
  BY DEF IdleSync, NoTodo, Todo, NoRows, SyncStates, TodoType
<1>5. CallTypes
  BY <1>4 DEF CallTypes, AttemptStates
<1>6. Databases
  BY <1>2 DEF Databases, Numbered, Recorded, Filings, EmptyDatabase
<1>7. TodoFiled
  BY <1>4 DEF TodoFiled, Filings
<1> QED
  BY <1>3, <1>5, <1>6, <1>7 DEF Invariant, DrawnIds

(* A step that stores d on t and draws k ids keeps the databases right, if  *)
(* d is sound, its ids are drawn and its requests are filed.                *)
LEMMA StoreKeepsDatabases ==
    ASSUME Invariant, NEW t \in Terminals, NEW d, NEW k \in Nat, NEW F,
           Store(t, d), Draw(t, k), filed' = filed \cup F,
           F \subseteq Uuid \X Cacs, DrawnIds(F, issued'),
           Sound(d), Numbered(t, d, issued[t] + k), Recorded(d, filed')
    PROVE  Types' /\ DrawnIds(filed, issued)' /\ Databases'
<1> USE DEF Invariant, Types
<1>1. /\ db' = [db EXCEPT ![t] = d]
      /\ issued' = [issued EXCEPT ![t] = @ + k]
      /\ d \in Database
  BY DEF Store, Draw, Sound
<1>2. Types'
  BY <1>1
<1>3. \A u \in Terminals : issued[u] \in Nat /\ issued'[u] \in Nat /\ issued[u] <= issued'[u]
  BY <1>1
<1>4. DrawnIds(filed, issued)'
  <2> SUFFICES ASSUME NEW f \in filed', f[1][1] \in Terminals
               PROVE  f[1][2] \in 1 .. issued'[f[1][1]]
    BY DEF DrawnIds
  <2>1. CASE f \in F
    BY <2>1 DEF DrawnIds
  <2>2. CASE f \in filed
    <3>1. f[1][2] \in 1 .. issued[f[1][1]]
      BY <2>2 DEF DrawnIds
    <3> QED
      BY <1>3, <3>1
  <2> QED
    BY <2>1, <2>2
<1>5. ASSUME NEW u \in Terminals
      PROVE  Sound(db'[u]) /\ Numbered(u, db'[u], issued'[u]) /\ Recorded(db'[u], filed')
  <2>1. CASE u = t
    BY <1>1, <2>1
  <2>2. CASE u # t
    <3>1. db'[u] = db[u] /\ issued'[u] = issued[u]
      BY <1>1, <2>2
    <3> QED
      BY <3>1 DEF Databases, Recorded
  <2> QED
    BY <2>1, <2>2
<1>6. Databases'
  BY <1>5 DEF Databases
<1> QED
  BY <1>2, <1>4, <1>6

(* A step that moves the sync a of t on keeps the running syncs right, if   *)
(* the rows left to store are of their type and filed.                      *)
LEMMA GotoKeepsCalls ==
    ASSUME Invariant, NEW t \in Terminals, NEW a \in Attempts,
           NEW pc \in SyncStates, NEW todo \in TodoType, Goto(t, a, pc, todo),
           filed \subseteq filed', Filings(todo.requests) \subseteq filed'
    PROVE  /\ sync' \in [Terminals -> [Attempts -> [pc : SyncStates, todo : TodoType]]]
           /\ TodoFiled'
<1> DEFINE call == [pc |-> pc, todo |-> todo]
<1>1. /\ sync \in [Terminals -> [Attempts -> [pc : SyncStates, todo : TodoType]]]
      /\ sync' = [sync EXCEPT ![t][a] = call]
      /\ call \in [pc : SyncStates, todo : TodoType]
      /\ call.todo = todo
  BY DEF Invariant, CallTypes, Goto
<1>2. ASSUME NEW u \in Terminals, NEW b \in Attempts
      PROVE  sync'[u][b] = call \/ sync'[u][b] = sync[u][b]
  BY <1>1
<1>3. sync' \in [Terminals -> [Attempts -> [pc : SyncStates, todo : TodoType]]]
  BY <1>1
<1>4. ASSUME NEW u \in Terminals, NEW b \in Attempts
      PROVE  Filings(sync'[u][b].todo.requests) \subseteq filed'
  <2>1. CASE sync'[u][b] = call
    BY <1>1, <2>1
  <2>2. CASE sync'[u][b] = sync[u][b]
    BY <2>2 DEF Invariant, TodoFiled
  <2> QED
    BY <1>2, <2>1, <2>2
<1> QED
  BY <1>3, <1>4 DEF TodoFiled

LEMMA MarkKeepsAttempts ==
    ASSUME Invariant, NEW t \in Terminals, NEW a \in Attempts,
           NEW s \in AttemptStates, Mark(t, a, s)
    PROVE  attempts' \in [Terminals -> [Attempts -> AttemptStates]]
BY DEF Invariant, CallTypes, Mark

LEMMA NoTodoType == NoTodo \in TodoType /\ Filings(NoTodo.requests) = {}
BY DEF NoTodo, Todo, NoRows, TodoType, Filings

(* Steps that leave the databases alone.                                    *)
LEMMA QuietDatabases ==
    ASSUME Invariant, UNCHANGED <<db, issued, filed>>
    PROVE  Types' /\ DrawnIds(filed, issued)' /\ Databases'
BY DEF Invariant, Types, DrawnIds, Databases

LEMMA IdleDatabases ==
    ASSUME Invariant, UNCHANGED <<db, issued>>, NEW F, filed' = filed \cup F,
           F \subseteq Uuid \X Cacs, DrawnIds(F, issued)
    PROVE  Types' /\ DrawnIds(filed, issued)' /\ Databases'
<1>1. Types'
  BY DEF Invariant, Types
<1>2. DrawnIds(filed, issued)'
  BY DEF Invariant, DrawnIds
<1>3. Databases'
  BY DEF Invariant, Databases, Recorded
<1> QED
  BY <1>1, <1>2, <1>3

LEMMA EndSync ==
    ASSUME Invariant, NEW t \in Terminals, NEW a \in Attempts,
           Fail(t, a) \/ (Mark(t, a, "success") /\ Goto(t, a, "done", NoTodo)),
           UNCHANGED <<now, crashes>>, filed \subseteq filed'
    PROVE  CallTypes' /\ TodoFiled'
<1>1. /\ Mark(t, a, "failure") \/ Mark(t, a, "success")
      /\ Goto(t, a, "done", NoTodo)
  BY DEF Fail
<1>2. attempts' \in [Terminals -> [Attempts -> AttemptStates]]
  BY <1>1, MarkKeepsAttempts DEF AttemptStates
<1>3. /\ sync' \in [Terminals -> [Attempts -> [pc : SyncStates, todo : TodoType]]]
      /\ TodoFiled'
  BY <1>1, NoTodoType, GotoKeepsCalls DEF SyncStates
<1> QED
  BY <1>2, <1>3 DEF CallTypes, Invariant

LEMMA StartSyncStep ==
    ASSUME Invariant, NEW t \in Terminals, NEW a \in Attempts,
           NEW input, StartSync(t, a, input), UNCHANGED filed
    PROVE  Invariant'
<1>1. /\ Mark(t, a, "pending")
      /\ Goto(t, a, "fetching", NoTodo)
      /\ UNCHANGED <<db, issued, now, crashes, filed>>
  BY DEF StartSync
<1>2. attempts' \in [Terminals -> [Attempts -> AttemptStates]]
  BY <1>1, MarkKeepsAttempts DEF AttemptStates
<1>3. /\ sync' \in [Terminals -> [Attempts -> [pc : SyncStates, todo : TodoType]]]
      /\ TodoFiled'
  BY <1>1, NoTodoType, GotoKeepsCalls DEF SyncStates
<1>4. CallTypes'
  BY <1>1, <1>2, <1>3 DEF CallTypes, Invariant
<1>5. Types' /\ DrawnIds(filed, issued)' /\ Databases'
  BY <1>1, QuietDatabases
<1> QED
  BY <1>3, <1>4, <1>5 DEF Invariant

LEMMA EndSyncStep ==
    ASSUME Invariant, NEW t \in Terminals, NEW a \in Attempts,
           FailFetch(t, a) \/ MockReply(t, a), UNCHANGED filed
    PROVE  Invariant'
<1>1. /\ Fail(t, a) \/ (Mark(t, a, "success") /\ Goto(t, a, "done", NoTodo))
      /\ UNCHANGED <<db, issued, now, crashes, filed>>
  BY DEF FailFetch, MockReply
<1>2. CallTypes' /\ TodoFiled'
  BY <1>1, EndSync
<1>3. Types' /\ DrawnIds(filed, issued)' /\ Databases'
  BY <1>1, QuietDatabases
<1> QED
  BY <1>2, <1>3 DEF Invariant

(* A reply: its requests are filed, and the ids of terminals among them     *)
(* were filed before.                                                       *)
LEMMA ReceiveStep ==
    ASSUME Invariant, NEW t \in Terminals, NEW a \in Attempts,
           NEW output \in SyncOutput, Receive(t, a, output)
    PROVE  Invariant'
<1> DEFINE F == Filings(output.requests)
<1>1. output \in SyncOutput
  OBVIOUS
<1>2. /\ UNCHANGED <<db, issued, now, crashes>>
      /\ filed' = filed \cup F
  BY DEF Receive, AcceptReply, RejectReply
<1>3. F \subseteq Uuid \X Cacs
  BY <1>1 DEF Filings, SyncOutput, RequestOutput
<1>4. DrawnIds(F, issued)
  <2> SUFFICES ASSUME NEW r \in output.requests, r.clientId[1] \in Terminals
               PROVE  r.clientId[2] \in 1 .. issued[r.clientId[1]]
    BY DEF DrawnIds, Filings
  <2>1. <<r.clientId, r.cac>> \in filed
    BY DEF Receive, Honest
  <2>2. \A f \in filed : f[1][1] \in Terminals => f[1][2] \in 1 .. issued[f[1][1]]
    BY DEF Invariant, DrawnIds
  <2>3. <<r.clientId, r.cac>>[1] = r.clientId
    OBVIOUS
  <2> QED
    BY <2>1, <2>2, <2>3
<1>5. Types' /\ DrawnIds(filed, issued)' /\ Databases'
  BY <1>2, <1>3, <1>4, IdleDatabases
<1>6. CallTypes' /\ TodoFiled'
  <2>1. CASE AcceptReply(t, a, output)
    <3>1. /\ Mark(t, a, "success")
          /\ Goto(t, a, "reset", Todo(output))
      BY <2>1 DEF AcceptReply
    <3>2. Todo(output) \in TodoType /\ Todo(output).requests = output.requests
      BY <1>1 DEF Todo, TodoType, SyncOutput
    <3>3. attempts' \in [Terminals -> [Attempts -> AttemptStates]]
      BY <3>1, MarkKeepsAttempts DEF AttemptStates
    <3>4. /\ sync' \in [Terminals -> [Attempts -> [pc : SyncStates, todo : TodoType]]]
          /\ TodoFiled'
      BY <1>2, <3>1, <3>2, GotoKeepsCalls DEF SyncStates
    <3> QED
      BY <1>2, <3>3, <3>4 DEF CallTypes, Invariant
  <2>2. CASE RejectReply(t, a, output)
    BY <1>2, <2>2, EndSync DEF RejectReply
  <2> QED
    BY <2>1, <2>2 DEF Receive
<1> QED
  BY <1>5, <1>6 DEF Invariant

LEMMA TickStep ==
    ASSUME Invariant, NEW t \in Terminals, Tick(t), UNCHANGED filed
    PROVE  Invariant'
<1>1. now' \in [Terminals -> Nat]
  BY DEF Tick, Invariant, CallTypes
<1>2. UNCHANGED <<db, attempts, sync, issued, crashes, filed>>
  BY DEF Tick
<1> QED
  BY <1>1, <1>2 DEF Invariant, Types, CallTypes, DrawnIds, Databases, TodoFiled

(* A crash forgets the rows left to store, and nothing else.                *)
LEMMA CrashStep ==
    ASSUME Invariant, NEW t \in Terminals, Crash(t), UNCHANGED filed
    PROVE  Invariant'
<1> DEFINE Call == [pc : SyncStates, todo : TodoType]
<1>1. /\ sync' = [sync EXCEPT ![t] = [a \in Attempts |-> Died(sync[t][a])]]
      /\ crashes' = [crashes EXCEPT ![t] = @ + 1]
      /\ UNCHANGED <<db, attempts, issued, now, filed>>
  BY DEF Crash
<1>2. sync \in [Terminals -> [Attempts -> Call]]
  BY DEF Invariant, CallTypes
<1>3. ASSUME NEW a \in Attempts
      PROVE  /\ Died(sync[t][a]) \in Call
             /\ Filings(Died(sync[t][a]).todo.requests) \subseteq filed
  <2>1. \/ Died(sync[t][a]) = sync[t][a]
        \/ Died(sync[t][a]) = [pc |-> "lost", todo |-> NoTodo]
        \/ Died(sync[t][a]) = [pc |-> "halfApplied", todo |-> NoTodo]
    BY DEF Died
  <2>2. sync[t][a] \in Call /\ Filings(sync[t][a].todo.requests) \subseteq filed
    BY <1>2 DEF Invariant, TodoFiled
  <2> QED
    BY <2>1, <2>2, NoTodoType DEF SyncStates
<1>4. sync' \in [Terminals -> [Attempts -> Call]]
  BY <1>1, <1>2, <1>3
<1>5. TodoFiled'
  <2> SUFFICES ASSUME NEW u \in Terminals, NEW a \in Attempts
               PROVE  Filings(sync'[u][a].todo.requests) \subseteq filed
    BY <1>1 DEF TodoFiled
  <2>1. sync'[u][a] = IF u = t THEN Died(sync[t][a]) ELSE sync[u][a]
    BY <1>1, <1>2
  <2> QED
    BY <1>3, <2>1 DEF Invariant, TodoFiled
<1>6. crashes' \in [Terminals -> Nat]
  BY <1>1 DEF Invariant, CallTypes
<1>7. CallTypes'
  BY <1>1, <1>4, <1>6 DEF Invariant, CallTypes
<1> QED
  BY <1>1, <1>5, <1>7 DEF Invariant, Types, DrawnIds, Databases

-----------------------------------------------------------------------------
(* The statements that store a reply                                        *)

\* A statement of t that draws no id and files nothing.
LEMMA QuietStore ==
    ASSUME Invariant, NEW t \in Terminals, NEW d, Store(t, d),
           UNCHANGED <<issued, filed>>,
           Sound(d), d.requests = db[t].requests,
           d.registrations = db[t].registrations
    PROVE  Types' /\ DrawnIds(filed, issued)' /\ Databases'
<1>1. /\ db' = [db EXCEPT ![t] = d]
      /\ db \in [Terminals -> Database]
      /\ d \in Database
  BY DEF Store, Sound, Invariant, Types
<1>2. Types' /\ DrawnIds(filed, issued)'
  BY <1>1 DEF Invariant, Types, DrawnIds
<1>3. ASSUME NEW u \in Terminals
      PROVE  Sound(db'[u]) /\ Numbered(u, db'[u], issued'[u]) /\ Recorded(db'[u], filed')
  <2>1. CASE u = t
    BY <1>1, <2>1 DEF Invariant, Databases, Numbered, Recorded
  <2>2. CASE u # t
    BY <1>1, <2>2 DEF Invariant, Databases
  <2> QED
    BY <2>1, <2>2
<1>4. Databases'
  BY <1>3 DEF Databases
<1> QED
  BY <1>2, <1>4

\* What is left of a reply after one of its rows has been stored.
LEMMA ContinueKeepsCalls ==
    ASSUME Invariant, NEW t \in Terminals, NEW a \in Attempts,
           NEW todo \in TodoType, Continue(t, a, todo),
           todo.requests \subseteq sync[t][a].todo.requests,
           UNCHANGED <<attempts, now, crashes, filed>>
    PROVE  CallTypes' /\ TodoFiled'
<1>1. Filings(todo.requests) \subseteq filed'
  BY DEF Invariant, TodoFiled, Filings
<1>2. PICK pc \in SyncStates : Goto(t, a, pc, todo)
  BY DEF Continue, SyncStates
<1>3. /\ sync' \in [Terminals -> [Attempts -> [pc : SyncStates, todo : TodoType]]]
      /\ TodoFiled'
  BY <1>1, <1>2, GotoKeepsCalls
<1> QED
  BY <1>3 DEF CallTypes, Invariant

LEMMA TodoOfCall ==
    ASSUME Invariant, NEW t \in Terminals, NEW a \in Attempts
    PROVE  /\ sync[t][a].todo \in TodoType
           /\ Filings(sync[t][a].todo.requests) \subseteq filed
           /\ db[t] \in Database
           /\ Sound(db[t])
           /\ Numbered(t, db[t], issued[t])
           /\ Recorded(db[t], filed)
           /\ issued[t] \in Nat
           /\ now[t] \in Nat
BY DEF Invariant, CallTypes, TodoFiled, Types, Databases

\* A statement of t that draws one id and files nothing.
LEMMA StoreOnly ==
    ASSUME Invariant, NEW t \in Terminals, NEW d, Store(t, d), Draw(t, 1),
           UNCHANGED filed,
           Sound(d), Numbered(t, d, issued[t] + 1), Recorded(d, filed)
    PROVE  Types' /\ DrawnIds(filed, issued)' /\ Databases'
<1> DEFINE F == {}
<1>1. /\ filed' = filed \cup F
      /\ F \subseteq Uuid \X Cacs
      /\ DrawnIds(F, issued')
      /\ Recorded(d, filed')
  BY DEF DrawnIds
<1> HIDE DEF F
<1> QED
  BY <1>1, 1 \in Nat, StoreKeepsDatabases

\* A statement that throws: its id is drawn, the sync has failed.
LEMMA FailAfterDraw ==
    ASSUME Invariant, NEW t \in Terminals, NEW a \in Attempts,
           Fail(t, a), Draw(t, 1), UNCHANGED <<db, now, crashes, filed>>
    PROVE  Invariant'
<1>1. CallTypes' /\ TodoFiled'
  BY EndSync
<1>2. db \in [Terminals -> Database] /\ issued[t] \in Nat
  BY DEF Invariant, Types
<1>3. Store(t, db[t])
  BY <1>2 DEF Store
<1>4. Sound(db[t]) /\ Numbered(t, db[t], issued[t] + 1) /\ Recorded(db[t], filed)
  BY <1>2 DEF Invariant, Databases, Numbered
<1>5. Types' /\ DrawnIds(filed, issued)' /\ Databases'
  BY <1>3, <1>4, StoreOnly
<1> QED
  BY <1>1, <1>5 DEF Invariant

LEMMA ResetAdminsStepKeeps ==
    ASSUME Invariant, NEW t \in Terminals, NEW a \in Attempts,
           ResetAdminsStep(t, a), UNCHANGED filed
    PROVE  Invariant'
<1> DEFINE todo == sync[t][a].todo
<1> DEFINE d == ResetAdmins(db[t])
<1>1. /\ Store(t, d)
      /\ Continue(t, a, todo)
      /\ UNCHANGED <<attempts, issued, now, crashes, filed>>
  BY DEF ResetAdminsStep
<1>2. todo \in TodoType /\ Sound(db[t]) /\ db[t] \in Database
  BY TodoOfCall
<1>3. CallTypes' /\ TodoFiled'
  BY <1>1, <1>2, ContinueKeepsCalls
<1>4. /\ d.requests = db[t].requests
      /\ d.registrations = db[t].registrations
      /\ Sound(d)
  BY <1>2, ResetAdminsSound DEF ResetAdmins, Database
<1>5. Types' /\ DrawnIds(filed, issued)' /\ Databases'
  BY <1>1, <1>4, QuietStore
<1> QED
  BY <1>3, <1>5 DEF Invariant

LEMMA ApplyAdminStep ==
    ASSUME Invariant, NEW t \in Terminals, NEW a \in Attempts,
           ApplyAdmin(t, a), UNCHANGED filed
    PROVE  Invariant'
<1> DEFINE todo == sync[t][a].todo
<1>1. PICK cac \in todo.admins :
          /\ Store(t, PutAdmin(db[t], cac))
          /\ Continue(t, a, [todo EXCEPT !.admins = @ \ {cac}])
  BY DEF ApplyAdmin
<1> DEFINE d == PutAdmin(db[t], cac)
<1> DEFINE rest == [todo EXCEPT !.admins = @ \ {cac}]
<1>2. UNCHANGED <<attempts, issued, now, crashes, filed>>
  BY DEF ApplyAdmin
<1>3. todo \in TodoType /\ Sound(db[t]) /\ db[t] \in Database
  BY TodoOfCall
<1>4. rest \in TodoType /\ rest.requests = todo.requests /\ cac \in Cacs
  BY <1>3 DEF TodoType
<1>5. CallTypes' /\ TodoFiled'
  BY <1>1, <1>2, <1>4, ContinueKeepsCalls
<1>6. /\ d.requests = db[t].requests
      /\ d.registrations = db[t].registrations
      /\ Sound(d)
  BY <1>3, <1>4, PutAdminSound DEF PutAdmin, Database
<1>7. Types' /\ DrawnIds(filed, issued)' /\ Databases'
  BY <1>1, <1>2, <1>6, QuietStore
<1> QED
  BY <1>5, <1>7 DEF Invariant

LEMMA ApplyElectionStep ==
    ASSUME Invariant, NEW t \in Terminals, NEW a \in Attempts,
           ApplyElection(t, a), UNCHANGED filed
    PROVE  Invariant'
<1> DEFINE todo == sync[t][a].todo
<1>1. PICK e \in Newest(todo.elections) :
          LET row == ElectionFromServer(t, e) IN
          IF CanPutElection(db[t], row, t)
          THEN /\ Store(t, PutElection(db[t], row))
               /\ Continue(t, a, [todo EXCEPT !.elections = @ \ {e}])
               /\ UNCHANGED attempts
          ELSE Fail(t, a) /\ UNCHANGED db
  BY DEF ApplyElection
<1> DEFINE row == ElectionFromServer(t, e)
<1> DEFINE d == PutElection(db[t], row)
<1> DEFINE rest == [todo EXCEPT !.elections = @ \ {e}]
<1>2. Draw(t, 1) /\ UNCHANGED <<now, crashes, filed>>
  BY DEF ApplyElection
<1>3. /\ todo \in TodoType /\ Sound(db[t]) /\ db[t] \in Database
      /\ issued[t] \in Nat /\ now[t] \in Nat
      /\ Numbered(t, db[t], issued[t]) /\ Recorded(db[t], filed)
  BY TodoOfCall
<1>4. e \in ElectionOutput
  BY <1>3 DEF Newest, TodoType
<1>5. rest \in TodoType /\ rest.requests = todo.requests
  BY <1>3 DEF TodoType
<1>6. row \in ElectionRow
  BY <1>3, <1>4 DEF ElectionFromServer, ElectionRow, ElectionOutput, Fresh,
                    Optional, Uuid, Owners
<1>7. CASE CanPutElection(db[t], row, t)
  <2>1. Store(t, d) /\ Continue(t, a, rest) /\ UNCHANGED attempts
    BY <1>1, <1>7
  <2>2. CallTypes' /\ TodoFiled'
    BY <1>2, <1>5, <2>1, ContinueKeepsCalls
  <2>3. Sound(d)
    BY <1>3, <1>6, PutElectionSound
  <2>4. d.requests = db[t].requests /\ d.registrations = db[t].registrations
    BY <1>3 DEF PutElection, Database
  <2>5. Numbered(t, d, issued[t] + 1) /\ Recorded(d, filed)
    BY <1>3, <2>4 DEF Numbered, Recorded
  <2>6. Types' /\ DrawnIds(filed, issued)' /\ Databases'
    BY <1>2, <2>1, <2>3, <2>5, StoreOnly
  <2> QED
    BY <2>2, <2>6 DEF Invariant
<1>8. CASE ~CanPutElection(db[t], row, t)
  BY <1>1, <1>2, <1>8, FailAfterDraw
<1> QED
  BY <1>7, <1>8

LEMMA ApplyRequestStep ==
    ASSUME Invariant, NEW t \in Terminals, NEW a \in Attempts,
           ApplyRequest(t, a), UNCHANGED filed
    PROVE  Invariant'
<1> DEFINE todo == sync[t][a].todo
<1>1. PICK r \in Newest(todo.requests) :
          LET row == RequestFromServer(t, r) IN
          IF CanPutRequest(db[t], row)
          THEN /\ Store(t, PutRequest(db[t], row))
               /\ Continue(t, a, [todo EXCEPT !.requests = @ \ {r}])
               /\ UNCHANGED attempts
          ELSE Fail(t, a) /\ UNCHANGED db
  BY DEF ApplyRequest
<1> DEFINE row == RequestFromServer(t, r)
<1> DEFINE d == PutRequest(db[t], row)
<1> DEFINE rest == [todo EXCEPT !.requests = @ \ {r}]
<1>2. Draw(t, 1) /\ UNCHANGED <<now, crashes, filed>>
  BY DEF ApplyRequest
<1>3. /\ todo \in TodoType /\ Sound(db[t]) /\ db[t] \in Database
      /\ issued[t] \in Nat /\ now[t] \in Nat
      /\ Numbered(t, db[t], issued[t]) /\ Recorded(db[t], filed)
      /\ Filings(todo.requests) \subseteq filed
  BY TodoOfCall
<1>4. r \in RequestOutput /\ r \in todo.requests
  BY <1>3 DEF Newest, TodoType
<1>5. rest \in TodoType /\ rest.requests \subseteq todo.requests
  BY <1>3 DEF TodoType
<1>6. /\ row \in RequestRow
      /\ row.id = <<t, issued[t] + 1>>
      /\ row.clientId = r.clientId /\ row.cac = r.cac
  BY <1>3, <1>4 DEF RequestFromServer, RequestRow, RequestOutput, Fresh,
                    Optional, Uuid, Owners
<1>7. \A q \in db[t].requests : q.id # row.id
  BY <1>3, <1>6 DEF Numbered
<1>8. CASE CanPutRequest(db[t], row)
  <2>1. Store(t, d) /\ Continue(t, a, rest) /\ UNCHANGED attempts
    BY <1>1, <1>8
  <2>2. CallTypes' /\ TodoFiled'
    BY <1>2, <1>5, <2>1, ContinueKeepsCalls
  <2>3. Sound(d)
    BY <1>3, <1>6, <1>7, <1>8, PutRequestSound
  <2>4. /\ d.requests \subseteq db[t].requests \cup {row}
        /\ d.registrations = db[t].registrations
    BY <1>3 DEF PutRequest, Database
  <2>5. Numbered(t, d, issued[t] + 1)
    BY <1>3, <1>6, <2>4 DEF Numbered
  <2>6. Recorded(d, filed)
    BY <1>3, <1>4, <1>6, <2>4 DEF Recorded, Filings
  <2>7. Types' /\ DrawnIds(filed, issued)' /\ Databases'
    BY <1>2, <2>1, <2>3, <2>5, <2>6, StoreOnly
  <2> QED
    BY <2>2, <2>7 DEF Invariant
<1>9. CASE ~CanPutRequest(db[t], row)
  BY <1>1, <1>2, <1>9, FailAfterDraw
<1> QED
  BY <1>8, <1>9

LEMMA ApplyRegistrationStep ==
    ASSUME Invariant, NEW t \in Terminals, NEW a \in Attempts,
           ApplyRegistration(t, a), UNCHANGED filed
    PROVE  Invariant'
<1> DEFINE todo == sync[t][a].todo
<1> DEFINE Rows(g) == {row \in RegistrationsFromServer(t, g) :
                          CanPutRegistration(db[t], row)}
<1>1. PICK g \in Newest(todo.registrations) :
          IF Rows(g) # {}
          THEN /\ \E row \in Rows(g) : Store(t, PutRegistration(db[t], row))
               /\ Continue(t, a, [todo EXCEPT !.registrations = @ \ {g}])
               /\ UNCHANGED attempts
          ELSE Fail(t, a) /\ UNCHANGED db
  BY DEF ApplyRegistration
<1> DEFINE rest == [todo EXCEPT !.registrations = @ \ {g}]
<1>2. Draw(t, 1) /\ UNCHANGED <<now, crashes, filed>>
  BY DEF ApplyRegistration
<1>3. /\ todo \in TodoType /\ Sound(db[t]) /\ db[t] \in Database
      /\ issued[t] \in Nat /\ now[t] \in Nat
      /\ Numbered(t, db[t], issued[t]) /\ Recorded(db[t], filed)
  BY TodoOfCall
<1>4. g \in RegistrationOutput
  BY <1>3 DEF Newest, TodoType
<1>5. rest \in TodoType /\ rest.requests = todo.requests
  BY <1>3 DEF TodoType
<1>6. CASE Rows(g) # {}
  <2>1. PICK row \in Rows(g) : Store(t, PutRegistration(db[t], row))
    BY <1>1, <1>6
  <2> DEFINE d == PutRegistration(db[t], row)
  <2>2. Continue(t, a, rest) /\ UNCHANGED attempts
    BY <1>1, <1>6
  <2>3. CallTypes' /\ TodoFiled'
    BY <1>2, <1>5, <2>2, ContinueKeepsCalls
  <2>4. PICK r \in db[t].requests, e \in db[t].elections :
            row = [id |-> Fresh(t, 1), serverId |-> g.id, clientId |-> g.clientId,
                   machineId |-> g.machineId, cac |-> r.cac, requestId |-> r.id,
                   electionId |-> e.id, at |-> now[t]]
    BY <2>1 DEF RegistrationsFromServer, RequestsByClientId,
                RequestsByServerId, ElectionsByServerId
  <2>5. r \in RequestRow /\ e \in ElectionRow
    BY <1>3 DEF Database
  <2>6. /\ row \in RegistrationRow
        /\ row.id = <<t, issued[t] + 1>>
        /\ row.cac = r.cac /\ row.requestId = r.id
    BY <1>3, <1>4, <2>4, <2>5 DEF RegistrationRow, RegistrationOutput, RequestRow,
                                  ElectionRow, Fresh, Optional, Uuid, Owners
  <2>7. \A h \in db[t].registrations : h.id # row.id
    BY <1>3, <2>6 DEF Numbered
  <2>8. CanPutRegistration(db[t], row)
    BY <2>1
  <2>9. Sound(d)
    BY <1>3, <2>6, <2>7, <2>8, PutRegistrationSound
  <2>10. /\ d.requests = db[t].requests
         /\ d.registrations \subseteq db[t].registrations \cup {row}
    BY <1>3 DEF PutRegistration, Database
  <2>11. Numbered(t, d, issued[t] + 1) /\ Recorded(d, filed)
    BY <1>3, <2>6, <2>10 DEF Numbered, Recorded
  <2>12. Types' /\ DrawnIds(filed, issued)' /\ Databases'
    BY <1>2, <2>1, <2>9, <2>11, StoreOnly
  <2> QED
    BY <2>3, <2>12 DEF Invariant
<1>7. CASE Rows(g) = {}
  BY <1>1, <1>2, <1>7, FailAfterDraw
<1> QED
  BY <1>6, <1>7

LEMMA ApplyStep ==
    ASSUME Invariant, NEW t \in Terminals, NEW a \in Attempts,
           Apply(t, a), UNCHANGED filed
    PROVE  Invariant'
BY ResetAdminsStepKeeps, ApplyAdminStep, ApplyElectionStep, ApplyRequestStep,
   ApplyRegistrationStep DEF Apply

-----------------------------------------------------------------------------
(* The handlers of the voter                                                *)

(* A handler's requests are filed as they are stored.                       *)
LEMMA LocalStore ==
    ASSUME Invariant, NEW t \in Terminals, NEW d, NEW k \in Nat,
           Store(t, d), Draw(t, k), UNCHANGED <<attempts, sync, now, crashes>>,
           filed' = filed \cup Filings(db'[t].requests),
           Sound(d), Numbered(t, d, issued[t] + k),
           \A r \in d.requests :
               \/ r \in db[t].requests
               \/ r.clientId[1] = t /\ r.clientId[2] \in 1 .. issued[t] + k
    PROVE  Invariant'
<1> DEFINE F == Filings(d.requests)
<1>1. /\ db' = [db EXCEPT ![t] = d]
      /\ issued' = [issued EXCEPT ![t] = @ + k]
      /\ db \in [Terminals -> Database] /\ issued \in [Terminals -> Nat]
      /\ d \in Database
  BY DEF Store, Draw, Sound, Invariant, Types
<1>2. db'[t] = d /\ issued'[t] = issued[t] + k
  BY <1>1
<1>3. filed' = filed \cup F /\ Recorded(d, filed')
  BY <1>2 DEF Recorded
<1>4. F \subseteq Uuid \X Cacs
  BY <1>1 DEF Filings, Database, RequestRow
<1>5. DrawnIds(F, issued')
  <2> SUFFICES ASSUME NEW r \in d.requests, r.clientId[1] \in Terminals
               PROVE  r.clientId[2] \in 1 .. issued'[r.clientId[1]]
    BY DEF DrawnIds, Filings
  <2>1. CASE r \in db[t].requests
    <3>1. <<r.clientId, r.cac>> \in filed
      BY <2>1 DEF Invariant, Databases, Recorded, Filings
    <3>2. <<r.clientId, r.cac>>[1] = r.clientId
      OBVIOUS
    <3>3. r.clientId[2] \in 1 .. issued[r.clientId[1]]
      BY <3>1, <3>2 DEF Invariant, DrawnIds
    <3>4. /\ issued[r.clientId[1]] \in Nat /\ issued'[r.clientId[1]] \in Nat
          /\ issued[r.clientId[1]] <= issued'[r.clientId[1]]
      BY <1>1
    <3> QED
      BY <3>3, <3>4
  <2>2. CASE r.clientId[1] = t /\ r.clientId[2] \in 1 .. issued[t] + k
    BY <1>2, <2>2
  <2> QED
    BY <2>1, <2>2
<1> HIDE DEF F
<1>6. Types' /\ DrawnIds(filed, issued)' /\ Databases'
  BY <1>3, <1>4, <1>5, StoreKeepsDatabases
<1>7. CallTypes'
  BY DEF Invariant, CallTypes
<1>8. TodoFiled'
  BY <1>3 DEF Invariant, TodoFiled
<1> QED
  BY <1>6, <1>7, <1>8 DEF Invariant

LEMMA LocalRequestType ==
    ASSUME Invariant, NEW t \in Terminals, NEW cac \in Cacs
    PROVE  /\ LocalRequest(t, cac) \in RequestRow
           /\ LocalRequest(t, cac).id = <<t, issued[t] + 1>>
           /\ LocalRequest(t, cac).clientId = <<t, issued[t] + 1>>
           /\ LocalRequest(t, cac).cac = cac
BY TodoOfCall DEF LocalRequest, RequestRow, Fresh, Optional, Uuid, Owners,
                  Invariant, Types, CallTypes

LEMMA CreateVoterRegistrationStep ==
    ASSUME Invariant, NEW t \in Terminals, NEW cac \in Cacs,
           CreateVoterRegistration(t, cac),
           filed' = filed \cup Filings(db'[t].requests)
    PROVE  Invariant'
<1> DEFINE new == LocalRequest(t, cac)
<1> DEFINE d == PutRequest(db[t], new)
<1>1. /\ CanPutRequest(db[t], new)
      /\ Store(t, d)
      /\ Draw(t, 1)
      /\ UNCHANGED <<attempts, sync, now, crashes>>
  BY DEF CreateVoterRegistration
<1>2. /\ Sound(db[t]) /\ db[t] \in Database /\ Numbered(t, db[t], issued[t])
      /\ issued[t] \in Nat
  BY DEF Invariant, Databases, Types
<1>3. new \in RequestRow /\ new.id = <<t, issued[t] + 1>> /\ new.clientId = new.id
  BY LocalRequestType
<1> HIDE DEF new
<1>4. \A r \in db[t].requests : r.id # new.id
  BY <1>2, <1>3 DEF Numbered
<1>5. Sound(d)
  BY <1>1, <1>2, <1>3, <1>4, PutRequestSound
<1>6. /\ d.requests \subseteq db[t].requests \cup {new}
      /\ d.registrations = db[t].registrations
  BY <1>2 DEF PutRequest, Database
<1>7. Numbered(t, d, issued[t] + 1)
  BY <1>2, <1>3, <1>6 DEF Numbered
<1>8. \A r \in d.requests :
          \/ r \in db[t].requests
          \/ r.clientId[1] = t /\ r.clientId[2] \in 1 .. issued[t] + 1
  BY <1>2, <1>3, <1>6
<1> HIDE DEF d
<1> QED
  BY <1>1, <1>5, <1>7, <1>8, 1 \in Nat, LocalStore

LEMMA SaveVotesStep ==
    ASSUME Invariant, NEW t \in Terminals, NEW cac \in Cacs,
           SaveVotes(t, cac),
           filed' = filed \cup Filings(db'[t].requests)
    PROVE  Invariant'
<1> DEFINE Ballot(g) ==
        [id |-> Fresh(t, 1), serverId |-> None, clientId |-> Fresh(t, 1),
         machineId |-> t, cac |-> g.cac, registrationId |-> g.id, at |-> now[t]]
<1>1. PICK g \in VotingRegistrations(db[t], cac) :
          /\ CanPutBallot(db[t], Ballot(g))
          /\ Store(t, PutBallot(db[t], Ballot(g)))
  BY DEF SaveVotes
<1> DEFINE d == PutBallot(db[t], Ballot(g))
<1>2. Draw(t, 1) /\ UNCHANGED <<attempts, sync, now, crashes>>
  BY DEF SaveVotes
<1>3. /\ Sound(db[t]) /\ db[t] \in Database /\ Numbered(t, db[t], issued[t])
      /\ issued[t] \in Nat /\ now[t] \in Nat
  BY DEF Invariant, Databases, Types, CallTypes
<1>4. g \in db[t].registrations /\ g \in RegistrationRow
  BY <1>3 DEF VotingRegistrations, Database
<1>5. Ballot(g) \in BallotRow
  BY <1>3, <1>4 DEF BallotRow, RegistrationRow, Fresh, Optional, Uuid, Owners
<1>6. Ballot(g).registrationId = g.id /\ Ballot(g).cac = g.cac
  OBVIOUS
<1>7. Sound(d)
  <2> HIDE DEF Ballot
  <2> QED
    BY <1>1, <1>3, <1>4, <1>5, <1>6, PutBallotSound
<1>8. d.requests = db[t].requests /\ d.registrations = db[t].registrations
  BY <1>3 DEF PutBallot, Database
<1>9. Numbered(t, d, issued[t] + 1)
  BY <1>3, <1>8 DEF Numbered
<1>10. Store(t, d)
  BY <1>1
<1> HIDE DEF d
<1> QED
  BY <1>2, <1>7, <1>8, <1>9, <1>10, 1 \in Nat, LocalStore

(* A request whose voter and client id are new displaces nothing.           *)
LEMMA NewRequest ==
    ASSUME NEW d, Sound(d), NEW new \in RequestRow,
           \A r \in d.requests :
               r.id # new.id /\ r.clientId # new.clientId /\ r.cac # new.cac
    PROVE  /\ Sound(PutRequest(d, new))
           /\ PutRequest(d, new).requests = d.requests \cup {new}
           /\ PutRequest(d, new).registrations = d.registrations
<1>1. DisplacedRequests(d, new) = {}
  BY DEF DisplacedRequests
<1>2. CanPutRequest(d, new)
  BY <1>1 DEF CanPutRequest
<1>3. Sound(PutRequest(d, new))
  BY <1>2, PutRequestSound
<1> QED
  BY <1>1, <1>3 DEF PutRequest, Sound, Database

(* The records of a test voter: none of them displaces a row, because the   *)
(* CAC is new and the client id made up here was never drawn before.        *)
LEMMA TestRecordsSound ==
    ASSUME Invariant, NEW t \in Terminals, NEW cac \in Cacs,
           NEW kind \in TestRecords, NEW d, Sound(d),
           d.requests = db[t].requests, d.registrations = db[t].registrations,
           \A r \in d.requests : r.cac # cac
    PROVE  /\ Sound(WithTestRecords(t, d, cac, kind))
           /\ Numbered(t, WithTestRecords(t, d, cac, kind), issued[t] + 5)
           /\ \A r \in WithTestRecords(t, d, cac, kind).requests :
                  \/ r \in db[t].requests
                  \/ r.clientId[1] = t /\ r.clientId[2] \in 1 .. issued[t] + 5
<1> DEFINE n == issued[t]
<1> DEFINE local == LocalRequest(t, cac)
<1> DEFINE synced == [id |-> Fresh(t, 3), serverId |-> Fresh(t, 1),
                      clientId |-> Fresh(t, 2), machineId |-> t, cac |-> cac,
                      at |-> now[t]]
<1> DEFINE election == [id |-> Fresh(t, 4), serverId |-> None,
                        clientId |-> Fresh(t, 4), machineId |-> t, at |-> now[t]]
<1> DEFINE registration == [id |-> Fresh(t, 5), serverId |-> None,
                            clientId |-> Fresh(t, 5), machineId |-> t,
                            cac |-> cac, requestId |-> synced.id,
                            electionId |-> election.id, at |-> now[t]]
<1> DEFINE d1 == PutRequest(d, synced)
<1> DEFINE d2 == PutElection(d1, election)
<1> DEFINE d3 == PutRegistration(d2, registration)
<1> DEFINE Drawn(e) ==
        \A r \in e.requests :
            \/ r \in db[t].requests
            \/ r.clientId[1] = t /\ r.clientId[2] \in 1 .. n + 5
<1>1. n \in Nat /\ now[t] \in Nat /\ Numbered(t, db[t], n)
  BY DEF Invariant, Types, CallTypes, Databases
<1>2. \A r \in db[t].requests : /\ r.id[1] = t /\ r.id[2] \in 1 .. n
                                /\ r.clientId[1] = t => r.clientId[2] \in 1 .. n
  <2> SUFFICES ASSUME NEW r \in db[t].requests, r.clientId[1] = t
               PROVE  r.clientId[2] \in 1 .. n
    BY <1>1 DEF Numbered
  <2>1. <<r.clientId, r.cac>> \in filed
    BY DEF Invariant, Databases, Recorded, Filings
  <2>2. <<r.clientId, r.cac>>[1] = r.clientId
    OBVIOUS
  <2> QED
    BY <2>1, <2>2 DEF Invariant, DrawnIds
<1>3. Numbered(t, d, n + 5) /\ Drawn(d)
  BY <1>1 DEF Numbered
<1>4. /\ local \in RequestRow /\ local.id = <<t, n + 1>>
      /\ local.clientId = <<t, n + 1>> /\ local.cac = cac
  BY LocalRequestType
<1>5. /\ synced \in RequestRow /\ synced.id = <<t, n + 3>>
      /\ synced.clientId = <<t, n + 2>> /\ synced.cac = cac
  BY <1>1 DEF RequestRow, Fresh, Optional, Uuid, Owners
<1>6. election \in ElectionRow /\ election.id = <<t, n + 4>>
  BY <1>1 DEF ElectionRow, Fresh, Optional, Uuid, Owners
<1>7. /\ registration \in RegistrationRow /\ registration.id = <<t, n + 5>>
      /\ registration.cac = cac /\ registration.requestId = synced.id
      /\ registration.electionId = election.id
  BY <1>1, <1>5, <1>6 DEF RegistrationRow, Fresh, Optional, Uuid, Owners
<1> HIDE DEF local, synced, election, registration
<1>8. \A r \in d.requests : /\ r.id # local.id /\ r.clientId # local.clientId
                            /\ r.id # synced.id /\ r.clientId # synced.clientId
  BY <1>1, <1>2, <1>4, <1>5
<1>9. /\ Sound(PutRequest(d, local))
      /\ PutRequest(d, local).requests = d.requests \cup {local}
      /\ PutRequest(d, local).registrations = d.registrations
  BY <1>4, <1>8, NewRequest
<1>10. /\ Sound(d1)
       /\ d1.requests = d.requests \cup {synced}
       /\ d1.registrations = d.registrations
  BY <1>5, <1>8, NewRequest
<1>11. Numbered(t, PutRequest(d, local), n + 5) /\ Drawn(PutRequest(d, local))
  BY <1>1, <1>3, <1>4, <1>9 DEF Numbered
<1>12. Numbered(t, d1, n + 5) /\ Drawn(d1)
  BY <1>1, <1>3, <1>5, <1>10 DEF Numbered
<1> HIDE DEF d1
<1>13. /\ Sound(d2)
       /\ d2.requests = d1.requests
       /\ d2.registrations = d1.registrations
       /\ d2.elections = d1.elections \cup {election}
       /\ d2 \in Database
  BY <1>6, <1>10, PutElectionSound DEF PutElection, Sound, Database
<1> HIDE DEF d2
<1>14. CanPutRegistration(d2, registration)
  <2>1. synced \in d2.requests /\ election \in d2.elections
    BY <1>10, <1>13
  <2>2. \A g \in d2.registrations : g.id # registration.id /\ g.cac # cac
    <3> SUFFICES ASSUME NEW g \in d.registrations
                 PROVE  g.id # registration.id /\ g.cac # cac
      BY <1>10, <1>13
    <3>1. g.id[2] \in 1 .. n
      BY <1>1 DEF Numbered
    <3>2. \E r \in d.requests : r.cac = g.cac
      BY DEF Sound, Linked, LinkedRegistrations
    <3> QED
      BY <1>1, <1>7, <3>1, <3>2
  <2>3. DisplacedRegistrations(d2, registration) = {}
    BY <1>7, <2>2 DEF DisplacedRegistrations
  <2> QED
    BY <1>7, <2>1, <2>3 DEF CanPutRegistration
<1>15. Sound(d3)
  <2>1. \A g \in d2.registrations : g.id # registration.id
    BY <1>1, <1>7, <1>10, <1>13 DEF Numbered
  <2>2. \E r \in d2.requests : r.id = registration.requestId /\ r.cac = registration.cac
    BY <1>5, <1>7, <1>10, <1>13
  <2> QED
    BY <1>7, <1>13, <1>14, <2>1, <2>2, PutRegistrationSound
<1>16. /\ d3.requests = d1.requests
       /\ d3.registrations \subseteq d1.registrations \cup {registration}
  BY <1>13 DEF PutRegistration, Database
<1>17. Numbered(t, d3, n + 5) /\ Drawn(d3)
  BY <1>1, <1>7, <1>12, <1>16 DEF Numbered
<1> HIDE DEF d3
<1> DEFINE e == WithTestRecords(t, d, cac, kind)
<1>18. e = d \/ e = PutRequest(d, local) \/ e = d1 \/ e = d3
  BY DEF WithTestRecords, TestRecords, local, synced, election, registration, d1, d2, d3
<1> HIDE DEF e, Drawn, n
<1>19. Sound(e) /\ Numbered(t, e, n + 5) /\ Drawn(e)
  BY <1>3, <1>9, <1>10, <1>11, <1>12, <1>15, <1>17, <1>18
<1> QED
  BY <1>19 DEF e, Drawn, n

LEMMA CreateTestVoterStep ==
    ASSUME Invariant, NEW t \in Terminals, NEW cac \in Cacs,
           NEW isAdmin \in BOOLEAN, NEW kind \in TestRecords,
           CreateTestVoter(t, cac, isAdmin, kind),
           filed' = filed \cup Filings(db'[t].requests)
    PROVE  Invariant'
<1> DEFINE d == IF isAdmin THEN PutAdmin(db[t], cac) ELSE db[t]
<1> DEFINE e == WithTestRecords(t, d, cac, kind)
<1>1. /\ NewCac(cac)
      /\ Store(t, e)
      /\ Draw(t, 5)
      /\ UNCHANGED <<attempts, sync, now, crashes>>
  BY DEF CreateTestVoter
<1>2. Sound(db[t]) /\ db[t] \in Database
  BY DEF Invariant, Databases, Types
<1>3. /\ d.requests = db[t].requests /\ d.registrations = db[t].registrations
      /\ Sound(d)
  BY <1>2, PutAdminSound DEF PutAdmin, Database
<1>4. \A r \in d.requests : r.cac # cac
  BY <1>1, <1>3 DEF NewCac
<1> HIDE DEF d
<1>5. /\ Sound(e)
      /\ Numbered(t, e, issued[t] + 5)
      /\ \A r \in e.requests :
             \/ r \in db[t].requests
             \/ r.clientId[1] = t /\ r.clientId[2] \in 1 .. issued[t] + 5
  BY <1>3, <1>4, TestRecordsSound
<1> HIDE DEF e
<1> QED
  BY <1>1, <1>5, 5 \in Nat, LocalStore

-----------------------------------------------------------------------------
LEMMA NextKeepsInvariant == Invariant /\ [TerminalNext(SyncOutput)]_terminalVars => Invariant'
<1> SUFFICES ASSUME Invariant, [TerminalNext(SyncOutput)]_terminalVars PROVE Invariant'
  OBVIOUS
<1>1. CASE UNCHANGED terminalVars
  BY <1>1 DEF terminalVars, Invariant, Types, CallTypes, DrawnIds, Databases, TodoFiled
<1>2. CASE TerminalNext(SyncOutput)
  <2> SUFFICES ASSUME NEW t \in Terminals,
                      \/ Local(t)
                      \/ \E a \in Attempts :
                             \/ SyncStep(t, a)
                             \/ \E output \in SyncOutput : Receive(t, a, output)
                      \/ (Tick(t) \/ Crash(t)) /\ UNCHANGED filed
               PROVE  Invariant'
    BY <1>2 DEF TerminalNext
  <2>1. CASE Local(t)
    BY <2>1, CreateVoterRegistrationStep, SaveVotesStep, CreateTestVoterStep
    DEF Local, Voter
  <2>2. ASSUME NEW a \in Attempts, SyncStep(t, a)
        PROVE  Invariant'
    BY <2>2, StartSyncStep, EndSyncStep, ApplyStep DEF SyncStep
  <2>3. ASSUME NEW a \in Attempts, NEW output \in SyncOutput, Receive(t, a, output)
        PROVE  Invariant'
    BY <2>3, ReceiveStep
  <2>4. CASE (Tick(t) \/ Crash(t)) /\ UNCHANGED filed
    BY <2>4, TickStep, CrashStep
  <2> QED
    BY <2>1, <2>2, <2>3, <2>4
<1> QED
  BY <1>1, <1>2

(* Where ids come from, and everything that rests on it, holds in every     *)
(* reachable state of the terminals.                                        *)
THEOREM InvariantHolds == TerminalSpec => []Invariant
BY InitInvariant, NextKeepsInvariant, PTL DEF TerminalSpec

(* Every table, attempt row and running sync of every terminal keeps its    *)
(* shape, whatever server it talks to.                                      *)
THEOREM TypeCorrect == TerminalSpec => []TypeOK
BY InvariantHolds, InvariantImplies, PTL

(* On every terminal a ballot, its registration and its request exist       *)
(* together and carry one CAC, under any interleaving of voters, syncs and  *)
(* crashes.                                                                 *)
THEOREM RecordsStayTogether == TerminalSpec => []RecordsOfOneVoter
BY InvariantHolds, InvariantImplies, PTL

(* On no terminal a voter has two requests, two registrations or two        *)
(* ballots, under any interleaving of voters, syncs and crashes.            *)
THEOREM NoVoterTwice == TerminalSpec => []OneRecordPerVoter
BY InvariantHolds, InvariantImplies, PTL

----------------------------------------------------------------------------
(* The rows of server_sync_attempts.                                       *)

\* Where the sync of an attempt row may be.
AttemptOf(outcome, pc) ==
    /\ outcome = "none" <=> pc = "idle"
    /\ outcome = "pending" <=> pc \in {"fetching", "lost"}
    /\ pc \in {"reset", "applying"} => outcome = "success"

AttemptsTell ==
    \A t \in Terminals, a \in Attempts :
        AttemptOf(attempts[t][a], sync[t][a].pc)

AttemptsInvariant == CallTypes /\ AttemptsTell

Moves ==
    {<<"none", "pending">>, <<"pending", "success">>,
     <<"pending", "failure">>, <<"success", "failure">>}

\* The attempt rows change only along Moves.
AttemptsMove ==
    \A t \in Terminals, a \in Attempts :
        attempts'[t][a] # attempts[t][a] =>
            <<attempts[t][a], attempts'[t][a]>> \in Moves

(* A step that moves only the sync a of t, and its row to match.            *)
LEMMA OneSyncMoves ==
    ASSUME AttemptsInvariant, CallTypes', NEW t \in Terminals, NEW a \in Attempts,
           NEW s, NEW pc, NEW todo,
           attempts' = [attempts EXCEPT ![t][a] = s], Goto(t, a, pc, todo),
           AttemptOf(s, pc),
           s = attempts[t][a] \/ <<attempts[t][a], s>> \in Moves
    PROVE  AttemptsTell' /\ AttemptsMove
<1> SUFFICES ASSUME NEW u \in Terminals, NEW b \in Attempts
             PROVE  /\ AttemptOf(attempts'[u][b], sync'[u][b].pc)
                    /\ attempts'[u][b] # attempts[u][b] =>
                          <<attempts[u][b], attempts'[u][b]>> \in Moves
  BY DEF AttemptsTell, AttemptsMove
<1>1. /\ attempts \in [Terminals -> [Attempts -> AttemptStates]]
      /\ sync \in [Terminals -> [Attempts -> [pc : SyncStates, todo : TodoType]]]
      /\ sync' = [sync EXCEPT ![t][a] = [pc |-> pc, todo |-> todo]]
  BY DEF AttemptsInvariant, CallTypes, Goto
<1>2. CASE u = t /\ b = a
  <2>1. attempts'[u][b] = s /\ sync'[u][b].pc = pc
    BY <1>1, <1>2
  <2> QED
    BY <1>2, <2>1
<1>3. CASE ~(u = t /\ b = a)
  <2>1. attempts'[u][b] = attempts[u][b] /\ sync'[u][b] = sync[u][b]
    BY <1>1, <1>3
  <2> QED
    BY <2>1 DEF AttemptsInvariant, AttemptsTell
<1> QED
  BY <1>2, <1>3

LEMMA SyncMoves ==
    ASSUME Invariant, AttemptsInvariant, Invariant', [TerminalNext(SyncOutput)]_terminalVars
    PROVE  AttemptsTell' /\ AttemptsMove
<1>1. CallTypes'
  BY DEF Invariant
<1>2. /\ attempts \in [Terminals -> [Attempts -> AttemptStates]]
      /\ sync \in [Terminals -> [Attempts -> [pc : SyncStates, todo : TodoType]]]
  BY DEF AttemptsInvariant, CallTypes
<1>3. ASSUME UNCHANGED <<attempts, sync>>
      PROVE  AttemptsTell' /\ AttemptsMove
  BY <1>3 DEF AttemptsInvariant, AttemptsTell, AttemptsMove
<1>4. ASSUME NEW t \in Terminals, NEW a \in Attempts
      PROVE  /\ AttemptOf(attempts[t][a], sync[t][a].pc)
             /\ attempts = [attempts EXCEPT ![t][a] = attempts[t][a]]
  BY <1>2 DEF AttemptsInvariant, AttemptsTell
<1>5. ASSUME NEW t \in Terminals, NEW a \in Attempts, Fail(t, a),
             sync[t][a].pc \in {"fetching", "reset", "applying"}
      PROVE  AttemptsTell' /\ AttemptsMove
  <2>1. AttemptOf("failure", "done") /\ <<attempts[t][a], "failure">> \in Moves
    BY <1>4, <1>5 DEF AttemptOf, Moves
  <2> QED
    BY <1>1, <1>5, <2>1, OneSyncMoves DEF Fail, Mark
<1>6. ASSUME NEW t \in Terminals, NEW a \in Attempts, NEW todo,
             Continue(t, a, todo), UNCHANGED attempts,
             sync[t][a].pc \in {"reset", "applying"}
      PROVE  AttemptsTell' /\ AttemptsMove
  <2>1. PICK pc \in {"done", "applying"} : Goto(t, a, pc, todo)
    BY <1>6 DEF Continue
  <2>2. AttemptOf(attempts[t][a], pc)
    BY <1>4, <1>6 DEF AttemptOf
  <2>3. attempts' = [attempts EXCEPT ![t][a] = attempts[t][a]]
    BY <1>4, <1>6
  <2> QED
    BY <1>1, <2>1, <2>2, <2>3, OneSyncMoves
<1>7. ASSUME NEW t \in Terminals, NEW a \in Attempts, NEW input,
             StartSync(t, a, input)
      PROVE  AttemptsTell' /\ AttemptsMove
  <2>1. AttemptOf("pending", "fetching") /\ <<attempts[t][a], "pending">> \in Moves
    BY <1>7 DEF AttemptOf, Moves, StartSync, NextAttempt
  <2> QED
    BY <1>1, <1>7, <2>1, OneSyncMoves DEF StartSync, Mark
<1>8. ASSUME NEW t \in Terminals, NEW a \in Attempts, NEW todo, NEW pc \in {"reset", "done"},
             Mark(t, a, "success"), Goto(t, a, pc, todo), sync[t][a].pc = "fetching"
      PROVE  AttemptsTell' /\ AttemptsMove
  <2>1. AttemptOf("success", pc) /\ <<attempts[t][a], "success">> \in Moves
    BY <1>4, <1>8 DEF AttemptOf, Moves
  <2> QED
    BY <1>1, <1>8, <2>1, OneSyncMoves DEF Mark
<1>9. ASSUME NEW t \in Terminals, NEW a \in Attempts, Apply(t, a)
      PROVE  AttemptsTell' /\ AttemptsMove
  <2>1. CASE ResetAdminsStep(t, a)
    BY <1>6, <2>1 DEF ResetAdminsStep
  <2>2. CASE ApplyAdmin(t, a)
    BY <1>6, <2>2 DEF ApplyAdmin, Applying
  <2>3. CASE ApplyElection(t, a)
    BY <1>5, <1>6, <2>3 DEF ApplyElection, Applying
  <2>4. CASE ApplyRequest(t, a)
    BY <1>5, <1>6, <2>4 DEF ApplyRequest, Applying
  <2>5. CASE ApplyRegistration(t, a)
    BY <1>5, <1>6, <2>5 DEF ApplyRegistration, Applying
  <2> QED
    BY <1>9, <2>1, <2>2, <2>3, <2>4, <2>5 DEF Apply
<1>10. ASSUME NEW t \in Terminals, Crash(t)
       PROVE  AttemptsTell' /\ AttemptsMove
  <2>1. /\ sync' = [sync EXCEPT ![t] = [a \in Attempts |-> Died(sync[t][a])]]
        /\ UNCHANGED attempts
    BY <1>10 DEF Crash
  <2>2. ASSUME NEW u \in Terminals, NEW a \in Attempts
        PROVE  sync'[u][a] \in {sync[u][a], Died(sync[u][a])}
    BY <1>2, <2>1
  <2>3. ASSUME NEW u \in Terminals, NEW a \in Attempts
        PROVE  AttemptOf(attempts[u][a], Died(sync[u][a]).pc)
    <3>1. \/ sync[u][a].pc = "fetching" /\ Died(sync[u][a]).pc = "lost"
          \/ sync[u][a].pc \in {"reset", "applying"} /\ Died(sync[u][a]).pc = "halfApplied"
          \/ Died(sync[u][a]) = sync[u][a]
      BY DEF Died
    <3> QED
      BY <1>4, <3>1 DEF AttemptOf
  <2>4. AttemptsTell'
    BY <1>4, <2>1, <2>2, <2>3 DEF AttemptsTell
  <2> QED
    BY <2>1, <2>4 DEF AttemptsMove
<1>11. CASE UNCHANGED terminalVars
  BY <1>3, <1>11 DEF terminalVars
<1>12. CASE TerminalNext(SyncOutput)
  <2>1. PICK t \in Terminals :
            \/ Local(t)
            \/ \E a \in Attempts :
                   \/ SyncStep(t, a)
                   \/ \E output \in SyncOutput : Receive(t, a, output)
            \/ (Tick(t) \/ Crash(t)) /\ UNCHANGED filed
    BY <1>12 DEF TerminalNext
  <2>2. CASE Local(t)
    BY <1>3, <2>2 DEF Local, Voter, CreateVoterRegistration, SaveVotes, CreateTestVoter
  <2>3. ASSUME NEW a \in Attempts, SyncStep(t, a)
        PROVE  AttemptsTell' /\ AttemptsMove
    <3>1. CASE \E input \in SyncInputs(db[t]) : StartSync(t, a, input)
      BY <1>7, <3>1
    <3>2. CASE FailFetch(t, a)
      BY <1>5, <3>2 DEF FailFetch, Fetching
    <3>3. CASE MockReply(t, a)
      BY <1>8, <3>3 DEF MockReply
    <3> QED
      BY <1>9, <2>3, <3>1, <3>2, <3>3 DEF SyncStep
  <2>4. ASSUME NEW a \in Attempts, NEW output, Receive(t, a, output)
        PROVE  AttemptsTell' /\ AttemptsMove
    <3>1. CASE AcceptReply(t, a, output)
      BY <1>8, <3>1 DEF AcceptReply, Fetching
    <3>2. CASE RejectReply(t, a, output)
      BY <1>5, <3>2 DEF RejectReply, Fetching
    <3> QED
      BY <2>4, <3>1, <3>2 DEF Receive
  <2>5. CASE Tick(t) \/ Crash(t)
    BY <1>3, <1>10, <2>5 DEF Tick
  <2> QED
    BY <2>1, <2>2, <2>3, <2>4, <2>5
<1> QED
  BY <1>11, <1>12

LEMMA InitAttempts == TerminalInit => AttemptsInvariant
<1> SUFFICES ASSUME TerminalInit PROVE AttemptsInvariant
  OBVIOUS
<1>1. CallTypes
  BY InitInvariant DEF Invariant
<1>2. AttemptsTell
  BY DEF TerminalInit, MarkInit, AttemptsTell, AttemptOf, IdleSync
<1> QED
  BY <1>1, <1>2 DEF AttemptsInvariant

LEMMA KeepAttempts ==
    ASSUME Invariant, Invariant', AttemptsInvariant, [TerminalNext(SyncOutput)]_terminalVars
    PROVE  AttemptsInvariant'
BY SyncMoves DEF AttemptsInvariant, Invariant

(* Where the sync of an attempt row may be, in every reachable state.       *)
THEOREM AttemptsTellTheTruth == TerminalSpec => []AttemptsInvariant
BY InitAttempts, KeepAttempts, InvariantHolds, PTL DEF TerminalSpec

(* A pending attempt row has a sync that still awaits its reply, or that    *)
(* died with its terminal.                                                  *)
THEOREM PendingRuns == TerminalSpec => []PendingMeansRunning
<1>1. AttemptsInvariant => PendingMeansRunning
  BY DEF AttemptsInvariant, AttemptsTell, AttemptOf, PendingMeansRunning
<1> QED
  BY <1>1, AttemptsTellTheTruth, PTL

(* No attempt row ever reopens, and a failure stays a failure.              *)
THEOREM AttemptsForward == TerminalSpec => AttemptsMoveForward
<1>1. ASSUME Invariant, Invariant', AttemptsInvariant, [TerminalNext(SyncOutput)]_terminalVars
      PROVE  [\A t \in Terminals, a \in Attempts :
                 attempts'[t][a] # attempts[t][a] =>
                    <<attempts[t][a], attempts'[t][a]>> \in
                       {<<"none", "pending">>, <<"pending", "success">>,
                        <<"pending", "failure">>, <<"success", "failure">>}]_terminalVars
  BY <1>1, SyncMoves DEF AttemptsMove, Moves
<1> QED
  BY <1>1, InvariantHolds, AttemptsTellTheTruth, PTL DEF TerminalSpec, AttemptsMoveForward

----------------------------------------------------------------------------
(* The terminals implement VoterJourney: a voter's status changes for one  *)
(* voter at a time and never goes back.  Besides Invariant the argument    *)
(* needs that no client id was filed for two voters (FiledOnce): a request *)
(* that replaces another one by client id then replaces it for its own     *)
(* voter, whose status the new request keeps.                              *)

\* From d to e the status of cac may advance, and no other status changes.
Advances(d, e, cac) ==
    /\ VoterStatus(d, cac) <= VoterStatus(e, cac)
    /\ \A c \in Cacs : c # cac => VoterStatus(e, c) = VoterStatus(d, c)

LEMMA StatusRange ==
    ASSUME NEW d, NEW cac
    PROVE  VoterStatus(d, cac) \in 0 .. 3
BY DEF VoterStatus, unregistered, registration_pending, registered, voted

LEMMA AdvancesTransitive ==
    ASSUME NEW c, NEW d, NEW e, NEW cac, Advances(c, d, cac), Advances(d, e, cac)
    PROVE  Advances(c, e, cac)
BY StatusRange DEF Advances

LEMMA SameStatus ==
    ASSUME NEW d, NEW e, NEW cac, e.requests = d.requests,
           e.registrations = d.registrations, e.ballots = d.ballots
    PROVE  Advances(d, e, cac)
<1>1. \A c : VoterStatus(e, c) = VoterStatus(d, c)
  BY DEF VoterStatus
<1> QED
  BY <1>1, StatusRange DEF Advances

(* A request that replaces only requests of its own voter.                  *)
LEMMA PutRequestAdvances ==
    ASSUME NEW d, Sound(d), NEW new \in RequestRow,
           \A r \in d.requests :
               r.id # new.id /\ (r.clientId = new.clientId => r.cac = new.cac)
    PROVE  Advances(d, PutRequest(d, new), new.cac)
<1> DEFINE e == PutRequest(d, new)
<1>1. /\ e.requests = (d.requests \ DisplacedRequests(d, new)) \cup {new}
      /\ e.registrations = d.registrations
      /\ e.ballots = d.ballots
  BY DEF Sound, PutRequest, Database
<1>2. \A r \in DisplacedRequests(d, new) : r.cac = new.cac
  BY DEF DisplacedRequests
<1> HIDE DEF e
<1>3. ASSUME NEW c \in Cacs, c # new.cac
      PROVE  VoterStatus(e, c) = VoterStatus(d, c)
  <2>1. (\E r \in e.requests : r.cac = c) <=> (\E r \in d.requests : r.cac = c)
    BY <1>1, <1>2, <1>3
  <2> QED
    BY <1>1, <2>1 DEF VoterStatus
<1>4. VoterStatus(d, new.cac) <= VoterStatus(e, new.cac)
  <2>1. \E r \in e.requests : r.cac = new.cac
    BY <1>1
  <2> QED
    BY <1>1, <2>1 DEF VoterStatus, unregistered, registration_pending, registered, voted
<1> QED
  BY <1>3, <1>4 DEF Advances, e

(* A registration cannot replace one that a ballot rests on.                *)
LEMMA PutRegistrationAdvances ==
    ASSUME NEW d, Sound(d), NEW new \in RegistrationRow,
           \A g \in d.registrations : g.id # new.id,
           CanPutRegistration(d, new)
    PROVE  Advances(d, PutRegistration(d, new), new.cac)
<1> DEFINE e == PutRegistration(d, new)
<1> DEFINE Mine(x, c) == {g \in x.registrations : g.cac = c}
<1>1. /\ e.registrations =
            (d.registrations \ DisplacedRegistrations(d, new)) \cup {new}
      /\ e.requests = d.requests
      /\ e.ballots = d.ballots
  BY DEF Sound, PutRegistration, Database
<1>2. \A g \in DisplacedRegistrations(d, new) : g.cac = new.cac
  BY DEF DisplacedRegistrations
<1> HIDE DEF e
<1>3. ASSUME NEW c \in Cacs, c # new.cac
      PROVE  VoterStatus(e, c) = VoterStatus(d, c)
  <2>1. Mine(e, c) = Mine(d, c)
    BY <1>1, <1>2, <1>3
  <2> QED
    BY <1>1, <2>1 DEF VoterStatus
<1>4. VoterStatus(d, new.cac) <= 2
  <2>1. ASSUME NEW g \in Mine(d, new.cac), NEW b \in d.ballots
        PROVE  b.registrationId # g.id
    BY DEF CanPutRegistration, DisplacedRegistrations
  <2> QED
    BY <2>1 DEF VoterStatus, unregistered, registration_pending, registered, voted
<1>5. VoterStatus(e, new.cac) >= 2
  <2>1. Mine(e, new.cac) # {}
    BY <1>1
  <2> QED
    BY <2>1 DEF VoterStatus, unregistered, registration_pending, registered, voted
<1>6. VoterStatus(d, new.cac) <= VoterStatus(e, new.cac)
  BY <1>4, <1>5, StatusRange
<1> QED
  BY <1>3, <1>6 DEF Advances, e

(* A ballot counts for the voter of its registration and for no other.      *)
LEMMA PutBallotAdvances ==
    ASSUME NEW d, Sound(d), NEW new \in BallotRow,
           \E g \in d.registrations :
               g.id = new.registrationId /\ g.cac = new.cac
    PROVE  Advances(d, PutBallot(d, new), new.cac)
<1> DEFINE e == PutBallot(d, new)
<1> DEFINE Mine(c) == {g \in d.registrations : g.cac = c}
<1>1. /\ e.ballots = d.ballots \cup {new}
      /\ e.requests = d.requests
      /\ e.registrations = d.registrations
  BY DEF Sound, PutBallot, Database
<1>2. PICK h \in d.registrations : h.id = new.registrationId /\ h.cac = new.cac
  OBVIOUS
<1> HIDE DEF e
<1>3. ASSUME NEW c \in Cacs, c # new.cac
      PROVE  VoterStatus(e, c) = VoterStatus(d, c)
  <2>1. \A g \in Mine(c) : g.id # new.registrationId
    BY <1>2, <1>3 DEF Sound, Unique, UniqueRegistrations
  <2>2. (\E g \in Mine(c), b \in e.ballots : b.registrationId = g.id)
            <=> (\E g \in Mine(c), b \in d.ballots : b.registrationId = g.id)
    BY <1>1, <2>1
  <2> QED
    BY <1>1, <2>2 DEF VoterStatus
<1>4. VoterStatus(e, new.cac) = 3
  <2>1. h \in Mine(new.cac) /\ new \in e.ballots /\ new.registrationId = h.id
    BY <1>1, <1>2
  <2> QED
    BY <1>1, <2>1 DEF VoterStatus, voted
<1>5. VoterStatus(d, new.cac) <= VoterStatus(e, new.cac)
  BY <1>4, StatusRange
<1> QED
  BY <1>3, <1>5 DEF Advances, e

-----------------------------------------------------------------------------
\* No client id was filed for two voters.
FiledOnce == \A f, g \in filed : f[1] = g[1] => f = g

\* The ids t draws next are new to its requests.
LEMMA DrawnBefore ==
    ASSUME Invariant, NEW t \in Terminals, NEW n \in Nat, n > issued[t]
    PROVE  \A r \in db[t].requests : r.id # <<t, n>> /\ r.clientId # <<t, n>>
<1> SUFFICES ASSUME NEW r \in db[t].requests
             PROVE  r.id # <<t, n>> /\ r.clientId # <<t, n>>
  OBVIOUS
<1>1. issued[t] \in Nat /\ Numbered(t, db[t], issued[t])
  BY DEF Invariant, Types, Databases
<1>2. r.id # <<t, n>>
  BY <1>1 DEF Numbered
<1>3. <<r.clientId, r.cac>> \in filed
  BY DEF Invariant, Databases, Recorded, Filings
<1>4. <<r.clientId, r.cac>>[1] = r.clientId
  OBVIOUS
<1>5. r.clientId[1] = t => r.clientId[2] \in 1 .. issued[t]
  BY <1>3, <1>4 DEF Invariant, DrawnIds
<1> QED
  BY <1>1, <1>2, <1>5

(* A handler files at most one request, under a client id it just drew.     *)
LEMMA LocalFiledOnce ==
    ASSUME Invariant, FiledOnce, NEW t \in Terminals, NEW d, Store(t, d),
           NEW new,
           d.requests \subseteq db[t].requests \cup {new},
           \E n \in Nat : n > issued[t] /\ new.clientId = <<t, n>>,
           filed' = filed \cup Filings(db'[t].requests)
    PROVE  FiledOnce'
<1>1. db \in [Terminals -> Database] /\ issued \in [Terminals -> Nat]
  BY DEF Invariant, Types
<1>2. db'[t] = d
  BY <1>1 DEF Store
<1>3. PICK n \in Nat : n > issued[t] /\ new.clientId = <<t, n>>
  OBVIOUS
<1>4. \A f \in filed : f[1] # new.clientId
  <2> SUFFICES ASSUME NEW f \in filed, f[1] = new.clientId PROVE FALSE
    OBVIOUS
  <2>1. f[1][1] = t /\ f[1][2] = n
    BY <1>3
  <2>2. f[1][2] \in 1 .. issued[t]
    BY <2>1 DEF Invariant, DrawnIds
  <2> QED
    BY <1>1, <1>3, <2>1, <2>2
<1>5. Filings(db[t].requests) \subseteq filed
  BY DEF Invariant, Databases, Recorded
<1>6. filed' \subseteq filed \cup {<<new.clientId, new.cac>>}
  BY <1>2, <1>5 DEF Filings
<1>7. <<new.clientId, new.cac>>[1] = new.clientId
  OBVIOUS
<1> QED
  BY <1>4, <1>6, <1>7 DEF FiledOnce

(* One voter's status of one terminal may advance, so the journey takes a   *)
(* step or none.                                                            *)
LEMMA StoreIsJourney ==
    ASSUME Invariant, NEW t \in Terminals, NEW d, Store(t, d),
           NEW cac \in Cacs, Advances(db[t], d, cac)
    PROVE  [Journey!Next]_status
<1>1. db \in [Terminals -> Database] /\ db' = [db EXCEPT ![t] = d]
  BY DEF Invariant, Types, Store
<1> DEFINE old == VoterStatus(db[t], cac)
<1> DEFINE rank == VoterStatus(d, cac)
<1>2. status' = [status EXCEPT ![t][cac] = rank]
  <2>1. ASSUME NEW u \in Terminals, NEW c \in Cacs
        PROVE  VoterStatus(db'[u], c) =
                  IF u = t /\ c = cac THEN rank ELSE VoterStatus(db[u], c)
    <3>1. CASE u = t
      BY <1>1, <3>1 DEF Advances
    <3>2. CASE u # t
      BY <1>1, <3>2
    <3> QED
      BY <3>1, <3>2
  <2>2. status' = [u \in Terminals |-> [c \in Cacs |-> VoterStatus(db'[u], c)]]
    BY DEF status
  <2>3. status = [u \in Terminals |-> [c \in Cacs |-> VoterStatus(db[u], c)]]
    BY DEF status
  <2> HIDE DEF rank
  <2>4. status' = [u \in Terminals |-> [c \in Cacs |->
                      IF u = t /\ c = cac THEN rank ELSE VoterStatus(db[u], c)]]
    BY <2>1, <2>2
  <2> QED
    BY <2>3, <2>4
<1>3. /\ status[t][cac] = old
      /\ status \in [Terminals -> [Cacs -> 0 .. 3]]
      /\ old \in 0 .. 3 /\ rank \in 0 .. 3 /\ old <= rank
  BY StatusRange DEF status, Advances
<1> HIDE DEF old, rank
<1>4. CASE old = rank
  <2>1. status' = status
    BY <1>2, <1>3, <1>4
  <2> QED
    BY <2>1
<1>5. CASE old # rank
  <2>1. rank \in Journey!Ranks /\ rank > status[t][cac]
    BY <1>3, <1>5 DEF Journey!Ranks
  <2>2. Journey!Advance(t, cac)
    BY <1>2, <2>1 DEF Journey!Advance
  <2> QED
    BY <2>2 DEF Journey!Next
<1> QED
  BY <1>4, <1>5

-----------------------------------------------------------------------------
(* The handlers of the voter                                                *)

LEMMA CreateVoterRegistrationAdvances ==
    ASSUME Invariant, FiledOnce, NEW t \in Terminals, NEW cac \in Cacs,
           CreateVoterRegistration(t, cac),
           filed' = filed \cup Filings(db'[t].requests)
    PROVE  FiledOnce' /\ [Journey!Next]_status
<1> DEFINE new == LocalRequest(t, cac)
<1> DEFINE d == PutRequest(db[t], new)
<1>1. Store(t, d)
  BY DEF CreateVoterRegistration
<1>2. Sound(db[t]) /\ db[t] \in Database /\ issued[t] \in Nat
  BY DEF Invariant, Databases, Types
<1>3. /\ new \in RequestRow /\ new.cac = cac
      /\ new.id = <<t, issued[t] + 1>> /\ new.clientId = <<t, issued[t] + 1>>
  BY LocalRequestType
<1> HIDE DEF new
<1>4. \A r \in db[t].requests : r.id # new.id /\ r.clientId # new.clientId
  BY <1>2, <1>3, DrawnBefore
<1>5. Advances(db[t], d, cac)
  BY <1>2, <1>3, <1>4, PutRequestAdvances
<1>6. d.requests \subseteq db[t].requests \cup {new}
  BY <1>2 DEF PutRequest, Database
<1>7. \E n \in Nat : n > issued[t] /\ new.clientId = <<t, n>>
  BY <1>2, <1>3
<1> HIDE DEF d
<1> QED
  BY <1>1, <1>5, <1>6, <1>7, LocalFiledOnce, StoreIsJourney

LEMMA SaveVotesAdvances ==
    ASSUME Invariant, FiledOnce, NEW t \in Terminals, NEW cac \in Cacs,
           SaveVotes(t, cac),
           filed' = filed \cup Filings(db'[t].requests)
    PROVE  FiledOnce' /\ [Journey!Next]_status
<1> DEFINE Ballot(g) ==
        [id |-> Fresh(t, 1), serverId |-> None, clientId |-> Fresh(t, 1),
         machineId |-> t, cac |-> g.cac, registrationId |-> g.id, at |-> now[t]]
<1>1. PICK g \in VotingRegistrations(db[t], cac) :
          Store(t, PutBallot(db[t], Ballot(g)))
  BY DEF SaveVotes
<1> DEFINE d == PutBallot(db[t], Ballot(g))
<1>2. /\ Sound(db[t]) /\ db \in [Terminals -> Database]
      /\ issued[t] \in Nat /\ now[t] \in Nat
      /\ Recorded(db[t], filed)
  BY DEF Invariant, Databases, Types, CallTypes
<1>3. g \in db[t].registrations /\ g \in RegistrationRow /\ g.cac = cac
  BY <1>2 DEF VotingRegistrations, Database
<1>4. Ballot(g) \in BallotRow
  BY <1>2, <1>3 DEF BallotRow, RegistrationRow, Fresh, Optional, Uuid, Owners
<1>5. Ballot(g).registrationId = g.id /\ Ballot(g).cac = g.cac
  OBVIOUS
<1>6. Advances(db[t], d, cac)
  <2> HIDE DEF Ballot
  <2> QED
    BY <1>2, <1>3, <1>4, <1>5, PutBallotAdvances
<1>7. d.requests = db[t].requests
  BY <1>2 DEF PutBallot, Database
<1>8. filed' = filed
  <2>1. db'[t] = d
    BY <1>1, <1>2 DEF Store
  <2> QED
    BY <1>2, <1>7, <2>1 DEF Recorded
<1>9. Store(t, d)
  BY <1>1
<1> HIDE DEF d
<1> QED
  BY <1>6, <1>8, <1>9, StoreIsJourney DEF FiledOnce

LEMMA TestRecordsAdvance ==
    ASSUME Invariant, NEW t \in Terminals, NEW cac \in Cacs,
           NEW kind \in TestRecords, NEW d, Sound(d),
           d.requests = db[t].requests, d.registrations = db[t].registrations,
           \A r \in d.requests : r.cac # cac
    PROVE  /\ Advances(d, WithTestRecords(t, d, cac, kind), cac)
           /\ \E new :
                 /\ WithTestRecords(t, d, cac, kind).requests
                       \subseteq d.requests \cup {new}
                 /\ \E n \in Nat : n > issued[t] /\ new.clientId = <<t, n>>
<1> DEFINE n == issued[t]
<1> DEFINE local == LocalRequest(t, cac)
<1> DEFINE synced == [id |-> Fresh(t, 3), serverId |-> Fresh(t, 1),
                      clientId |-> Fresh(t, 2), machineId |-> t, cac |-> cac,
                      at |-> now[t]]
<1> DEFINE election == [id |-> Fresh(t, 4), serverId |-> None,
                        clientId |-> Fresh(t, 4), machineId |-> t, at |-> now[t]]
<1> DEFINE registration == [id |-> Fresh(t, 5), serverId |-> None,
                            clientId |-> Fresh(t, 5), machineId |-> t,
                            cac |-> cac, requestId |-> synced.id,
                            electionId |-> election.id, at |-> now[t]]
<1> DEFINE d1 == PutRequest(d, synced)
<1> DEFINE d2 == PutElection(d1, election)
<1> DEFINE d3 == PutRegistration(d2, registration)
<1>1. n \in Nat /\ now[t] \in Nat /\ Numbered(t, db[t], n)
  BY DEF Invariant, Types, CallTypes, Databases
<1>2. /\ local \in RequestRow /\ local.id = <<t, n + 1>>
      /\ local.clientId = <<t, n + 1>> /\ local.cac = cac
  BY LocalRequestType
<1>3. /\ synced \in RequestRow /\ synced.id = <<t, n + 3>>
      /\ synced.clientId = <<t, n + 2>> /\ synced.cac = cac
  BY <1>1 DEF RequestRow, Fresh, Optional, Uuid, Owners
<1>4. election \in ElectionRow /\ election.id = <<t, n + 4>>
  BY <1>1 DEF ElectionRow, Fresh, Optional, Uuid, Owners
<1>5. /\ registration \in RegistrationRow /\ registration.id = <<t, n + 5>>
      /\ registration.cac = cac /\ registration.requestId = synced.id
      /\ registration.electionId = election.id
  BY <1>1, <1>3, <1>4 DEF RegistrationRow, Fresh, Optional, Uuid, Owners
<1> HIDE DEF local, synced, election, registration
<1>6. \A r \in d.requests : /\ r.id # local.id /\ r.clientId # local.clientId
                            /\ r.id # synced.id /\ r.clientId # synced.clientId
  BY <1>1, <1>2, <1>3, DrawnBefore
<1>7. /\ Advances(d, PutRequest(d, local), cac)
      /\ PutRequest(d, local).requests \subseteq d.requests \cup {local}
  BY <1>2, <1>6, NewRequest, PutRequestAdvances
<1>8. /\ Advances(d, d1, cac)
      /\ Sound(d1)
      /\ d1.requests = d.requests \cup {synced}
      /\ d1.registrations = d.registrations
  BY <1>3, <1>6, NewRequest, PutRequestAdvances
<1> HIDE DEF d1
<1>9. /\ Sound(d2)
      /\ d2.requests = d1.requests
      /\ d2.registrations = d1.registrations
      /\ d2.ballots = d1.ballots
      /\ d2.elections = d1.elections \cup {election}
  BY <1>4, <1>8, PutElectionSound DEF PutElection, Sound, Database
<1>10. Advances(d1, d2, cac)
  BY <1>9, SameStatus
<1> HIDE DEF d2
<1>11. /\ \A g \in d2.registrations : g.id # registration.id
       /\ DisplacedRegistrations(d2, registration) = {}
  <2>1. \A g \in d.registrations : g.id # registration.id
    BY <1>1, <1>5 DEF Numbered
  <2>2. \A g \in d.registrations : g.cac # cac
    BY DEF Sound, Linked, LinkedRegistrations
  <2> QED
    BY <1>5, <1>8, <1>9, <2>1, <2>2 DEF DisplacedRegistrations
<1>12. CanPutRegistration(d2, registration)
  <2>1. synced \in d2.requests /\ election \in d2.elections
    BY <1>8, <1>9
  <2> QED
    BY <1>5, <1>11, <2>1 DEF CanPutRegistration
<1>13. Advances(d2, d3, cac)
  BY <1>5, <1>9, <1>11, <1>12, PutRegistrationAdvances
<1>14. d3.requests = d1.requests
  BY <1>9 DEF PutRegistration, Sound, Database
<1> HIDE DEF d3
<1>15. Advances(d, d3, cac)
  <2>1. Advances(d, d2, cac)
    BY <1>8, <1>10, AdvancesTransitive
  <2> QED
    BY <1>13, <2>1, AdvancesTransitive
<1>16. Advances(d, d, cac)
  BY SameStatus
<1> DEFINE e == WithTestRecords(t, d, cac, kind)
<1>17. e = d \/ e = PutRequest(d, local) \/ e = d1 \/ e = d3
  BY DEF WithTestRecords, TestRecords, local, synced, election, registration, d1, d2, d3
<1> HIDE DEF e
<1>18. Advances(d, e, cac)
  BY <1>7, <1>8, <1>15, <1>16, <1>17
<1>19. \/ e.requests \subseteq d.requests \cup {local}
       \/ e.requests \subseteq d.requests \cup {synced}
  BY <1>7, <1>8, <1>14, <1>17
<1>20. /\ \E k \in Nat : k > n /\ local.clientId = <<t, k>>
       /\ \E k \in Nat : k > n /\ synced.clientId = <<t, k>>
  BY <1>1, <1>2, <1>3
<1> QED
  BY <1>18, <1>19, <1>20 DEF e

LEMMA CreateTestVoterAdvances ==
    ASSUME Invariant, FiledOnce, NEW t \in Terminals, NEW cac \in Cacs,
           NEW isAdmin \in BOOLEAN, NEW kind \in TestRecords,
           CreateTestVoter(t, cac, isAdmin, kind),
           filed' = filed \cup Filings(db'[t].requests)
    PROVE  FiledOnce' /\ [Journey!Next]_status
<1> DEFINE d == IF isAdmin THEN PutAdmin(db[t], cac) ELSE db[t]
<1> DEFINE e == WithTestRecords(t, d, cac, kind)
<1>1. NewCac(cac) /\ Store(t, e)
  BY DEF CreateTestVoter
<1>2. Sound(db[t]) /\ db[t] \in Database
  BY DEF Invariant, Databases, Types
<1>3. /\ d.requests = db[t].requests /\ d.registrations = db[t].registrations
      /\ d.ballots = db[t].ballots
      /\ Sound(d)
  BY <1>2, PutAdminSound DEF PutAdmin, Database
<1>4. \A r \in d.requests : r.cac # cac
  BY <1>1, <1>3 DEF NewCac
<1> HIDE DEF d
<1>5. Advances(d, e, cac)
  BY <1>3, <1>4, TestRecordsAdvance
<1>6. PICK new : /\ e.requests \subseteq d.requests \cup {new}
                 /\ \E n \in Nat : n > issued[t] /\ new.clientId = <<t, n>>
  BY <1>3, <1>4, TestRecordsAdvance
<1>7. Advances(db[t], e, cac)
  BY <1>3, <1>5, SameStatus, AdvancesTransitive
<1> HIDE DEF e
<1>8. FiledOnce'
  BY <1>1, <1>3, <1>6, LocalFiledOnce
<1> QED
  BY <1>1, <1>7, <1>8, StoreIsJourney

-----------------------------------------------------------------------------
(* The statements that store a reply                                        *)

LEMMA UnchangedIsJourney ==
    ASSUME UNCHANGED db
    PROVE  [Journey!Next]_status
BY DEF status

LEMMA ApplyRequestAdvances ==
    ASSUME Invariant, FiledOnce, NEW t \in Terminals, NEW a \in Attempts,
           ApplyRequest(t, a)
    PROVE  [Journey!Next]_status
<1> DEFINE todo == sync[t][a].todo
<1>1. PICK r \in Newest(todo.requests) :
          LET row == RequestFromServer(t, r) IN
          IF CanPutRequest(db[t], row)
          THEN Store(t, PutRequest(db[t], row))
          ELSE UNCHANGED db
  BY DEF ApplyRequest
<1> DEFINE row == RequestFromServer(t, r)
<1>2. CASE CanPutRequest(db[t], row)
  <2>1. /\ todo \in TodoType /\ Sound(db[t])
        /\ issued[t] \in Nat /\ now[t] \in Nat
        /\ Numbered(t, db[t], issued[t])
        /\ Recorded(db[t], filed) /\ Filings(todo.requests) \subseteq filed
    BY TodoOfCall
  <2>2. r \in RequestOutput /\ r \in todo.requests
    BY <2>1 DEF Newest, TodoType
  <2>3. /\ row \in RequestRow
        /\ row.id = <<t, issued[t] + 1>>
        /\ row.clientId = r.clientId /\ row.cac = r.cac
    BY <2>1, <2>2 DEF RequestFromServer, RequestRow, RequestOutput, Fresh,
                      Optional, Uuid, Owners
  <2> HIDE DEF row
  <2>4. ASSUME NEW q \in db[t].requests
        PROVE  q.id # row.id /\ (q.clientId = row.clientId => q.cac = row.cac)
    <3>1. q.id # row.id
      BY <2>1, <2>3 DEF Numbered
    <3>2. <<q.clientId, q.cac>> \in filed /\ <<row.clientId, row.cac>> \in filed
      BY <2>1, <2>2, <2>3 DEF Recorded, Filings
    <3>3. /\ <<q.clientId, q.cac>>[1] = q.clientId
          /\ <<row.clientId, row.cac>>[1] = row.clientId
          /\ <<q.clientId, q.cac>>[2] = q.cac
          /\ <<row.clientId, row.cac>>[2] = row.cac
      OBVIOUS
    <3> QED
      BY <3>1, <3>2, <3>3 DEF FiledOnce
  <2>5. Advances(db[t], PutRequest(db[t], row), row.cac)
    BY <2>1, <2>3, <2>4, PutRequestAdvances
  <2>6. Store(t, PutRequest(db[t], row))
    BY <1>1, <1>2 DEF row
  <2>7. row.cac \in Cacs
    BY <2>3 DEF RequestRow
  <2> QED
    BY <2>5, <2>6, <2>7, StoreIsJourney
<1>3. CASE ~CanPutRequest(db[t], row)
  BY <1>1, <1>3, UnchangedIsJourney
<1> QED
  BY <1>2, <1>3

LEMMA ApplyRegistrationAdvances ==
    ASSUME Invariant, NEW t \in Terminals, NEW a \in Attempts,
           ApplyRegistration(t, a)
    PROVE  [Journey!Next]_status
<1> DEFINE todo == sync[t][a].todo
<1>1. PICK g \in Newest(todo.registrations) :
          \/ UNCHANGED db
          \/ \E row \in RegistrationsFromServer(t, g) :
                /\ CanPutRegistration(db[t], row)
                /\ Store(t, PutRegistration(db[t], row))
  BY DEF ApplyRegistration
<1>2. ASSUME NEW row \in RegistrationsFromServer(t, g),
             CanPutRegistration(db[t], row), Store(t, PutRegistration(db[t], row))
      PROVE  [Journey!Next]_status
  <2>1. /\ todo \in TodoType /\ Sound(db[t]) /\ db[t] \in Database
        /\ issued[t] \in Nat /\ now[t] \in Nat
        /\ Numbered(t, db[t], issued[t])
    BY TodoOfCall
  <2>2. g \in RegistrationOutput
    BY <2>1 DEF Newest, TodoType
  <2>3. PICK r \in db[t].requests, e \in db[t].elections :
            row = [id |-> Fresh(t, 1), serverId |-> g.id, clientId |-> g.clientId,
                   machineId |-> g.machineId, cac |-> r.cac, requestId |-> r.id,
                   electionId |-> e.id, at |-> now[t]]
    BY DEF RegistrationsFromServer, RequestsByClientId, RequestsByServerId,
           ElectionsByServerId
  <2>4. r \in RequestRow /\ e \in ElectionRow
    BY <2>1 DEF Database
  <2>5. /\ row \in RegistrationRow /\ row.id = <<t, issued[t] + 1>>
        /\ row.cac \in Cacs
    BY <2>1, <2>2, <2>3, <2>4 DEF RegistrationRow, RegistrationOutput, RequestRow,
                                  ElectionRow, Fresh, Optional, Uuid, Owners
  <2>6. \A h \in db[t].registrations : h.id # row.id
    BY <2>1, <2>5 DEF Numbered
  <2>7. Advances(db[t], PutRegistration(db[t], row), row.cac)
    BY <1>2, <2>1, <2>5, <2>6, PutRegistrationAdvances
  <2> QED
    BY <1>2, <2>5, <2>7, StoreIsJourney
<1> QED
  BY <1>1, <1>2, UnchangedIsJourney

LEMMA ApplyAdvances ==
    ASSUME Invariant, FiledOnce, NEW t \in Terminals, NEW a \in Attempts,
           Apply(t, a)
    PROVE  [Journey!Next]_status
<1>1. db[t] \in Database /\ db \in [Terminals -> Database]
  BY DEF Invariant, Types
<1>2. ASSUME NEW d, Store(t, d), d.requests = db[t].requests,
             d.registrations = db[t].registrations, d.ballots = db[t].ballots
      PROVE  [Journey!Next]_status
  <2>1. \A u \in Terminals, c \in Cacs : VoterStatus(db'[u], c) = VoterStatus(db[u], c)
    BY <1>1, <1>2 DEF Store, VoterStatus
  <2>2. status' = status
    BY <2>1 DEF status
  <2> QED
    BY <2>2
<1>3. CASE ResetAdminsStep(t, a)
  <2>1. Store(t, ResetAdmins(db[t]))
    BY <1>3 DEF ResetAdminsStep
  <2> QED
    BY <1>1, <1>2, <2>1 DEF ResetAdmins, Database
<1>4. CASE ApplyAdmin(t, a)
  <2>1. PICK cac : Store(t, PutAdmin(db[t], cac))
    BY <1>4 DEF ApplyAdmin
  <2> QED
    BY <1>1, <1>2, <2>1 DEF PutAdmin, Database
<1>5. CASE ApplyElection(t, a)
  <2>1. UNCHANGED db \/ \E row : Store(t, PutElection(db[t], row))
    BY <1>5 DEF ApplyElection
  <2>2. ASSUME NEW row, Store(t, PutElection(db[t], row))
        PROVE  [Journey!Next]_status
    BY <1>1, <1>2, <2>2 DEF PutElection, Database
  <2> QED
    BY <2>1, <2>2, UnchangedIsJourney
<1> QED
  BY <1>3, <1>4, <1>5, ApplyRequestAdvances, ApplyRegistrationAdvances DEF Apply

-----------------------------------------------------------------------------
LEMMA StepIsJourney ==
    ASSUME Invariant, FiledOnce, [TerminalNext(SyncOutput)]_terminalVars
    PROVE  FiledOnce' /\ [Journey!Next]_status
<1>1. CASE UNCHANGED terminalVars
  BY <1>1, UnchangedIsJourney DEF terminalVars, FiledOnce
<1>2. CASE TerminalNext(SyncOutput)
  <2>1. PICK t \in Terminals :
            \/ Local(t)
            \/ \E a \in Attempts :
                   \/ SyncStep(t, a)
                   \/ \E output \in SyncOutput : Receive(t, a, output)
            \/ (Tick(t) \/ Crash(t)) /\ UNCHANGED filed
    BY <1>2 DEF TerminalNext
  <2>2. CASE Local(t)
    BY <2>2, CreateVoterRegistrationAdvances, SaveVotesAdvances,
       CreateTestVoterAdvances DEF Local, Voter
  <2>3. ASSUME NEW a \in Attempts, SyncStep(t, a)
        PROVE  FiledOnce' /\ [Journey!Next]_status
    <3>1. FiledOnce'
      BY <2>3 DEF SyncStep, FiledOnce
    <3>2. CASE Apply(t, a)
      BY <3>1, <3>2, ApplyAdvances
    <3>3. CASE UNCHANGED db
      BY <3>1, <3>3, UnchangedIsJourney
    <3> QED
      BY <2>3, <3>2, <3>3 DEF SyncStep, StartSync, FailFetch, MockReply
  <2>4. ASSUME NEW a \in Attempts, NEW output, Receive(t, a, output)
        PROVE  FiledOnce' /\ [Journey!Next]_status
    <3>1. UNCHANGED db
      BY <2>4 DEF Receive, AcceptReply, RejectReply
    <3>2. FiledOnce'
      BY <2>4 DEF Receive, Honest, FiledOnce
    <3> QED
      BY <3>1, <3>2, UnchangedIsJourney
  <2>5. CASE (Tick(t) \/ Crash(t)) /\ UNCHANGED filed
    BY <2>5, UnchangedIsJourney DEF Tick, Crash, FiledOnce
  <2> QED
    BY <2>1, <2>2, <2>3, <2>4, <2>5
<1> QED
  BY <1>1, <1>2

LEMMA InitIsJourney == TerminalInit => FiledOnce /\ Journey!Init
<1> SUFFICES ASSUME TerminalInit PROVE FiledOnce /\ Journey!Init
  OBVIOUS
<1>1. \A t \in Terminals, c \in Cacs : VoterStatus(db[t], c) = 0
  BY DEF TerminalInit, MarkInit, EmptyDatabase, VoterStatus, unregistered
<1>2. status = [t \in Terminals |-> [cac \in Cacs |-> 0]]
  BY <1>1 DEF status
<1> QED
  BY <1>2 DEF TerminalInit, FiledOnce, Journey!Init

(* The terminals implement VoterJourney: whatever a server that keeps its   *)
(* promise sends and whenever terminals crash, the status of a voter never  *)
(* goes back and no step moves two voters.                                  *)
THEOREM TerminalsImplementJourney == TerminalSpec => JourneySpec
<1>1. ASSUME Invariant, FiledOnce, [TerminalNext(SyncOutput)]_terminalVars
      PROVE  FiledOnce' /\ [Journey!Next]_status
  BY <1>1, StepIsJourney
<1> QED
  BY <1>1, InitIsJourney, InvariantHolds, PTL DEF TerminalSpec, JourneySpec, Journey!Spec
=============================================================================
