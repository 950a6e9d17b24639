-------------------------- MODULE RaveServer_proofs --------------------------
(***************************************************************************)
(* The server for any number of calls, clients and operators' rows: its    *)
(* types, the links between its rows, and what a reply holds.              *)
(*                                                                         *)
(* None of the three properties is inductive.  A link is looked up before  *)
(* its INSERT commits (Parents), a handler's reply can only miss a row of  *)
(* its own if the client's cursor is newer than that row (Cursors), and    *)
(* every row is stamped before now (ByClock).  What holds of one handler  *)
(* is a predicate of the tables, the clock and that handler, so that a     *)
(* step of one is a lemma about the others too: the tables only grow.      *)
(***************************************************************************)
EXTENDS RaveServer, TLAPS


Stored == {"requests", "registrations", "ballots"}

Ids(rows) == {r.id : r \in rows}

\* The id was given to a row before time n.
Stamped(id, n) == id[1] = Server /\ id[2] < n

ByClock(S, n) == \A k \in Kinds : \A r \in S[k] : Stamped(r.id, n)

RegistrationLinked(S, g) ==
    /\ \E r \in S.requests :
           r.id = g.requestId /\ r.cac = g.cac /\ r.machineId = g.machineId
    /\ \E e \in S.elections : e.id = g.electionId

BallotLinked(S, b) ==
    \E g \in S.registrations :
        g.id = b.registrationId /\ g.cac = b.cac /\ g.machineId = b.machineId

LinkedTables(S) ==
    /\ \A g \in S.registrations : RegistrationLinked(S, g)
    /\ \A b \in S.ballots : BallotLinked(S, b)

TablesOK(S, n) == S \in ServerTables /\ n \in Nat /\ ByClock(S, n) /\ LinkedTables(S)

(* What holds of a handler h, with the tables S at time n.                  *)

Lasts(input) == {input.lastRequest, input.lastRegistration,
                 input.lastElection, input.lastBallot}

\* Whatever the handler stores is newer than the rows its client knows.
Newer(id, input) ==
    \A last \in Lasts(input) : last # None /\ last[1] = Server => last[2] < id[2]

Cursors(n, h) ==
    /\ \A last \in Lasts(h.input) : last # None /\ last[1] = Server => last[2] < n
    /\ \A id \in h.added : Newer(id, h.input)
    /\ \A p \in h.pending : Stamped(p.row.id, n) /\ Newer(p.row.id, h.input)

Parents(S, h) ==
    \A p \in h.pending :
        /\ p.table = "registrations" => RegistrationLinked(S, p.row)
        /\ p.table = "ballots" => BallotLinked(S, p.row)

\* The tables the handler has read by then.
ReadBy(pc) ==
    CASE pc = "getRegistrations" -> {"requests"}
      [] pc = "getBallots" -> {"requests", "registrations"}
      [] pc = "replied" -> Stored
      [] OTHER -> {}

\* Where the reply has, or will find, the rows of a table.
Source(S, h, k) == IF k \in ReadBy(h.pc) THEN h.output[k] ELSE S[k]

Accepted(S, h) ==
    h.pc # "dropped" /\ (h.pc = "replied" => h.output.status = 200) =>
        \A id \in h.added : \E k \in Stored : id \in Ids(Source(S, h, k))

\* INSERTs end before the tables are read; nothing is read before.
Phases(n, h) ==
    /\ h.pc = "idle" => h.added = {}
    /\ h.pending # {} => h.pc = "inserting"
    /\ h.pc \in {"idle", "inserting"} => \A k \in Kinds : h.output[k] = {}
    /\ \A k \in Kinds : \A r \in h.output[k] : r.id[2] < n

CallOK(S, n, h) ==
    /\ h \in CallType
    /\ Cursors(n, h) /\ Parents(S, h) /\ Accepted(S, h) /\ Phases(n, h)

ServerInv ==
    /\ TablesOK(srv, clock)
    /\ external \in Nat
    /\ calls \in [Calls -> CallType]
    /\ \A c \in Calls : CallOK(srv, clock, calls[c])

LEMMA ServerInvImplies ==
    ServerInv => ServerTypeOK /\ ServerRecordsOfOneVoter /\ AcceptedIsReturned
<1> SUFFICES ASSUME ServerInv PROVE ServerTypeOK /\ ServerRecordsOfOneVoter /\ AcceptedIsReturned
  OBVIOUS
<1>1. ServerTypeOK
  BY DEF ServerInv, TablesOK, ServerTypeOK
<1>2. ServerRecordsOfOneVoter
  BY DEF ServerInv, TablesOK, LinkedTables, RegistrationLinked, BallotLinked,
         ServerRecordsOfOneVoter
<1>3. ASSUME NEW c \in Calls, calls[c].pc = "replied", calls[c].output.status = 200,
             NEW id \in calls[c].added
      PROVE  id \in {r.id : r \in calls[c].output.requests
                                  \cup calls[c].output.registrations
                                  \cup calls[c].output.ballots}
  <2>1. PICK k \in Stored : id \in Ids(Source(srv, calls[c], k))
    BY <1>3 DEF ServerInv, CallOK, Accepted
  <2>2. Source(srv, calls[c], k) = calls[c].output[k]
    BY <1>3 DEF Source, ReadBy
  <2> QED
    BY <2>1, <2>2 DEF Ids, Stored
<1> QED
  BY <1>1, <1>2, <1>3 DEF AcceptedIsReturned

LEMMA InitServerInv == ServerInit => ServerInv
<1> SUFFICES ASSUME ServerInit PROVE ServerInv
  OBVIOUS
<1>1. TablesOK(srv, clock)
  BY DEF ServerInit, TablesOK, NoRows, ServerTables, ByClock, LinkedTables, Kinds
<1>2. IdleCall \in CallType
  BY DEF IdleCall, CallType, CallStates, NoInput, SyncInput, SyncOutput, Optional
<1>3. CallOK(srv, clock, IdleCall)
  BY <1>2 DEF CallOK, IdleCall, NoInput, Cursors, Lasts, Parents, Accepted, Phases, Kinds
<1> QED
  BY <1>1, <1>2, <1>3 DEF ServerInv, ServerInit

-----------------------------------------------------------------------------
(* The tables grow, and what holds of a handler goes on to hold.            *)

Grown(S, T) == \A k \in Tables : S[k] \subseteq T[k]

LEMMA TablesNames == Tables = {"admins", "elections", "requests", "registrations", "ballots"}
BY DEF Tables, NoRows

LEMMA LinksStay ==
    ASSUME NEW S, NEW T, Grown(S, T)
    PROVE  /\ \A g : RegistrationLinked(S, g) => RegistrationLinked(T, g)
           /\ \A b : BallotLinked(S, b) => BallotLinked(T, b)
BY TablesNames DEF Grown, RegistrationLinked, BallotLinked

LEMMA CallStaysOK ==
    ASSUME NEW S, NEW T, NEW m \in Nat, NEW n \in Nat, NEW h,
           Grown(S, T), m <= n, CallOK(S, m, h)
    PROVE  CallOK(T, n, h)
<1>1. h \in CallType
  BY DEF CallOK
<1>2. Cursors(n, h)
  <2>1. \A last \in Lasts(h.input) : last # None => last[2] \in Nat
    BY <1>1 DEF CallType, SyncInput, Lasts, Optional, Uuid
  <2>2. \A p \in h.pending : p.row.id \in Uuid
    BY <1>1 DEF CallType, PendingInsert, RequestOutput, RegistrationOutput, BallotOutput
  <2> QED
    BY <2>1, <2>2 DEF CallOK, Cursors, Stamped, Uuid
<1>3. Parents(T, h)
  BY LinksStay DEF CallOK, Parents
<1>4. Accepted(T, h)
  BY TablesNames DEF CallOK, Accepted, Source, Grown, Ids, Stored
<1>5. Phases(n, h)
  <2>1. \A k \in Kinds : \A r \in h.output[k] : r.id[2] \in Nat
    BY <1>1 DEF CallType, SyncOutput, Kinds, RequestOutput, RegistrationOutput,
                BallotOutput, ElectionOutput, Uuid
  <2> QED
    BY <2>1 DEF CallOK, Phases
<1> QED
  BY <1>1, <1>2, <1>3, <1>4, <1>5 DEF CallOK

LEMMA AddRow ==
    ASSUME NEW S, NEW T, NEW m \in Nat, NEW n \in Nat, m <= n, TablesOK(S, m),
           NEW k \in Tables, NEW row, T = [S EXCEPT ![k] = @ \cup {row}],
           k = "admins" => row \in Cacs,
           k = "elections" => row \in ElectionOutput,
           k = "requests" => row \in RequestOutput,
           k = "registrations" => row \in RegistrationOutput /\ RegistrationLinked(S, row),
           k = "ballots" => row \in BallotOutput /\ BallotLinked(S, row),
           k # "admins" => Stamped(row.id, n)
    PROVE  TablesOK(T, n) /\ Grown(S, T)
<1> USE TablesNames
<1>1. S \in ServerTables /\ T = [S EXCEPT ![k] = @ \cup {row}]
  BY DEF TablesOK
<1>2. T \in ServerTables
  <2>1. CASE k = "admins"  BY <1>1, <2>1 DEF ServerTables
  <2>2. CASE k = "elections"  BY <1>1, <2>2 DEF ServerTables
  <2>3. CASE k = "requests"  BY <1>1, <2>3 DEF ServerTables
  <2>4. CASE k = "registrations"  BY <1>1, <2>4 DEF ServerTables
  <2>5. CASE k = "ballots"  BY <1>1, <2>5 DEF ServerTables
  <2> QED  BY <2>1, <2>2, <2>3, <2>4, <2>5
<1>3. \A j \in Tables : T[j] = IF j = k THEN S[j] \cup {row} ELSE S[j]
  BY <1>1 DEF ServerTables
<1>4. Grown(S, T)
  BY <1>3 DEF Grown
<1>5. ByClock(T, n)
  <2> SUFFICES ASSUME NEW j \in Kinds, NEW r \in T[j] PROVE Stamped(r.id, n)
    BY DEF ByClock
  <2>1. CASE r \in S[j]
    <3>1. r.id[2] \in Nat
      BY <1>1, <2>1 DEF ServerTables, Kinds, ElectionOutput, RequestOutput,
                        RegistrationOutput, BallotOutput, Uuid
    <3> QED
      BY <2>1, <3>1 DEF TablesOK, ByClock, Stamped
  <2>2. CASE r \notin S[j]
    BY <1>3, <2>2 DEF Kinds
  <2> QED
    BY <2>1, <2>2
<1>6. LinkedTables(T)
  <2>1. ASSUME NEW g \in T.registrations PROVE RegistrationLinked(T, g)
    <3>1. g \in S.registrations \/ (k = "registrations" /\ g = row)
      BY <1>3
    <3>2. RegistrationLinked(S, g)
      BY <3>1 DEF TablesOK, LinkedTables
    <3> QED
      BY <1>4, <3>2, LinksStay
  <2>2. ASSUME NEW b \in T.ballots PROVE BallotLinked(T, b)
    <3>1. b \in S.ballots \/ (k = "ballots" /\ b = row)
      BY <1>3
    <3>2. BallotLinked(S, b)
      BY <3>1 DEF TablesOK, LinkedTables
    <3> QED
      BY <1>4, <3>2, LinksStay
  <2> QED
    BY <2>1, <2>2 DEF LinkedTables
<1> QED
  BY <1>2, <1>4, <1>5, <1>6 DEF TablesOK

LEMMA NothingGrows ==
    ASSUME NEW S, NEW n \in Nat
    PROVE  Grown(S, S) /\ n <= n
BY DEF Grown

(* A step of handler c, which becomes h, while the tables grow.             *)
LEMMA HandlerStep ==
    ASSUME ServerInv, NEW c \in Calls, NEW h, calls' = [calls EXCEPT ![c] = h],
           CallOK(srv', clock', h), TablesOK(srv', clock'), Grown(srv, srv'),
           clock <= clock', external' = external
    PROVE  ServerInv'
<1>1. calls' \in [Calls -> CallType]
  BY DEF ServerInv, CallOK
<1>2. ASSUME NEW d \in Calls PROVE CallOK(srv', clock', calls'[d])
  <2>1. CASE d = c
    BY <2>1 DEF ServerInv
  <2>2. CASE d # c
    <3>1. calls'[d] = calls[d] /\ CallOK(srv, clock, calls[d])
      BY <2>2 DEF ServerInv
    <3>2. clock \in Nat /\ clock' \in Nat
      BY DEF ServerInv, TablesOK
    <3> QED
      BY <3>1, <3>2, CallStaysOK
  <2> QED
    BY <2>1, <2>2
<1> QED
  BY <1>1, <1>2 DEF ServerInv

LEMMA QuietStep ==
    ASSUME ServerInv, NEW c \in Calls, NEW h, calls' = [calls EXCEPT ![c] = h],
           CallOK(srv, clock, h), UNCHANGED <<srv, clock, external>>
    PROVE  ServerInv'
<1>1. TablesOK(srv', clock') /\ CallOK(srv', clock', h)
  BY DEF ServerInv
<1>2. Grown(srv, srv') /\ clock <= clock'
  BY NothingGrows DEF ServerInv, TablesOK
<1> QED
  BY <1>1, <1>2, HandlerStep

-----------------------------------------------------------------------------
(* The handler's steps.                                                     *)

LEMMA SubmitStep ==
    ASSUME ServerInv, NEW c \in Calls, NEW input \in AnyInput, Submit(c, input)
    PROVE  ServerInv'
<1> DEFINE h == [calls[c] EXCEPT !.pc = "inserting", !.input = input]
<1>1. calls[c] \in CallType /\ calls[c].pc = "idle" /\ CallOK(srv, clock, calls[c])
  BY DEF ServerInv, Submit
<1>2. input \in SyncInput /\ Lasts(input) \subseteq Optional(Past)
  BY DEF AnyInput, Lasts
<1>3. /\ h \in CallType /\ h.pc = "inserting" /\ h.input = input /\ h.added = calls[c].added
      /\ h.pending = calls[c].pending /\ h.output = calls[c].output
  BY <1>1, <1>2 DEF CallType, CallStates
<1>4. calls[c].added = {} /\ calls[c].pending = {} /\ \A k \in Kinds : calls[c].output[k] = {}
  BY <1>1 DEF CallOK, Phases
<1>5. Cursors(clock, h)
  BY <1>2, <1>3, <1>4 DEF Cursors, Past, Optional
<1>6. Parents(srv, h) /\ Accepted(srv, h) /\ Phases(clock, h)
  BY <1>3, <1>4 DEF Parents, Accepted, Phases
<1>7. calls' = [calls EXCEPT ![c] = h] /\ UNCHANGED <<srv, clock, external>>
  BY <1>1 DEF Submit, ServerInv
<1> QED
  BY <1>3, <1>5, <1>6, <1>7, QuietStep DEF CallOK

\* The INSERT's row is stamped now, later than all the client knows.
LEMMA StartInsertStep ==
    ASSUME ServerInv, NEW c \in Calls, CanStartInsert(c),
           NEW table \in Stored, NEW item, NEW row, StartInsert(c, table, item, row),
           [table |-> table, row |-> row] \in PendingInsert, row.id = NewId,
           table = "registrations" => RegistrationLinked(srv, row),
           table = "ballots" => BallotLinked(srv, row)
    PROVE  ServerInv'
<1> DEFINE insert == [table |-> table, row |-> row]
           h == [calls[c] EXCEPT !.input[table] = calls[c].input[table] \ {item}, !.pending = {insert}]
<1>1. calls[c] \in CallType /\ calls[c].pc = "inserting" /\ CallOK(srv, clock, calls[c])
  BY DEF ServerInv, CanStartInsert
<1>2. h \in CallType
  <2>1. CASE table = "requests"  BY <1>1, <2>1 DEF CallType, SyncInput
  <2>2. CASE table = "registrations"  BY <1>1, <2>2 DEF CallType, SyncInput
  <2>3. CASE table = "ballots"  BY <1>1, <2>3 DEF CallType, SyncInput
  <2> QED  BY <2>1, <2>2, <2>3 DEF Stored
<1>3. /\ h.pc = "inserting" /\ h.pending = {insert} /\ insert.row = row /\ insert.table = table
      /\ h.added = calls[c].added /\ h.output = calls[c].output
      /\ Lasts(h.input) = Lasts(calls[c].input)
  <2>1. h.pc = "inserting" /\ h.pending = {insert} /\ h.added = calls[c].added
        /\ h.output = calls[c].output /\ h.input = [calls[c].input EXCEPT ![table] = @ \ {item}]
    BY <1>1 DEF CallType
  <2>2. Lasts(h.input) = Lasts(calls[c].input)
    BY <1>1, <2>1 DEF CallType, SyncInput, Stored, Lasts
  <2> QED
    BY <2>1, <2>2
<1>4. calls' = [calls EXCEPT ![c] = h] /\ clock' = clock + 1 /\ UNCHANGED <<srv, external>>
  BY Zenon DEF StartInsert
<1>5. clock \in Nat /\ clock' \in Nat /\ clock <= clock' /\ Grown(srv, srv')
  BY <1>4, NothingGrows DEF ServerInv, TablesOK
<1>6. TablesOK(srv', clock')
  <2>1. srv \in ServerTables /\ ByClock(srv, clock) /\ LinkedTables(srv)
    BY DEF ServerInv, TablesOK
  <2>2. ByClock(srv, clock')
    BY <1>5, <2>1 DEF ByClock, Stamped, ServerTables, Kinds, ElectionOutput, RequestOutput,
                      RegistrationOutput, BallotOutput, Uuid
  <2> QED
    BY <1>4, <1>5, <2>1, <2>2 DEF TablesOK
<1>7. CallOK(srv, clock', calls[c])
  BY <1>1, <1>4, <1>5, CallStaysOK
<1>8. Cursors(clock', h)
  <2>1. Stamped(row.id, clock') /\ Newer(row.id, h.input)
    BY <1>1, <1>3, <1>4, <1>5 DEF NewId, Stamped, Newer, CallOK, Cursors
  <2>2. \A id : Newer(id, calls[c].input) => Newer(id, h.input)
    BY <1>3 DEF Newer
  <2> QED
    BY <1>3, <1>7, <2>1, <2>2 DEF CallOK, Cursors
<1>9. Parents(srv, h)
  BY <1>3 DEF Parents
<1>10. Accepted(srv, h)
  <2>1. \A k \in Stored : Source(srv, h, k) = Source(srv, calls[c], k)
    BY <1>1, <1>3 DEF Source, ReadBy
  <2> QED
    BY <1>1, <1>3, <1>7, <2>1 DEF CallOK, Accepted
<1>11. Phases(clock', h)
  BY <1>1, <1>3, <1>7 DEF CallOK, Phases
<1> QED
  BY <1>2, <1>4, <1>5, <1>6, <1>8, <1>9, <1>10, <1>11, HandlerStep DEF CallOK

LEMMA NewIdIsUuid == ServerInv => NewId \in Uuid
BY DEF ServerInv, TablesOK, NewId, Uuid, Owners

LEMMA AddRequestStep ==
    ASSUME ServerInv, NEW c \in Calls, AddRequest(c)
    PROVE  ServerInv'
<1>1. PICK item \in calls[c].input.requests :
          StartInsert(c, "requests", item,
              [id |-> NewId, clientId |-> item.clientId,
               machineId |-> item.machineId, cac |-> item.cac])
  BY DEF AddRequest
<1> DEFINE row == [id |-> NewId, clientId |-> item.clientId,
                   machineId |-> item.machineId, cac |-> item.cac]
<1>2. item \in RequestInput
  BY DEF ServerInv, CallType, SyncInput
<1>3. row \in RequestOutput /\ row.id = NewId
  BY <1>2, NewIdIsUuid DEF RequestInput, RequestOutput
<1>4. [table |-> "requests", row |-> row] \in PendingInsert
  BY <1>3 DEF PendingInsert
<1> HIDE DEF row
<1>5. CanStartInsert(c) /\ "requests" \in Stored
  BY DEF AddRequest, Stored
<1> QED
  BY <1>1, <1>3, <1>4, <1>5, StartInsertStep DEF row

LEMMA AddRegistrationStep ==
    ASSUME ServerInv, NEW c \in Calls, AddRegistration(c)
    PROVE  ServerInv'
<1>0. PICK item \in calls[c].input.registrations :
          \E r \in RequestsFor(item), e \in ElectionsFor(item) :
              StartInsert(c, "registrations", item,
                  [id |-> NewId, clientId |-> item.clientId,
                   machineId |-> item.machineId, cac |-> item.cac,
                   requestId |-> r.id, electionId |-> e.id])
  BY DEF AddRegistration
<1>1. PICK r \in RequestsFor(item), e \in ElectionsFor(item) :
          StartInsert(c, "registrations", item,
              [id |-> NewId, clientId |-> item.clientId,
               machineId |-> item.machineId, cac |-> item.cac,
               requestId |-> r.id, electionId |-> e.id])
  BY <1>0
<1> DEFINE row == [id |-> NewId, clientId |-> item.clientId,
                   machineId |-> item.machineId, cac |-> item.cac,
                   requestId |-> r.id, electionId |-> e.id]
<1>2. /\ item \in RegistrationInput
      /\ r \in srv.requests /\ r.machineId = item.machineId /\ r.cac = item.cac
      /\ e \in srv.elections
  BY DEF ServerInv, CallType, SyncInput, RequestsFor, ElectionsFor
<1>3. r.id \in Uuid /\ e.id \in Uuid
  BY <1>2 DEF ServerInv, TablesOK, ServerTables, RequestOutput, ElectionOutput
<1>4. row \in RegistrationOutput /\ row.id = NewId
  BY <1>2, <1>3, NewIdIsUuid DEF RegistrationInput, RegistrationOutput
<1>5. RegistrationLinked(srv, row)
  BY <1>2 DEF RegistrationLinked
<1>6. [table |-> "registrations", row |-> row] \in PendingInsert
  BY <1>4 DEF PendingInsert
<1> HIDE DEF row
<1>7. CanStartInsert(c) /\ "registrations" \in Stored
  BY DEF AddRegistration, Stored
<1> QED
  BY <1>1, <1>4, <1>5, <1>6, <1>7, StartInsertStep DEF row

LEMMA AddBallotStep ==
    ASSUME ServerInv, NEW c \in Calls, AddBallot(c)
    PROVE  ServerInv'
<1>0. PICK item \in calls[c].input.ballots : \E g \in RegistrationsFor(item) :
              StartInsert(c, "ballots", item,
                  [id |-> NewId, clientId |-> item.clientId,
                   machineId |-> item.machineId, cac |-> item.cac,
                   registrationId |-> g.id])
  BY DEF AddBallot
<1>1. PICK g \in RegistrationsFor(item) :
          StartInsert(c, "ballots", item,
              [id |-> NewId, clientId |-> item.clientId,
               machineId |-> item.machineId, cac |-> item.cac,
               registrationId |-> g.id])
  BY <1>0
<1> DEFINE row == [id |-> NewId, clientId |-> item.clientId,
                   machineId |-> item.machineId, cac |-> item.cac,
                   registrationId |-> g.id]
<1>2. /\ item \in BallotInput
      /\ g \in srv.registrations /\ g.machineId = item.machineId /\ g.cac = item.cac
  BY DEF ServerInv, CallType, SyncInput, RegistrationsFor
<1>3. g.id \in Uuid
  BY <1>2 DEF ServerInv, TablesOK, ServerTables, RegistrationOutput
<1>4. row \in BallotOutput /\ row.id = NewId
  BY <1>2, <1>3, NewIdIsUuid DEF BallotInput, BallotOutput
<1>5. BallotLinked(srv, row)
  BY <1>2 DEF BallotLinked
<1>6. [table |-> "ballots", row |-> row] \in PendingInsert
  BY <1>4 DEF PendingInsert
<1> HIDE DEF row
<1>7. CanStartInsert(c) /\ "ballots" \in Stored
  BY DEF AddBallot, Stored
<1> QED
  BY <1>1, <1>4, <1>5, <1>6, <1>7, StartInsertStep DEF row

\* A handler that only loses items it was to insert, or an INSERT that failed,
\* and perhaps goes on to read.
LEMMA LighterCall ==
    ASSUME ServerInv, NEW c \in Calls, calls[c].pc = "inserting",
           NEW h \in CallType, h.added = calls[c].added, h.output = calls[c].output,
           h.pending \subseteq calls[c].pending,
           Lasts(h.input) = Lasts(calls[c].input),
           h.pc = "inserting" \/ (h.pc = "getAdmins" /\ h.pending = {}),
           calls' = [calls EXCEPT ![c] = h], UNCHANGED <<srv, clock, external>>
    PROVE  ServerInv'
<1>1. CallOK(srv, clock, calls[c])
  BY DEF ServerInv
<1>2. \A id : Newer(id, calls[c].input) <=> Newer(id, h.input)
  BY DEF Newer
<1>3. Cursors(clock, h) /\ Parents(srv, h) /\ Phases(clock, h)
  BY <1>1, <1>2 DEF CallOK, Cursors, Parents, Phases
<1>4. Accepted(srv, h)
  <2>1. \A k \in Stored : Source(srv, h, k) = Source(srv, calls[c], k)
    BY DEF Source, ReadBy
  <2> QED
    BY <1>1, <2>1 DEF CallOK, Accepted
<1> QED
  BY <1>3, <1>4, QuietStep DEF CallOK

LEMMA DropStep ==
    ASSUME ServerInv, NEW c \in Calls, DropRegistration(c) \/ DropBallot(c)
    PROVE  ServerInv'
<1>1. PICK table \in {"registrations", "ballots"} : \E item : Drop(c, table, item)
  BY DEF DropRegistration, DropBallot
<1>2. PICK item : Drop(c, table, item)
  BY <1>1
<1> DEFINE h == [calls[c] EXCEPT !.input[table] = @ \ {item}]
<1>3. calls[c] \in CallType /\ calls[c].pc = "inserting"
  BY DEF ServerInv, DropRegistration, DropBallot, CanStartInsert
<1>4. h \in CallType /\ Lasts(h.input) = Lasts(calls[c].input)
  <2>1. CASE table = "registrations"  BY <1>3, <2>1 DEF CallType, SyncInput, Lasts
  <2>2. CASE table = "ballots"  BY <1>3, <2>2 DEF CallType, SyncInput, Lasts
  <2> QED  BY <2>1, <2>2
<1>5. /\ h.pc = "inserting" /\ h.added = calls[c].added /\ h.output = calls[c].output
      /\ h.pending = calls[c].pending
  BY <1>3 DEF CallType
<1>6. calls' = [calls EXCEPT ![c] = h] /\ UNCHANGED <<srv, clock, external>>
  BY <1>2 DEF Drop, ServerInv
<1> QED
  BY <1>3, <1>4, <1>5, <1>6, LighterCall

LEMMA FailInsertStep ==
    ASSUME ServerInv, NEW c \in Calls, FailInsert(c)
    PROVE  ServerInv'
<1> DEFINE h == [calls[c] EXCEPT !.pending = {}]
<1>1. calls[c] \in CallType /\ calls[c].pc = "inserting"
  BY DEF ServerInv, FailInsert, CallOK, Phases
<1>2. /\ h \in CallType /\ h.pc = "inserting" /\ h.added = calls[c].added /\ h.pending = {}
      /\ h.output = calls[c].output /\ h.input = calls[c].input
  BY <1>1 DEF CallType
<1>3. calls' = [calls EXCEPT ![c] = h] /\ UNCHANGED <<srv, clock, external>>
  BY DEF FailInsert, ServerInv
<1> QED
  BY <1>1, <1>2, <1>3, LighterCall

LEMMA FinishInsertsStep ==
    ASSUME ServerInv, NEW c \in Calls, FinishInserts(c)
    PROVE  ServerInv'
<1> DEFINE h == [calls[c] EXCEPT !.pc = "getAdmins"]
<1>1. calls[c] \in CallType /\ calls[c].pc = "inserting" /\ calls[c].pending = {}
  BY DEF ServerInv, FinishInserts, CanStartInsert
<1>2. /\ h \in CallType /\ h.pc = "getAdmins" /\ h.added = calls[c].added /\ h.pending = {}
      /\ h.output = calls[c].output /\ h.input = calls[c].input
  BY <1>1 DEF CallType, CallStates
<1>3. calls' = [calls EXCEPT ![c] = h] /\ UNCHANGED <<srv, clock, external>>
  BY DEF FinishInserts, ServerInv
<1> QED
  BY <1>1, <1>2, <1>3, LighterCall

\* The row is linked and stamped since its INSERT started.
LEMMA CommitInsertStep ==
    ASSUME ServerInv, NEW c \in Calls, CommitInsert(c)
    PROVE  ServerInv'
<1>1. PICK p \in calls[c].pending :
          /\ srv' = [srv EXCEPT ![p.table] = @ \cup {p.row}]
          /\ calls' = [calls EXCEPT ![c] = [calls[c] EXCEPT !.pending = {},
                                            !.added = calls[c].added \cup {p.row.id}]]
          /\ UNCHANGED <<clock, external>>
  BY DEF CommitInsert
<1> DEFINE h == [calls[c] EXCEPT !.pending = {}, !.added = calls[c].added \cup {p.row.id}]
<1>2. calls[c] \in CallType /\ calls[c].pc = "inserting" /\ CallOK(srv, clock, calls[c])
  BY DEF ServerInv, CallOK, Phases
<1>3. p \in PendingInsert /\ p.row.id \in Uuid
  BY <1>2 DEF CallType, PendingInsert, RequestOutput, RegistrationOutput, BallotOutput
<1>4. /\ p.table \in Stored /\ p.table \in Tables
      /\ p.table = "requests" => p.row \in RequestOutput
      /\ p.table = "registrations" => p.row \in RegistrationOutput
      /\ p.table = "ballots" => p.row \in BallotOutput
  BY <1>3, TablesNames DEF PendingInsert, Stored
<1>5. /\ Stamped(p.row.id, clock) /\ Newer(p.row.id, calls[c].input)
      /\ p.table = "registrations" => RegistrationLinked(srv, p.row)
      /\ p.table = "ballots" => BallotLinked(srv, p.row)
  BY <1>2 DEF CallOK, Cursors, Parents
<1>6. TablesOK(srv', clock') /\ Grown(srv, srv') /\ clock <= clock'
  <2>1. TablesOK(srv, clock) /\ clock \in Nat /\ clock <= clock
    BY NothingGrows DEF ServerInv, TablesOK
  <2>2. p.table \notin {"admins", "elections"}
    BY <1>4 DEF Stored
  <2> QED
    BY <1>1, <1>4, <1>5, <2>1, <2>2, AddRow
<1>7. /\ h \in CallType /\ h.pc = "inserting" /\ h.pending = {}
      /\ h.added = calls[c].added \cup {p.row.id}
      /\ h.input = calls[c].input /\ h.output = calls[c].output
  BY <1>2, <1>3 DEF CallType
<1>8. calls' = [calls EXCEPT ![c] = h]
  BY <1>1, Zenon
<1>9. CallOK(srv', clock', calls[c])
  BY <1>1, <1>2, <1>6, CallStaysOK DEF ServerInv, TablesOK
<1>10. Cursors(clock', h) /\ Parents(srv', h) /\ Phases(clock', h)
  BY <1>5, <1>7, <1>9 DEF CallOK, Cursors, Parents, Phases
<1>11. Accepted(srv', h)
  <2>1. \A k \in Stored : Source(srv', h, k) = srv'[k] /\ Source(srv', calls[c], k) = srv'[k]
    BY <1>2, <1>7 DEF Source, ReadBy
  <2>2. p.row \in srv'[p.table]
    BY <1>1, <1>4 DEF ServerInv, TablesOK, ServerTables, Stored
  <2> QED
    BY <1>2, <1>4, <1>7, <1>9, <2>1, <2>2 DEF CallOK, Accepted, Ids
<1> QED
  BY <1>1, <1>6, <1>7, <1>8, <1>10, <1>11, HandlerStep DEF CallOK

LEMMA SinceIsOfTable == \A rows, last : Since(rows, last) \subseteq rows
BY DEF Since

\* A query skips no row that is newer than all the client knows.
LEMMA SinceKeepsNewer ==
    ASSUME NEW S, NEW n, TablesOK(S, n), NEW k \in Stored, NEW r \in S[k],
           NEW input \in SyncInput, NEW last \in Lasts(input), Newer(r.id, input)
    PROVE  r \in Since(S[k], last)
<1>1. \A q \in S[k] : q.id \in Uuid /\ q.id[1] = Server
  BY DEF TablesOK, ServerTables, ByClock, Stamped, Stored, Kinds, RequestOutput,
         RegistrationOutput, BallotOutput
<1>2. ASSUME NEW q \in S[k], q.id = last PROVE last[2] < r.id[2]
  <2>1. last # None /\ last[1] = Server
    BY <1>1, <1>2, IdsAssumption
  <2> QED
    BY <2>1 DEF Newer
<1>3. last[2] < r.id[2] => r.id[2] > last[2]
  OBVIOUS
<1> QED
  BY <1>2, <1>3 DEF Since

\* A handler that reads goes on to h.
LEMMA ReaderStep ==
    ASSUME ServerInv, NEW c \in Calls, calls[c].pc \in Reading,
           NEW h \in CallType, h.pc \notin {"idle", "inserting"},
           h.added = calls[c].added, h.pending = calls[c].pending,
           Lasts(h.input) \subseteq Lasts(calls[c].input) \cup {None},
           \A k \in Kinds : h.output[k] \subseteq calls[c].output[k] \cup srv[k],
           Accepted(srv, h),
           calls' = [calls EXCEPT ![c] = h], UNCHANGED <<srv, clock, external>>
    PROVE  ServerInv'
<1>1. CallOK(srv, clock, calls[c]) /\ TablesOK(srv, clock)
  BY DEF ServerInv
<1>2. \A id : Newer(id, calls[c].input) => Newer(id, h.input)
  BY DEF Newer
<1>3. Cursors(clock, h) /\ Parents(srv, h)
  BY <1>1, <1>2 DEF CallOK, Cursors, Parents
<1>4. h.pending = {}
  BY <1>1 DEF CallOK, Phases, Reading
<1>5. \A k \in Kinds : \A r \in srv[k] : r.id[2] < clock
  BY <1>1 DEF TablesOK, ByClock, Stamped
<1>6. Phases(clock, h)
  BY <1>1, <1>4, <1>5 DEF CallOK, Phases
<1> QED
  BY <1>3, <1>6, QuietStep DEF CallOK

\* The admins and the elections of a reply: no handler stores such rows.
LEMMA GetOthersStep ==
    ASSUME ServerInv, NEW c \in Calls, GetAdmins(c) \/ GetElections(c)
    PROVE  ServerInv'
<1>1. /\ calls[c] \in CallType /\ CallOK(srv, clock, calls[c]) /\ srv \in ServerTables
      /\ Since(srv.elections, calls[c].input.lastElection) \subseteq srv.elections
  BY SinceIsOfTable DEF ServerInv, TablesOK
<1>2. PICK table \in {"admins", "elections"}, next \in {"getElections", "getRequests"} :
          \E rows :
              /\ rows \subseteq srv[table] /\ calls[c].pc \in {"getAdmins", "getElections"}
              /\ calls' = [calls EXCEPT ![c] =
                             [calls[c] EXCEPT !.pc = next, !.output[table] = rows]]
              /\ UNCHANGED <<srv, clock, external>>
  BY <1>1 DEF GetAdmins, GetElections, Read, ServerInv
<1>3. PICK rows :
          /\ rows \subseteq srv[table] /\ calls[c].pc \in {"getAdmins", "getElections"}
          /\ calls' = [calls EXCEPT ![c] = [calls[c] EXCEPT !.pc = next, !.output[table] = rows]]
          /\ UNCHANGED <<srv, clock, external>>
  BY <1>2
<1> DEFINE h == [calls[c] EXCEPT !.pc = next, !.output[table] = rows]
<1>4. /\ h.pc = next /\ h.added = calls[c].added /\ h.pending = calls[c].pending
      /\ h.input = calls[c].input /\ h.output = [calls[c].output EXCEPT ![table] = rows]
  BY <1>1 DEF CallType
<1>5. h \in CallType
  <2>1. calls[c].output \in SyncOutput
    BY <1>1 DEF CallType
  <2>2. CASE table = "admins"
    <3>1. rows \subseteq Cacs
      BY <1>1, <1>3, <2>2 DEF ServerTables
    <3>2. [calls[c].output EXCEPT ![table] = rows] \in SyncOutput
      BY <2>1, <2>2, <3>1 DEF SyncOutput
    <3> QED
      BY <1>1, <3>2 DEF CallType, CallStates
  <2>3. CASE table = "elections"
    <3>1. rows \subseteq ElectionOutput
      BY <1>1, <1>3, <2>3 DEF ServerTables
    <3>2. [calls[c].output EXCEPT ![table] = rows] \in SyncOutput
      BY <2>1, <2>3, <3>1 DEF SyncOutput
    <3> QED
      BY <1>1, <3>2 DEF CallType, CallStates
  <2> QED
    BY <2>2, <2>3
<1>6. \A k \in Kinds : h.output[k] \subseteq calls[c].output[k] \cup srv[k]
  BY <1>1, <1>3, <1>4 DEF CallType, SyncOutput, Kinds
<1>7. Accepted(srv, h)
  <2>1. \A k \in Stored : Source(srv, h, k) = srv[k] /\ Source(srv, calls[c], k) = srv[k]
    BY <1>3, <1>4 DEF Source, ReadBy
  <2>2. Accepted(srv, calls[c]) /\ calls[c].pc \notin {"dropped", "replied"} /\ h.pc # "replied"
    BY <1>1, <1>3, <1>4 DEF CallOK
  <2> HIDE DEF h
  <2> QED
    BY <1>4, <2>1, <2>2 DEF Accepted
<1> HIDE DEF h
<1> QED
  BY <1>3, <1>4, <1>5, <1>6, <1>7, ReaderStep DEF Reading, h

\* The source of a table's rows moves from the server's table to the reply and
\* loses none of the handler's own.
LEMMA ReadKeepsAccepted ==
    ASSUME NEW S, NEW n, TablesOK(S, n), NEW g, CallOK(S, n, g), g.pc \in Reading,
           NEW h, h.added = g.added, h.pc # "dropped", NEW k \in Stored,
           NEW last \in Lasts(g.input),
           ReadBy(h.pc) = ReadBy(g.pc) \cup {k}, k \notin ReadBy(g.pc),
           h.output[k] = Since(S[k], last),
           \A j \in Stored \ {k} : h.output[j] = g.output[j]
    PROVE  Accepted(S, h)
<1> SUFFICES ASSUME NEW id \in h.added PROVE \E j \in Stored : id \in Ids(Source(S, h, j))
  BY DEF Accepted
<1>1. g.pc \notin {"dropped", "replied"} /\ g.input \in SyncInput /\ Newer(id, g.input)
  BY DEF CallOK, Reading, CallType, Cursors
<1>2. PICK j \in Stored : id \in Ids(Source(S, g, j))
  BY <1>1 DEF CallOK, Accepted
<1>3. CASE j = k
  <2>1. PICK r \in S[k] : r.id = id
    BY <1>2, <1>3 DEF Source, Ids
  <2>2. r \in Since(S[k], last)
    BY <1>1, <2>1, SinceKeepsNewer
  <2>3. r \in Source(S, h, k)
    BY <2>2 DEF Source
  <2> QED
    BY <2>1, <2>3 DEF Ids
<1>4. CASE j # k
  <2>1. Source(S, h, j) = Source(S, g, j)
    BY <1>4 DEF Source
  <2> QED
    BY <1>2, <2>1
<1> QED
  BY <1>3, <1>4

LEMMA GetStoredStep ==
    ASSUME ServerInv, NEW c \in Calls, GetRequests(c) \/ GetRegistrations(c)
    PROVE  ServerInv'
<1>1. calls[c] \in CallType /\ CallOK(srv, clock, calls[c]) /\ TablesOK(srv, clock)
  BY DEF ServerInv
<1>2. \E table \in {"requests", "registrations"}, next \in {"getRegistrations", "getBallots"},
         last \in Lasts(calls[c].input) :
          /\ calls[c].pc \in Reading
          /\ ReadBy(next) = ReadBy(calls[c].pc) \cup {table} /\ table \notin ReadBy(calls[c].pc)
          /\ calls' = [calls EXCEPT ![c] = [calls[c] EXCEPT !.pc = next,
                                                    !.output[table] = Since(srv[table], last)]]
          /\ UNCHANGED <<srv, clock, external>>
  <2>1. /\ ReadBy("getRequests") = {} /\ ReadBy("getRegistrations") = {"requests"}
        /\ ReadBy("getBallots") = {"requests", "registrations"}
    BY DEF ReadBy
  <2>2. /\ calls[c].input.lastRequest \in Lasts(calls[c].input)
        /\ calls[c].input.lastRegistration \in Lasts(calls[c].input)
    BY DEF Lasts
  <2>3. CASE GetRequests(c)
    <3>1. /\ calls[c].pc = "getRequests" /\ UNCHANGED <<srv, clock, external>>
          /\ calls' = [calls EXCEPT ![c] = [calls[c] EXCEPT !.pc = "getRegistrations",
                          !.output["requests"] = Since(srv.requests, calls[c].input.lastRequest)]]
      BY <2>3 DEF GetRequests, Read, ServerInv
    <3> QED
      BY <2>1, <2>2, <3>1 DEF Reading
  <2>4. CASE GetRegistrations(c)
    <3>1. /\ calls[c].pc = "getRegistrations" /\ UNCHANGED <<srv, clock, external>>
          /\ calls' = [calls EXCEPT ![c] = [calls[c] EXCEPT !.pc = "getBallots",
                          !.output["registrations"] =
                              Since(srv.registrations, calls[c].input.lastRegistration)]]
      BY <2>4 DEF GetRegistrations, Read, ServerInv
    <3> QED
      BY <2>1, <2>2, <3>1 DEF Reading
  <2> QED
    BY <2>3, <2>4
<1>3. PICK table \in {"requests", "registrations"}, next \in {"getRegistrations", "getBallots"},
           last \in Lasts(calls[c].input) :
          /\ calls[c].pc \in Reading
          /\ ReadBy(next) = ReadBy(calls[c].pc) \cup {table} /\ table \notin ReadBy(calls[c].pc)
          /\ calls' = [calls EXCEPT ![c] = [calls[c] EXCEPT !.pc = next,
                                                    !.output[table] = Since(srv[table], last)]]
          /\ UNCHANGED <<srv, clock, external>>
  BY <1>2
<1> DEFINE rows == Since(srv[table], last)
           out == [calls[c].output EXCEPT ![table] = rows]
           h == [calls[c] EXCEPT !.pc = next, !.output[table] = rows]
<1>4. rows \subseteq srv[table]
  BY SinceIsOfTable
<1> HIDE DEF rows
<1>5. /\ h.pc = next /\ h.added = calls[c].added /\ h.pending = calls[c].pending
      /\ h.input = calls[c].input /\ h.output = out
  BY <1>1 DEF CallType
<1>6. out \in SyncOutput
  <2>1. calls[c].output \in SyncOutput /\ srv \in ServerTables
    BY <1>1 DEF CallType, TablesOK
  <2>2. CASE table = "requests"
    BY <1>4, <2>1, <2>2 DEF SyncOutput, ServerTables
  <2>3. CASE table = "registrations"
    BY <1>4, <2>1, <2>3 DEF SyncOutput, ServerTables
  <2> QED
    BY <2>2, <2>3
<1>7. h \in CallType
  BY <1>1, <1>6 DEF CallType, CallStates
<1>8. \A k \in Kinds : out[k] = IF k = table THEN rows ELSE calls[c].output[k]
  BY <1>1 DEF CallType, SyncOutput, Kinds
<1> HIDE DEF h, out
<1>9. Accepted(srv, h)
  <2>1. out[table] = rows /\ \A j \in Stored \ {table} : out[j] = calls[c].output[j]
    BY <1>8 DEF Kinds, Stored
  <2> QED
    BY <1>1, <1>3, <1>5, <2>1, ReadKeepsAccepted DEF rows, Stored
<1>10. \A k \in Kinds : h.output[k] \subseteq calls[c].output[k] \cup srv[k]
  BY <1>4, <1>5, <1>8
<1>11. calls' = [calls EXCEPT ![c] = h] /\ UNCHANGED <<srv, clock, external>>
  BY <1>3 DEF h, rows
<1> QED
  BY <1>3, <1>5, <1>7, <1>9, <1>10, <1>11, ReaderStep

LEMMA GetBallotsStep ==
    ASSUME ServerInv, NEW c \in Calls, GetBallots(c)
    PROVE  ServerInv'
<1> DEFINE last == calls[c].input.lastBallot
           rows == Since(srv.ballots, last)
           out == [calls[c].output EXCEPT !.status = 200, !.ballots = rows]
           h == [calls[c] EXCEPT !.pc = "replied", !.input = NoInput, !.output = out]
<1>1. /\ calls[c] \in CallType /\ CallOK(srv, clock, calls[c]) /\ TablesOK(srv, clock)
      /\ calls[c].pc = "getBallots"
  BY DEF ServerInv, GetBallots
<1>2. rows \subseteq srv.ballots
  BY SinceIsOfTable
<1>3. calls' = [calls EXCEPT ![c] = h] /\ UNCHANGED <<srv, clock, external>>
  BY Zenon DEF GetBallots
<1> HIDE DEF rows
<1>4. out \in SyncOutput
  <2>1. calls[c].output \in SyncOutput /\ rows \subseteq BallotOutput
    BY <1>1, <1>2 DEF CallType, TablesOK, ServerTables
  <2> QED
    BY <2>1 DEF SyncOutput
<1>5. /\ h.pc = "replied" /\ h.added = calls[c].added /\ h.pending = calls[c].pending
      /\ h.input = NoInput /\ h.output = out
  BY <1>1 DEF CallType
<1>6. NoInput \in SyncInput /\ Lasts(NoInput) = {None}
  BY DEF NoInput, SyncInput, Optional, Lasts
<1>7. h \in CallType
  BY <1>1, <1>4, <1>6 DEF CallType, CallStates
<1>8. \A k \in Kinds : out[k] = IF k = "ballots" THEN rows ELSE calls[c].output[k]
  BY <1>1 DEF CallType, SyncOutput, Kinds
<1> HIDE DEF h, out
<1>9. Accepted(srv, h)
  <2>1. out["ballots"] = rows /\ \A j \in Stored \ {"ballots"} : out[j] = calls[c].output[j]
    BY <1>8 DEF Kinds, Stored
  <2>2. /\ "ballots" \in Stored /\ "ballots" \notin ReadBy("getBallots")
        /\ ReadBy("replied") = ReadBy("getBallots") \cup {"ballots"}
    BY DEF ReadBy, Stored
  <2>3. last \in Lasts(calls[c].input) /\ calls[c].pc \in Reading
    BY <1>1 DEF Lasts, Reading
  <2> QED
    BY <1>1, <1>5, <2>1, <2>2, <2>3, ReadKeepsAccepted DEF rows
<1>10. \A k \in Kinds : h.output[k] \subseteq calls[c].output[k] \cup srv[k]
  BY <1>2, <1>5, <1>8
<1> QED
  BY <1>1, <1>3, <1>5, <1>6, <1>7, <1>9, <1>10, ReaderStep DEF Reading

\* A reply of 500, or none, promises nothing.
LEMMA FailReadStep ==
    ASSUME ServerInv, NEW c \in Calls, FailRead(c)
    PROVE  ServerInv'
<1> DEFINE h == [calls[c] EXCEPT !.pc = "replied", !.input = NoInput, !.output = IdleCall.output]
<1>1. calls[c] \in CallType /\ calls[c].pc \in Reading
  BY DEF ServerInv, FailRead
<1>2. calls' = [calls EXCEPT ![c] = h] /\ UNCHANGED <<srv, clock, external>>
  BY Zenon DEF FailRead
<1>3. /\ h.pc = "replied" /\ h.added = calls[c].added /\ h.pending = calls[c].pending
      /\ h.input = NoInput /\ h.output = IdleCall.output
  BY <1>1 DEF CallType
<1>4. /\ NoInput \in SyncInput /\ Lasts(NoInput) = {None} /\ IdleCall.output \in SyncOutput
      /\ IdleCall.output.status = 500 /\ \A k \in Kinds : IdleCall.output[k] = {}
  BY DEF NoInput, SyncInput, Optional, Lasts, IdleCall, SyncOutput, Kinds
<1>5. h \in CallType
  BY <1>1, <1>4 DEF CallType, CallStates
<1>6. Accepted(srv, h)
  BY <1>3, <1>4 DEF Accepted
<1> HIDE DEF h
<1>7. \A k \in Kinds : h.output[k] \subseteq calls[c].output[k] \cup srv[k]
  BY <1>3, <1>4
<1>8. /\ h.pc \notin {"idle", "inserting"} /\ h.added = calls[c].added
      /\ h.pending = calls[c].pending
      /\ Lasts(h.input) \subseteq Lasts(calls[c].input) \cup {None}
  BY <1>3, <1>4
<1> QED
  BY <1>1, <1>2, <1>5, <1>6, <1>7, <1>8, ReaderStep

LEMMA DropCallStep ==
    ASSUME ServerInv, NEW c \in Calls, DropCall(c)
    PROVE  ServerInv'
<1> DEFINE h == [IdleCall EXCEPT !.pc = "dropped", !.added = calls[c].added]
<1>1. calls[c] \in CallType
  BY DEF ServerInv
<1>2. calls' = [calls EXCEPT ![c] = h] /\ UNCHANGED <<srv, clock, external>>
  BY DEF DropCall
<1>3. /\ h.pc = "dropped" /\ h.pending = {} /\ h.added = calls[c].added
      /\ h.input = NoInput /\ h.output = IdleCall.output
  BY DEF IdleCall
<1>4. /\ NoInput \in SyncInput /\ Lasts(NoInput) = {None} /\ IdleCall.output \in SyncOutput
      /\ \A k \in Kinds : IdleCall.output[k] = {}
  BY DEF NoInput, SyncInput, Optional, Lasts, IdleCall, SyncOutput, Kinds
<1>5. h \in CallType
  <2>1. IdleCall \in CallType
    BY <1>4 DEF IdleCall, CallType, CallStates
  <2> QED
    BY <1>1, <2>1 DEF CallType, CallStates
<1> HIDE DEF h
<1>6. CallOK(srv, clock, h)
  BY <1>3, <1>4, <1>5 DEF CallOK, Cursors, Newer, Parents, Accepted, Phases
<1> QED
  BY <1>2, <1>6, QuietStep

\* An operator's row is stamped now; a registration names rows that are there.
LEMMA HandInsertStep ==
    ASSUME ServerInv, Operator
    PROVE  ServerInv'
<1>1. ASSUME NEW table \in Tables, NEW row, External(table, row),
             TablesOK(srv', clock') /\ Grown(srv, srv')
      PROVE  ServerInv'
  <2>1. calls' = calls /\ external' \in Nat /\ clock \in Nat /\ clock' \in Nat /\ clock <= clock'
    BY <1>1 DEF External, ServerInv, TablesOK
  <2>2. ASSUME NEW c \in Calls PROVE CallOK(srv', clock', calls'[c])
    BY <1>1, <2>1, CallStaysOK DEF ServerInv
  <2> QED
    BY <1>1, <2>1, <2>2 DEF ServerInv
<1>2. ASSUME NEW table \in Tables, NEW row, External(table, row)
      PROVE  /\ srv' = [srv EXCEPT ![table] = @ \cup {row}]
             /\ TablesOK(srv, clock) /\ clock \in Nat /\ clock' \in Nat /\ clock <= clock'
             /\ NewId \in Uuid /\ Stamped(NewId, clock')
  BY <1>2, NewIdIsUuid DEF External, ServerInv, TablesOK, Stamped, NewId
<1>3. CASE InsertAdmin
  <2>1. PICK cac \in Cacs : External("admins", cac) /\ "admins" \in Tables
    BY <1>3, TablesNames DEF InsertAdmin
  <2>2. TablesOK(srv', clock') /\ Grown(srv, srv')
    BY <1>2, <2>1, AddRow
  <2> QED
    BY <1>1, <2>1, <2>2
<1>4. CASE InsertElection
  <2> DEFINE row == [id |-> NewId, clientId |-> NewId, machineId |-> Server, json |-> "object"]
  <2>1. External("elections", row) /\ "elections" \in Tables
    BY <1>4, TablesNames DEF InsertElection
  <2>2. row.id = NewId /\ row \in ElectionOutput
    BY <1>2, <2>1 DEF ElectionOutput, Owners
  <2> HIDE DEF row
  <2>3. TablesOK(srv', clock') /\ Grown(srv, srv')
    BY <1>2, <2>1, <2>2, AddRow
  <2> QED
    BY <1>1, <2>1, <2>3
<1>5. CASE InsertRegistration
  <2>1. PICK r \in srv.requests, e \in srv.elections :
            External("registrations",
                [id |-> NewId, clientId |-> NewId, machineId |-> r.machineId,
                 cac |-> r.cac, requestId |-> r.id, electionId |-> e.id])
    BY <1>5 DEF InsertRegistration
  <2> DEFINE row == [id |-> NewId, clientId |-> NewId, machineId |-> r.machineId,
                     cac |-> r.cac, requestId |-> r.id, electionId |-> e.id]
  <2>2. External("registrations", row) /\ "registrations" \in Tables
    BY <2>1, TablesNames
  <2>3. r \in RequestOutput /\ e \in ElectionOutput
    BY DEF ServerInv, TablesOK, ServerTables
  <2>4. row.id = NewId /\ row \in RegistrationOutput /\ RegistrationLinked(srv, row)
    BY <1>2, <2>2, <2>3 DEF RegistrationOutput, RegistrationLinked, RequestOutput, ElectionOutput
  <2> HIDE DEF row
  <2>5. TablesOK(srv', clock') /\ Grown(srv, srv')
    BY <1>2, <2>2, <2>4, AddRow
  <2> QED
    BY <1>1, <2>2, <2>5
<1> QED
  BY <1>3, <1>4, <1>5 DEF Operator

LEMMA HandlerSteps ==
    ASSUME ServerInv, NEW c \in Calls, Handle(c) \/ Fault(c)
    PROVE  ServerInv'
BY AddRequestStep, AddRegistrationStep, AddBallotStep, DropStep, CommitInsertStep,
   FinishInsertsStep, GetOthersStep, GetStoredStep, GetBallotsStep, FailInsertStep,
   FailReadStep, DropCallStep DEF Handle, Fault

LEMMA NextServerInv == ServerInv /\ [ServerNext(AnyInput)]_serverVars => ServerInv'
<1> SUFFICES ASSUME ServerInv, [ServerNext(AnyInput)]_serverVars PROVE ServerInv'
  OBVIOUS
<1>1. CASE Operator
  BY <1>1, HandInsertStep
<1>2. ASSUME NEW c \in Calls, Client(c, AnyInput) PROVE ServerInv'
  BY <1>2, SubmitStep DEF Client
<1>3. ASSUME NEW c \in Calls, Handle(c) \/ Fault(c) PROVE ServerInv'
  BY <1>3, HandlerSteps
<1>4. CASE UNCHANGED serverVars
  BY <1>4 DEF serverVars, ServerInv
<1> QED
  BY <1>1, <1>2, <1>3, <1>4 DEF ServerNext

LEMMA ServerInvHolds == ServerSpec => []ServerInv
BY InitServerInv, NextServerInv, PTL DEF ServerSpec

\* Tables, clock and handlers keep their shapes: ServerTypeOK, for any number of
\* calls and rows, and any bodies the clients send.
THEOREM ServerTypes == ServerSpec => []ServerTypeOK
BY ServerInvHolds, ServerInvImplies, PTL

\* The rows of the server hang together: ServerRecordsOfOneVoter, however the
\* statements of the handlers interleave, fail or are cut off.
THEOREM RecordsHangTogether == ServerSpec => []ServerRecordsOfOneVoter
BY ServerInvHolds, ServerInvImplies, PTL

\* A reply of 200 returns all its handler stored: AcceptedIsReturned.
THEOREM RepliesReturnAccepted == ServerSpec => []AcceptedIsReturned
BY ServerInvHolds, ServerInvImplies, PTL

-----------------------------------------------------------------------------
(* NoGapWhenAlone.  Before anything is read there is no gap; what is read    *)
(* later has all the rows after the client's cursor, and whatever commits   *)
(* after that is stamped later, if no other handler had started it before.  *)

Gapless(S, h) ==
    \A k \in Kinds : \A r, q \in h.output[k], row \in S[k] :
        r.id[2] < row.id[2] /\ row.id[2] < q.id[2] => row \in h.output[k]

GapInv == OneCallEver => \A c \in Calls : Gapless(srv, calls[c])

LEMMA SinceHasNoGap ==
    ASSUME NEW S, NEW n, TablesOK(S, n), NEW k \in Kinds, NEW last \in Optional(Uuid),
           NEW r \in Since(S[k], last), NEW row \in S[k], r.id[2] < row.id[2]
    PROVE  row \in Since(S[k], last)
<1>1. r \in S[k]
  BY SinceIsOfTable
<1>2. \A q \in S[k] : q.id \in Uuid /\ q.id[2] \in Nat
  BY DEF TablesOK, ServerTables, Kinds, RequestOutput, RegistrationOutput, BallotOutput,
         ElectionOutput, Uuid
<1> QED
  BY <1>1, <1>2 DEF Since

LEMMA EmptyReplyHasNoGap ==
    ASSUME NEW S, NEW h, \A k \in Kinds : h.output[k] = {}
    PROVE  Gapless(S, h)
BY DEF Gapless

(* What a step of a handler or a client does to the replies: it never is    *)
(* idle again, and each table of its reply stays, is emptied or is read.    *)
OutputStep(S, g, h) ==
    \A k \in Kinds : \/ h.output[k] = g.output[k] \/ h.output[k] = {}
                     \/ \E last \in Optional(Uuid) : h.output[k] = Since(S[k], last)

LEMMA CallSteps ==
    ASSUME ServerInv, NEW c \in Calls, NEW input,
           Submit(c, input) \/ Handle(c) \/ Fault(c)
    PROVE  /\ \A d \in Calls \ {c} : calls'[d] = calls[d]
           /\ calls'[c].pc # "idle"
           /\ OutputStep(srv, calls[c], calls'[c])
<1> DEFINE Goal == /\ \A d \in Calls \ {c} : calls'[d] = calls[d]
                   /\ calls'[c].pc # "idle"
                   /\ OutputStep(srv, calls[c], calls'[c])
<1>1. calls \in [Calls -> CallType] /\ calls[c] \in CallType
  BY DEF ServerInv
<1>2. ASSUME NEW h, calls' = [calls EXCEPT ![c] = h], h.pc # "idle",
             OutputStep(srv, calls[c], h)
      PROVE  Goal
  BY <1>1, <1>2
<1>3. ASSUME NEW h, calls' = [calls EXCEPT ![c] = h], h.pc # "idle",
             h.output = calls[c].output
      PROVE  Goal
  BY <1>2, <1>3 DEF OutputStep
<1>4. ASSUME NEW h, calls' = [calls EXCEPT ![c] = h], h.pc # "idle",
             h.output = IdleCall.output
      PROVE  Goal
  <2>1. \A k \in Kinds : IdleCall.output[k] = {}
    BY DEF IdleCall, Kinds
  <2> QED
    BY <1>2, <1>4, <2>1 DEF OutputStep
<1>5. ASSUME NEW k \in Tables, NEW next, NEW rows, next # "idle",
             calls' = [calls EXCEPT ![c] = [calls[c] EXCEPT !.pc = next, !.output[k] = rows]],
             k # "admins" => \E last \in Optional(Uuid) : rows = Since(srv[k], last)
      PROVE  Goal
  <2> DEFINE h == [calls[c] EXCEPT !.pc = next, !.output[k] = rows]
  <2>1. h.pc = next /\ h.output = [calls[c].output EXCEPT ![k] = rows]
    BY <1>1 DEF CallType
  <2>2. \A j \in Kinds : h.output[j] = IF j = k THEN rows ELSE calls[c].output[j]
    BY <1>1, <2>1 DEF CallType, SyncOutput, Kinds
  <2> HIDE DEF h
  <2>3. OutputStep(srv, calls[c], h)
    BY <1>5, <2>2 DEF OutputStep, Kinds
  <2> QED
    BY <1>2, <1>5, <2>1, <2>3 DEF h
<1>6. /\ calls[c].input.lastRequest \in Optional(Uuid)
      /\ calls[c].input.lastRegistration \in Optional(Uuid)
      /\ calls[c].input.lastElection \in Optional(Uuid)
      /\ calls[c].input.lastBallot \in Optional(Uuid)
  BY <1>1 DEF CallType, SyncInput
<1>7. CASE Submit(c, input)
  <2> DEFINE h == [calls[c] EXCEPT !.pc = "inserting", !.input = input]
  <2>1. h.pc = "inserting" /\ h.output = calls[c].output
    BY <1>1 DEF CallType
  <2>2. calls' = [calls EXCEPT ![c] = h]
    BY <1>7, Zenon DEF Submit
  <2> QED
    BY <1>3, <2>1, <2>2
<1>8. ASSUME NEW table \in Stored, NEW item, NEW row, CanStartInsert(c),
             StartInsert(c, table, item, row)
      PROVE  Goal
  <2> DEFINE h == [calls[c] EXCEPT !.input[table] = calls[c].input[table] \ {item},
                                   !.pending = {[table |-> table, row |-> row]}]
  <2>1. h.pc = "inserting" /\ h.output = calls[c].output
    BY <1>1, <1>8 DEF CallType, CanStartInsert
  <2>2. calls' = [calls EXCEPT ![c] = h]
    BY <1>8, Zenon DEF StartInsert
  <2> QED
    BY <1>3, <2>1, <2>2
<1>9. CASE AddRequest(c) \/ AddRegistration(c) \/ AddBallot(c)
  <2>1. \E table \in Stored : \E item, row : CanStartInsert(c) /\ StartInsert(c, table, item, row)
    BY <1>9 DEF AddRequest, AddRegistration, AddBallot, Stored
  <2> QED
    BY <1>8, <2>1
<1>10. CASE DropRegistration(c) \/ DropBallot(c)
  <2>0. PICK table \in Stored : \E item : CanStartInsert(c) /\ Drop(c, table, item)
    BY <1>10 DEF DropRegistration, DropBallot, Stored
  <2>1. PICK item : CanStartInsert(c) /\ Drop(c, table, item)
    BY <2>0
  <2> DEFINE h == [calls[c] EXCEPT !.input[table] = @ \ {item}]
  <2>2. h.pc = "inserting" /\ h.output = calls[c].output
    BY <1>1, <2>1 DEF CallType, CanStartInsert
  <2>3. calls' = [calls EXCEPT ![c] = h]
    BY <1>1, <2>1 DEF Drop
  <2> QED
    BY <1>3, <2>2, <2>3
<1>11. CASE CommitInsert(c) \/ FailInsert(c)
  <2>1. calls[c].pc = "inserting"
    BY <1>11 DEF CommitInsert, FailInsert, ServerInv, CallOK, Phases
  <2>2. PICK added :
            calls' = [calls EXCEPT ![c] = [calls[c] EXCEPT !.pending = {}, !.added = added]]
    <3>1. CASE FailInsert(c)
      BY <1>1, <3>1 DEF FailInsert, CallType
    <3>2. CASE CommitInsert(c)
      BY <1>1, <3>2 DEF CommitInsert, CallType
    <3> QED
      BY <1>11, <3>1, <3>2
  <2> DEFINE h == [calls[c] EXCEPT !.pending = {}, !.added = added]
  <2>3. h.pc = "inserting" /\ h.output = calls[c].output
    BY <1>1, <2>1 DEF CallType
  <2> QED
    BY <1>3, <2>2, <2>3
<1>12. CASE FinishInserts(c)
  <2> DEFINE h == [calls[c] EXCEPT !.pc = "getAdmins"]
  <2>1. h.pc = "getAdmins" /\ h.output = calls[c].output
    BY <1>1 DEF CallType
  <2>2. calls' = [calls EXCEPT ![c] = h]
    BY <1>1, <1>12 DEF FinishInserts
  <2> QED
    BY <1>3, <2>1, <2>2
<1>13. CASE GetAdmins(c) \/ GetElections(c) \/ GetRequests(c) \/ GetRegistrations(c)
  <2>1. /\ "admins" \in Tables /\ "elections" \in Tables /\ "requests" \in Tables
        /\ "registrations" \in Tables
    BY TablesNames
  <2>2. CASE GetAdmins(c)
    <3>1. calls' = [calls EXCEPT ![c] =
                       [calls[c] EXCEPT !.pc = "getElections", !.output["admins"] = srv.admins]]
      BY <1>1, <2>2 DEF GetAdmins, Read
    <3> QED  BY <1>5, <2>1, <3>1
  <2>3. CASE GetElections(c)
    <3>1. calls' = [calls EXCEPT ![c] =
                       [calls[c] EXCEPT !.pc = "getRequests", !.output["elections"] =
                            Since(srv.elections, calls[c].input.lastElection)]]
      BY <1>1, <2>3 DEF GetElections, Read
    <3> QED  BY <1>5, <1>6, <2>1, <3>1
  <2>4. CASE GetRequests(c)
    <3>1. calls' = [calls EXCEPT ![c] =
                       [calls[c] EXCEPT !.pc = "getRegistrations", !.output["requests"] =
                            Since(srv.requests, calls[c].input.lastRequest)]]
      BY <1>1, <2>4 DEF GetRequests, Read
    <3> QED  BY <1>5, <1>6, <2>1, <3>1
  <2>5. CASE GetRegistrations(c)
    <3>1. calls' = [calls EXCEPT ![c] =
                       [calls[c] EXCEPT !.pc = "getBallots", !.output["registrations"] =
                            Since(srv.registrations, calls[c].input.lastRegistration)]]
      BY <1>1, <2>5 DEF GetRegistrations, Read
    <3> QED  BY <1>5, <1>6, <2>1, <3>1
  <2> QED
    BY <1>13, <2>2, <2>3, <2>4, <2>5
<1>14. CASE GetBallots(c)
  <2> DEFINE rows == Since(srv.ballots, calls[c].input.lastBallot)
             out == [calls[c].output EXCEPT !.status = 200, !.ballots = rows]
             h == [calls[c] EXCEPT !.pc = "replied", !.input = NoInput, !.output = out]
  <2>1. h.pc = "replied" /\ h.output = out
    BY <1>1 DEF CallType
  <2>2. \A j \in Kinds : h.output[j] = IF j = "ballots" THEN rows ELSE calls[c].output[j]
    BY <1>1, <2>1 DEF CallType, SyncOutput, Kinds
  <2>3. calls' = [calls EXCEPT ![c] = h]
    BY <1>14, Zenon DEF GetBallots
  <2> HIDE DEF h
  <2>4. OutputStep(srv, calls[c], h)
    BY <1>6, <2>2 DEF OutputStep
  <2> QED
    BY <1>2, <2>1, <2>3, <2>4
<1>15. CASE FailRead(c)
  <2> DEFINE h == [calls[c] EXCEPT !.pc = "replied", !.input = NoInput,
                                   !.output = IdleCall.output]
  <2>1. h.pc = "replied" /\ h.output = IdleCall.output
    BY <1>1 DEF CallType
  <2>2. calls' = [calls EXCEPT ![c] = h]
    BY <1>15, Zenon DEF FailRead
  <2> QED
    BY <1>4, <2>1, <2>2
<1>16. CASE DropCall(c)
  <2> DEFINE h == [IdleCall EXCEPT !.pc = "dropped", !.added = calls[c].added]
  <2>1. h.pc = "dropped" /\ h.output = IdleCall.output
    BY DEF IdleCall
  <2>2. calls' = [calls EXCEPT ![c] = h]
    BY <1>16 DEF DropCall
  <2> QED
    BY <1>4, <2>1, <2>2
<1> QED
  BY <1>7, <1>9, <1>10, <1>11, <1>12, <1>13, <1>14, <1>15, <1>16 DEF Handle, Fault

LEMMA StepGaps ==
    ASSUME ServerInv, GapInv, [ServerNext(AnyInput)]_serverVars
    PROVE  GapInv'
<1> SUFFICES ASSUME OneCallEver', NEW d \in Calls PROVE Gapless(srv', calls'[d])
  BY DEF GapInv
<1>1. /\ TablesOK(srv, clock) /\ srv \in ServerTables /\ clock \in Nat
      /\ CallOK(srv, clock, calls[d])
  BY DEF ServerInv, TablesOK
<1>2. CASE UNCHANGED <<srv, calls>>
  BY <1>2 DEF GapInv, OneCallEver
\* The operator's row is the newest of all.
<1>3. ASSUME NEW table \in Tables, NEW new, External(table, new),
             table # "admins" => new.id = NewId
      PROVE  Gapless(srv', calls'[d])
  <2>1. calls' = calls /\ Gapless(srv, calls[d])
    BY <1>3 DEF External, GapInv, OneCallEver
  <2> SUFFICES ASSUME NEW k \in Kinds, NEW r \in calls[d].output[k],
                      NEW q \in calls[d].output[k], NEW row \in srv'[k],
                      r.id[2] < row.id[2], row.id[2] < q.id[2]
               PROVE  row \in calls[d].output[k]
    BY <2>1 DEF Gapless
  <2>2. row \in srv[k] \/ (k = table /\ row = new)
    BY <1>1, <1>3, TablesNames DEF External, ServerTables, Kinds
  <2>3. q.id[2] < clock /\ q.id[2] \in Nat
    BY <1>1 DEF CallOK, Phases, CallType, SyncOutput, Kinds, RequestOutput,
                RegistrationOutput, BallotOutput, ElectionOutput, Uuid
  <2>4. row # new \/ k # table
    <3> SUFFICES ASSUME row = new, k = table PROVE FALSE
      OBVIOUS
    <3>1. row.id[2] = clock
      BY <1>3 DEF NewId, Kinds
    <3> QED
      BY <1>1, <2>3, <3>1
  <2> QED
    BY <2>1, <2>2, <2>4 DEF Gapless
<1>4. CASE Operator
  <2>1. \E table \in Tables : \E new : External(table, new) /\ (table # "admins" => new.id = NewId)
    <3>1. CASE InsertAdmin  BY <3>1, TablesNames DEF InsertAdmin
    <3>2. CASE InsertElection  BY <3>2, TablesNames DEF InsertElection
    <3>3. CASE InsertRegistration
      <4>1. PICK r \in srv.requests, e \in srv.elections :
                External("registrations",
                    [id |-> NewId, clientId |-> NewId, machineId |-> r.machineId,
                     cac |-> r.cac, requestId |-> r.id, electionId |-> e.id])
        BY <3>3 DEF InsertRegistration
      <4> QED
        BY <4>1, TablesNames
    <3> QED
      BY <1>4, <3>1, <3>2, <3>3 DEF Operator
  <2> QED
    BY <1>3, <2>1
\* A step of call c: the other calls have not begun.
<1>5. ASSUME NEW c \in Calls, NEW input, Submit(c, input) \/ Handle(c) \/ Fault(c)
      PROVE  Gapless(srv', calls'[d])
  <2>1. /\ \A b \in Calls \ {c} : calls'[b] = calls[b] /\ calls'[b].pc = "idle"
        /\ OutputStep(srv, calls[c], calls'[c])
    BY <1>5, CallSteps DEF OneCallEver
  <2>2. CASE d # c
    <3>1. \A k \in Kinds : calls'[d].output[k] = {}
      BY <1>1, <2>1, <2>2 DEF CallOK, Phases
    <3> QED
      BY <3>1, EmptyReplyHasNoGap
  <2>3. CASE d = c /\ UNCHANGED srv
    <3>1. Gapless(srv, calls[c])
      <4>1. OneCallEver
        <5> SUFFICES ASSUME NEW b \in Calls, b # c PROVE calls[b].pc = "idle"
          BY DEF OneCallEver
        <5> QED
          BY <2>1
      <4> QED
        BY <4>1 DEF GapInv
    <3> SUFFICES ASSUME NEW k \in Kinds, NEW r \in calls'[c].output[k],
                        NEW q \in calls'[c].output[k], NEW row \in srv[k],
                        r.id[2] < row.id[2], row.id[2] < q.id[2]
                 PROVE  row \in calls'[c].output[k]
      BY <2>3 DEF Gapless
    <3>2. CASE calls'[c].output[k] = calls[c].output[k]
      BY <3>1, <3>2 DEF Gapless
    <3>3. CASE \E last \in Optional(Uuid) : calls'[c].output[k] = Since(srv[k], last)
      BY <1>1, <3>3, SinceHasNoGap
    <3> QED
      BY <2>1, <3>2, <3>3 DEF OutputStep
  <2>4. CASE d = c /\ ~UNCHANGED srv
    <3>1. CommitInsert(c)
      BY <1>5, <2>4 DEF Submit, Handle, Fault, AddRequest, AddRegistration, AddBallot,
            StartInsert, DropRegistration, DropBallot, Drop, FinishInserts, GetAdmins,
            GetElections, GetRequests, GetRegistrations, Read, GetBallots, FailInsert,
            FailRead, DropCall
    <3>2. calls[c].pc = "inserting" /\ calls[c] \in CallType /\ calls \in [Calls -> CallType]
      BY <3>1 DEF CommitInsert, ServerInv, CallOK, Phases
    <3>3. calls'[c].output = calls[c].output
      BY <3>1, <3>2 DEF CommitInsert, CallType
    <3>4. \A k \in Kinds : calls'[c].output[k] = {}
      BY <1>1, <2>4, <3>2, <3>3 DEF CallOK, Phases
    <3> QED
      BY <2>4, <3>4, EmptyReplyHasNoGap
  <2> QED
    BY <2>2, <2>3, <2>4
<1> QED
  BY <1>2, <1>4, <1>5 DEF ServerNext, Client, serverVars

\* The reply to a call that runs alone has no gap: NoGapWhenAlone, whatever it
\* stores, fails to store and is asked for, and whatever operators insert.
THEOREM AloneLeavesNoGap == ServerSpec => []NoGapWhenAlone
<1>1. ServerInit => GapInv
  BY EmptyReplyHasNoGap DEF ServerInit, GapInv, IdleCall, Kinds
<1>2. ServerInv /\ GapInv /\ [ServerNext(AnyInput)]_serverVars => GapInv'
  BY StepGaps
<1>3. GapInv => NoGapWhenAlone
  BY DEF GapInv, NoGapWhenAlone, NoGapInReply, Gapless
<1> QED
  BY <1>1, <1>2, <1>3, ServerInvHolds, PTL DEF ServerSpec
=============================================================================
