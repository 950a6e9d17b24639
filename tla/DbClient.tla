------------------------------ MODULE DbClient ------------------------------
(***************************************************************************)
(* libs/db: Client.fileClient, which opens the database file of a terminal *)
(* and starts it anew when the schema of the installed program is another  *)
(* than the one the digest file names.  The program may crash between any  *)
(* two steps and is started again, by then perhaps a newer one.            *)
(*                                                                         *)
(* A database is the number of tables the schema's statements have created *)
(* and the rows that are committed.  SQLite, outside the repository, undoes *)
(* a half written statement from a journal beside the file when it opens   *)
(* the file the next time.                                                 *)
(***************************************************************************)
EXTENDS Integers, FiniteSets

CONSTANTS
    Schemas,    \* the versions of schema.sql, numbered
    Tables,     \* the number of tables each of them creates
    Rows,       \* bound: the rows that are ever written
    Restarts,   \* bound: how often the program is started again
    Absent

ASSUME SchemasAssumption ==
    /\ Schemas \subseteq Int /\ Tables \in Nat \ {0}
    /\ Absent \notin Schemas

Files == [schema : Schemas, tables : 0 .. Tables, rows : SUBSET Rows, torn : BOOLEAN]
ASSUME AbsentAssumption == Absent \notin Files

VARIABLES
    file,       \* the database file
    digest,     \* the digest file: the schema it names
    backups,    \* the files it was renamed to
    program,    \* the schema of the installed program
    pc,         \* where fileClient, and then the program, is
    restarts

dbVars == <<file, digest, backups, program, pc, restarts>>

\* torn: a statement is half written.
NewFile == [schema |-> program, tables |-> 0, rows |-> {}, torn |-> FALSE]

DbInit ==
    /\ file = Absent /\ digest = Absent /\ backups = {}
    /\ program \in Schemas
    /\ pc = "digest" /\ restarts = 0

\* An absent or half written digest names no schema.
ShouldResetDatabase == digest # program

ReadDigest ==
    /\ pc = "digest"
    /\ pc' = IF ShouldResetDatabase THEN "rename" ELSE "open"
    /\ UNCHANGED <<file, digest, backups, program, restarts>>

\* A slip to detect: the old database is deleted.
DeleteFile ==
    /\ pc = "rename"
    /\ file' = Absent /\ pc' = "connect"
    /\ UNCHANGED <<digest, backups, program, restarts>>

\* Only the file is renamed; whatever goes wrong is ignored.
RenameFile ==
    /\ pc = "rename"
    /\ \/ file # Absent /\ file' = Absent /\ backups' = backups \cup {file}
       \/ UNCHANGED <<file, backups>>
    /\ pc' = "connect"
    /\ UNCHANGED <<digest, program, restarts>>

\* What SQLite makes of the file when it opens it: one without tables has no
\* schema either.
Recovered ==
    IF file = Absent THEN NewFile
    ELSE IF file.tables = 0 THEN NewFile ELSE [file EXCEPT !.torn = FALSE]

\* A slip to detect: the digest is written before the tables are.
DigestFirst ==
    /\ pc = "connect"
    /\ file' = Recovered /\ digest' = program
    /\ pc' = IF file' = NewFile THEN "create" ELSE "failed"
    /\ UNCHANGED <<backups, program, restarts>>

Connect ==
    /\ pc = "connect"
    /\ file' = Recovered
    /\ pc' = IF file' = NewFile THEN "create" ELSE "failed"
    /\ UNCHANGED <<digest, backups, program, restarts>>

\* Every statement of schema.sql commits on its own.  The first one fails,
\* and the program with it, on a file that has tables.
CreateTable ==
    /\ pc = "create" /\ file.tables < Tables
    /\ file' = [file EXCEPT !.tables = @ + 1]
    /\ UNCHANGED <<digest, backups, program, pc, restarts>>

Created ==
    /\ pc = "create" /\ file.tables = Tables
    /\ pc' = "writeDigest"
    /\ UNCHANGED <<file, digest, backups, program, restarts>>

\* The digest is written at the end: first the file is emptied.
WriteDigest ==
    \/ /\ pc = "writeDigest"
       /\ digest' = Absent /\ pc' = "digestEmptied"
       /\ UNCHANGED <<file, backups, program, restarts>>
    \/ /\ pc = "digestEmptied"
       /\ digest' = program /\ pc' = "open"
       /\ UNCHANGED <<file, backups, program, restarts>>

\* The client is returned; its first statement connects.
Open ==
    /\ pc = "open"
    /\ file' = Recovered
    /\ pc' = "running"
    /\ UNCHANGED <<digest, backups, program, restarts>>

Committed == UNION {f.rows : f \in backups \cup ({file} \ {Absent})}

RunBegins ==
    /\ pc = "running"
    /\ file' = [file EXCEPT !.torn = TRUE]
    /\ pc' = "writing"
    /\ UNCHANGED <<digest, backups, program, restarts>>

RunCommits ==
    /\ pc = "writing"
    /\ \E r \in Rows \ Committed :
         file' = [file EXCEPT !.torn = FALSE, !.rows = @ \cup {r}]
    /\ pc' = "running"
    /\ UNCHANGED <<digest, backups, program, restarts>>

\* The program stops anywhere and is started again, never as an older one.
Crash ==
    /\ restarts < Restarts
    /\ program' \in {s \in Schemas : s >= program}
    /\ pc' = "digest" /\ restarts' = restarts + 1
    /\ UNCHANGED <<file, digest, backups>>

DbNext ==
    \/ ReadDigest \/ RenameFile \/ Connect \/ CreateTable \/ Created
    \/ WriteDigest \/ Open \/ RunBegins \/ RunCommits \/ Crash

----------------------------------------------------------------------------
(* Properties.                                                             *)

\* Whatever was interrupted before, the program runs on a database that has
\* all tables of its own schema: a digest never speaks for a database that is
\* older than it or half made.
SchemaIsCurrent ==
    pc \in {"running", "writing"} => file.schema = program /\ file.tables = Tables

\* A row that was committed is never deleted: it stays in the database or in
\* one of the backups, of which one that was torn when it was renamed has lost
\* its journal.
RowsAreKept ==
    [][Committed \subseteq Committed']_dbVars
=============================================================================
