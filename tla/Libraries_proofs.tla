-------------------------- MODULE Libraries_proofs -------------------------
(***************************************************************************)
(* What the parts of a terminal that do not meet keep true, each for any   *)
(* number of whatever it works on: its database, the ballot package it is  *)
(* configured from, the USB drive, the voter's screens, the storage of a   *)
(* card, and the bits it prints on a ballot.                               *)
(***************************************************************************)
EXTENDS DbClient, BallotPackages, UsbDrive, VotingScreens, CardStorage, Ballots,
        SequenceTheorems, FunctionTheorems, FiniteSetTheorems, WellFoundedInduction, TLAPS

----------------------------------------------------------------------------
(* The database of a terminal: it is always of the running program's       *)
(* schema, and no row that was committed is deleted.                       *)


DbSpec == DbInit /\ [][DbNext]_dbVars

Places == {"digest", "rename", "connect", "create", "writeDigest",
           "digestEmptied", "open", "running", "writing", "failed"}

DbTypeOK ==
    /\ file \in Files \cup {Absent}
    /\ digest \in Schemas \cup {Absent}
    /\ backups \subseteq Files
    /\ program \in Schemas
    /\ pc \in Places
    /\ restarts \in Nat

\* A file with no tables holds no rows, so opening it anew loses none.
EmptyHasNoRows == file # Absent /\ file.tables = 0 => file.rows = {}

\* A digest is never ahead of the program: programs are only upgraded.
DigestIsNotAhead == digest # Absent => digest <= program

\* A digest that names the program's schema speaks for a whole database.
DigestIsTrue ==
    digest = program => file # Absent /\ file.schema = program /\ file.tables = Tables

\* Where fileClient is, and what it has made sure of by then.
PlaceIsTrue ==
    /\ pc \in {"rename", "connect", "create", "writeDigest", "digestEmptied"} => digest # program
    /\ pc \in {"create", "writeDigest", "digestEmptied"} => file # Absent /\ file.schema = program
    /\ pc \in {"writeDigest", "digestEmptied"} => file.tables = Tables
    /\ pc \in {"open", "running", "writing"} => digest = program

DbInv == DbTypeOK /\ EmptyHasNoRows /\ DigestIsNotAhead /\ DigestIsTrue /\ PlaceIsTrue

----------------------------------------------------------------------------

\* What SQLite makes of the file is a file, without losing a row.
LEMMA RecoveredIsFile ==
    ASSUME DbInv
    PROVE  /\ Recovered \in Files
           /\ Recovered.tables = 0 => Recovered.rows = {}
           /\ file # Absent => Recovered.rows = file.rows
           /\ digest = program => Recovered.schema = program /\ Recovered.tables = Tables
<1>1. CASE file = Absent
  <2>1. Recovered = NewFile  BY <1>1 DEF Recovered
  <2> QED  BY <1>1, <2>1, SchemasAssumption
           DEF DbInv, DbTypeOK, DigestIsTrue, NewFile, Files
<1>2. CASE file # Absent /\ file.tables = 0
  <2>1. Recovered = NewFile  BY <1>2 DEF Recovered
  <2> QED  BY <1>2, <2>1, SchemasAssumption
           DEF DbInv, DbTypeOK, DigestIsTrue, EmptyHasNoRows, NewFile, Files
<1>3. CASE file # Absent /\ file.tables # 0
  <2>1. Recovered = [file EXCEPT !.torn = FALSE]  BY <1>3 DEF Recovered
  <2> QED  BY <1>3, <2>1, SchemasAssumption
           DEF DbInv, DbTypeOK, DigestIsTrue, EmptyHasNoRows, Files
<1> QED  BY <1>1, <1>2, <1>3

LEMMA DbInvInit == DbInit => DbInv
BY SchemasAssumption
   DEF DbInit, DbInv, DbTypeOK, EmptyHasNoRows, DigestIsNotAhead, DigestIsTrue, PlaceIsTrue, Places

LEMMA DbInvStep == DbInv /\ [DbNext]_dbVars => DbInv'
<1> SUFFICES ASSUME DbInv, [DbNext]_dbVars PROVE DbInv'  OBVIOUS
<1> USE SchemasAssumption, AbsentAssumption
    DEF DbInv, DbTypeOK, EmptyHasNoRows, DigestIsNotAhead, DigestIsTrue, PlaceIsTrue, Places
<1>1. CASE ReadDigest  BY <1>1 DEF ReadDigest, ShouldResetDatabase
<1>2. CASE RenameFile  BY <1>2 DEF RenameFile
<1>3. CASE Connect
  <2>1. file' \in Files /\ (file'.tables = 0 => file'.rows = {})
    BY <1>3, RecoveredIsFile DEF Connect
  <2>2. file' = NewFile => file'.schema = program  BY DEF NewFile
  <2> QED  BY <1>3, <2>1, <2>2 DEF Connect
<1>4. CASE CreateTable
  <2>1. file' \in Files /\ file'.schema = file.schema /\ file'.tables # 0
    BY <1>4 DEF CreateTable, Files
  <2> QED  BY <1>4, <2>1 DEF CreateTable
<1>5. CASE Created  BY <1>5 DEF Created
<1>6. CASE WriteDigest  BY <1>6 DEF WriteDigest
<1>7. CASE Open
  <2>1. /\ file' \in Files /\ (file'.tables = 0 => file'.rows = {})
        /\ file'.schema = program /\ file'.tables = Tables
    BY <1>7, RecoveredIsFile DEF Open
  <2> QED  BY <1>7, <2>1 DEF Open
<1>8. CASE RunBegins
  <2>1. /\ file' \in Files /\ file'.schema = file.schema /\ file'.tables = file.tables
        /\ file'.rows = file.rows
    BY <1>8 DEF RunBegins, Files
  <2> QED  BY <1>8, <2>1 DEF RunBegins
<1>9. CASE RunCommits
  <2>1. file \in Files /\ file.tables # 0  BY <1>9 DEF RunCommits
  <2>2. PICK r \in Rows \ Committed : file' = [file EXCEPT !.torn = FALSE, !.rows = @ \cup {r}]
    BY <1>9 DEF RunCommits
  <2>3. file' \in Files /\ file'.schema = file.schema /\ file'.tables = file.tables
    BY ONLY <2>1, <2>2 DEF Files
  <2> QED  BY <1>9, <2>1, <2>3 DEF RunCommits
<1>10. CASE Crash  BY <1>10 DEF Crash
<1>11. CASE UNCHANGED dbVars  BY <1>11 DEF dbVars
<1> QED  BY <1>1, <1>2, <1>3, <1>4, <1>5, <1>6, <1>7, <1>8, <1>9, <1>10, <1>11 DEF DbNext

\* Client.fileClient, interrupted anywhere, hands out a database of the running
\* program's own schema, whole: SchemaIsCurrent, for any schemas and tables.
THEOREM SchemaStaysCurrent == DbSpec => []SchemaIsCurrent
<1>1. DbInv => SchemaIsCurrent
  BY DEF DbInv, PlaceIsTrue, DigestIsTrue, SchemaIsCurrent
<1> QED  BY DbInvInit, DbInvStep, <1>1, PTL DEF DbSpec

----------------------------------------------------------------------------

\* A step changes the database file and, when it renames it, the backups: rows
\* are kept when the file's rows go to the next file or to a backup.
LEMMA KeptBySteps ==
    ASSUME backups \subseteq backups',
           file = Absent \/ file \in backups' \/ (file' # Absent /\ file.rows \subseteq file'.rows)
    PROVE  Committed \subseteq Committed'
<1> SUFFICES ASSUME NEW r \in Committed PROVE r \in Committed'  OBVIOUS
<1>1. PICK f \in backups \cup ({file} \ {Absent}) : r \in f.rows  BY DEF Committed
<1>2. CASE f \in backups'  BY <1>1, <1>2 DEF Committed
<1>3. CASE f = file /\ file' # Absent /\ file.rows \subseteq file'.rows
  <2>1. r \in file'.rows  BY <1>1, <1>3
  <2>2. file' \in backups' \cup ({file'} \ {Absent})  BY <1>3
  <2> QED  BY <2>1, <2>2 DEF Committed
<1> QED  BY <1>1, <1>2, <1>3

LEMMA StepKeepsRows == DbInv /\ [DbNext]_dbVars => Committed \subseteq Committed'
<1> SUFFICES ASSUME DbInv, [DbNext]_dbVars PROVE Committed \subseteq Committed'  OBVIOUS
<1>1. ASSUME file' = file, backups' = backups PROVE Committed \subseteq Committed'
  BY <1>1 DEF Committed
<1>2. CASE RenameFile
  <2>1. CASE file' = Absent /\ backups' = backups \cup {file}  BY <2>1, KeptBySteps
  <2>2. CASE UNCHANGED <<file, backups>>  BY <1>1, <2>2
  <2> QED  BY <1>2, <2>1, <2>2 DEF RenameFile
<1>3. CASE Connect \/ Open
  <2>1. file' = Recovered /\ backups' = backups  BY <1>3 DEF Connect, Open
  <2>2. Recovered \in Files /\ (file # Absent => Recovered.rows = file.rows)
    BY RecoveredIsFile
  <2>3. file' # Absent  BY <2>1, <2>2, AbsentAssumption
  <2> QED  BY <2>1, <2>2, <2>3, KeptBySteps
<1>4. CASE CreateTable \/ RunBegins \/ RunCommits
  <2>1. file \in Files
    BY <1>4 DEF CreateTable, RunBegins, RunCommits, DbInv, DbTypeOK, PlaceIsTrue, DigestIsTrue
  <2>2. file' \in Files /\ file.rows \subseteq file'.rows /\ backups' = backups
    <3>1. CASE CreateTable  BY <2>1, <3>1, SchemasAssumption DEF CreateTable, Files
    <3>2. CASE RunBegins  BY <2>1, <3>2 DEF RunBegins, Files
    <3>3. CASE RunCommits  BY <2>1, <3>3 DEF RunCommits, Files
    <3> QED  BY <1>4, <3>1, <3>2, <3>3
  <2>3. file' # Absent  BY <2>2, AbsentAssumption
  <2> QED  BY <2>2, <2>3, KeptBySteps
<1> QED  BY <1>1, <1>2, <1>3, <1>4
         DEF DbNext, ReadDigest, Created, WriteDigest, Crash, dbVars

\* No step of the program, nor a crash, deletes a committed row: RowsAreKept,
\* for any schemas, tables, rows and restarts.
THEOREM RowsStay == DbSpec => RowsAreKept
<1>1. DbInv /\ [DbNext]_dbVars => [Committed \subseteq Committed']_dbVars
  BY StepKeepsRows
<1> QED  BY DbInvInit, DbInvStep, <1>1, PTL DEF DbSpec, RowsAreKept

----------------------------------------------------------------------------
(* The ballot package of a machine.                                        *)

PackageSpec == PackageInit /\ [][PackageNext]_packageVars

FilesOnDrives == UNION Folders

Loads ==
    [pc : {"idle", "list", "stat", "signature", "verify", "read", "over"},
     auth : AuthStatuses \cup {[status |-> "none", role |-> "none", electionHash |-> "none"]},
     names : SUBSET {f.name : f \in FilesOnDrives},
     name : {f.name : f \in FilesOnDrives} \cup {"none"},
     signature : {f.signature : f \in FilesOnDrives} \cup {NoSignature},
     package : {f.package : f \in FilesOnDrives} \cup {Unreadable},
     result : {"none", "ok", "threw", "auth_required_before_ballot_package_load",
               "no_ballot_package_on_usb_drive", "ballot_package_authentication_error",
               "election_hash_mismatch"},
     begunWith : Folders \cup {NoFolder},
     stayed : BOOLEAN]

\* The package that was taken from the drive the call began with.
Taken(f) ==
    /\ f \in Packages(load.begunWith) /\ f.name = load.name
    /\ \A g \in Packages(load.begunWith) : g.ctime <= f.ctime
    /\ load.pc \in {"verify", "read"} => load.signature = f.signature /\ f.signature # NoSignature
    /\ load.pc = "read" => Signs(f.signature, f)

\* What a call knows by now of a drive that stayed in.
LoadSoFar ==
    ~Over /\ load.stayed =>
        /\ load.begunWith = folder
        /\ load.pc # "list" => folder # NoFolder
        /\ load.pc = "stat" => load.names = {f.name : f \in Packages(folder)}
        /\ load.pc \in {"signature", "verify", "read"} => \E f \in folder : Taken(f)

PackageInvariant ==
    /\ folder \in Folders \cup {NoFolder}
    /\ load \in Loads
    /\ LoadSoFar
    /\ load.result # "none" => load.pc = "over"
    /\ PackageIsTheManagers

LEMMA PackageStarts == PackageInit => PackageInvariant
BY DEF PackageInit, NoLoad, PackageInvariant, Loads, LoadSoFar, Over, PackageIsTheManagers

LEMMA PackageStep == PackageInvariant /\ [PackageNext]_packageVars => PackageInvariant'
<1> SUFFICES ASSUME PackageInvariant, [PackageNext]_packageVars PROVE PackageInvariant'
  OBVIOUS
<1>1. folder \in Folders \cup {NoFolder} /\ load \in Loads
  BY DEF PackageInvariant
<1>2. ASSUME NEW result \in {"threw", "no_ballot_package_on_usb_drive",
                             "ballot_package_authentication_error", "election_hash_mismatch"},
             Answer(result)
      PROVE  PackageInvariant'
  <2>1. load' \in Loads /\ load'.pc = "over" /\ load'.result = result /\ folder' = folder
    BY <1>1, <1>2 DEF Answer, GoOn, Loads
  <2> QED
    BY <1>1, <2>1 DEF PackageInvariant, LoadSoFar, Over, PackageIsTheManagers
<1>3. CASE StartLoad
  <2>0. PICK asked \in AuthStatuses :
          LET begun == [NoLoad EXCEPT !.auth = asked, !.begunWith = folder] IN
          /\ \/ load' = [begun EXCEPT !.pc = "list"]
             \/ \E result \in {"auth_required_before_ballot_package_load", "threw"} :
                  load' = [begun EXCEPT !.pc = "over", !.result = result]
          /\ folder' = folder
    BY <1>3 DEF StartLoad, GoOn
  <2>1. PICK begun :
          /\ begun = [NoLoad EXCEPT !.auth = asked, !.begunWith = folder]
          /\ \/ load' = [begun EXCEPT !.pc = "list"]
             \/ \E result \in {"auth_required_before_ballot_package_load", "threw"} :
                  load' = [begun EXCEPT !.pc = "over", !.result = result]
          /\ folder' = folder
    BY <2>0
  <2>2. begun \in Loads /\ begun.stayed /\ begun.begunWith = folder /\ begun.result = "none"
    BY <1>1, <2>1 DEF NoLoad, Loads
  <2>3. CASE load' = [begun EXCEPT !.pc = "list"]
    <3>1. load' \in Loads /\ load'.pc = "list" /\ load'.begunWith = folder /\ load'.result = "none"
      BY <2>2, <2>3 DEF Loads
    <3> QED
      BY <1>1, <2>1, <3>1 DEF PackageInvariant, LoadSoFar, PackageIsTheManagers
  <2>4. ASSUME NEW result \in {"auth_required_before_ballot_package_load", "threw"},
               load' = [begun EXCEPT !.pc = "over", !.result = result]
        PROVE  PackageInvariant'
    <3>1. load' \in Loads /\ load'.pc = "over" /\ load'.result = result
      BY <2>2, <2>4 DEF Loads
    <3> QED
      BY <1>1, <2>1, <3>1 DEF PackageInvariant, LoadSoFar, Over, PackageIsTheManagers
  <2> QED
    BY <2>1, <2>3, <2>4
<1>4. CASE ListFolder
  <2> DEFINE files == IF folder = NoFolder THEN {} ELSE Packages(folder)
  <2>1. CASE files = {}
    BY <1>2, <1>4, <2>1 DEF ListFolder
  <2>2. CASE files # {}
    <3>1. /\ load' = [load EXCEPT !.pc = "stat", !.names = {f.name : f \in files}]
          /\ folder' = folder /\ folder # NoFolder /\ files = Packages(folder) /\ load.pc = "list"
      BY <1>4, <2>2 DEF ListFolder, GoOn
    <3>2. {f.name : f \in files} \subseteq {f.name : f \in FilesOnDrives}
      BY <1>1, <3>1 DEF Packages, FilesOnDrives
    <3>3. /\ load' \in Loads /\ load'.pc = "stat" /\ load'.names = {f.name : f \in files}
          /\ load'.stayed = load.stayed /\ load'.begunWith = load.begunWith
          /\ load'.result = load.result
      BY <1>1, <3>1, <3>2 DEF Loads
    <3> QED
      BY <1>1, <3>1, <3>3 DEF PackageInvariant, LoadSoFar, Over, PackageIsTheManagers
  <2> QED
    BY <2>1, <2>2
<1>5. CASE StatFiles
  <2>1. CASE \E name \in load.names : Here(name) = {}
    BY <1>2, <1>5, <2>1 DEF StatFiles
  <2>2. CASE ~\E name \in load.names : Here(name) = {}
    <3>1. PICK f \in MostRecent(UNION {Here(name) : name \in load.names}) :
            load' = [load EXCEPT !.pc = "signature", !.name = f.name] /\ folder' = folder
      BY <1>5, <2>2 DEF StatFiles, GoOn
    <3>2. PICK name \in load.names : f \in Here(name)
      BY <3>1 DEF MostRecent
    <3>3. folder \in Folders /\ f \in folder /\ f \in FilesOnDrives
      BY <1>1, <3>2 DEF Here, FilesOnDrives
    <3>4. /\ load' \in Loads /\ load'.pc = "signature" /\ load'.name = f.name
          /\ load'.stayed = load.stayed /\ load'.begunWith = load.begunWith
          /\ load'.result = load.result
      BY <1>1, <3>1, <3>3 DEF Loads
    <3>5. ASSUME load.stayed PROVE load.begunWith = folder /\ Taken(f)'
      <4>1. /\ load.begunWith = folder
            /\ load.names = {g.name : g \in Packages(folder)}
        BY <1>5, <3>5 DEF StatFiles, PackageInvariant, LoadSoFar, Over
      <4>2. f \in Packages(folder)
        <5>1. PICK g \in Packages(folder) : g.name = name
          BY <4>1
        <5>2. g \in folder /\ f.name = g.name
          BY <3>2, <3>3, <5>1 DEF Packages, Here
        <5> QED
          BY <3>3, <5>1, <5>2, FoldersAssumption
      <4>3. \A g \in Packages(folder) : g \in UNION {Here(n) : n \in load.names}
        BY <3>3, <4>1, FoldersAssumption DEF Packages, Here
      <4>4. \A g \in Packages(folder) : g.ctime <= f.ctime
        BY <3>1, <3>3, <4>3, FoldersAssumption DEF MostRecent, Packages
      <4> QED
        BY <3>4, <4>1, <4>2, <4>4 DEF Taken
    <3> QED
      BY <1>1, <1>5, <3>1, <3>3, <3>4, <3>5, FoldersAssumption
         DEF StatFiles, PackageInvariant, LoadSoFar, PackageIsTheManagers
  <2> QED
    BY <2>1, <2>2
<1>6. CASE ReadSignature
  <2>1. CASE Answer("ballot_package_authentication_error")
    BY <1>2, <2>1
  <2>2. CASE \E f \in Here(load.name) :
               /\ f.signature # NoSignature
               /\ GoOn([load EXCEPT !.pc = "verify", !.signature = f.signature])
    <3>1. PICK f \in Here(load.name) :
               /\ f.signature # NoSignature
               /\ load' = [load EXCEPT !.pc = "verify", !.signature = f.signature]
               /\ folder' = folder
      BY <2>2 DEF GoOn
    <3>2. folder \in Folders /\ f \in folder /\ f.name = load.name /\ f \in FilesOnDrives
      BY <1>1, <3>1 DEF Here, FilesOnDrives
    <3>3. /\ load' \in Loads /\ load'.pc = "verify" /\ load'.name = load.name
          /\ load'.signature = f.signature
          /\ load'.stayed = load.stayed /\ load'.begunWith = load.begunWith
          /\ load'.result = load.result
      BY <1>1, <3>1, <3>2 DEF Loads
    <3>4. ASSUME load.stayed PROVE load.begunWith = folder /\ Taken(f)'
      <4>1. PICK g \in folder : Taken(g) /\ load.begunWith = folder
        BY <1>6, <3>4 DEF ReadSignature, PackageInvariant, LoadSoFar, Over
      <4>2. g = f
        BY <3>2, <4>1, FoldersAssumption DEF Taken, Packages
      <4> QED
        BY <3>1, <3>3, <4>1, <4>2 DEF Taken
    <3> QED
      BY <1>1, <1>6, <3>1, <3>2, <3>3, <3>4, FoldersAssumption
         DEF ReadSignature, PackageInvariant, LoadSoFar, PackageIsTheManagers
  <2> QED
    BY <1>6, <2>1, <2>2 DEF ReadSignature
<1>7. CASE VerifyPackage
  <2>1. CASE Answer("ballot_package_authentication_error")
    BY <1>2, <2>1
  <2>2. CASE \E f \in Here(load.name) : Signs(load.signature, f) /\ GoOn([load EXCEPT !.pc = "read"])
    <3>1. PICK f \in Here(load.name) :
            Signs(load.signature, f) /\ load' = [load EXCEPT !.pc = "read"] /\ folder' = folder
      BY <2>2 DEF GoOn
    <3>2. folder \in Folders /\ f \in folder /\ f.name = load.name
      BY <1>1, <3>1 DEF Here
    <3>3. /\ load' \in Loads /\ load'.pc = "read" /\ load'.name = load.name
          /\ load'.signature = load.signature
          /\ load'.stayed = load.stayed /\ load'.begunWith = load.begunWith
          /\ load'.result = load.result
      BY <1>1, <3>1 DEF Loads
    <3>4. ASSUME load.stayed PROVE load.begunWith = folder /\ Taken(f)'
      <4>1. PICK g \in folder : Taken(g) /\ load.begunWith = folder
        BY <1>7, <3>4 DEF VerifyPackage, PackageInvariant, LoadSoFar, Over
      <4>2. g = f
        BY <3>2, <4>1, FoldersAssumption DEF Taken, Packages
      <4> QED
        BY <1>7, <3>1, <3>3, <4>1, <4>2 DEF Taken, VerifyPackage
    <3> QED
      BY <1>1, <1>7, <3>1, <3>2, <3>3, <3>4, FoldersAssumption
         DEF VerifyPackage, PackageInvariant, LoadSoFar, PackageIsTheManagers
  <2> QED
    BY <1>7, <2>1, <2>2 DEF VerifyPackage
<1>8. CASE ReadPackage
  <2>1. CASE Answer("threw") \/ Answer("election_hash_mismatch")
    BY <1>2, <2>1
  <2>2. CASE \E f \in Here(load.name) :
               /\ f.package.electionHash = load.auth.electionHash
               /\ GoOn([load EXCEPT !.pc = "over", !.result = "ok", !.package = f.package])
    <3>1. PICK f \in Here(load.name) :
               /\ f.package.electionHash = load.auth.electionHash
               /\ load' = [load EXCEPT !.pc = "over", !.result = "ok", !.package = f.package]
               /\ folder' = folder
      BY <2>2 DEF GoOn
    <3>2. folder \in Folders /\ f \in folder /\ f.name = load.name /\ f \in FilesOnDrives
      BY <1>1, <3>1 DEF Here, FilesOnDrives
    <3>3. /\ load' \in Loads /\ load'.pc = "over" /\ load'.package = f.package
          /\ load'.auth = load.auth
          /\ load'.stayed = load.stayed /\ load'.begunWith = load.begunWith
      BY <1>1, <3>1, <3>2 DEF Loads
    <3>4. ASSUME load.stayed
          PROVE  /\ f \in Packages(load'.begunWith) /\ f.signature # NoSignature
                 /\ Signs(f.signature, f)
                 /\ \A g \in Packages(load'.begunWith) : g.ctime <= f.ctime
      <4>1. PICK g \in folder : Taken(g) /\ load.begunWith = folder
        BY <1>8, <3>4 DEF ReadPackage, PackageInvariant, LoadSoFar, Over
      <4>2. g = f
        BY <3>2, <4>1, FoldersAssumption DEF Taken, Packages
      <4> QED
        BY <1>8, <3>3, <4>1, <4>2 DEF Taken, ReadPackage
    <3>5. PackageIsTheManagers'
      BY <3>1, <3>3, <3>4 DEF PackageIsTheManagers
    <3> QED
      BY <1>1, <3>1, <3>3, <3>5 DEF PackageInvariant, LoadSoFar, Over
  <2> QED
    BY <1>8, <2>1, <2>2 DEF ReadPackage
<1>9. CASE RemoveDrive \/ InsertDrive
  <2>1. NoteExchange /\ folder' \in Folders \cup {NoFolder}
    BY <1>9 DEF RemoveDrive, InsertDrive
  <2>2. CASE Over
    BY <1>1, <2>1, <2>2 DEF NoteExchange, PackageInvariant, LoadSoFar, Over,
       PackageIsTheManagers
  <2>3. CASE ~Over
    <3>1. /\ load' \in Loads /\ ~load'.stayed /\ load'.result = load.result /\ load'.pc = load.pc
      BY <1>1, <2>1, <2>3 DEF NoteExchange, Loads
    <3> QED
      BY <2>1, <2>3, <3>1 DEF PackageInvariant, LoadSoFar, Over, PackageIsTheManagers
  <2> QED
    BY <2>2, <2>3
<1>10. CASE UNCHANGED packageVars
  BY <1>10 DEF packageVars, PackageInvariant, LoadSoFar, Over, Taken, PackageIsTheManagers
<1> QED
  BY <1>3, <1>4, <1>5, <1>6, <1>7, <1>8, <1>9, <1>10 DEF PackageNext

\* Whatever folders drives have, and however often they are exchanged while one
\* is read: a machine is configured for the election of the manager who is in,
\* and by the newest package of a drive that stayed in, as it was signed.
THEOREM ConfiguredByTheManager == PackageSpec => []PackageIsTheManagers
<1>1. PackageInvariant => PackageIsTheManagers
  BY DEF PackageInvariant
<1> QED
  BY PackageStarts, PackageStep, <1>1, PTL DEF PackageSpec

----------------------------------------------------------------------------
(* The USB drive and the hook that polls for it.                           *)

UsbSpec == UsbInit /\ [][UsbNext]_usbVars

Mounting == {"mount", "mountInfo", "isMounted", "mountFailed"}
Ejecting == {"eject", "ejectInfo", "isEjected", "ejectFailed"}
Formatting == {"format", "formatInfo", "doFormat", "doFormatInfo", "unmount", "reformat", "formatted"}
Detecting == {"detected", "logMount"}
Quick == {"poll", "pollInfo", "detected", "removed", "logMount"}

Pcs == {"over", "logEject"} \cup Quick \cup Mounting \cup Ejecting \cup Formatting
PcsOfPolls == {"over"} \cup Quick \cup Mounting
PcsOfUser == Pcs \ {"poll", "pollInfo", "detected", "removed"}
TaskPlaces == [pc : Pcs, info : UsbDrives \cup {NoUsb}, after : {"mount", "eject"}]

UsbTypeOK ==
    /\ usb \in UsbDrives \cup {NoUsb}
    /\ availability \in {"absent", "present", "mounted"}
    /\ status \in {"absent", "mounting", "mounted", "bad_format", "ejecting", "ejected"}
    /\ isFormatting \in BOOLEAN /\ pulledFirst \in BOOLEAN
    /\ task \in [Tasks -> TaskPlaces]
    /\ \A p \in PollIds : task[p].pc \in PcsOfPolls
    /\ task[User].pc \in PcsOfUser

\* A poll that looks, or was told, knows whether a drive is in.
PollsSeeTheDrive ==
    \A p \in PollIds :
        /\ PcIs(p, "pollInfo") => (task[p].info = NoUsb <=> usb = NoUsb)
        /\ PcIs(p, "removed") => usb = NoUsb /\ availability = "absent"
        /\ task[p].pc \in Detecting => usb # NoUsb /\ availability # "absent" /\ status = "absent"

\* One poll at a time has found a drive, and one task mounts it.
OneMounts ==
    /\ \A p, q \in PollIds : task[p].pc \in Detecting /\ task[q].pc \in Detecting => p = q
    /\ \A t, u \in Tasks : task[t].pc \in Mounting /\ task[u].pc \in Mounting => t = u
    /\ \A t \in Tasks : task[t].pc \in Mounting => status = "mounting"

\* A drive that is gone is shown, or a poll is about to show it.
AbsenceIsShown ==
    availability = "absent" => status = "absent" \/ \E p \in PollIds : PcIs(p, "removed")

\* While a drive is mounted or ejected, no poll finds one gone or come.
DriveIsHeld ==
    status \in {"mounting", "ejecting"} =>
        /\ availability # "absent"
        /\ \A p \in PollIds : task[p].pc \in Quick => usb # NoUsb

\* Where the call of the user is.
UserIsHeard ==
    /\ PcIs(User, "logEject") /\ usb # NoUsb => availability # "absent" /\ status = "mounted"
    /\ task[User].pc \in Ejecting => status = "ejecting"
    /\ isFormatting <=> task[User].pc \in Formatting \cup Mounting \cup {"logMount"}
    /\ isFormatting => availability # "absent" /\ \A p \in PollIds : PcIs(p, "over")
    /\ task[User].pc \in {"isEjected", "formatted"} => usb = NoUsb \/ ~usb.mounted
    /\ task[User].pc \in {"ejectInfo", "doFormatInfo"} /\ getAvailability(task[User].info) # "mounted"
         => usb = NoUsb \/ ~usb.mounted

UsbOrder ==
    /\ PollsSeeTheDrive /\ OneMounts /\ AbsenceIsShown /\ DriveIsHeld
    /\ UserIsHeard /\ EjectedIsUnmounted

UsbInvariant ==
    /\ UsbTypeOK
    /\ ~pulledFirst => UsbOrder

----------------------------------------------------------------------------

\* Task t goes to where to says, and remembers info there.
Goes(t, to, info) ==
    /\ task' \in [Tasks -> TaskPlaces]
    /\ \A u \in Tasks : u # t => task'[u] = task[u]
    /\ task'[t].pc = to /\ task'[t].info = info

LEMMA TaskGoes ==
    ASSUME UsbTypeOK, NEW t \in Tasks
    PROVE  /\ \A to \in Pcs : PcTo(t, to) => Goes(t, to, task[t].info)
           /\ Ends(t) => Goes(t, "over", NoUsb)
           /\ GetInfo(t) => Goes(t, InfoGiven[task[t].pc], usb)
           /\ \A action \in {"mount", "eject"} :
                 task' = [task EXCEPT ![t] = [NoTask EXCEPT !.pc = "format", !.after = action]]
                     => Goes(t, "format", NoUsb)
<1>1. ASSUME NEW to \in Pcs, PcTo(t, to) PROVE Goes(t, to, task[t].info)
  BY <1>1 DEF PcTo, Goes, UsbTypeOK, TaskPlaces
<1>2. ASSUME Ends(t) PROVE Goes(t, "over", NoUsb)
  BY <1>2 DEF Ends, Goes, UsbTypeOK, TaskPlaces, NoTask, Pcs
<1>3. ASSUME GetInfo(t) PROVE Goes(t, InfoGiven[task[t].pc], usb)
  <2>1. InfoGiven[task[t].pc] \in Pcs
    BY <1>3 DEF GetInfo, InfoGiven, Pcs, Quick, Mounting, Ejecting, Formatting
  <2>2. task' = [task EXCEPT ![t].info = usb, ![t].pc = InfoGiven[task[t].pc]]
    BY <1>3 DEF GetInfo
  <2> QED  BY <2>1, <2>2 DEF Goes, UsbTypeOK, TaskPlaces
<1>4. ASSUME NEW action \in {"mount", "eject"},
             task' = [task EXCEPT ![t] = [NoTask EXCEPT !.pc = "format", !.after = action]]
      PROVE  Goes(t, "format", NoUsb)
  BY <1>4 DEF Goes, UsbTypeOK, TaskPlaces, NoTask, Pcs, Formatting
<1> QED
  BY <1>1, <1>2, <1>3, <1>4

LEMMA UsbTypesStart == UsbInit => UsbTypeOK
<1> SUFFICES ASSUME UsbInit PROVE UsbTypeOK
  OBVIOUS
<1>1. NoTask \in TaskPlaces /\ NoTask.pc \in PcsOfPolls \cap PcsOfUser
  BY DEF NoTask, TaskPlaces, Pcs, PcsOfPolls, PcsOfUser
<1>2. task \in [Tasks -> TaskPlaces] /\ \A t \in Tasks : task[t] = NoTask
  BY <1>1 DEF UsbInit
<1> QED
  BY <1>1, <1>2 DEF UsbInit, UsbTypeOK, Tasks

\* A task that goes where it may keeps the types, if the rest does.
LEMMA GoingKeepsTypes ==
    ASSUME UsbTypeOK, NEW t \in Tasks, NEW to, NEW info, Goes(t, to, info),
           t \in PollIds => to \in PcsOfPolls, t = User => to \in PcsOfUser,
           usb' \in UsbDrives \cup {NoUsb},
           availability' \in {"absent", "present", "mounted"},
           status' \in {"absent", "mounting", "mounted", "bad_format", "ejecting", "ejected"},
           isFormatting' \in BOOLEAN, pulledFirst' \in BOOLEAN
    PROVE  UsbTypeOK'
  BY UsbAssumption DEF UsbTypeOK, Goes, Tasks

LEMMA UsbTypesStay == UsbTypeOK /\ [UsbNext]_usbVars => UsbTypeOK'
<1> SUFFICES ASSUME UsbTypeOK, [UsbNext]_usbVars PROVE UsbTypeOK'
  OBVIOUS
<1> USE DEF Pcs, PcsOfPolls, PcsOfUser, Quick, Mounting, Ejecting, Formatting
<1>d. usb # NoUsb => /\ [usb EXCEPT !.mounted = TRUE] \in UsbDrives
                     /\ [usb EXCEPT !.mounted = FALSE] \in UsbDrives
                     /\ [usb EXCEPT !.fat32 = TRUE] \in UsbDrives
  BY DEF UsbTypeOK, UsbDrives
<1>u. User \in Tasks /\ PollIds \subseteq Tasks /\ User \notin PollIds
  BY UsbAssumption DEF Tasks
<1>1. ASSUME NEW t \in Tasks, GetInfo(t) PROVE UsbTypeOK'
  <2>1. Goes(t, InfoGiven[task[t].pc], usb)  BY <1>1, TaskGoes
  <2>2. /\ t \in PollIds => InfoGiven[task[t].pc] \in PcsOfPolls
        /\ t = User => InfoGiven[task[t].pc] \in PcsOfUser
    BY <1>1 DEF GetInfo, InfoGiven, UsbTypeOK
  <2> QED  BY <1>1, <2>1, <2>2, GoingKeepsTypes DEF GetInfo, UsbTypeOK
<1>2. ASSUME NEW t \in Tasks, StartMount(t) PROVE UsbTypeOK'
  <2>1. Goes(t, "mount", task[t].info)  BY <1>2, TaskGoes DEF StartMount
  <2> QED  BY <1>2, <2>1, GoingKeepsTypes DEF StartMount, UsbTypeOK
<1>3. ASSUME NEW t \in Tasks, DoMount(t) PROVE UsbTypeOK'
  <2>1. \E to \in {"isMounted", "mountFailed"} : Goes(t, to, task[t].info)
    BY <1>3, TaskGoes DEF DoMount
  <2>2. usb' \in UsbDrives \cup {NoUsb}  BY <1>3, <1>d DEF DoMount, UsbTypeOK
  <2> QED  BY <1>3, <2>1, <2>2, GoingKeepsTypes DEF DoMount, UsbTypeOK
<1>4. ASSUME NEW t \in Tasks, MountEnds(t) PROVE UsbTypeOK'
  <2>1. Goes(t, "over", NoUsb)  BY <1>4, TaskGoes DEF MountEnds
  <2> QED  BY <1>4, <2>1, GoingKeepsTypes DEF MountEnds, Ends, UsbTypeOK
<1>5. ASSUME NEW p \in PollIds, StartPoll(p) PROVE UsbTypeOK'
  <2>1. Goes(p, "poll", task[p].info)  BY <1>5, <1>u, TaskGoes DEF StartPoll
  <2> QED  BY <1>5, <1>u, <2>1, GoingKeepsTypes DEF StartPoll, UsbTypeOK
<1>6. ASSUME NEW p \in PollIds, ReadPoll(p) PROVE UsbTypeOK'
  <2>1. \E to \in {"detected", "removed", "over"}, info \in {task[p].info, NoUsb} : Goes(p, to, info)
    BY <1>6, <1>u, TaskGoes DEF ReadPoll
  <2>2. availability' \in {"absent", "present", "mounted"} /\ isFormatting' \in BOOLEAN
    BY <1>6 DEF ReadPoll, getAvailability, Ends, UsbTypeOK
  <2> QED  BY <1>6, <1>u, <2>1, <2>2, GoingKeepsTypes DEF ReadPoll, UsbTypeOK
<1>7. ASSUME NEW p \in PollIds, Detected(p) PROVE UsbTypeOK'
  <2>1. \E to \in {"logMount", "over"}, info \in {task[p].info, NoUsb} : Goes(p, to, info)
    BY <1>7, <1>u, TaskGoes DEF Detected
  <2>2. isFormatting' \in BOOLEAN
    BY <1>7 DEF Detected, Ends, UsbTypeOK
  <2>3. status' \in {status, "bad_format", "mounted"}
    BY <1>7 DEF Detected
  <2> QED  BY <1>7, <1>u, <2>1, <2>2, <2>3, GoingKeepsTypes DEF Detected, UsbTypeOK
<1>8. ASSUME NEW p \in PollIds, Removed(p) PROVE UsbTypeOK'
  <2>1. Goes(p, "over", NoUsb)  BY <1>8, <1>u, TaskGoes DEF Removed
  <2> QED  BY <1>8, <1>u, <2>1, GoingKeepsTypes DEF Removed, Ends, UsbTypeOK
<1>9. ASSUME ClickEject PROVE UsbTypeOK'
  <2>1. Goes(User, "logEject", task[User].info)  BY <1>9, <1>u, TaskGoes DEF ClickEject
  <2> QED  BY <1>9, <1>u, <2>1, GoingKeepsTypes DEF ClickEject, UsbTypeOK
<1>10. ASSUME StartEject PROVE UsbTypeOK'
  <2>1. Goes(User, "eject", task[User].info)  BY <1>10, <1>u, TaskGoes DEF StartEject
  <2> QED  BY <1>10, <1>u, <2>1, GoingKeepsTypes DEF StartEject, UsbTypeOK
<1>11. ASSUME DoEject PROVE UsbTypeOK'
  <2>1. \E to \in {"isEjected", "ejectFailed"} : Goes(User, to, task[User].info)
    BY <1>11, <1>u, TaskGoes DEF DoEject
  <2>2. usb' \in UsbDrives \cup {NoUsb}  BY <1>11, <1>d DEF DoEject, UsbTypeOK
  <2> QED  BY <1>11, <1>u, <2>1, <2>2, GoingKeepsTypes DEF DoEject, UsbTypeOK
<1>12. ASSUME EjectEnds PROVE UsbTypeOK'
  <2>1. Goes(User, "over", NoUsb)  BY <1>12, <1>u, TaskGoes DEF EjectEnds
  <2> QED  BY <1>12, <1>u, <2>1, GoingKeepsTypes DEF EjectEnds, Ends, UsbTypeOK
<1>13. ASSUME ClickFormat PROVE UsbTypeOK'
  <2>1. Goes(User, "format", NoUsb)  BY <1>13, <1>u, TaskGoes DEF ClickFormat
  <2> QED  BY <1>13, <1>u, <2>1, GoingKeepsTypes DEF ClickFormat, UsbTypeOK
<1>14. ASSUME Format PROVE UsbTypeOK'
  <2>1. \E to \in {"doFormat", "over", "formatted", "unmount", "reformat"},
           info \in {task[User].info, NoUsb} : Goes(User, to, info)
    BY <1>14, <1>u, TaskGoes DEF Format
  <2>2. usb' = usb /\ isFormatting' \in BOOLEAN
    BY <1>14 DEF Format, Ends, UsbTypeOK
  <2> QED  BY <1>14, <1>u, <2>1, <2>2, GoingKeepsTypes DEF Format, UsbTypeOK
<1>15. ASSUME RunFormat PROVE UsbTypeOK'
  <2>1. \E to \in {"over", "reformat", "formatted"}, info \in {task[User].info, NoUsb} : Goes(User, to, info)
    BY <1>15, <1>u, TaskGoes DEF RunFormat
  <2>2. usb' \in UsbDrives \cup {NoUsb} /\ isFormatting' \in BOOLEAN
    BY <1>15, <1>d DEF RunFormat, Ends, UsbTypeOK
  <2> QED  BY <1>15, <1>u, <2>1, <2>2, GoingKeepsTypes DEF RunFormat, UsbTypeOK
<1>16. ASSUME Formatted PROVE UsbTypeOK'
  <2>1. \E to \in {"over", "logMount"}, info \in {task[User].info, NoUsb} : Goes(User, to, info)
    BY <1>16, <1>u, TaskGoes DEF Formatted
  <2>2. isFormatting' \in BOOLEAN /\ status' \in {status, "ejected"}
    BY <1>16 DEF Formatted, Ends, UsbTypeOK
  <2> QED  BY <1>16, <1>u, <2>1, <2>2, GoingKeepsTypes DEF Formatted, UsbTypeOK
<1>17. ASSUME UsbOut \/ UsbIn \/ UNCHANGED usbVars PROVE UsbTypeOK'
  <2>1. usb' \in UsbDrives \cup {NoUsb}
    BY <1>17 DEF UsbOut, UsbIn, usbVars, UsbTypeOK, UsbDrives
  <2>2. UNCHANGED <<availability, status, isFormatting, task, pulledFirst>>
    BY <1>17 DEF UsbOut, UsbIn, usbVars
  <2> QED  BY <2>1, <2>2 DEF UsbTypeOK
<1> QED
  BY <1>1, <1>2, <1>3, <1>4, <1>5, <1>6, <1>7, <1>8, <1>9, <1>10, <1>11, <1>12, <1>13,
     <1>14, <1>15, <1>16, <1>17 DEF UsbNext

\* What each action keeps of the rest.
LEMMA GetInfoKeeps ==
    ASSUME UsbTypeOK, UsbOrder, NEW t \in Tasks, GetInfo(t)
    PROVE  UsbOrder'
<1> USE UsbAssumption DEF Tasks, UsbTypeOK, UsbOrder, Goes, PcIs, Pcs, PcsOfPolls, PcsOfUser, Quick, Mounting, Ejecting, Formatting, Detecting
<1>1. Goes(t, InfoGiven[task[t].pc], usb)  BY TaskGoes
<1>2. PollsSeeTheDrive'  BY <1>1 DEF GetInfo, InfoGiven, PollsSeeTheDrive
<1>3. OneMounts'
  <2>1. /\ InfoGiven[task[t].pc] \in Mounting <=> task[t].pc \in Mounting
        /\ InfoGiven[task[t].pc] \notin Detecting /\ UNCHANGED status
    BY DEF GetInfo, InfoGiven
  <2>2. OneMounts /\ PollIds \subseteq Tasks /\ Goes(t, InfoGiven[task[t].pc], usb)  BY <1>1
  <2>3. \A u \in Tasks : task'[u].pc \in Mounting <=> task[u].pc \in Mounting  BY <2>1, <2>2
  <2>4. \A p \in PollIds : task'[p].pc \in Detecting => task[p].pc \in Detecting  BY <2>1, <2>2
  <2> HIDE DEF Mounting, Detecting, Pcs, PcsOfPolls, PcsOfUser, Quick, Ejecting, Formatting, UsbTypeOK, Goes, Tasks
  <2> QED  BY <2>1, <2>2, <2>3, <2>4 DEF OneMounts
<1>4. AbsenceIsShown'  BY <1>1 DEF GetInfo, InfoGiven, AbsenceIsShown
<1>5. DriveIsHeld'  BY <1>1 DEF GetInfo, InfoGiven, DriveIsHeld
<1>6. UserIsHeard'  BY <1>1 DEF GetInfo, InfoGiven, UserIsHeard, getAvailability
<1>7. EjectedIsUnmounted'  BY <1>1 DEF GetInfo, InfoGiven, EjectedIsUnmounted
<1> QED  BY <1>2, <1>3, <1>4, <1>5, <1>6, <1>7

LEMMA StartMountKeeps ==
    ASSUME UsbTypeOK, UsbOrder, NEW t \in Tasks, StartMount(t)
    PROVE  UsbOrder'
<1> USE DEF UsbOrder
<1>1. /\ Goes(t, "mount", task[t].info)
      /\ task[t].pc = "logMount" /\ status' = "mounting"
      /\ UNCHANGED <<usb, availability, isFormatting>>
  BY UsbAssumption, TaskGoes
     DEF StartMount, PcIs, Tasks, Pcs, Quick, Mounting, Ejecting, Formatting
<1>2. PollsSeeTheDrive'
  BY <1>1 DEF PollsSeeTheDrive, OneMounts, UserIsHeard, Detecting, PcIs, Tasks, Goes
<1>3. OneMounts'
  BY <1>1 DEF OneMounts, PollsSeeTheDrive, UserIsHeard, Mounting, Detecting, PcIs, Tasks, Goes
<1>4. AbsenceIsShown'
  BY <1>1 DEF AbsenceIsShown, PollsSeeTheDrive, UserIsHeard, Detecting, Tasks, Goes
<1>5. DriveIsHeld'
  BY <1>1 DEF DriveIsHeld, PollsSeeTheDrive, UserIsHeard, Quick, Detecting, PcIs, Tasks, Goes
<1>6. UserIsHeard'
  BY <1>1 DEF UserIsHeard, PollsSeeTheDrive, Mounting, Ejecting, Detecting, PcIs, Tasks, Goes
<1>7. EjectedIsUnmounted'  BY <1>1 DEF EjectedIsUnmounted, Goes
<1> QED  BY <1>2, <1>3, <1>4, <1>5, <1>6, <1>7

LEMMA DoMountKeeps ==
    ASSUME UsbTypeOK, UsbOrder, NEW t \in Tasks, DoMount(t)
    PROVE  UsbOrder'
<1> USE DEF UsbOrder
<1>1. /\ \E to \in {"isMounted", "mountFailed"} : Goes(t, to, task[t].info)
      /\ task[t].pc = "mountInfo" /\ (usb = NoUsb <=> usb' = NoUsb)
      /\ UNCHANGED <<availability, status, isFormatting, pulledFirst>>
  <2>1. PICK to \in {"isMounted", "mountFailed"} : PcTo(t, to)  BY DEF DoMount
  <2>2. usb = NoUsb <=> usb' = NoUsb
    <3>1. \/ UNCHANGED usb
          \/ usb # NoUsb /\ usb' = [usb EXCEPT !.mounted = TRUE]
      BY DEF DoMount
    <3>2. CASE UNCHANGED usb  BY <3>2
    <3>3. CASE usb # NoUsb /\ usb' = [usb EXCEPT !.mounted = TRUE]
      <4>1. usb \in UsbDrives  BY <3>3 DEF UsbTypeOK
      <4>2. usb' \in UsbDrives  BY <3>3, <4>1 DEF UsbDrives
      <4> QED  BY <3>3, <4>2, UsbAssumption
    <3> QED  BY <3>1, <3>2, <3>3
  <2>3. to \in Pcs  BY DEF Pcs, Mounting
  <2>4. Goes(t, to, task[t].info)  BY <2>1, <2>3, TaskGoes
  <2>5. task[t].pc = "mountInfo" /\ UNCHANGED <<availability, status, isFormatting, pulledFirst>>
    BY DEF DoMount, PcIs
  <2> QED  BY <2>2, <2>4, <2>5
<1>2. PollsSeeTheDrive'  BY <1>1 DEF PollsSeeTheDrive, Detecting, PcIs, Tasks, Goes
<1>3. OneMounts'  BY <1>1 DEF OneMounts, Mounting, Detecting, Tasks, Goes
<1>4. AbsenceIsShown'  BY <1>1 DEF AbsenceIsShown, PcIs, Tasks, Goes
<1>5. DriveIsHeld'  BY <1>1 DEF DriveIsHeld, Quick, Tasks, Goes
<1>6. UserIsHeard'
  BY <1>1 DEF UserIsHeard, OneMounts, Mounting, Ejecting, Formatting, PcIs, Tasks, Goes
<1>7. EjectedIsUnmounted'  BY <1>1 DEF EjectedIsUnmounted, OneMounts, Mounting, Goes
<1> QED  BY <1>2, <1>3, <1>4, <1>5, <1>6, <1>7

LEMMA MountEndsKeeps ==
    ASSUME UsbTypeOK, UsbOrder, NEW t \in Tasks, MountEnds(t)
    PROVE  UsbOrder'
<1> USE DEF UsbOrder
<1>1. /\ Goes(t, "over", NoUsb)
      /\ task[t].pc \in {"isMounted", "mountFailed"} /\ status' \in {"mounted", status}
      /\ UNCHANGED <<usb, availability, pulledFirst>> /\ (isFormatting' <=> isFormatting /\ t # User)
  BY UsbAssumption, TaskGoes
     DEF MountEnds, Ends, Tasks, Pcs, Quick, Mounting, Ejecting, Formatting
<1>2. PollsSeeTheDrive'
  BY <1>1 DEF PollsSeeTheDrive, OneMounts, Mounting, Detecting, PcIs, Tasks, Goes
<1>3. OneMounts'  BY <1>1 DEF OneMounts, Mounting, Detecting, Tasks, Goes
<1>4. AbsenceIsShown'  BY <1>1 DEF AbsenceIsShown, OneMounts, Mounting, PcIs, Tasks, Goes
<1>5. DriveIsHeld'  BY <1>1 DEF DriveIsHeld, Quick, Tasks, Goes
<1>6. UserIsHeard'
  BY <1>1 DEF UserIsHeard, OneMounts, Mounting, Ejecting, Formatting, PcIs, Tasks, Goes
<1>7. EjectedIsUnmounted'  BY <1>1 DEF EjectedIsUnmounted, Goes
<1> QED  BY <1>2, <1>3, <1>4, <1>5, <1>6, <1>7

LEMMA StartPollKeeps ==
    ASSUME UsbTypeOK, UsbOrder, NEW p \in PollIds, StartPoll(p)
    PROVE  UsbOrder'
<1> USE DEF UsbOrder
<1>u. User \in Tasks /\ PollIds \subseteq Tasks  BY DEF Tasks
<1>1. /\ Goes(p, "poll", task[p].info)
      /\ task[p].pc = "over" /\ ~isFormatting /\ status \notin {"mounting", "ejecting"}
      /\ UNCHANGED <<usb, availability, status, isFormatting, pulledFirst>>
  BY <1>u, UsbAssumption, TaskGoes
     DEF StartPoll, PcIs, Tasks, Pcs, Quick, Mounting, Ejecting, Formatting
<1>2. PollsSeeTheDrive'  BY <1>1 DEF PollsSeeTheDrive, Detecting, PcIs, Tasks, Goes
<1>3. OneMounts'  BY <1>1 DEF OneMounts, Mounting, Detecting, Tasks, Goes
<1>4. AbsenceIsShown'  BY <1>1 DEF AbsenceIsShown, PcIs, Tasks, Goes
<1>5. DriveIsHeld'  BY <1>1 DEF DriveIsHeld, Goes
<1>6. UserIsHeard'  BY <1>1, UsbAssumption DEF UserIsHeard, PcIs, Tasks, Goes
<1>7. EjectedIsUnmounted'  BY <1>1 DEF EjectedIsUnmounted, Goes
<1> QED  BY <1>2, <1>3, <1>4, <1>5, <1>6, <1>7

LEMMA ReadPollKeeps ==
    ASSUME UsbTypeOK, UsbOrder, NEW p \in PollIds, ReadPoll(p)
    PROVE  UsbOrder'
<1> USE DEF UsbOrder
<1>u. User \in Tasks /\ PollIds \subseteq Tasks  BY DEF Tasks
<1>1. /\ \/ availability' # "absent" /\ availability = "absent" /\ Goes(p, "detected", task[p].info)
         \/ availability' = "absent" /\ availability # "absent" /\ Goes(p, "removed", task[p].info)
         \/ (availability' = "absent" <=> availability = "absent") /\ Goes(p, "over", NoUsb)
      /\ task[p].pc = "pollInfo" /\ (availability' = "absent" <=> task[p].info = NoUsb)
      /\ UNCHANGED <<usb, status, pulledFirst>> /\ (isFormatting' <=> isFormatting)
  BY <1>u, UsbAssumption, TaskGoes
     DEF ReadPoll, PcIs, getAvailability, Ends, Tasks, Pcs, Quick, Mounting, Ejecting, Formatting
<1>2. PollsSeeTheDrive'
  BY <1>1 DEF PollsSeeTheDrive, AbsenceIsShown, Detecting, PcIs, Tasks, Goes
<1>3. OneMounts'  BY <1>1 DEF OneMounts, PollsSeeTheDrive, Mounting, Detecting, Tasks, Goes
<1>4. AbsenceIsShown'  BY <1>1 DEF AbsenceIsShown, PcIs, Tasks, Goes
<1>5. DriveIsHeld'  BY <1>1 DEF DriveIsHeld, PollsSeeTheDrive, Quick, PcIs, Goes
<1>6. UserIsHeard'  BY <1>1, UsbAssumption DEF UserIsHeard, PollsSeeTheDrive, PcIs, Tasks, Goes
<1>7. EjectedIsUnmounted'  BY <1>1 DEF EjectedIsUnmounted, Goes
<1> QED  BY <1>2, <1>3, <1>4, <1>5, <1>6, <1>7

LEMMA DetectedKeeps ==
    ASSUME UsbTypeOK, UsbOrder, NEW p \in PollIds, Detected(p)
    PROVE  UsbOrder'
<1> USE DEF UsbOrder
<1>u. User \in Tasks /\ PollIds \subseteq Tasks  BY DEF Tasks
<1>1. /\ \/ Goes(p, "logMount", task[p].info) /\ UNCHANGED status
         \/ Goes(p, "over", NoUsb) /\ status' \in {"bad_format", "mounted"}
      /\ task[p].pc = "detected"
      /\ UNCHANGED <<usb, availability, pulledFirst>> /\ (isFormatting' <=> isFormatting)
  <2>1. \/ PcTo(p, "logMount") /\ UNCHANGED <<status, isFormatting>>
        \/ Ends(p) /\ status' \in {"bad_format", "mounted"}
    BY DEF Detected
  <2>2. Ends(p) => (isFormatting' <=> isFormatting)  BY UsbAssumption DEF Ends
  <2>3. \/ Goes(p, "logMount", task[p].info) /\ UNCHANGED <<status, isFormatting>>
        \/ Goes(p, "over", NoUsb) /\ Ends(p) /\ status' \in {"bad_format", "mounted"}
    BY <1>u, <2>1, TaskGoes DEF Pcs, Quick
  <2> QED  BY <2>2, <2>3 DEF Detected, PcIs
<1>2. PollsSeeTheDrive'  BY <1>1 DEF PollsSeeTheDrive, OneMounts, Detecting, PcIs, Tasks, Goes
<1>3. OneMounts'  BY <1>1 DEF OneMounts, PollsSeeTheDrive, Mounting, Detecting, Tasks, Goes
<1>4. AbsenceIsShown'  BY <1>1 DEF AbsenceIsShown, PollsSeeTheDrive, Detecting, Goes
<1>5. DriveIsHeld'  BY <1>1 DEF DriveIsHeld, Quick, Goes
<1>6. UserIsHeard'
  BY <1>1, UsbAssumption DEF UserIsHeard, PollsSeeTheDrive, Detecting, PcIs, Tasks, Goes
<1>7. EjectedIsUnmounted'  BY <1>1 DEF EjectedIsUnmounted, Goes
<1> QED  BY <1>2, <1>3, <1>4, <1>5, <1>6, <1>7

LEMMA RemovedKeeps ==
    ASSUME UsbTypeOK, UsbOrder, NEW p \in PollIds, Removed(p)
    PROVE  UsbOrder'
<1> USE DEF UsbOrder
<1>u. User \in Tasks /\ PollIds \subseteq Tasks  BY DEF Tasks
<1>1. /\ Goes(p, "over", NoUsb)
      /\ task[p].pc = "removed" /\ status' = "absent"
      /\ UNCHANGED <<usb, availability, pulledFirst>> /\ (isFormatting' <=> isFormatting)
  BY <1>u, UsbAssumption, TaskGoes
     DEF Removed, PcIs, Ends, Tasks, Pcs, Quick, Mounting, Ejecting, Formatting
<1>2. PollsSeeTheDrive'  BY <1>1 DEF PollsSeeTheDrive, Detecting, PcIs, Tasks, Goes
<1>3. OneMounts'
  BY <1>1 DEF OneMounts, PollsSeeTheDrive, DriveIsHeld, Mounting, PcIs, Tasks, Goes
<1>4. AbsenceIsShown'  BY <1>1 DEF AbsenceIsShown, Goes
<1>5. DriveIsHeld'  BY <1>1 DEF DriveIsHeld, Goes
<1>6. UserIsHeard'
  BY <1>1, UsbAssumption DEF UserIsHeard, PollsSeeTheDrive, DriveIsHeld, PcIs, Tasks, Goes
<1>7. EjectedIsUnmounted'  BY <1>1 DEF EjectedIsUnmounted, Goes
<1> QED  BY <1>2, <1>3, <1>4, <1>5, <1>6, <1>7

LEMMA ClickEjectKeeps ==
    ASSUME UsbTypeOK, UsbOrder, ClickEject
    PROVE  UsbOrder'
<1> USE DEF UsbOrder
<1>u. User \in Tasks /\ PollIds \subseteq Tasks  BY DEF Tasks
<1>1. /\ Goes(User, "logEject", task[User].info)
      /\ task[User].pc = "over" /\ availability # "absent" /\ status = "mounted"
      /\ \A p \in PollIds : task[p].pc \notin Quick
      /\ UNCHANGED <<usb, availability, status, isFormatting, pulledFirst>>
  BY <1>u, UsbAssumption, TaskGoes
     DEF ClickEject, Undisturbed, PcIs, Tasks, Pcs, Quick, Mounting, Ejecting, Formatting
<1>2. PollsSeeTheDrive'  BY <1>1, UsbAssumption DEF PollsSeeTheDrive, PcIs, Tasks, Goes
<1>3. OneMounts'  BY <1>1, UsbAssumption DEF OneMounts, Mounting, Tasks, Goes
<1>4. AbsenceIsShown'  BY <1>1 DEF AbsenceIsShown, Goes
<1>5. DriveIsHeld'  BY <1>1 DEF DriveIsHeld, Goes
<1>6. UserIsHeard'  BY <1>1 DEF UserIsHeard, Mounting, Ejecting, Formatting, Goes
<1>7. EjectedIsUnmounted'  BY <1>1 DEF EjectedIsUnmounted, Goes
<1> QED  BY <1>2, <1>3, <1>4, <1>5, <1>6, <1>7

LEMMA StartEjectKeeps ==
    ASSUME UsbTypeOK, UsbOrder, StartEject, ~pulledFirst'
    PROVE  UsbOrder'
<1> USE DEF UsbOrder
<1>u. User \in Tasks /\ PollIds \subseteq Tasks  BY DEF Tasks
<1>1. /\ Goes(User, "eject", task[User].info)
      /\ task[User].pc = "logEject" /\ status' = "ejecting" /\ usb # NoUsb
      /\ UNCHANGED <<usb, availability, isFormatting>>
  BY <1>u, UsbAssumption, TaskGoes
     DEF StartEject, PcIs, Tasks, Pcs, Quick, Mounting, Ejecting, Formatting
<1>2. PollsSeeTheDrive'
  BY <1>1, UsbAssumption DEF PollsSeeTheDrive, UserIsHeard, PcIs, Tasks, Goes
<1>3. OneMounts'  BY <1>1, UsbAssumption DEF OneMounts, UserIsHeard, Mounting, PcIs, Tasks, Goes
<1>4. AbsenceIsShown'  BY <1>1 DEF AbsenceIsShown, UserIsHeard, PcIs, Goes
<1>5. DriveIsHeld'  BY <1>1 DEF DriveIsHeld, UserIsHeard, PcIs, Goes
<1>6. UserIsHeard'  BY <1>1 DEF UserIsHeard, Mounting, Formatting, PcIs, Goes
<1>7. EjectedIsUnmounted'  BY <1>1 DEF EjectedIsUnmounted, Goes
<1> QED  BY <1>2, <1>3, <1>4, <1>5, <1>6, <1>7

LEMMA DoEjectKeeps ==
    ASSUME UsbTypeOK, UsbOrder, DoEject
    PROVE  UsbOrder'
<1> USE DEF UsbOrder
<1>u. User \in Tasks /\ PollIds \subseteq Tasks  BY DEF Tasks
<1>1. /\ \/ Goes(User, "isEjected", task[User].info) /\ (usb' = NoUsb \/ ~usb'.mounted)
         \/ Goes(User, "ejectFailed", task[User].info)
      /\ task[User].pc = "ejectInfo" /\ (usb = NoUsb <=> usb' = NoUsb)
      /\ UNCHANGED <<availability, status, isFormatting, pulledFirst>>
  <2>1. \/ PcTo(User, "isEjected") /\ getAvailability(task[User].info) # "mounted" /\ UNCHANGED usb
        \/ PcTo(User, "isEjected") /\ usb' = IF usb = NoUsb THEN NoUsb ELSE [usb EXCEPT !.mounted = FALSE]
        \/ PcTo(User, "ejectFailed") /\ UNCHANGED usb
    BY DEF DoEject
  <2>2. usb = NoUsb <=> usb' = NoUsb
    <3>1. CASE usb = NoUsb
      BY <2>1, <3>1
    <3>2. CASE usb # NoUsb
      <4>1. usb \in UsbDrives  BY <3>2 DEF UsbTypeOK
      <4>2. [usb EXCEPT !.mounted = FALSE] \in UsbDrives  BY <4>1 DEF UsbDrives
      <4>3. usb' \in UsbDrives  BY <2>1, <3>2, <4>1, <4>2
      <4> QED  BY <3>2, <4>3, UsbAssumption
    <3> QED  BY <3>1, <3>2
  <2>3. task[User].pc = "ejectInfo" /\ UNCHANGED <<availability, status, isFormatting, pulledFirst>>
    BY DEF DoEject, PcIs
  <2>4. "isEjected" \in Pcs /\ "ejectFailed" \in Pcs  BY DEF Pcs, Ejecting
  <2>5. CASE PcTo(User, "ejectFailed")
    <3>1. Goes(User, "ejectFailed", task[User].info)  BY <1>u, <2>4, <2>5, TaskGoes
    <3> QED  BY <2>2, <2>3, <3>1
  <2>6. CASE PcTo(User, "isEjected")
    <3>1. Goes(User, "isEjected", task[User].info)  BY <1>u, <2>4, <2>6, TaskGoes
    <3>2. CASE getAvailability(task[User].info) # "mounted" /\ UNCHANGED usb
      <4>1. usb = NoUsb \/ ~usb.mounted  BY <2>3, <3>2 DEF UserIsHeard
      <4> QED  BY <2>2, <2>3, <3>1, <3>2, <4>1
    <3>3. CASE usb' = IF usb = NoUsb THEN NoUsb ELSE [usb EXCEPT !.mounted = FALSE]
      <4>1. usb' = NoUsb \/ ~usb'.mounted  BY <3>3 DEF UsbTypeOK, UsbDrives
      <4> QED  BY <2>2, <2>3, <3>1, <4>1
    <3>4. CASE PcTo(User, "ejectFailed") /\ UNCHANGED usb
      BY <2>5, <3>4
    <3> QED  BY <2>1, <3>2, <3>3, <3>4
  <2> QED  BY <2>1, <2>5, <2>6
<1>2. PollsSeeTheDrive'  BY <1>1, UsbAssumption DEF PollsSeeTheDrive, PcIs, Tasks, Goes
<1>3. OneMounts'  BY <1>1, UsbAssumption DEF OneMounts, Mounting, Tasks, Goes
<1>4. AbsenceIsShown'  BY <1>1 DEF AbsenceIsShown, PcIs, Tasks, Goes
<1>5. DriveIsHeld'  BY <1>1, UsbAssumption DEF DriveIsHeld, Tasks, Goes
<1>6. UserIsHeard'  BY <1>1 DEF UserIsHeard, Mounting, Ejecting, Formatting, PcIs, Goes
<1>7. EjectedIsUnmounted'  BY <1>1 DEF EjectedIsUnmounted, UserIsHeard, Ejecting, Goes
<1> QED  BY <1>2, <1>3, <1>4, <1>5, <1>6, <1>7

LEMMA EjectEndsKeeps ==
    ASSUME UsbTypeOK, UsbOrder, EjectEnds
    PROVE  UsbOrder'
<1> USE DEF UsbOrder
<1>u. User \in Tasks /\ PollIds \subseteq Tasks  BY DEF Tasks
<1>1. /\ Goes(User, "over", NoUsb)
      /\ \/ task[User].pc = "isEjected" /\ status' = "ejected"
         \/ task[User].pc = "ejectFailed" /\ status' = "mounted"
      /\ UNCHANGED <<usb, availability, pulledFirst>> /\ ~isFormatting'
  BY <1>u, UsbAssumption, TaskGoes
     DEF EjectEnds, PcIs, Ends, Tasks, Pcs, Quick, Mounting, Ejecting, Formatting
<1>2. PollsSeeTheDrive'
  BY <1>1, UsbAssumption DEF PollsSeeTheDrive, UserIsHeard, Ejecting, PcIs, Tasks, Goes
<1>3. OneMounts'
  BY <1>1, UsbAssumption DEF OneMounts, UserIsHeard, Mounting, Ejecting, Tasks, Goes
<1>4. AbsenceIsShown'  BY <1>1 DEF AbsenceIsShown, UserIsHeard, Ejecting, PcIs, Tasks, Goes
<1>5. DriveIsHeld'  BY <1>1 DEF DriveIsHeld, Goes
<1>6. UserIsHeard'  BY <1>1 DEF UserIsHeard, Mounting, Ejecting, Formatting, PcIs, Goes
<1>7. EjectedIsUnmounted'  BY <1>1 DEF EjectedIsUnmounted, UserIsHeard, Goes
<1> QED  BY <1>2, <1>3, <1>4, <1>5, <1>6, <1>7

LEMMA ClickFormatKeeps ==
    ASSUME UsbTypeOK, UsbOrder, ClickFormat
    PROVE  UsbOrder'
<1> USE DEF UsbOrder
<1>u. User \in Tasks /\ PollIds \subseteq Tasks  BY DEF Tasks
<1>1. /\ Goes(User, "format", NoUsb)
      /\ task[User].pc = "over" /\ status \in {"mounted", "bad_format", "ejected"}
      /\ \A p \in PollIds : task[p].pc \notin Quick
      /\ UNCHANGED <<usb, availability, status, pulledFirst>> /\ isFormatting'
  BY <1>u, UsbAssumption, TaskGoes
     DEF ClickFormat, Undisturbed, PcIs, Tasks, Pcs, Quick, Mounting, Ejecting, Formatting
<1>2. PollsSeeTheDrive'  BY <1>1, UsbAssumption DEF PollsSeeTheDrive, PcIs, Tasks, Goes
<1>3. OneMounts'  BY <1>1, UsbAssumption DEF OneMounts, Mounting, Tasks, Goes
<1>4. AbsenceIsShown'  BY <1>1 DEF AbsenceIsShown, PcIs, Tasks, Goes
<1>5. DriveIsHeld'  BY <1>1 DEF DriveIsHeld, Goes
<1>6. UserIsHeard'
  BY <1>1, UsbAssumption DEF UserIsHeard, OneMounts, AbsenceIsShown, UsbTypeOK, PcsOfPolls,
     Ejecting, Formatting, PcIs, Tasks, Goes
<1>7. EjectedIsUnmounted'  BY <1>1 DEF EjectedIsUnmounted, Goes
<1> QED  BY <1>2, <1>3, <1>4, <1>5, <1>6, <1>7

LEMMA FormatKeeps ==
    ASSUME UsbTypeOK, UsbOrder, Format
    PROVE  UsbOrder'
<1> USE DEF UsbOrder
<1>u. User \in Tasks /\ PollIds \subseteq Tasks  BY DEF Tasks
<1>1. /\ \/ task[User].pc = "formatInfo" /\ Goes(User, "over", NoUsb) /\ ~isFormatting'
         \/ task[User].pc = "formatInfo" /\ Goes(User, "doFormat", task[User].info) /\ UNCHANGED isFormatting
         \/ task[User].pc = "doFormatInfo" /\ task[User].info = NoUsb
            /\ Goes(User, "formatted", task[User].info) /\ UNCHANGED isFormatting
         \/ task[User].pc = "doFormatInfo" /\ Goes(User, "unmount", task[User].info) /\ UNCHANGED isFormatting
         \/ task[User].pc = "doFormatInfo" /\ Goes(User, "reformat", task[User].info) /\ UNCHANGED isFormatting
      /\ UNCHANGED <<usb, availability, status, pulledFirst>>
  BY <1>u, UsbAssumption, TaskGoes
     DEF Format, PcIs, Ends, Formatting, Tasks, Pcs, Quick, Mounting, Ejecting, Formatting
<1>2. PollsSeeTheDrive'  BY <1>1, UsbAssumption DEF PollsSeeTheDrive, PcIs, Tasks, Goes
<1>3. OneMounts'  BY <1>1, UsbAssumption DEF OneMounts, Mounting, Tasks, Goes
<1>4. AbsenceIsShown'  BY <1>1 DEF AbsenceIsShown, PcIs, Tasks, Goes
<1>5. DriveIsHeld'  BY <1>1, UsbAssumption DEF DriveIsHeld, Tasks, Goes
<1>6. UserIsHeard'
  BY <1>1 DEF UserIsHeard, getAvailability, Mounting, Ejecting, Formatting, PcIs, Tasks, Goes
<1>7. EjectedIsUnmounted'  BY <1>1 DEF EjectedIsUnmounted, Goes
<1> QED  BY <1>2, <1>3, <1>4, <1>5, <1>6, <1>7

LEMMA RunFormatKeeps ==
    ASSUME UsbTypeOK, UsbOrder, RunFormat
    PROVE  UsbOrder'
<1> USE DEF UsbOrder
<1>u. User \in Tasks /\ PollIds \subseteq Tasks  BY DEF Tasks
<1>1. /\ \/ Goes(User, "over", NoUsb) /\ ~isFormatting' /\ UNCHANGED usb
         \/ Goes(User, "reformat", task[User].info) /\ UNCHANGED isFormatting
         \/ Goes(User, "formatted", task[User].info) /\ ~usb'.mounted /\ UNCHANGED isFormatting
      /\ task[User].pc \in {"unmount", "reformat"} /\ (usb = NoUsb <=> usb' = NoUsb)
            /\ (~usb.mounted => ~usb'.mounted)
      /\ UNCHANGED <<availability, status, pulledFirst>>
  <2>1. \/ Ends(User) /\ UNCHANGED usb
        \/ /\ PcTo(User, "reformat") /\ UNCHANGED isFormatting
           /\ usb # NoUsb /\ usb' = [usb EXCEPT !.mounted = FALSE]
        \/ /\ PcTo(User, "formatted") /\ UNCHANGED isFormatting
           /\ usb # NoUsb /\ ~usb.mounted /\ usb' = [usb EXCEPT !.fat32 = TRUE]
    BY DEF RunFormat
  <2>2. /\ usb = NoUsb <=> usb' = NoUsb
        /\ ~usb.mounted => ~usb'.mounted
    BY <2>1, UsbAssumption DEF UsbTypeOK, UsbDrives
  <2>3. Ends(User) => ~isFormatting'  BY DEF Ends
  <2> QED  BY <1>u, <2>1, <2>2, <2>3, TaskGoes
              DEF RunFormat, PcIs, Pcs, Mounting, Ejecting, Formatting, Detecting
<1>2. PollsSeeTheDrive'  BY <1>1, UsbAssumption DEF PollsSeeTheDrive, PcIs, Tasks, Goes
<1>3. OneMounts'  BY <1>1, UsbAssumption DEF OneMounts, Mounting, Tasks, Goes
<1>4. AbsenceIsShown'  BY <1>1 DEF AbsenceIsShown, PcIs, Tasks, Goes
<1>5. DriveIsHeld'  BY <1>1, UsbAssumption DEF DriveIsHeld, Tasks, Goes
<1>6. UserIsHeard'  BY <1>1 DEF UserIsHeard, Mounting, Ejecting, Formatting, PcIs, Tasks, Goes
<1>7. EjectedIsUnmounted'  BY <1>1 DEF EjectedIsUnmounted, Goes
<1> QED  BY <1>2, <1>3, <1>4, <1>5, <1>6, <1>7

LEMMA FormattedKeeps ==
    ASSUME UsbTypeOK, UsbOrder, Formatted
    PROVE  UsbOrder'
<1> USE DEF UsbOrder
<1>u. User \in Tasks /\ PollIds \subseteq Tasks  BY DEF Tasks
<1>1. /\ \/ Goes(User, "logMount", task[User].info) /\ UNCHANGED <<status, isFormatting>>
         \/ Goes(User, "over", NoUsb) /\ status' = "ejected" /\ ~isFormatting'
      /\ task[User].pc = "formatted"
      /\ UNCHANGED <<usb, availability, pulledFirst>>
  BY <1>u, UsbAssumption, TaskGoes
     DEF Formatted, PcIs, Ends, Tasks, Pcs, Quick, Mounting, Ejecting, Formatting
<1>2. PollsSeeTheDrive'
  BY <1>1, UsbAssumption DEF PollsSeeTheDrive, OneMounts, AbsenceIsShown, DriveIsHeld,
     UserIsHeard, EjectedIsUnmounted, UsbTypeOK, PcsOfPolls, PcsOfUser, Pcs, getAvailability,
     Quick, Mounting, Ejecting, Formatting, Detecting, PcIs, Tasks, Goes
<1>3. OneMounts'
  <2>1. \A p \in PollIds : task[p].pc = "over"  BY <1>1 DEF UserIsHeard, Formatting, PcIs
  <2>2. \A p \in PollIds : task'[p] = task[p]  BY <1>1, <1>u, UsbAssumption DEF Goes
  <2>3. task'[User].pc \in {"over", "logMount"}  BY <1>1 DEF Goes
  <2>4. \A u \in Tasks : task'[u].pc \notin Mounting  BY <2>1, <2>2, <2>3 DEF Tasks, Mounting
  <2>5. \A p \in PollIds : task'[p].pc \notin Detecting  BY <2>1, <2>2 DEF Detecting
  <2> QED  BY <2>4, <2>5 DEF OneMounts
<1>4. AbsenceIsShown'  BY <1>1 DEF AbsenceIsShown, UserIsHeard, Formatting, Goes
<1>5. DriveIsHeld'
  BY <1>1, UsbAssumption DEF DriveIsHeld, PollsSeeTheDrive, OneMounts, AbsenceIsShown,
     UserIsHeard, EjectedIsUnmounted, UsbTypeOK, PcsOfPolls, PcsOfUser, Pcs, getAvailability,
     Quick, Mounting, Ejecting, Formatting, Detecting, PcIs, Tasks, Goes
<1>6. UserIsHeard'
  BY <1>1, UsbAssumption DEF UserIsHeard, PollsSeeTheDrive, OneMounts, AbsenceIsShown,
     DriveIsHeld, EjectedIsUnmounted, UsbTypeOK, PcsOfPolls, PcsOfUser, Pcs, getAvailability,
     Quick, Mounting, Ejecting, Formatting, Detecting, PcIs, Tasks, Goes
<1>7. EjectedIsUnmounted'  BY <1>1 DEF EjectedIsUnmounted, UserIsHeard, Goes
<1> QED  BY <1>2, <1>3, <1>4, <1>5, <1>6, <1>7

LEMMA DriveChangesKeep ==
    ASSUME UsbTypeOK, UsbOrder, UsbOut \/ UsbIn \/ UNCHANGED usbVars
    PROVE  UsbOrder'
<1> USE DEF UsbOrder
<1>1. UNCHANGED <<availability, status, isFormatting, task, pulledFirst>>
  BY DEF UsbOut, UsbIn, usbVars
<1>2. \/ UNCHANGED usb
      \/ /\ \A t \in Tasks : task[t].pc \notin Quick \cup {"logEject"}
         /\ usb' = NoUsb \/ ~usb'.mounted
  BY DEF UsbOut, UsbIn, usbVars, Undisturbed, Quick
<1>3. PollsSeeTheDrive'  BY <1>1, <1>2 DEF PollsSeeTheDrive, Quick, Detecting, PcIs, Tasks
<1>4. OneMounts'  BY <1>1 DEF OneMounts
<1>5. AbsenceIsShown'  BY <1>1 DEF AbsenceIsShown, PcIs
<1>6. DriveIsHeld'  BY <1>1, <1>2 DEF DriveIsHeld, Tasks
<1>7. UserIsHeard'  BY <1>1, <1>2 DEF UserIsHeard, PcIs, Tasks
<1>8. EjectedIsUnmounted'  BY <1>1, <1>2 DEF EjectedIsUnmounted
<1> QED  BY <1>3, <1>4, <1>5, <1>6, <1>7, <1>8

LEMMA UsbStarts == UsbInit => UsbInvariant
<1> SUFFICES ASSUME UsbInit PROVE UsbInvariant
  OBVIOUS
<1>1. \A t \in Tasks : task[t].pc = "over" /\ task[t].info = NoUsb
  BY DEF UsbInit, NoTask
<1>2. PollsSeeTheDrive /\ OneMounts /\ AbsenceIsShown /\ DriveIsHeld /\ UserIsHeard /\ EjectedIsUnmounted
  BY <1>1 DEF UsbInit, PollsSeeTheDrive, OneMounts, AbsenceIsShown, DriveIsHeld, UserIsHeard,
     EjectedIsUnmounted, PcIs, Tasks, Quick, Mounting, Ejecting, Formatting, Detecting
<1> QED
  BY <1>2, UsbTypesStart DEF UsbInvariant, UsbOrder

LEMMA UsbStep == UsbInvariant /\ [UsbNext]_usbVars => UsbInvariant'
<1> SUFFICES ASSUME UsbInvariant, [UsbNext]_usbVars, ~pulledFirst' PROVE UsbOrder'
  BY UsbTypesStay DEF UsbInvariant
<1>1. ~pulledFirst
  BY DEF UsbInvariant, UsbTypeOK, UsbNext, usbVars, GetInfo, StartMount, DoMount, MountEnds,
         StartPoll, ReadPoll, Detected, Removed, ClickEject, StartEject, DoEject, EjectEnds,
         ClickFormat, Format, RunFormat, Formatted, UsbOut, UsbIn
<1>2. UsbTypeOK /\ UsbOrder
  BY <1>1 DEF UsbInvariant
<1> QED
  BY <1>2, GetInfoKeeps, StartMountKeeps, DoMountKeeps, MountEndsKeeps, StartPollKeeps,
     ReadPollKeeps, DetectedKeeps, RemovedKeeps, ClickEjectKeeps, StartEjectKeeps, DoEjectKeeps,
     EjectEndsKeeps, ClickFormatKeeps, FormatKeeps, RunFormatKeeps, FormattedKeeps,
     DriveChangesKeep DEF UsbNext

\* However the polls overlap and whatever the commands return, a drive that is
\* shown as ejected is not mounted, unless one was pulled before its eject began.
THEOREM EjectedStaysUnmounted == UsbSpec => []EjectedIsUnmounted
<1>1. UsbInvariant => EjectedIsUnmounted
  BY DEF UsbInvariant, UsbOrder, EjectedIsUnmounted
<1> QED
  BY UsbStarts, UsbStep, <1>1, PTL DEF UsbSpec

----------------------------------------------------------------------------
(* The screens of a terminal, and the ballots that are saved from them.    *)

ScreensSpec == ScreensInit /\ [][ScreensNext]_screensVars

Stages == {"none", "printing", "timer", "sent", "stored", "refused", "done", "failed", "cleared"}

Stati == [owner : Voters, says : {"unregistered", "registration_pending", "registered", "voted"},
          isRaveAdmin : BOOLEAN]
Styles == {answer \in [owner : Voters, contests : {Contests[v] : v \in Voters}] :
               answer.contests = Contests[answer.owner]}
AnswersTo(q) == {None} \cup IF q = "voterStatus" THEN Stati ELSE Styles

Prints ==
    [Jobs -> [stage : Stages, votes : SUBSET Voters, by : Voters \cup {None}, orphan : BOOLEAN,
              sentAs : Voters \cup {None}]]

UiTypeOK(u) ==
    u \in [shown : Voters \cup {None}, cache : [Queries -> Stati \cup Styles \cup {None}],
           voterFlow : BOOLEAN, index : Int, votes : SUBSET Voters, job : Jobs \cup {0}, broken : BOOLEAN]
FetchesOK(f) ==
    /\ f \in [Queries -> [at : {"idle", "sent", "answered"}, answer : Stati \cup Styles \cup {None}]]
    /\ \A q \in Queries : f[q].answer \in AnswersTo(q)

ScreensTypeOK ==
    /\ auth \in Voters \cup {None}
    /\ registrations \subseteq Voters
    /\ ballots \in [Voters -> [votes : SUBSET Voters, late : BOOLEAN] \cup {None}]
    /\ UiTypeOK(ui) /\ \A q \in Queries : ui.cache[q] \in AnswersTo(q)
    /\ FetchesOK(fetch)
    /\ jobs \in Prints

\* The screens follow the card.
ShownIsTheCard ==
    /\ auth # None /\ ui.shown # None => ui.shown = auth
    /\ auth # None /\ ui.shown = None => Idle

\* What a voter has entered goes away with the screens it was entered in.
EntriesAreOfTheVoter ==
    /\ ~InVoterFlow(ui) => ui.votes = {} /\ ui.index = -1
    /\ ui.votes \subseteq {ui.shown}
    /\ ui.index # -1 => ui.index \in 0 .. Contests[ui.shown]
    /\ ui.job # 0 => Voting(ui) /\ ui.index >= 0

IsOf(answer, v) == answer = None \/ answer.owner = v

\* An answer that is older than the screen that shows it is being asked for again.
AnswersAreOfTheVoter ==
    /\ ui.shown # None => \A q \in Queries : fetch[q].at = "answered" => IsOf(fetch[q].answer, ui.shown)
    /\ ui.shown # None /\ ~ui.broken => fetch["voterStatus"].at # "idle" \/ IsOf(ui.cache["voterStatus"], ui.shown)
    /\ Voting(ui) => fetch["election"].at # "idle" \/ IsOf(ui.cache["election"], ui.shown)

\* A print is of the votes of the voter who is still there, or late.
PrintsAreOfTheVoter ==
    \A n \in Jobs :
        /\ ui.job = n => jobs[n].votes \subseteq {ui.shown}
        /\ jobs[n].stage = "timer" /\ ~jobs[n].orphan => ui.job = n
        /\ jobs[n].stage = "sent" /\ ~jobs[n].orphan /\ jobs[n].sentAs # None
               => jobs[n].votes \subseteq {jobs[n].sentAs}

ScreensInvariant ==
    /\ ScreensTypeOK /\ ShownIsTheCard /\ EntriesAreOfTheVoter /\ AnswersAreOfTheVoter
    /\ PrintsAreOfTheVoter /\ VotesAreTheVoters
----------------------------------------------------------------------------

LEMMA WhatIsMounted ==
    ASSUME NEW u
    PROVE  /\ "LoggedInScreen" \in Mounted(u) <=> u.shown # None /\ ~u.broken
           /\ "AdminFlowScreen" \in Mounted(u) <=>
                 /\ u.shown # None /\ ~u.broken
                 /\ u.cache["voterStatus"] # None /\ u.cache["voterStatus"].isRaveAdmin
           /\ "VoterFlowScreen" \in Mounted(u) <=> InVoterFlow(u)
           /\ "StartScreen" \in Mounted(u) <=> Voting(u) /\ u.index < 0
           /\ "MarkScreen" \in Mounted(u) <=> Voting(u) /\ u.index >= 0
  BY DEF Mounted

LEMMA WhatIsAsked ==
    ASSUME NEW components
    PROVE  /\ "voterStatus" \in QueriesOf(components) <=>
                 "LoggedInScreen" \in components \/ "VoterFlowScreen" \in components
           /\ "election" \in QueriesOf(components) <=>
                 "StartScreen" \in components \/ "MarkScreen" \in components
  BY DEF QueriesOf, Queries

\* What a rendering makes of the state of the components that stay.
LEMMA Rendered ==
    ASSUME NEW u, NEW f, NEW js, UiTypeOK(u), Render(u, f, js)
    PROVE  /\ UiTypeOK(ui)'
           /\ ui'.shown = u.shown /\ ui'.cache = u.cache /\ ui'.broken = u.broken
           /\ InVoterFlow(ui)' <=> InVoterFlow(u)
           /\ Voting(ui)' <=> Voting(u)
           /\ IF InVoterFlow(ui) /\ ~InVoterFlow(u)
              THEN ui'.votes = {} /\ ui'.index = -1
              ELSE ui'.votes = u.votes /\ ui'.index = u.index
           /\ ui'.job = IF Voting(ui) /\ ui.index >= 0 /\ ~(Voting(u) /\ u.index >= 0)
                        THEN 0 ELSE u.job
<1> DEFINE gone == Mounted(ui) \ Mounted(u)
<1>1. ui' = [u EXCEPT
             !.voterFlow = IF "AdminFlowScreen" \in gone THEN FALSE ELSE @,
             !.index = IF "VoterFlowScreen" \in gone THEN -1 ELSE @,
             !.votes = IF "VoterFlowScreen" \in gone THEN {} ELSE @,
             !.job = IF "MarkScreen" \in gone THEN 0 ELSE @]
  BY DEF Render
<1>2. /\ UiTypeOK(ui)'
      /\ ui'.shown = u.shown /\ ui'.cache = u.cache /\ ui'.broken = u.broken
      /\ ui'.voterFlow = IF "AdminFlowScreen" \in gone THEN FALSE ELSE u.voterFlow
      /\ ui'.index = IF "VoterFlowScreen" \in gone THEN -1 ELSE u.index
      /\ ui'.votes = IF "VoterFlowScreen" \in gone THEN {} ELSE u.votes
      /\ ui'.job = IF "MarkScreen" \in gone THEN 0 ELSE u.job
  <2>1. PICK new : new = ui'  OBVIOUS
  <2>2. PICK flow \in BOOLEAN : flow = IF "AdminFlowScreen" \in gone THEN FALSE ELSE u.voterFlow
    BY DEF UiTypeOK
  <2>3. PICK index \in Int : index = IF "VoterFlowScreen" \in gone THEN -1 ELSE u.index
    BY DEF UiTypeOK
  <2>4. PICK chosen \in SUBSET Voters : chosen = IF "VoterFlowScreen" \in gone THEN {} ELSE u.votes
    BY DEF UiTypeOK
  <2>5. PICK printing \in Jobs \cup {0} : printing = IF "MarkScreen" \in gone THEN 0 ELSE u.job
    BY DEF UiTypeOK
  <2>6. new = [u EXCEPT !.voterFlow = flow, !.index = index, !.votes = chosen, !.job = printing]
    BY <1>1, <2>1, <2>2, <2>3, <2>4, <2>5
  <2>7. /\ UiTypeOK(new) /\ new.shown = u.shown /\ new.cache = u.cache /\ new.broken = u.broken
        /\ new.voterFlow = flow /\ new.index = index /\ new.votes = chosen /\ new.job = printing
    BY <2>6 DEF UiTypeOK
  <2> QED  BY <2>1, <2>2, <2>3, <2>4, <2>5, <2>7 DEF UiTypeOK
<1>3. /\ "AdminFlowScreen" \in gone <=> "AdminFlowScreen" \in Mounted(ui) /\ "AdminFlowScreen" \notin Mounted(u)
      /\ "VoterFlowScreen" \in gone <=> InVoterFlow(ui) /\ ~InVoterFlow(u)
      /\ "MarkScreen" \in gone <=> (Voting(ui) /\ ui.index >= 0) /\ ~(Voting(u) /\ u.index >= 0)
  BY WhatIsMounted
<1>4. InVoterFlow(ui)' <=> InVoterFlow(u)
  <2>1. "AdminFlowScreen" \in gone /\ InVoterFlow(u) => ~u.cache["voterStatus"].isRaveAdmin
    BY <1>3, WhatIsMounted DEF InVoterFlow
  <2> QED  BY <1>2, <2>1 DEF InVoterFlow
<1>5. Voting(ui)' <=> Voting(u)
  BY <1>2, <1>4 DEF Voting
<1> QED
  BY <1>2, <1>3, <1>4, <1>5

\* A rendering that does not pass from one voter to another keeps what is
\* entered with the voter who entered it.
LEMMA RenderKeepsEntries ==
    ASSUME NEW u, NEW f, NEW js, UiTypeOK(ui), UiTypeOK(u), Render(u, f, js),
           EntriesAreOfTheVoter,
           u.shown \in {ui.shown, None} \/ ui.shown = None,
           u.votes \subseteq {ui.shown},
           u.index # -1 => u.index \in 0 .. Contests[ui.shown],
           ~InVoterFlow(ui) => u.votes = {} /\ u.index = -1,
           u.job # 0 => Voting(ui) /\ ui.index >= 0
    PROVE  EntriesAreOfTheVoter'
<1>1. InVoterFlow(ui) => ui.shown # None  BY DEF InVoterFlow
<1>2. InVoterFlow(u) => u.shown # None  BY DEF InVoterFlow
<1>3. Voting(u) => InVoterFlow(u)  BY DEF Voting
<1>4. Voting(ui) => InVoterFlow(ui)  BY DEF Voting
<1>5. ~InVoterFlow(u) => ui'.votes = {} /\ ui'.index = -1
  BY Rendered
<1>6. ui'.votes \subseteq {u.shown} /\ (ui'.index # -1 => ui'.index \in 0 .. Contests[u.shown])
  <2>1. CASE ~InVoterFlow(u)  BY <2>1, <1>5
  <2>2. CASE InVoterFlow(u) /\ ~InVoterFlow(ui)  BY <2>2, Rendered
  <2>3. CASE InVoterFlow(u) /\ InVoterFlow(ui)
    <3>1. u.shown = ui.shown  BY <2>3, <1>1, <1>2
    <3> QED  BY <2>3, <3>1, Rendered
  <2> QED  BY <2>1, <2>2, <2>3
<1>7. ui'.job # 0 => Voting(u) /\ ui'.index >= 0
  BY <1>3, <1>5, Rendered
<1> QED
  BY <1>5, <1>6, <1>7, Rendered DEF EntriesAreOfTheVoter

\* What a rendering asks for.
LEMMA RenderAsks ==
    ASSUME NEW u, NEW f, NEW js, UiTypeOK(u), FetchesOK(f), Render(u, f, js)
    PROVE  /\ FetchesOK(fetch)'
           /\ \A q \in Queries : fetch'[q] \in {f[q], Sent}
           /\ \A q \in Queries : u.shown = None => fetch'[q] = f[q]
           /\ ~(ui.shown # None /\ ~ui.broken) /\ u.shown # None /\ ~u.broken
                 => fetch'["voterStatus"].at # "idle"
           /\ ~Voting(ui) /\ Voting(u) => fetch'["election"].at # "idle"
<1> DEFINE new == Mounted(u) \ Mounted(ui)
<1>1. fetch' = [q \in Queries |-> IF q \in QueriesOf(new) /\ f[q].at = "idle" THEN Sent ELSE f[q]]
  BY DEF Render, Refetch
<1>2. u.shown = None => "LoggedInScreen" \notin new /\ "VoterFlowScreen" \notin new
                        /\ "StartScreen" \notin new /\ "MarkScreen" \notin new
  BY WhatIsMounted DEF Voting, InVoterFlow
<1>3. /\ ~(ui.shown # None /\ ~ui.broken) /\ u.shown # None /\ ~u.broken => "LoggedInScreen" \in new
      /\ ~Voting(ui) /\ Voting(u) => "StartScreen" \in new \/ "MarkScreen" \in new
  BY WhatIsMounted DEF UiTypeOK
<1> HIDE DEF new
<1>4. Sent \in [at : {"idle", "sent", "answered"}, answer : Stati \cup Styles \cup {None}]
      /\ Sent.at = "sent" /\ \A q \in Queries : Sent.answer \in AnswersTo(q)
  BY DEF Sent, AnswersTo
<1>5. FetchesOK(fetch)'
  BY <1>1, <1>4 DEF FetchesOK
<1>6. \A q \in Queries : u.shown = None => fetch'[q] = f[q]
  BY <1>1, <1>2, WhatIsAsked DEF Queries
<1>7. \A q \in Queries : q \in QueriesOf(new) => fetch'[q].at # "idle"
  BY <1>1, <1>4
<1>8. \A q \in Queries : fetch'[q] \in {f[q], Sent}
  BY <1>1
<1> QED
  BY <1>3, <1>5, <1>6, <1>7, <1>8, WhatIsAsked DEF Queries

LEMMA RenderKeepsAnswers ==
    ASSUME NEW u, NEW f, NEW js, UiTypeOK(ui), UiTypeOK(u), FetchesOK(f), Render(u, f, js),
           u.shown \in {ui.shown, None} \/ ui.shown = None,
           u.shown # None => \A q \in Queries : f[q].at = "answered" => IsOf(f[q].answer, u.shown),
           ui.shown # None /\ ~ui.broken /\ u.shown # None /\ ~u.broken
               => f["voterStatus"].at # "idle" \/ IsOf(u.cache["voterStatus"], u.shown),
           Voting(ui) /\ Voting(u)
               => f["election"].at # "idle" \/ IsOf(u.cache["election"], u.shown)
    PROVE  FetchesOK(fetch)' /\ AnswersAreOfTheVoter'
<1>1. /\ u.shown # None => \A q \in Queries : fetch'[q].at = "answered" => IsOf(fetch'[q].answer, u.shown)
      /\ u.shown # None /\ ~u.broken
            => fetch'["voterStatus"].at # "idle" \/ IsOf(u.cache["voterStatus"], u.shown)
      /\ Voting(u) => fetch'["election"].at # "idle" \/ IsOf(u.cache["election"], u.shown)
  BY RenderAsks DEF Sent, Queries
<1> QED
  BY <1>1, RenderAsks, Rendered DEF AnswersAreOfTheVoter, IsOf

LEMMA RenderKeepsCard ==
    ASSUME NEW u, NEW f, NEW js, UiTypeOK(u), FetchesOK(f), Render(u, f, js),
           auth' # None /\ u.shown # None => u.shown = auth',
           auth' # None /\ u.shown = None => \A q \in Queries : f[q].at = "idle"
    PROVE  ShownIsTheCard'
  BY RenderAsks, Rendered DEF ShownIsTheCard, Idle

LEMMA RenderKeepsPrints ==
    ASSUME NEW u, NEW f, NEW js \in Prints, UiTypeOK(ui), UiTypeOK(u), Render(u, f, js),
           u.shown \in {ui.shown, None} \/ ui.shown = None,
           u.job # 0 => u.job = ui.job \/ ui.job = 0,
           ui.job # 0 => u.job = ui.job /\ Voting(ui) /\ ui.index >= 0,
           u.job # 0 => Voting(ui) /\ ui.index >= 0,
           \A n \in Jobs :
              /\ u.job = n => js[n].votes \subseteq {ui.shown}
              /\ js[n].stage = "timer" /\ ~js[n].orphan => ui.job = n
              /\ js[n].stage = "sent" /\ ~js[n].orphan /\ js[n].sentAs # None
                     => js[n].votes \subseteq {js[n].sentAs}
    PROVE  jobs' \in Prints /\ PrintsAreOfTheVoter'
<1>1. PICK new : new = jobs'  OBVIOUS
<1> DEFINE leaves == (Voting(ui) /\ ui.index >= 0) /\ ~(Voting(u) /\ u.index >= 0)
<1>2. new = IF leaves /\ ui.job # 0 /\ js[ui.job].stage = "timer"
            THEN [js EXCEPT ![ui.job].stage = "cleared"] ELSE js
  BY <1>1, WhatIsMounted DEF Render, ClearTimer
<1>3. ui.job # 0 => ui.job \in Jobs  BY DEF UiTypeOK
<1>4. /\ new \in Prints
      /\ \A n \in Jobs :
            /\ new[n].votes = js[n].votes /\ new[n].orphan = js[n].orphan /\ new[n].sentAs = js[n].sentAs
            /\ \/ new[n].stage = js[n].stage /\ ~(leaves /\ n = ui.job /\ js[n].stage = "timer")
               \/ new[n].stage = "cleared"
  BY <1>2, <1>3, ScreensAssumption DEF Prints, Stages
<1>5. ui'.job = IF leaves THEN 0 ELSE u.job
  BY Rendered
<1>6. u.job # 0 /\ ~leaves => u.shown = ui.shown
  BY DEF Voting, InVoterFlow
<1> HIDE DEF leaves
<1>7. ASSUME NEW n \in Jobs
      PROVE  /\ ui'.job = n => new[n].votes \subseteq {u.shown}
             /\ new[n].stage = "timer" /\ ~new[n].orphan => ui'.job = n
             /\ new[n].stage = "sent" /\ ~new[n].orphan /\ new[n].sentAs # None
                    => new[n].votes \subseteq {new[n].sentAs}
  <2>1. n # 0  BY ScreensAssumption
  <2>2. ui'.job = n => new[n].votes \subseteq {u.shown}
    BY <2>1, <1>4, <1>5, <1>6
  <2>3. new[n].stage = "timer" /\ ~new[n].orphan => ui'.job = n
    BY <2>1, <1>4, <1>5
  <2>4. new[n].stage = "sent" /\ ~new[n].orphan /\ new[n].sentAs # None
           => new[n].votes \subseteq {new[n].sentAs}
    BY <1>4
  <2> QED  BY <2>2, <2>3, <2>4
<1> QED
  BY <1>1, <1>4, <1>7, Rendered DEF PrintsAreOfTheVoter

----------------------------------------------------------------------------

\* What a rendering has to be given to keep everything: what is rendered passes
\* from one voter to another only through nobody, and its entries, answers and
\* prints are those of the voter.
EntriesFrom(u) ==
    /\ u.shown \in {ui.shown, None} \/ ui.shown = None
    /\ u.votes \subseteq {ui.shown}
    /\ u.index # -1 => u.index \in 0 .. Contests[ui.shown]
    /\ ~InVoterFlow(ui) => u.votes = {} /\ u.index = -1
    /\ u.job = ui.job \/ (ui.job = 0 /\ Voting(ui) /\ ui.index >= 0)

AnswersFrom(u, f) ==
    /\ \A q \in Queries : u.cache[q] \in AnswersTo(q)
    /\ auth # None /\ u.shown # None => u.shown = auth
    /\ auth # None /\ u.shown = None => \A q \in Queries : f[q].at = "idle"
    /\ u.shown # None => \A q \in Queries : f[q].at = "answered" => IsOf(f[q].answer, u.shown)
    /\ ui.shown # None /\ ~ui.broken /\ u.shown # None /\ ~u.broken
         => f["voterStatus"].at # "idle" \/ IsOf(u.cache["voterStatus"], u.shown)
    /\ Voting(ui) /\ Voting(u) => f["election"].at # "idle" \/ IsOf(u.cache["election"], u.shown)

PrintsFrom(u, js) ==
    \A n \in Jobs :
        /\ u.job = n => js[n].votes \subseteq {ui.shown}
        /\ js[n].stage = "timer" /\ ~js[n].orphan => ui.job = n
        /\ js[n].stage = "sent" /\ ~js[n].orphan /\ js[n].sentAs # None
               => js[n].votes \subseteq {js[n].sentAs}

LEMMA RenderKeeps ==
    ASSUME ScreensInvariant,
           NEW u, NEW f, NEW js \in Prints, UiTypeOK(u), FetchesOK(f), Render(u, f, js),
           UNCHANGED <<auth, registrations, ballots>>,
           EntriesFrom(u), AnswersFrom(u, f), PrintsFrom(u, js)
    PROVE  ScreensInvariant'
<1>1. UiTypeOK(ui) /\ EntriesAreOfTheVoter
  BY DEF ScreensInvariant, ScreensTypeOK
<1>2. /\ u.job # 0 => Voting(ui) /\ ui.index >= 0
      /\ ui.job # 0 => u.job = ui.job /\ Voting(ui) /\ ui.index >= 0
  BY <1>1 DEF EntriesAreOfTheVoter, EntriesFrom
<1>3. EntriesAreOfTheVoter'
  BY <1>1, <1>2, RenderKeepsEntries DEF EntriesFrom
<1>4. FetchesOK(fetch)' /\ AnswersAreOfTheVoter'
  BY <1>1, RenderKeepsAnswers DEF EntriesFrom, AnswersFrom
<1>5. ShownIsTheCard'
  BY RenderKeepsCard DEF AnswersFrom
<1>6. jobs' \in Prints /\ PrintsAreOfTheVoter'
  BY <1>1, <1>2, RenderKeepsPrints DEF EntriesFrom, PrintsFrom
<1>7. UiTypeOK(ui)' /\ \A q \in Queries : ui'.cache[q] \in AnswersTo(q)
  BY Rendered DEF AnswersFrom
<1>8. ScreensTypeOK'  BY <1>4, <1>6, <1>7 DEF ScreensInvariant, ScreensTypeOK
<1>9. VotesAreTheVoters'  BY DEF ScreensInvariant, VotesAreTheVoters
<1> QED
  BY <1>3, <1>4, <1>5, <1>6, <1>8, <1>9 DEF ScreensInvariant

\* What a voter chooses on the screens leaves who is shown and what is cached alone.
LEMMA ChoiceKeeps ==
    ASSUME ScreensInvariant,
           NEW u, NEW js \in Prints, UiTypeOK(u), Render(u, fetch, js),
           UNCHANGED <<auth, registrations, ballots>>,
           u.shown = ui.shown, u.cache = ui.cache, u.broken = ui.broken,
           EntriesFrom(u), PrintsFrom(u, js)
    PROVE  ScreensInvariant'
<1>1. FetchesOK(fetch) /\ \A q \in Queries : u.cache[q] \in AnswersTo(q)
  BY DEF ScreensInvariant, ScreensTypeOK
<1>2. AnswersFrom(u, fetch)
  BY <1>1 DEF ScreensInvariant, ShownIsTheCard, Idle, AnswersAreOfTheVoter, AnswersFrom
<1> QED
  BY <1>1, <1>2, RenderKeeps

LEMMA WatchAuthStatusKeeps ==
    ASSUME ScreensInvariant, WatchAuthStatus
    PROVE  ScreensInvariant'
<1>s. /\ ScreensTypeOK /\ ShownIsTheCard /\ EntriesAreOfTheVoter /\ AnswersAreOfTheVoter
      /\ PrintsAreOfTheVoter
  BY DEF ScreensInvariant
<1>t. UiTypeOK(ui) /\ FetchesOK(fetch) /\ jobs \in Prints /\ auth \in Voters \cup {None}
      /\ \A p \in Queries : ui.cache[p] \in AnswersTo(p)
  BY <1>s DEF ScreensTypeOK
<1>1. PICK u : u = [ui EXCEPT !.shown = auth]  OBVIOUS
<1>2. /\ UiTypeOK(u) /\ u.shown = auth
      /\ u.cache = ui.cache /\ u.broken = ui.broken /\ u.votes = ui.votes
      /\ u.index = ui.index /\ u.job = ui.job
  BY <1>s, <1>t, <1>1 DEF UiTypeOK
<1>3. Render(u, fetch, jobs) /\ UNCHANGED <<auth, registrations, ballots>> /\ ui.shown # auth
  BY <1>s, <1>t, <1>1 DEF WatchAuthStatus, backendVars
<1>4. u.shown = None \/ ui.shown = None
  BY <1>s, <1>t, <1>2, <1>3 DEF ShownIsTheCard
<1>5. auth # None => \A q \in Queries : fetch[q].at = "idle"
  BY <1>s, <1>t, <1>3 DEF ShownIsTheCard, Idle
<1>6. ~Voting(ui) \/ ~Voting(u)
  BY <1>4 DEF Voting, InVoterFlow
<1>7. EntriesFrom(u)
  BY <1>s, <1>2, <1>4 DEF EntriesFrom, EntriesAreOfTheVoter
<1>8. AnswersFrom(u, fetch)
  BY <1>t, <1>2, <1>4, <1>5, <1>6 DEF AnswersFrom
<1>9. PrintsFrom(u, jobs)
  BY <1>s, <1>2 DEF PrintsFrom, PrintsAreOfTheVoter
<1> QED
  BY <1>t, <1>2, <1>3, <1>7, <1>8, <1>9, RenderKeeps

LEMMA AnsweredKeeps ==
    ASSUME ScreensInvariant, NEW q \in Queries, Answered(q)
    PROVE  ScreensInvariant'
<1>s. /\ ScreensTypeOK /\ ShownIsTheCard /\ EntriesAreOfTheVoter /\ AnswersAreOfTheVoter
      /\ PrintsAreOfTheVoter
  BY DEF ScreensInvariant
<1>t. UiTypeOK(ui) /\ FetchesOK(fetch) /\ jobs \in Prints /\ auth \in Voters \cup {None}
      /\ \A p \in Queries : ui.cache[p] \in AnswersTo(p)
  BY <1>s DEF ScreensTypeOK
<1>1. PICK u : u = [ui EXCEPT !.cache[q] = fetch[q].answer]  OBVIOUS
<1>2. PICK f : f = [fetch EXCEPT ![q] = NotAsked]  OBVIOUS
<1>3. /\ UiTypeOK(u) /\ u.shown = ui.shown
      /\ u.cache = [ui.cache EXCEPT ![q] = fetch[q].answer]
      /\ u.broken = ui.broken /\ u.votes = ui.votes
      /\ u.index = ui.index /\ u.job = ui.job
  BY <1>s, <1>t, <1>1 DEF UiTypeOK, FetchesOK
<1>4. FetchesOK(f) /\ f[q].at = "idle" /\ \A p \in Queries : p # q => f[p] = fetch[p]
  BY <1>s, <1>t, <1>2 DEF FetchesOK, NotAsked, AnswersTo
<1>5. /\ \A p \in Queries : u.cache[p] = IF p = q THEN fetch[q].answer ELSE ui.cache[p]
      /\ \A p \in Queries : u.cache[p] \in AnswersTo(p)
  BY <1>s, <1>t, <1>3 DEF UiTypeOK, FetchesOK
<1>6. Render(u, f, jobs) /\ UNCHANGED <<auth, registrations, ballots>> /\ fetch[q].at = "answered"
  BY <1>s, <1>t, <1>1, <1>2 DEF Answered, backendVars
<1>7. auth # None => ui.shown = auth
  BY <1>s, <1>t, <1>6 DEF ShownIsTheCard, Idle
<1>8. /\ ui.shown # None => \A p \in Queries : f[p].at = "answered" => IsOf(f[p].answer, ui.shown)
      /\ ui.shown # None /\ ~ui.broken /\ u.shown # None /\ ~u.broken
           => f["voterStatus"].at # "idle" \/ IsOf(u.cache["voterStatus"], u.shown)
      /\ Voting(ui) /\ Voting(u)
           => f["election"].at # "idle" \/ IsOf(u.cache["election"], u.shown)
  BY <1>s, <1>t, <1>3, <1>4, <1>5, <1>6 DEF AnswersAreOfTheVoter, Queries, Voting, InVoterFlow
<1>9. EntriesFrom(u)
  BY <1>s, <1>3 DEF EntriesFrom, EntriesAreOfTheVoter
<1>10. AnswersFrom(u, f)
  BY <1>3, <1>4, <1>5, <1>7, <1>8 DEF AnswersFrom
<1>11. PrintsFrom(u, jobs)
  BY <1>s, <1>3 DEF PrintsFrom, PrintsAreOfTheVoter
<1> QED
  BY <1>t, <1>3, <1>4, <1>6, <1>9, <1>10, <1>11, RenderKeeps

LEMMA QueryFailsKeeps ==
    ASSUME ScreensInvariant, NEW q \in Queries, QueryFails(q)
    PROVE  ScreensInvariant'
<1>s. /\ ScreensTypeOK /\ ShownIsTheCard /\ EntriesAreOfTheVoter /\ AnswersAreOfTheVoter
      /\ PrintsAreOfTheVoter
  BY DEF ScreensInvariant
<1>t. UiTypeOK(ui) /\ FetchesOK(fetch) /\ jobs \in Prints /\ auth \in Voters \cup {None}
      /\ \A p \in Queries : ui.cache[p] \in AnswersTo(p)
  BY <1>s DEF ScreensTypeOK
<1>1. PICK u : u = [ui EXCEPT !.broken = q \in QueriesOf(Mounted(ui)) \/ @]  OBVIOUS
<1>2. PICK f : f = [fetch EXCEPT ![q] = NotAsked]  OBVIOUS
<1>3. /\ UiTypeOK(u) /\ u.shown = ui.shown /\ u.cache = ui.cache
      /\ u.broken <=> q \in QueriesOf(Mounted(ui)) \/ ui.broken
      /\ u.votes = ui.votes /\ u.index = ui.index /\ u.job = ui.job
  BY <1>s, <1>t, <1>1 DEF UiTypeOK
<1>4. FetchesOK(f) /\ f[q].at = "idle" /\ \A p \in Queries : p # q => f[p] = fetch[p]
  BY <1>s, <1>t, <1>2 DEF FetchesOK, NotAsked, AnswersTo
<1>5. Render(u, f, jobs) /\ UNCHANGED <<auth, registrations, ballots>> /\ fetch[q].at = "sent"
  BY <1>s, <1>t, <1>1, <1>2 DEF QueryFails, backendVars
<1>6. auth # None => ui.shown = auth
  BY <1>s, <1>t, <1>5 DEF ShownIsTheCard, Idle
<1>7. /\ ui.shown # None /\ ~u.broken => q # "voterStatus"
      /\ Voting(ui) /\ ~u.broken => q # "election"
  BY <1>s, <1>t, <1>3, WhatIsMounted, WhatIsAsked DEF UiTypeOK
<1>8. /\ ui.shown # None => \A p \in Queries : f[p].at = "answered" => IsOf(f[p].answer, ui.shown)
      /\ ui.shown # None /\ ~ui.broken /\ u.shown # None /\ ~u.broken
           => f["voterStatus"].at # "idle" \/ IsOf(u.cache["voterStatus"], u.shown)
      /\ Voting(ui) /\ Voting(u)
           => f["election"].at # "idle" \/ IsOf(u.cache["election"], u.shown)
  BY <1>s, <1>t, <1>3, <1>4, <1>7 DEF AnswersAreOfTheVoter, Queries, Voting, InVoterFlow
<1>9. EntriesFrom(u)
  BY <1>s, <1>3 DEF EntriesFrom, EntriesAreOfTheVoter
<1>10. AnswersFrom(u, f)
  BY <1>t, <1>3, <1>4, <1>6, <1>8 DEF AnswersFrom
<1>11. PrintsFrom(u, jobs)
  BY <1>s, <1>3 DEF PrintsFrom, PrintsAreOfTheVoter
<1> QED
  BY <1>t, <1>3, <1>4, <1>5, <1>9, <1>10, <1>11, RenderKeeps

----------------------------------------------------------------------------

\* When nothing is under way, the contests that are shown are the voter's.
LEMMA ContestsAreTheVoters ==
    ASSUME ScreensInvariant, Idle, Voting(ui), HasElection
    PROVE  /\ ui.shown \in Voters /\ Contests[ui.shown] \in Nat
           /\ ui.cache["election"].owner = ui.shown
           /\ ui.cache["election"].contests = Contests[ui.shown]
<1>1. "election" \in Queries  BY DEF Queries
<1>2. ui.cache["election"] \in Styles /\ IsOf(ui.cache["election"], ui.shown)
  BY <1>1 DEF ScreensInvariant, ScreensTypeOK, AnswersTo, HasElection, Idle, AnswersAreOfTheVoter
<1>3. ui.cache["election"].owner = ui.shown
  BY <1>2 DEF IsOf, HasElection
<1> QED
  BY <1>2, <1>3, ScreensAssumption DEF Styles

LEMMA ChooseKeeps ==
    ASSUME ScreensInvariant, NEW u, UiTypeOK(u), Choose(u), InVoterFlow(ui) \/ u.votes = {},
           u.shown = ui.shown, u.cache = ui.cache, u.broken = ui.broken, u.job = ui.job,
           u.votes \subseteq {ui.shown},
           u.index = ui.index \/ (InVoterFlow(ui) /\ u.index \in -1 .. Contests[ui.shown])
    PROVE  ScreensInvariant'
<1>1. Render(u, fetch, jobs) /\ UNCHANGED <<auth, registrations, ballots>>
  BY DEF Choose, backendVars
<1>2. EntriesFrom(u)
  <2>1. u.index # -1 => u.index \in 0 .. Contests[ui.shown]
    <3>1. CASE u.index = ui.index
      BY <3>1 DEF ScreensInvariant, EntriesAreOfTheVoter
    <3>2. CASE InVoterFlow(ui) /\ u.index \in -1 .. Contests[ui.shown]
      <4>1. ui.shown \in Voters
        BY <3>2 DEF ScreensInvariant, ScreensTypeOK, UiTypeOK, InVoterFlow
      <4> QED  BY <3>2, <4>1, ScreensAssumption
    <3> QED  BY <3>1, <3>2
  <2> QED  BY <2>1 DEF ScreensInvariant, EntriesAreOfTheVoter, EntriesFrom
<1>3. PrintsFrom(u, jobs)
  BY DEF ScreensInvariant, PrintsAreOfTheVoter, PrintsFrom
<1>4. jobs \in Prints  BY DEF ScreensInvariant, ScreensTypeOK
<1> QED
  BY <1>1, <1>2, <1>3, <1>4, ChoiceKeeps

LEMMA ChoicesKeep ==
    ASSUME ScreensInvariant,
           \/ ShowVoterFlow \/ OnStartVoting \/ UpdateVote \/ GoPrevious \/ GoNext \/ GoToIndex
    PROVE  ScreensInvariant'
<1>t. UiTypeOK(ui) /\ ui.votes \subseteq {ui.shown} /\ (~InVoterFlow(ui) => ui.votes = {})
  BY DEF ScreensInvariant, ScreensTypeOK, EntriesAreOfTheVoter
<1>v. Voting(ui) => InVoterFlow(ui) /\ ui.shown \in Voters
  BY <1>t, ScreensAssumption DEF Voting, InVoterFlow, UiTypeOK
<1>1. CASE ShowVoterFlow
  <2>1. PICK u : u = [ui EXCEPT !.voterFlow = TRUE]  OBVIOUS
  <2>2. /\ UiTypeOK(u) /\ u.shown = ui.shown /\ u.cache = ui.cache /\ u.broken = ui.broken
        /\ u.job = ui.job /\ u.votes = ui.votes /\ u.index = ui.index
    BY <1>t, <2>1 DEF UiTypeOK
  <2>3. Choose(u)  BY <1>1, <2>1 DEF ShowVoterFlow
  <2>4. (InVoterFlow(ui) \/ u.votes = {}) /\ u.votes \subseteq {ui.shown}  BY <1>t, <2>2
  <2> QED  BY <2>2, <2>3, <2>4, ChooseKeeps
<1>2. CASE UpdateVote
  <2>1. PICK u : u = [ui EXCEPT !.votes = @ \cup {ui.shown}]  OBVIOUS
  <2>2. Choose(u) /\ Voting(ui)  BY <1>2, <2>1, WhatIsMounted DEF UpdateVote, OnContest
  <2>3. /\ UiTypeOK(u) /\ u.shown = ui.shown /\ u.cache = ui.cache /\ u.broken = ui.broken
        /\ u.job = ui.job /\ u.votes = ui.votes \cup {ui.shown} /\ u.index = ui.index
    BY <1>t, <1>v, <2>1, <2>2 DEF UiTypeOK
  <2>4. InVoterFlow(ui) /\ u.votes \subseteq {ui.shown}  BY <1>t, <1>v, <2>2, <2>3
  <2> QED  BY <2>2, <2>3, <2>4, ChooseKeeps
<1>3. ASSUME NEW i \in -1 .. Contests[ui.shown], Voting(ui), Choose([ui EXCEPT !.index = i])
      PROVE  ScreensInvariant'
  <2>1. PICK u : u = [ui EXCEPT !.index = i]  OBVIOUS
  <2>2. i \in Int  BY <1>v, <1>3, ScreensAssumption
  <2>3. /\ UiTypeOK(u) /\ u.shown = ui.shown /\ u.cache = ui.cache /\ u.broken = ui.broken
        /\ u.job = ui.job /\ u.votes = ui.votes /\ u.index = i
    BY <1>t, <2>1, <2>2 DEF UiTypeOK
  <2> QED  BY <1>t, <1>v, <1>3, <2>1, <2>3, ChooseKeeps
<1>4. ASSUME OnStartVoting \/ GoPrevious \/ GoNext \/ GoToIndex PROVE ScreensInvariant'
  <2>1. Voting(ui) /\ Idle /\ HasElection
    BY <1>4, WhatIsMounted DEF OnStartVoting, GoPrevious, GoNext, GoToIndex, OnContest, OnReview, Choose
  <2>2. Contests[ui.shown] \in Nat /\ ui.cache["election"].contests = Contests[ui.shown]
    BY <2>1, ContestsAreTheVoters
  <2>3. ui.index \in Int  BY <1>t DEF UiTypeOK
  <2>4. CASE OnStartVoting
    BY <1>3, <2>1, <2>2, <2>4 DEF OnStartVoting
  <2>5. CASE GoPrevious
    <3>1. ui.index - 1 \in -1 .. Contests[ui.shown] /\ Choose([ui EXCEPT !.index = ui.index - 1])
      BY <2>2, <2>3, <2>5, WhatIsMounted DEF GoPrevious, OnContest
    <3> QED  BY <1>3, <2>1, <3>1
  <2>6. CASE GoNext
    <3>1. ui.index + 1 \in -1 .. Contests[ui.shown] /\ Choose([ui EXCEPT !.index = ui.index + 1])
      BY <2>2, <2>3, <2>6, WhatIsMounted DEF GoNext, OnContest
    <3> QED  BY <1>3, <2>1, <3>1
  <2>7. CASE GoToIndex
    <3>1. PICK i \in 0 .. ui.cache["election"].contests - 1 : Choose([ui EXCEPT !.index = i])
      BY <2>7 DEF GoToIndex
    <3>2. i \in -1 .. Contests[ui.shown]  BY <2>2, <3>1
    <3> QED  BY <1>3, <2>1, <3>1, <3>2
  <2> QED  BY <1>4, <2>4, <2>5, <2>6, <2>7
<1> QED
  BY <1>1, <1>2, <1>4

LEMMA PrintBallotKeeps ==
    ASSUME ScreensInvariant, PrintBallot
    PROVE  ScreensInvariant'
<1>1. PICK n \in Jobs :
         Render([ui EXCEPT !.job = n], fetch,
                [jobs EXCEPT ![n] = [@ EXCEPT !.stage = "printing", !.votes = ui.votes, !.by = ui.shown]])
  BY DEF PrintBallot
<1>2. PICK u : u = [ui EXCEPT !.job = n]  OBVIOUS
<1>3. PICK js : js = [jobs EXCEPT ![n] = [@ EXCEPT !.stage = "printing", !.votes = ui.votes, !.by = ui.shown]]
  OBVIOUS
<1>t. UiTypeOK(ui) /\ jobs \in Prints /\ EntriesAreOfTheVoter /\ PrintsAreOfTheVoter
  BY DEF ScreensInvariant, ScreensTypeOK
<1>4. ui.job = 0 /\ Voting(ui) /\ ui.index >= 0 /\ UNCHANGED <<auth, registrations, ballots>>
  BY WhatIsMounted DEF PrintBallot, OnReview, Printing, backendVars
<1>5. /\ UiTypeOK(u) /\ u.shown = ui.shown /\ u.cache = ui.cache /\ u.broken = ui.broken
      /\ u.votes = ui.votes /\ u.index = ui.index /\ u.job = n
  BY <1>t, <1>2 DEF UiTypeOK
<1>6. /\ js \in Prints
      /\ js[n].stage = "printing" /\ js[n].votes = ui.votes
      /\ \A m \in Jobs : m # n => js[m] = jobs[m]
  <2>1. PICK job : job = [jobs[n] EXCEPT !.stage = "printing", !.votes = ui.votes, !.by = ui.shown]
    OBVIOUS
  <2>2. ui.votes \subseteq Voters /\ ui.shown \in Voters \cup {None} /\ "printing" \in Stages
    BY <1>t DEF UiTypeOK, Stages
  <2>3. /\ job.stage = "printing" /\ job.votes = ui.votes
        /\ job \in [stage : Stages, votes : SUBSET Voters, by : Voters \cup {None}, orphan : BOOLEAN,
                     sentAs : Voters \cup {None}]
    BY <1>t, <2>1, <2>2 DEF Prints
  <2>4. js = [jobs EXCEPT ![n] = job]
    BY <1>3, <2>1
  <2> QED
    BY <1>t, <2>3, <2>4 DEF Prints
<1>7. EntriesFrom(u)
  BY <1>t, <1>4, <1>5 DEF EntriesFrom, EntriesAreOfTheVoter
<1>8. PrintsFrom(u, js)
  BY <1>t, <1>5, <1>6 DEF PrintsFrom, PrintsAreOfTheVoter, EntriesAreOfTheVoter
<1> QED
  BY <1>1, <1>2, <1>3, <1>4, <1>5, <1>6, <1>7, <1>8, ChoiceKeeps

\* An error that is thrown where it is used breaks the screens and keeps the rest.
LEMMA BreakKeeps ==
    ASSUME ScreensInvariant, NEW error, NEW js \in Prints, PrintsFrom(ui, js),
           Render([ui EXCEPT !.broken = @ \/ error], fetch, js),
           UNCHANGED <<auth, registrations, ballots>>
    PROVE  ScreensInvariant'
<1>1. PICK u : u = [ui EXCEPT !.broken = ui.broken \/ error] /\ Render(u, fetch, js)
  OBVIOUS
<1>t. /\ UiTypeOK(ui) /\ FetchesOK(fetch) /\ \A q \in Queries : ui.cache[q] \in AnswersTo(q)
      /\ ShownIsTheCard /\ EntriesAreOfTheVoter /\ AnswersAreOfTheVoter
  BY DEF ScreensInvariant, ScreensTypeOK
<1>2. /\ UiTypeOK(u) /\ u.shown = ui.shown /\ u.cache = ui.cache /\ u.votes = ui.votes
      /\ u.index = ui.index /\ u.job = ui.job
  BY <1>1, <1>t DEF UiTypeOK
<1>3. EntriesFrom(u)
  BY <1>t, <1>2 DEF EntriesFrom, EntriesAreOfTheVoter
<1>4. AnswersFrom(u, fetch)
  BY <1>t, <1>2 DEF AnswersFrom, ShownIsTheCard, Idle, AnswersAreOfTheVoter
<1>5. PrintsFrom(u, js)
  BY <1>2 DEF PrintsFrom
<1> QED
  BY <1>1, <1>t, <1>2, <1>3, <1>4, <1>5, RenderKeeps

----------------------------------------------------------------------------

LEMMA CardKeeps ==
    ASSUME ScreensInvariant,
           \/ \E v \in Voters : LogIn(v) \/ SyncRegisters(v)
           \/ LogOut \/ UNCHANGED screensVars
    PROVE  ScreensInvariant'
<1>1. UNCHANGED <<ui, fetch, jobs, ballots>>
  BY DEF LogIn, SyncRegisters, LogOut, screensVars, screenVars, backendVars
<1>2. \/ UNCHANGED auth \/ auth' = None
      \/ auth' \in Voters /\ ui.shown = None /\ \A q \in Queries : fetch[q].at = "idle"
  BY DEF LogIn, SyncRegisters, LogOut, screensVars, backendVars
<1>3. registrations' \subseteq Voters
  BY DEF LogIn, SyncRegisters, LogOut, screensVars, backendVars, ScreensInvariant, ScreensTypeOK
<1>4. ScreensTypeOK'
  BY <1>1, <1>2, <1>3 DEF ScreensInvariant, ScreensTypeOK, UiTypeOK, FetchesOK
<1>5. ShownIsTheCard'
  BY <1>1, <1>2 DEF ScreensInvariant, ShownIsTheCard, Idle
<1>6. EntriesAreOfTheVoter' /\ AnswersAreOfTheVoter' /\ PrintsAreOfTheVoter' /\ VotesAreTheVoters'
  BY <1>1 DEF ScreensInvariant, EntriesAreOfTheVoter, AnswersAreOfTheVoter, PrintsAreOfTheVoter,
              VotesAreTheVoters, InVoterFlow, Voting
<1> QED
  BY <1>4, <1>5, <1>6 DEF ScreensInvariant

\* Queries that are sent again, or answered for the card, while the screens stay.
LEMMA FetchKeeps ==
    ASSUME ScreensInvariant, UNCHANGED <<auth, registrations, ui>>,
           ballots' \in [Voters -> [votes : SUBSET Voters, late : BOOLEAN] \cup {None}],
           VotesAreTheVoters', jobs' \in Prints, PrintsAreOfTheVoter', FetchesOK(fetch)',
           \A q \in Queries :
              \/ fetch'[q] = fetch[q]
              \/ fetch'[q] = Sent /\ ui.shown # None
              \/ /\ fetch[q].at = "sent" /\ fetch'[q].at = "answered"
                 /\ fetch'[q].answer = None \/ (auth # None /\ fetch'[q].answer.owner = auth)
    PROVE  ScreensInvariant'
<1>1. ScreensTypeOK'
  BY DEF ScreensInvariant, ScreensTypeOK, UiTypeOK
<1>2. ShownIsTheCard'
  BY DEF ScreensInvariant, ShownIsTheCard, Idle
<1>3. AnswersAreOfTheVoter'
  <2>1. ui.shown # None => \A q \in Queries : fetch'[q].at = "answered" => IsOf(fetch'[q].answer, ui.shown)
    BY DEF ScreensInvariant, ShownIsTheCard, AnswersAreOfTheVoter, IsOf, Sent
  <2>2. \A q \in Queries : fetch'[q].at = "idle" => fetch[q].at = "idle"
    BY DEF Sent
  <2> QED
    BY <2>1, <2>2 DEF ScreensInvariant, AnswersAreOfTheVoter, Queries, Voting, InVoterFlow, IsOf
<1>4. EntriesAreOfTheVoter'
  BY DEF ScreensInvariant, EntriesAreOfTheVoter, InVoterFlow, Voting
<1> QED
  BY <1>1, <1>2, <1>3, <1>4 DEF ScreensInvariant

LEMMA PrintsStay ==
    ASSUME ScreensInvariant, UNCHANGED <<ui, jobs, ballots>>
    PROVE  /\ jobs' \in Prints /\ PrintsAreOfTheVoter' /\ VotesAreTheVoters'
           /\ ballots' \in [Voters -> [votes : SUBSET Voters, late : BOOLEAN] \cup {None}]
  BY DEF ScreensInvariant, ScreensTypeOK, PrintsAreOfTheVoter, VotesAreTheVoters

LEMMA HandleQueryKeeps ==
    ASSUME ScreensInvariant, NEW q \in Queries, HandleQuery(q)
    PROVE  ScreensInvariant'
<1>1. /\ fetch[q].at = "sent"
      /\ fetch' = [fetch EXCEPT ![q] = [at |-> "answered", answer |-> AnswerTo(q)]]
      /\ UNCHANGED <<auth, registrations, ballots, ui, jobs>>
  BY DEF HandleQuery, backendVars
<1>2. /\ auth \in Voters \cup {None} /\ FetchesOK(fetch) /\ registrations \subseteq Voters
  BY DEF ScreensInvariant, ScreensTypeOK
<1>3. AnswerTo(q) \in AnswersTo(q)
  <2>1. CASE auth = None  BY <2>1 DEF AnswerTo, AnswersTo
  <2>2. CASE auth # None /\ q = "voterStatus"
    <3>1. VoterStatusOf(auth) \in {"unregistered", "registration_pending", "registered", "voted"}
      BY DEF VoterStatusOf
    <3> QED  BY <1>2, <2>2, <3>1 DEF AnswerTo, AnswersTo, Stati
  <2>3. CASE auth # None /\ q = "election"
    BY <1>2, <2>3 DEF AnswerTo, AnswersTo, Styles
  <2> QED  BY <2>1, <2>2, <2>3 DEF Queries
<1>4. AnswerTo(q) = None \/ (auth # None /\ AnswerTo(q).owner = auth)
  BY DEF AnswerTo
<1>5. FetchesOK(fetch)' /\ fetch'[q].at = "answered" /\ fetch'[q].answer = AnswerTo(q)
      /\ \A p \in Queries : p # q => fetch'[p] = fetch[p]
  BY <1>1, <1>2, <1>3 DEF FetchesOK, AnswersTo
<1> QED
  BY <1>1, <1>4, <1>5, PrintsStay, FetchKeeps

LEMMA InvalidateAsks ==
    ASSUME ScreensInvariant, fetch' = InvalidateQueries(fetch)
    PROVE  /\ FetchesOK(fetch)'
           /\ \A q \in Queries : fetch'[q] = fetch[q] \/ (fetch'[q] = Sent /\ ui.shown # None)
<1>1. FetchesOK(fetch)  BY DEF ScreensInvariant, ScreensTypeOK
<1>2. /\ Sent \in [at : {"idle", "sent", "answered"}, answer : Stati \cup Styles \cup {None}]
      /\ \A q \in Queries : Sent.answer \in AnswersTo(q)
  BY DEF Sent, AnswersTo
<1>3. ui.shown = None => \A q \in Queries : q \notin QueriesOf(Mounted(ui))
  BY WhatIsMounted, WhatIsAsked DEF Queries, Voting, InVoterFlow
<1> QED
  BY <1>1, <1>2, <1>3 DEF InvalidateQueries, FetchesOK

LEMMA FilingKeeps ==
    ASSUME ScreensInvariant, OnSubmit \/ CreateVoterRegistration \/ RegistrationAnswered
    PROVE  ScreensInvariant'
<1>1. CASE OnSubmit \/ CreateVoterRegistration
  BY <1>1 DEF OnSubmit, CreateVoterRegistration, backendVars, ScreensInvariant, ScreensTypeOK, UiTypeOK,
     FetchesOK, ShownIsTheCard, Idle, EntriesAreOfTheVoter, AnswersAreOfTheVoter, PrintsAreOfTheVoter,
     VotesAreTheVoters, InVoterFlow, Voting
<1>2. CASE filing = "stored" /\ RegistrationAnswered
  <2>1. fetch' = InvalidateQueries(fetch) /\ UNCHANGED <<auth, registrations, ballots, ui, jobs>>
    BY <1>2 DEF RegistrationAnswered, backendVars
  <2> QED
    BY <2>1, InvalidateAsks, PrintsStay, FetchKeeps
<1>3. CASE filing # "stored" /\ RegistrationAnswered
  <2>1. Render([ui EXCEPT !.broken = @ \/ Registering], fetch, jobs)
        /\ UNCHANGED <<auth, registrations, ballots>>
    BY <1>3 DEF RegistrationAnswered, backendVars
  <2>2. jobs \in Prints /\ PrintsFrom(ui, jobs)
    BY DEF ScreensInvariant, ScreensTypeOK, PrintsAreOfTheVoter, PrintsFrom
  <2> QED
    BY <2>1, <2>2, BreakKeeps
<1> QED
  BY <1>1, <1>2, <1>3

----------------------------------------------------------------------------

\* A step of one print.
LEMMA JobKeeps ==
    ASSUME ScreensInvariant, NEW n \in Jobs, NEW printing,
           jobs' = [jobs EXCEPT ![n] = printing], UNCHANGED <<auth, registrations, ui>>,
           printing \in [stage : Stages, votes : {jobs[n].votes}, by : {jobs[n].by}, orphan : BOOLEAN,
                    sentAs : Voters \cup {None}],
           printing.stage = "timer" /\ ~printing.orphan => ui.job = n,
           printing.stage = "sent" /\ ~printing.orphan /\ printing.sentAs # None => printing.votes \subseteq {printing.sentAs},
           fetch' = fetch \/ fetch' = InvalidateQueries(fetch),
           ballots' \in [Voters -> [votes : SUBSET Voters, late : BOOLEAN] \cup {None}],
           VotesAreTheVoters'
    PROVE  ScreensInvariant'
<1>1. jobs \in Prints /\ PrintsAreOfTheVoter /\ FetchesOK(fetch)
  BY DEF ScreensInvariant, ScreensTypeOK
<1>2. PICK js : js = jobs'  OBVIOUS
<1>3. js \in Prints /\ js[n] = printing /\ \A m \in Jobs : m # n => js[m] = jobs[m]
  BY <1>1, <1>2 DEF Prints
<1>4. jobs' \in Prints /\ PrintsAreOfTheVoter'
  BY <1>1, <1>2, <1>3 DEF PrintsAreOfTheVoter
<1>5. /\ FetchesOK(fetch)'
      /\ \A q \in Queries : fetch'[q] = fetch[q] \/ (fetch'[q] = Sent /\ ui.shown # None)
  BY <1>1, InvalidateAsks DEF FetchesOK
<1> QED
  BY <1>4, <1>5, FetchKeeps

\* A print whose timer runs, and whose screen is there, is of the card that is in.
LEMMA TimedIsTheVoters ==
    ASSUME ScreensInvariant, NEW n \in Jobs, jobs[n].stage = "timer", ~jobs[n].orphan, auth # None
    PROVE  jobs[n].votes \subseteq {auth}
<1>1. ui.job = n /\ n # 0 /\ jobs[n].votes \subseteq {ui.shown}
  BY ScreensAssumption DEF ScreensInvariant, PrintsAreOfTheVoter
<1>2. ui.shown # None
  BY <1>1 DEF ScreensInvariant, EntriesAreOfTheVoter, Voting, InVoterFlow
<1> QED
  BY <1>1, <1>2 DEF ScreensInvariant, ShownIsTheCard

LEMMA PrintsKeep ==
    ASSUME ScreensInvariant, NEW n \in Jobs,
           \/ PrintStarted(n) \/ PrintFails(n) \/ SaveVotes(n) \/ HandleSaveVotes(n)
           \/ SaveVotesFails(n) \/ SavedAnswered(n)
    PROVE  ScreensInvariant'
<1>1. PICK old : old = jobs[n]  OBVIOUS
<1>2. /\ old \in [stage : Stages, votes : SUBSET Voters, by : Voters \cup {None}, orphan : BOOLEAN,
                  sentAs : Voters \cup {None}]
      /\ auth \in Voters \cup {None} /\ jobs \in Prints
  BY <1>1 DEF ScreensInvariant, ScreensTypeOK, Prints
<1>3. /\ ballots \in [Voters -> [votes : SUBSET Voters, late : BOOLEAN] \cup {None}]
      /\ VotesAreTheVoters /\ registrations \subseteq Voters
  BY DEF ScreensInvariant, ScreensTypeOK
<1>4. /\ old.stage = "timer" /\ ~old.orphan => ui.job = n
      /\ old.stage = "sent" /\ ~old.orphan /\ old.sentAs # None => old.votes \subseteq {old.sentAs}
  BY <1>1 DEF ScreensInvariant, PrintsAreOfTheVoter
<1>5. ASSUME NEW stage \in {"failed", "refused", "done"}, jobs' = [jobs EXCEPT ![n] = [old EXCEPT !.stage = stage]],
             UNCHANGED <<auth, registrations, ui, ballots>>,
             fetch' = fetch \/ fetch' = InvalidateQueries(fetch)
      PROVE  ScreensInvariant'
  <2>1. PICK printing : printing = [old EXCEPT !.stage = stage]  OBVIOUS
  <2>2. /\ printing \in [stage : Stages, votes : {old.votes}, by : {old.by}, orphan : BOOLEAN,
                    sentAs : Voters \cup {None}]
        /\ printing.stage = stage
    BY <1>2, <2>1 DEF Stages
  <2>3. VotesAreTheVoters'  BY <1>3, <1>5 DEF VotesAreTheVoters
  <2> QED  BY <1>1, <1>3, <1>5, <2>1, <2>2, <2>3, JobKeeps
<1>6. CASE PrintFails(n) \/ SaveVotesFails(n)
  <2>1. PICK stage \in {"failed", "refused"} : SetJob(n, [old EXCEPT !.stage = stage])
    BY <1>1, <1>6 DEF PrintFails, SaveVotesFails
  <2> QED  BY <1>5, <2>1 DEF SetJob, backendVars
<1>7. CASE SavedAnswered(n)
  <2>1. jobs' = [jobs EXCEPT ![n] = [old EXCEPT !.stage = "done"]]
    BY <1>1, <1>7 DEF SavedAnswered
  <2> QED  BY <1>5, <1>7, <2>1 DEF SavedAnswered, backendVars
<1>8. CASE PrintStarted(n)
  <2>1. PICK printing : printing = [old EXCEPT !.stage = "timer", !.orphan = ui.job # n]  OBVIOUS
  <2>2. /\ printing \in [stage : Stages, votes : {old.votes}, by : {old.by}, orphan : BOOLEAN,
                    sentAs : Voters \cup {None}]
        /\ printing.stage = "timer" /\ (printing.orphan <=> ui.job # n)
    BY <1>2, <2>1 DEF Stages
  <2>3. jobs' = [jobs EXCEPT ![n] = printing] /\ UNCHANGED <<auth, registrations, ui, ballots, fetch>>
    BY <1>1, <1>8, <2>1 DEF PrintStarted, SetJob, backendVars
  <2>4. VotesAreTheVoters'  BY <1>3, <2>3 DEF VotesAreTheVoters
  <2> QED  BY <1>1, <1>3, <2>2, <2>3, <2>4, JobKeeps
<1>9. CASE SaveVotes(n)
  <2>1. PICK printing : printing = [old EXCEPT !.stage = "sent", !.sentAs = auth]  OBVIOUS
  <2>2. /\ printing \in [stage : Stages, votes : {old.votes}, by : {old.by}, orphan : BOOLEAN,
                    sentAs : Voters \cup {None}]
        /\ printing.stage = "sent" /\ printing.sentAs = auth /\ printing.votes = old.votes /\ printing.orphan = old.orphan
    BY <1>2, <2>1 DEF Stages
  <2>3. /\ jobs[n].stage = "timer" /\ jobs' = [jobs EXCEPT ![n] = printing]
        /\ UNCHANGED <<auth, registrations, ui, ballots, fetch>>
    BY <1>1, <1>9, <2>1 DEF SaveVotes, SetJob, backendVars
  <2>4. VotesAreTheVoters'  BY <1>3, <2>3 DEF VotesAreTheVoters
  <2>5. ~printing.orphan /\ auth # None => printing.votes \subseteq {auth}
    BY <1>1, <2>2, <2>3, TimedIsTheVoters
  <2> QED  BY <1>1, <1>3, <2>2, <2>3, <2>4, <2>5, JobKeeps
<1>10. CASE HandleSaveVotes(n)
  <2>1. PICK stage \in {"stored", "refused"} : jobs' = [jobs EXCEPT ![n] = [old EXCEPT !.stage = stage]]
    BY <1>1, <1>10 DEF HandleSaveVotes
  <2>2. PICK printing : printing = [old EXCEPT !.stage = stage]  OBVIOUS
  <2>3. /\ printing \in [stage : Stages, votes : {old.votes}, by : {old.by}, orphan : BOOLEAN,
                    sentAs : Voters \cup {None}]
        /\ printing.stage = stage
    BY <1>2, <2>2 DEF Stages
  <2>4. UNCHANGED <<auth, registrations, ui, fetch>>
    BY <1>10 DEF HandleSaveVotes
  <2>5. /\ ballots' \in [Voters -> [votes : SUBSET Voters, late : BOOLEAN] \cup {None}]
        /\ VotesAreTheVoters'
    <3>1. CASE UNCHANGED ballots
      BY <1>3, <3>1 DEF VotesAreTheVoters
    <3>2. CASE ~UNCHANGED ballots
      <4>1. PICK ballot : ballot = [votes |-> old.votes, late |-> old.orphan \/ old.sentAs # auth]  OBVIOUS
      <4>2. auth \in Voters /\ ballots' = [ballots EXCEPT ![auth] = ballot] /\ old.stage = "sent"
        BY <1>1, <1>3, <1>10, <3>2, <4>1 DEF HandleSaveVotes
      <4>3. ballot \in [votes : SUBSET Voters, late : BOOLEAN]
        BY <1>2, <4>1
      <4>4. ballot.votes \subseteq {auth} \/ ballot.late
        BY <1>4, <4>1, <4>2, ScreensAssumption
      <4> QED
        BY <1>3, <4>2, <4>3, <4>4 DEF VotesAreTheVoters
    <3> QED  BY <3>1, <3>2
  <2> QED  BY <1>1, <2>1, <2>2, <2>3, <2>4, <2>5, JobKeeps
<1> QED
  BY <1>6, <1>7, <1>8, <1>9, <1>10

LEMMA RefusedAnsweredKeeps ==
    ASSUME ScreensInvariant, NEW n \in Jobs, RefusedAnswered(n)
    PROVE  ScreensInvariant'
<1>1. PICK js : js = [jobs EXCEPT ![n].stage = "failed"]  OBVIOUS
<1>t. jobs \in Prints /\ PrintsAreOfTheVoter
  BY DEF ScreensInvariant, ScreensTypeOK
<1>2. /\ js \in Prints
      /\ \A m \in Jobs : /\ js[m].stage = IF m = n THEN "failed" ELSE jobs[m].stage
                         /\ js[m].votes = jobs[m].votes /\ js[m].orphan = jobs[m].orphan
                         /\ js[m].sentAs = jobs[m].sentAs
  BY <1>t, <1>1 DEF Prints, Stages
<1>3. PrintsFrom(ui, js)
  BY <1>t, <1>2 DEF PrintsFrom, PrintsAreOfTheVoter
<1>4. /\ Render([ui EXCEPT !.broken = @ \/ ui.job = n], fetch, js)
      /\ UNCHANGED <<auth, registrations, ballots>>
  BY <1>1 DEF RefusedAnswered, backendVars
<1>5. PICK error : error = (ui.job = n)  OBVIOUS
<1>6. Render([ui EXCEPT !.broken = @ \/ error], fetch, js)
  BY <1>4, <1>5
<1> QED
  BY <1>2, <1>3, <1>4, <1>6, BreakKeeps

LEMMA NothingIsShown ==
    /\ UiTypeOK(NoScreens) /\ \A q \in Queries : NoScreens.cache[q] = None
    /\ NoScreens.shown = None /\ NoScreens.votes = {} /\ NoScreens.index = -1 /\ NoScreens.job = 0
    /\ ~InVoterFlow(NoScreens) /\ ~Voting(NoScreens)
    /\ FetchesOK([q \in Queries |-> NotAsked])
  BY DEF NoScreens, UiTypeOK, FetchesOK, NotAsked, AnswersTo, InVoterFlow, Voting

\* The screens start from nothing, at first and after a restart.
LEMMA FreshScreens ==
    ASSUME ui = NoScreens, fetch = [q \in Queries |-> NotAsked]
    PROVE  /\ UiTypeOK(ui) /\ \A q \in Queries : ui.cache[q] \in AnswersTo(q)
           /\ FetchesOK(fetch) /\ ShownIsTheCard /\ EntriesAreOfTheVoter /\ AnswersAreOfTheVoter
           /\ ui.job = 0
<1>1. \A q \in Queries : fetch[q].at = "idle"
  BY DEF NotAsked
<1> QED
  BY <1>1, NothingIsShown DEF ShownIsTheCard, EntriesAreOfTheVoter, AnswersAreOfTheVoter, Idle, AnswersTo, Queries

LEMMA ScreensStart == ScreensInit => ScreensInvariant
<1> SUFFICES ASSUME ScreensInit PROVE ScreensInvariant
  OBVIOUS
<1>1. /\ \A n \in Jobs : jobs[n] = NoJob
      /\ jobs \in Prints
  BY DEF ScreensInit, NoJob, Prints, Stages
<1>2. PrintsAreOfTheVoter
  BY <1>1 DEF PrintsAreOfTheVoter, NoJob
<1>3. ScreensTypeOK
  BY <1>1, FreshScreens, ScreensAssumption DEF ScreensInit, ScreensTypeOK
<1>4. VotesAreTheVoters
  BY DEF ScreensInit, VotesAreTheVoters
<1> QED
  BY <1>2, <1>3, <1>4, FreshScreens DEF ScreensInit, ScreensInvariant

LEMMA RestartKeeps ==
    ASSUME ScreensInvariant, Restart
    PROVE  ScreensInvariant'
<1>1. /\ ui' = NoScreens /\ fetch' = [q \in Queries |-> NotAsked]
      /\ UNCHANGED <<auth, registrations, ballots>>
  BY DEF Restart, backendVars
<1>t. jobs \in Prints /\ PrintsAreOfTheVoter
  BY DEF ScreensInvariant, ScreensTypeOK
<1>2. PICK js : js = jobs'  OBVIOUS
<1>3. /\ js \in Prints
      /\ \A n \in Jobs : js[n].stage = "cleared" \/ (js[n] = jobs[n] /\ js[n].stage # "timer")
  BY <1>t, <1>2 DEF Restart, Prints, Stages
<1>4. UiTypeOK(ui') /\ FetchesOK(fetch') /\ ui'.job = 0 /\ \A q \in Queries : ui'.cache[q] \in AnswersTo(q)
  BY <1>1, NothingIsShown DEF AnswersTo
<1>5. PrintsAreOfTheVoter'
  BY <1>t, <1>2, <1>3, <1>4, ScreensAssumption DEF PrintsAreOfTheVoter
<1>6. ShownIsTheCard' /\ EntriesAreOfTheVoter' /\ AnswersAreOfTheVoter'
  <2>1. \A q \in Queries : fetch'[q].at = "idle"
    BY <1>1 DEF NotAsked
  <2>2. ~InVoterFlow(ui') /\ ~Voting(ui')
    BY <1>1, NothingIsShown
  <2> QED
    BY <1>1, <2>1, <2>2, NothingIsShown
       DEF ShownIsTheCard, EntriesAreOfTheVoter, AnswersAreOfTheVoter, Idle, Queries
<1> QED
  BY <1>1, <1>2, <1>3, <1>4, <1>5, <1>6
     DEF ScreensInvariant, ScreensTypeOK, UiTypeOK, FetchesOK, VotesAreTheVoters

LEMMA ScreensStep == ScreensInvariant /\ [ScreensNext]_screensVars => ScreensInvariant'
<1> SUFFICES ASSUME ScreensInvariant, [ScreensNext]_screensVars PROVE ScreensInvariant'
  OBVIOUS
<1>1. CASE Machine
  BY <1>1, WatchAuthStatusKeeps, HandleQueryKeeps, AnsweredKeeps, QueryFailsKeeps, FilingKeeps,
     PrintsKeep, RefusedAnsweredKeeps DEF Machine
<1>2. CASE People
  BY <1>2, CardKeeps, ChoicesKeep, PrintBallotKeeps, FilingKeeps, RestartKeeps DEF People
<1>3. CASE UNCHANGED screensVars
  BY <1>3, CardKeeps
<1> QED
  BY <1>1, <1>2, <1>3 DEF ScreensNext

\* A ballot is saved for the voter whose votes it holds, whatever cards come and
\* go and whatever calls fail, but for the late ones.
THEOREM VotesStayTheVoters == ScreensSpec => []VotesAreTheVoters
<1>1. ScreensInvariant => VotesAreTheVoters
  BY DEF ScreensInvariant
<1> QED
  BY ScreensStart, ScreensStep, <1>1, PTL DEF ScreensSpec

\* Screens that have settled show the voter who is in, and a contest there is.
THEOREM ScreensFollowTheCard == ScreensSpec => []ScreensAreOfTheCard
<1>1. ScreensInvariant => ScreensAreOfTheCard
  <2> SUFFICES ASSUME ScreensInvariant, Idle, ui.shown # None, ~ui.broken PROVE
        /\ ui.cache["voterStatus"] # None => ui.cache["voterStatus"].owner = ui.shown
        /\ Voting(ui) /\ HasElection =>
               /\ ui.cache["election"].owner = ui.shown
               /\ ui.index \in -1 .. ui.cache["election"].contests
    BY DEF ScreensAreOfTheCard
  <2>1. ui.cache["voterStatus"] # None => ui.cache["voterStatus"].owner = ui.shown
    BY DEF ScreensInvariant, AnswersAreOfTheVoter, Idle, IsOf, Queries
  <2>2. ASSUME Voting(ui), HasElection
        PROVE  ui.cache["election"].owner = ui.shown /\ ui.index \in -1 .. ui.cache["election"].contests
    BY <2>2, ContestsAreTheVoters DEF ScreensInvariant, EntriesAreOfTheVoter
  <2> QED  BY <2>1, <2>2
<1> QED
  BY ScreensStart, ScreensStep, <1>1, PTL DEF ScreensSpec

----------------------------------------------------------------------------
(* The storage of a card: what is written in pieces is put together again. *)

Byte == 0 .. Base - 1

StorageSpec == StorageInit /\ [][StorageNext]_storageVars

LEMMA Quotient ==
    ASSUME NEW a \in Nat, NEW b \in Nat \ {0}
    PROVE  /\ a \div b \in Nat /\ a % b \in 0 .. b - 1
           /\ a = (a \div b) * b + (a % b)
OBVIOUS

LEMMA TimesGrows ==
    ASSUME NEW j \in Nat, NEW k \in Nat, j <= k, NEW b \in Nat
    PROVE  j * b \in Nat /\ k * b \in Nat /\ j * b <= k * b
OBVIOUS

\* The first k pieces of size bytes.
Cut(data, size, k) == IF k * size < Len(data) THEN k * size ELSE Len(data)

\* pieces is data in pieces of size bytes: each continues those before it.
MakeTheWhole(pieces, data, size) ==
    /\ pieces \in Seq(Seq(Byte)) /\ Len(pieces) >= 1
    /\ \A k \in 1 .. Len(pieces) :
          SubSeq(data, 1, Cut(data, size, k - 1)) \o pieces[k] = SubSeq(data, 1, Cut(data, size, k))
    /\ SubSeq(data, 1, Cut(data, size, 0)) = <<>>
    /\ SubSeq(data, 1, Cut(data, size, Len(pieces))) = data

LEMMA PiecesMakeTheWhole ==
    ASSUME NEW data \in Seq(Byte), NEW size \in Nat \ {0}
    PROVE  MakeTheWhole(Pieces(data, size), data, size)
<1>1. PICK q : q = (Len(data) + size - 1) \div size
  OBVIOUS
<1>2. PICK n : n = IF q = 0 THEN 1 ELSE q
  OBVIOUS
<1>3. Len(data) \in Nat /\ DOMAIN data = 1 .. Len(data)
  BY LenProperties
<1>4. q \in Nat /\ Len(data) <= q * size /\ q * size <= Len(data) + size - 1 /\ (q = 0 => Len(data) = 0)
  <2>1. PICK a : a = Len(data) + size - 1
    OBVIOUS
  <2>2. a \in Nat /\ q = a \div size
    BY <1>1, <1>3, <2>1
  <2>3. q \in Nat /\ a % size \in 0 .. size - 1 /\ a = q * size + (a % size)
    BY <2>2, Quotient
  <2> QED
    BY <1>3, <2>1, <2>3
<1>5. n \in Nat /\ n >= 1 /\ Len(data) <= n * size /\ (n - 1) * size <= Len(data)
  BY <1>2, <1>3, <1>4
<1>6. ASSUME NEW k \in 1 .. n
      PROVE  /\ (k - 1) * size \in Nat /\ (k - 1) * size <= Len(data)
             /\ Cut(data, size, k - 1) = (k - 1) * size
             /\ Cut(data, size, k) \in (k - 1) * size .. Len(data)
  <2>1. (k - 1) * size <= (n - 1) * size /\ (k - 1) * size \in Nat
    BY <1>5, TimesGrows
  <2>2. k * size = (k - 1) * size + size
    BY <1>5
  <2> QED
    BY <1>3, <1>5, <2>1, <2>2 DEF Cut
<1>7. PICK pieces : pieces = [k \in 1 .. n |-> SubSeq(data, (k - 1) * size + 1, Cut(data, size, k))]
  OBVIOUS
<1>8. Pieces(data, size) = pieces
  BY <1>1, <1>2, <1>7 DEF Pieces, Cut
<1>9. ASSUME NEW k \in 1 .. n
      PROVE  /\ pieces[k] \in Seq(Byte)
             /\ SubSeq(data, 1, Cut(data, size, k - 1)) \o pieces[k] = SubSeq(data, 1, Cut(data, size, k))
  <2>1. PICK from, to : from = (k - 1) * size /\ to = Cut(data, size, k)
    OBVIOUS
  <2>2. from \in 0 .. Len(data) /\ to \in from .. Len(data) /\ Cut(data, size, k - 1) = from
    BY <1>3, <1>6, <2>1
  <2>3. pieces[k] = SubSeq(data, from + 1, to)
    BY <1>7, <2>1
  <2>4. SubSeq(data, 1, from) \o SubSeq(data, from + 1, to) = SubSeq(data, 1, to)
    <3>1. 1 \in 1 .. Len(data) + 1 /\ from \in 1 - 1 .. Len(data)
      BY <1>3, <2>2
    <3> QED
      BY <2>2, <3>1, ConcatAdjacentSubSeq
  <2>5. SubSeq(data, from + 1, to) \in Seq(Byte)
    BY <1>3, <2>2, SubSeqProperties, ElementOfSeq
  <2> QED
    BY <2>1, <2>2, <2>3, <2>4, <2>5
<1>10. pieces \in Seq(Seq(Byte)) /\ Len(pieces) = n
  <2>1. \A k \in 1 .. n : pieces[k] \in Seq(Byte)
    BY <1>9
  <2> QED
    BY <1>5, <1>7, <2>1
<1>11. Cut(data, size, 0) = 0 /\ Cut(data, size, n) = Len(data)
  <2>1. 0 * size = 0
    OBVIOUS
  <2>2. Cut(data, size, 0) = 0
    BY <1>3, <2>1 DEF Cut
  <2>3. ~(n * size < Len(data))
    BY <1>3, <1>5
  <2> QED
    BY <2>2, <2>3 DEF Cut
<1>12. SubSeq(data, 1, 0) = <<>> /\ SubSeq(data, 1, Len(data)) = data
  BY SubSeqEmpty, SubSeqFull
<1>13. SubSeq(data, 1, Cut(data, size, Len(pieces))) = data
  BY <1>10, <1>11, <1>12
<1>14. \A k \in 1 .. Len(pieces) :
          SubSeq(data, 1, Cut(data, size, k - 1)) \o pieces[k] = SubSeq(data, 1, Cut(data, size, k))
  BY <1>9, <1>10
<1>15. Len(pieces) >= 1 /\ SubSeq(data, 1, Cut(data, size, 0)) = <<>>
  BY <1>5, <1>10, <1>11, <1>12
<1>16. MakeTheWhole(pieces, data, size)
  BY <1>10, <1>13, <1>14, <1>15 DEF MakeTheWhole
<1> QED
  BY <1>8, <1>16

LEMMA TlvLengths ==
    ASSUME NEW n \in 0 .. Base * Base - 1
    PROVE  /\ Base \in Nat /\ Short \in Nat /\ Short > 1 /\ TwoBytes < Base /\ OneByte = Short + 1 /\ TwoBytes = Short + 2
           /\ TlvLength(n) \in Seq(Byte)
           /\ \/ n < Short /\ TlvLength(n) = <<n>>
              \/ n >= Short /\ n < Base /\ TlvLength(n) = <<OneByte, n>>
              \/ /\ n >= Base /\ TlvLength(n) = <<TwoBytes, n \div Base, n % Base>>
                 /\ n = (n \div Base) * Base + (n % Base)
<1>1. Base \in Nat /\ Base >= 8
  BY StorageAssumption
<1>2. /\ Base \div 2 \in Nat /\ Base % 2 \in 0 .. 1
      /\ Base = (Base \div 2) * 2 + (Base % 2)
  BY <1>1
<1>3. Short \in Nat /\ Short > 1 /\ OneByte = Short + 1 /\ TwoBytes = Short + 2 /\ TwoBytes < Base
  BY <1>1, <1>2 DEF Short, OneByte, TwoBytes
<1>4. n \in Nat /\ n \div Base \in Nat /\ n % Base \in 0 .. Base - 1 /\ n = (n \div Base) * Base + (n % Base)
  <2>1. Base * Base \in Int /\ Base \in Nat \ {0}
    BY <1>1
  <2>2. n \in Nat
    BY <2>1
  <2> QED
    BY <2>1, <2>2, Quotient
<1>5. n \div Base < Base
  <2>1. PICK q, r, square : q = n \div Base /\ r = n % Base /\ square = Base * Base
    OBVIOUS
  <2>2. CASE q >= Base
    <3>1. Base * Base <= q * Base
      BY <1>1, <1>4, <2>1, <2>2, TimesGrows
    <3>2. q * Base <= n /\ n < Base * Base
      BY <1>1, <1>4, <2>1
    <3>3. Base * Base \in Nat /\ q * Base \in Nat
      BY <1>1, <1>4, <2>1
    <3> QED
      BY <1>4, <3>1, <3>2, <3>3
  <2> QED
    BY <1>1, <1>4, <2>1, <2>2
<1>6. CASE n < Short
  BY <1>1, <1>3, <1>6 DEF TlvLength, Byte
<1>7. CASE n >= Short /\ n < Base
  <2>1. TlvLength(n) = <<OneByte, n>>
    BY <1>1, <1>3, <1>4, <1>7 DEF TlvLength
  <2>2. PICK x, y : x = OneByte /\ y = n
    OBVIOUS
  <2>3. x \in Byte /\ y \in Byte
    BY <1>1, <1>3, <1>7, <2>2 DEF Byte
  <2>4. <<x, y>> \in Seq(Byte)
    BY <2>3
  <2> QED
    BY <1>1, <1>3, <1>7, <2>1, <2>2, <2>4
<1>8. CASE n >= Base
  <2>1. TlvLength(n) = <<TwoBytes, n \div Base, n % Base>>
    BY <1>1, <1>3, <1>4, <1>8 DEF TlvLength
  <2>2. PICK x, y, z : x = TwoBytes /\ y = n \div Base /\ z = n % Base
    OBVIOUS
  <2>3. x \in Byte /\ y \in Byte /\ z \in Byte
    BY <1>1, <1>3, <1>4, <1>5, <2>2 DEF Byte
  <2>4. <<x, y, z>> \in Seq(Byte)
    BY <2>3
  <2> QED
    BY <1>1, <1>3, <1>4, <1>8, <2>1, <2>2, <2>4
<1> QED
  BY <1>1, <1>3, <1>4, <1>6, <1>7, <1>8

\* What is made a TLV is what is taken from it, by its end or by its length.
LEMMA TlvRoundTrip ==
    ASSUME NEW value \in Seq(Byte), Len(value) < Base * Base
    PROVE  /\ ConstructTlv(value) \in Seq(Byte) /\ ConstructTlv(value) # <<>>
           /\ Len(ConstructTlv(value)) <= Len(value) + 4
           /\ ParseTlv(ConstructTlv(value)) = value
           /\ TlvValue(ConstructTlv(value)) = value
<1>1. PICK n, l, first : n = Len(value) /\ l = TlvLength(n) /\ first = <<Tag>>
  OBVIOUS
<1>2. n \in Nat /\ n \in 0 .. Base * Base - 1
  <2>1. Base * Base \in Int
    BY StorageAssumption
  <2> QED
    BY <1>1, <2>1, LenProperties
<1>3. /\ Base \in Nat /\ Short \in Nat /\ Short > 1 /\ TwoBytes < Base /\ OneByte = Short + 1 /\ TwoBytes = Short + 2
      /\ l \in Seq(Byte)
      /\ \/ n < Short /\ l = <<n>>
         \/ n >= Short /\ n < Base /\ l = <<OneByte, n>>
         \/ n >= Base /\ l = <<TwoBytes, n \div Base, n % Base>> /\ n = (n \div Base) * Base + (n % Base)
  BY <1>1, <1>2, TlvLengths
<1>4. PICK lengthLength \in 1 .. 3 :
        /\ Len(l) = lengthLength
        /\ lengthLength = IF l[1] = OneByte THEN 2 ELSE IF l[1] = TwoBytes THEN 3 ELSE 1
        /\ n = IF l[1] = OneByte THEN l[2] ELSE IF l[1] = TwoBytes THEN l[2] * Base + l[3] ELSE l[1]
  <2>1. CASE n < Short /\ l = <<n>>
    BY <1>2, <1>3, <2>1
  <2>2. CASE n >= Short /\ n < Base /\ l = <<OneByte, n>>
    BY <1>2, <1>3, <2>2
  <2>3. CASE n >= Base /\ l = <<TwoBytes, n \div Base, n % Base>> /\ n = (n \div Base) * Base + (n % Base)
    BY <1>2, <1>3, <2>3
  <2> QED
    BY <1>3, <2>1, <2>2, <2>3
<1>5. first \in Seq(Byte) /\ Len(first) = 1
  <2>1. Tag \in Byte
    BY StorageAssumption DEF Tag, Byte
  <2> QED
    BY <1>1, <2>1
<1>6. PICK head : head = first \o l
  OBVIOUS
<1>7. /\ head \in Seq(Byte) /\ Len(head) = 1 + lengthLength
      /\ \A i \in 1 .. lengthLength : head[i + 1] = l[i]
  <2>1. /\ head \in Seq(Byte) /\ Len(head) = 1 + lengthLength
        /\ \A i \in 1 .. 1 + lengthLength : head[i] = IF i <= 1 THEN first[i] ELSE l[i - 1]
    <3>1. /\ head \in Seq(Byte) /\ Len(head) = Len(first) + Len(l)
          /\ \A i \in 1 .. Len(first) + Len(l) :
                head[i] = IF i <= Len(first) THEN first[i] ELSE l[i - Len(first)]
      BY <1>3, <1>5, <1>6, ConcatProperties
    <3>2. Len(first) = 1 /\ Len(l) = lengthLength /\ Len(first) + Len(l) = 1 + lengthLength
      BY <1>4, <1>5
    <3> QED
      BY <3>1, <3>2
  <2>2. ASSUME NEW i \in 1 .. lengthLength PROVE head[i + 1] = l[i]
    <3>1. i + 1 \in 1 .. 1 + lengthLength /\ ~(i + 1 <= 1) /\ (i + 1) - 1 = i
      OBVIOUS
    <3> QED
      BY <2>1, <3>1
  <2> QED
    BY <2>1, <2>2
<1>8. PICK tlv : tlv = head \o value
  OBVIOUS
<1>9. /\ tlv \in Seq(Byte) /\ Len(tlv) = 1 + lengthLength + n
      /\ \A i \in 1 .. lengthLength : tlv[i + 1] = l[i]
      /\ \A i \in 1 .. n : tlv[1 + lengthLength + i] = value[i]
  <2>1. /\ tlv \in Seq(Byte) /\ Len(tlv) = Len(head) + Len(value)
        /\ \A i \in 1 .. Len(head) + Len(value) :
              tlv[i] = IF i <= Len(head) THEN head[i] ELSE value[i - Len(head)]
    BY <1>7, <1>8, ConcatProperties
  <2>2. ASSUME NEW i \in 1 .. lengthLength PROVE tlv[i + 1] = l[i]
    <3>1. i + 1 \in 1 .. Len(head) + Len(value) /\ i + 1 <= Len(head)
      BY <1>1, <1>2, <1>7
    <3> QED
      BY <1>7, <2>1, <3>1
  <2>3. ASSUME NEW i \in 1 .. n PROVE tlv[1 + lengthLength + i] = value[i]
    <3>1. PICK j : j = 1 + lengthLength + i
      OBVIOUS
    <3>2. j \in 1 .. Len(head) + Len(value) /\ ~(j <= Len(head)) /\ j - Len(head) = i
      BY <1>1, <1>2, <1>7, <3>1
    <3> QED
      BY <2>1, <3>1, <3>2
  <2> QED
    BY <1>1, <1>7, <2>1, <2>2, <2>3
<1>10. tlv[2] = l[1] /\ (lengthLength >= 2 => tlv[3] = l[2]) /\ (lengthLength >= 3 => tlv[4] = l[3])
  <2>1. 1 \in 1 .. lengthLength /\ (lengthLength >= 2 => 2 \in 1 .. lengthLength)
        /\ (lengthLength >= 3 => 3 \in 1 .. lengthLength)
    OBVIOUS
  <2>2. tlv[1 + 1] = l[1] /\ (lengthLength >= 2 => tlv[2 + 1] = l[2]) /\ (lengthLength >= 3 => tlv[3 + 1] = l[3])
    BY <1>9, <2>1
  <2> QED
    BY <2>2
<1>11. ConstructTlv(value) = tlv
  <2>1. ConstructTlv(value) = <<Tag>> \o TlvLength(Len(value)) \o value
    BY DEF ConstructTlv
  <2> QED
    BY <1>1, <1>6, <1>8, <2>1
<1>12. ParseTlv(tlv) = value
  <2>1. ParseTlv(tlv) = SubSeq(tlv, 2 + lengthLength, Len(tlv))
    BY <1>4, <1>10 DEF ParseTlv
  <2>2. PICK from, to, rest : from = 2 + lengthLength /\ to = Len(tlv) /\ rest = SubSeq(tlv, from, to)
    OBVIOUS
  <2>3. /\ rest \in Seq(Byte)
        /\ Len(rest) = IF from <= to THEN to - from + 1 ELSE 0
        /\ \A i \in 1 .. to - from + 1 : rest[i] = tlv[from + i - 1]
    <3>1. from \in Int /\ to \in Int /\ \A i \in from .. to : i \in 1 .. Len(tlv)
      BY <1>2, <1>9, <2>2
    <3>2. \A i \in from .. to : tlv[i] \in Byte
      BY <1>9, <3>1, ElementOfSeq
    <3> QED
      BY <2>2, <3>1, <3>2, SubSeqProperties
  <2>4. Len(rest) = n /\ to - from + 1 = n
    BY <1>2, <1>9, <2>2, <2>3
  <2>5. ASSUME NEW i \in 1 .. n PROVE rest[i] = value[i]
    <3>1. from + i - 1 = 1 + lengthLength + i
      BY <1>2, <2>2
    <3> QED
      BY <1>9, <2>3, <2>4, <3>1
  <2>6. rest = value
    BY <1>1, <2>3, <2>4, <2>5, SeqEqual
  <2> QED
    BY <2>1, <2>2, <2>6
<1>13. TlvValue(tlv) = value
  <2>1. OneByte # TwoBytes
    BY <1>3
  <2>2. n = CASE tlv[2] = OneByte -> tlv[3]
              [] tlv[2] = TwoBytes -> tlv[3] * Base + tlv[4]
              [] OTHER -> tlv[2]
    BY <1>4, <1>10, <2>1
  <2>3. TlvValue(tlv) = SubSeq(value, 1, IF n < Len(value) THEN n ELSE Len(value))
    BY <1>12, <2>2 DEF TlvValue
  <2> QED
    BY <1>1, <1>2, <2>3, SubSeqFull
<1>14. tlv # <<>> /\ Len(tlv) <= Len(value) + 4
  BY <1>1, <1>2, <1>9
<1> QED
  BY <1>9, <1>11, <1>12, <1>13, <1>14

\* The three parts of data that fits on a card, one after another, are the data.
LEMMA ChunksMakeTheData ==
    ASSUME NEW data \in Seq(Byte), Len(data) <= CAPACITY
    PROVE  /\ \A i \in Objects : Chunk(data, i) \in Seq(Byte) /\ Len(Chunk(data, i)) <= MAX_DATA_OBJECT_SIZE
           /\ Chunk(data, 1) \o Chunk(data, 2) \o Chunk(data, 3) = data
<1>1. PICK m, n : m = MAX_DATA_OBJECT_SIZE /\ n = Len(data)
  OBVIOUS
<1>2. m \in Nat \ {0} /\ n \in Nat /\ n <= 3 * m
  <2>1. MaxTlv \in 5 .. Base * Base - 1 /\ Base * Base \in Int
    BY StorageAssumption
  <2>2. MaxTlv \in Int /\ MaxTlv >= 5
    BY <2>1
  <2> QED
    BY <1>1, <2>2, StorageAssumption, LenProperties DEF MAX_DATA_OBJECT_SIZE
<1> DEFINE Start(i) == m * (i - 1)
           End(i) == IF m * i < n THEN m * i ELSE n
<1>3. ASSUME NEW i \in Objects
      PROVE  /\ Chunk(data, i) = SubSeq(data, Start(i) + 1, End(i))
             /\ Start(i) \in Nat /\ End(i) \in 0 .. n /\ (Start(i) <= n => Start(i) <= End(i))
             /\ (Start(i) > n => End(i) = n)
             /\ End(i) - Start(i) <= m
  <2>1. i \in 1 .. 3
    BY DEF Objects
  <2>2. i = 1 \/ i = 2 \/ i = 3
    BY <2>1
  <2> QED
    BY <1>1, <1>2, <2>2 DEF Chunk
<1>4. ASSUME NEW i \in Objects
      PROVE  Chunk(data, i) \in Seq(Byte) /\ Len(Chunk(data, i)) <= m
  <2>1. PICK from, to : from = Start(i) + 1 /\ to = End(i)
    OBVIOUS
  <2>0. PICK start : start = Start(i)
    OBVIOUS
  <2> HIDE DEF Start, End
  <2>2. start \in Nat /\ to \in 0 .. n /\ to - start <= m /\ from = start + 1
        /\ Chunk(data, i) = SubSeq(data, from, to)
    BY <1>3, <2>0, <2>1, Zenon
  <2>5. from \in Int /\ to \in Int /\ (\A j \in from .. to : j \in 1 .. n) /\ to - from + 1 <= m
    BY <1>2, <2>2
  <2>3. \A j \in from .. to : data[j] \in Byte
    BY <1>1, <2>5, ElementOfSeq
  <2>4. SubSeq(data, from, to) \in Seq(Byte)
        /\ Len(SubSeq(data, from, to)) = IF from <= to THEN to - from + 1 ELSE 0
    BY <2>3, <2>5, SubSeqProperties
  <2>6. Len(SubSeq(data, from, to)) <= m
    BY <1>2, <2>4, <2>5
  <2> QED
    BY <2>2, <2>4, <2>6, Zenon
<1>5. PICK one, two : one = End(1) /\ two = End(2)
  OBVIOUS
<1>6. one \in 0 .. n /\ two \in one .. n
  BY <1>2, <1>5
<1>7. Chunk(data, 1) = SubSeq(data, 1, one)
  <2>1. Start(1) = 0 /\ 0 + 1 = 1 /\ 1 \in Objects
    BY <1>2 DEF Objects
  <2> QED
    BY <1>3, <1>5, <2>1
<1>8. Chunk(data, 2) = SubSeq(data, one + 1, two)
  <2>1. 2 \in Objects /\ Start(2) = m /\ one = IF m < n THEN m ELSE n
    BY <1>2, <1>5 DEF Objects
  <2>2. Chunk(data, 2) = SubSeq(data, m + 1, two)
    BY <1>3, <1>5, <2>1
  <2>3. CASE m <= n
    <3>1. one = m
      BY <1>2, <2>1, <2>3
    <3> QED
      BY <2>2, <3>1
  <2>4. CASE m > n
    <3>1. one = n /\ two = n /\ two < m + 1 /\ two < one + 1 /\ m + 1 \in Int /\ one + 1 \in Int /\ two \in Int
      BY <1>2, <1>6, <2>1, <2>4
    <3> QED
      BY <2>2, <3>1, SubSeqEmpty
  <2> QED
    BY <1>2, <2>3, <2>4
<1>9. Chunk(data, 3) = SubSeq(data, two + 1, n)
  <2>1. 3 \in Objects /\ Start(3) = 2 * m /\ two = (IF 2 * m < n THEN 2 * m ELSE n) /\ End(3) = n
    BY <1>2, <1>5 DEF Objects
  <2>2. Chunk(data, 3) = SubSeq(data, 2 * m + 1, n)
    BY <1>3, <2>1
  <2>3. CASE 2 * m <= n
    <3>1. two = 2 * m
      BY <1>2, <2>1, <2>3
    <3> QED
      BY <2>2, <3>1
  <2>4. CASE 2 * m > n
    <3>1. two = n /\ n < 2 * m + 1 /\ n < two + 1 /\ 2 * m + 1 \in Int /\ two + 1 \in Int /\ n \in Int
      BY <1>2, <1>6, <2>1, <2>4
    <3> QED
      BY <2>2, <3>1, SubSeqEmpty
  <2> QED
    BY <1>2, <2>3, <2>4
<1>10. SubSeq(data, 1, one) \o SubSeq(data, one + 1, two) = SubSeq(data, 1, two)
  <2>1. 1 \in 1 .. Len(data) + 1 /\ one \in 1 - 1 .. Len(data) /\ two \in one .. Len(data)
    BY <1>1, <1>2, <1>6
  <2> QED
    BY <2>1, ConcatAdjacentSubSeq
<1>11. SubSeq(data, 1, two) \o SubSeq(data, two + 1, n) = SubSeq(data, 1, n)
  <2>1. 1 \in 1 .. Len(data) + 1 /\ two \in 1 - 1 .. Len(data) /\ n \in two .. Len(data)
    BY <1>1, <1>2, <1>6
  <2> QED
    BY <2>1, ConcatAdjacentSubSeq
<1>12. SubSeq(data, 1, n) = data
  BY <1>1, SubSeqFull
<1> QED
  BY <1>1, <1>4, <1>7, <1>8, <1>9, <1>10, <1>11, <1>12

Apdus == [ins : {"get", "put"}, data : Seq(Byte), chained : BOOLEAN]

\* The APDUs of a command carry its payload; all but the last are chained.
Carry(apdus, ins, pieces) ==
    /\ apdus \in Seq(Apdus) /\ Len(apdus) = Len(pieces) /\ Len(pieces) \in Nat \ {0}
    /\ \A k \in 1 .. Len(pieces) :
          /\ apdus[k].ins = ins
          /\ apdus[k].data = pieces[k]
          /\ apdus[k].chained <=> k < Len(pieces)

LEMMA CommandCarries ==
    ASSUME NEW ins \in {"get", "put"}, NEW payload \in Seq(Byte)
    PROVE  Carry(Command(ins, payload), ins, Pieces(payload, MAX_COMMAND_APDU_DATA_LENGTH))
<1>1. PICK pieces, size : pieces = Pieces(payload, size) /\ size = MAX_COMMAND_APDU_DATA_LENGTH
  OBVIOUS
<1>2. pieces \in Seq(Seq(Byte)) /\ Len(pieces) >= 1
  <2>1. MakeTheWhole(pieces, payload, size)
    BY <1>1, StorageAssumption, PiecesMakeTheWhole
  <2> QED
    BY <2>1 DEF MakeTheWhole
<1>3. Len(pieces) \in Nat \ {0} /\ DOMAIN pieces = 1 .. Len(pieces)
  BY <1>2, LenProperties
<1>4. PICK apdus : apdus = [i \in DOMAIN pieces |-> [ins |-> ins, data |-> pieces[i], chained |-> i < Len(pieces)]]
  OBVIOUS
<1>5. Command(ins, payload) = apdus
  BY <1>1, <1>4 DEF Command
<1>6. ASSUME NEW k \in 1 .. Len(pieces)
      PROVE  /\ apdus[k] \in Apdus /\ apdus[k].ins = ins /\ apdus[k].data = pieces[k]
             /\ apdus[k].chained <=> k < Len(pieces)
  <2>1. pieces[k] \in Seq(Byte)
    BY <1>2, ElementOfSeq
  <2>2. PICK more \in BOOLEAN : more <=> k < Len(pieces)
    OBVIOUS
  <2>3. apdus[k] = [ins |-> ins, data |-> pieces[k], chained |-> more]
    BY <1>3, <1>4, <2>2
  <2> QED
    BY <2>1, <2>2, <2>3 DEF Apdus
<1>7. apdus \in Seq(Apdus) /\ Len(apdus) = Len(pieces)
  <2>1. DOMAIN apdus = 1 .. Len(pieces)
    BY <1>3, <1>4
  <2>2. \A k \in 1 .. Len(pieces) : apdus[k] \in Apdus
    BY <1>6
  <2> QED
    BY <1>3, <1>4, <2>1, <2>2
<1>8. Carry(apdus, ins, pieces)
  BY <1>3, <1>6, <1>7 DEF Carry
<1> QED
  BY <1>1, <1>5, <1>8

\* A data object is asked for with one APDU.
LEMMA GetDataIsOneApdu ==
    ASSUME NEW id \in Objects
    PROVE  /\ GetData(id) \in Seq(Apdus) /\ GetData(id) # <<>>
           /\ Head(GetData(id)).ins = "get" /\ Head(GetData(id)).data = <<id>>
           /\ ~Head(GetData(id)).chained
<1>1. PICK payload, size : payload = <<id>> /\ size = MAX_COMMAND_APDU_DATA_LENGTH
  OBVIOUS
<1>2. payload \in Seq(Byte) /\ Len(payload) = 1 /\ size \in Nat \ {0}
  <2>1. id \in Byte
    BY StorageAssumption DEF Objects, Byte
  <2> QED
    BY <1>1, <2>1, StorageAssumption
<1>3. PICK pieces : pieces = Pieces(payload, size)
  OBVIOUS
<1>4. Len(pieces) = 1
  <2>1. (Len(payload) + size - 1) \div size = 1
    <3>1. Len(payload) + size - 1 = size
      BY <1>2
    <3>2. PICK q : q = size \div size
      OBVIOUS
    <3>3. q \in Nat /\ size = q * size + (size % size) /\ size % size \in 0 .. size - 1
      BY <1>2, <3>2, Quotient
    <3>4. q # 0
      BY <1>2, <3>3
    <3>5. q < 2
      <4>1. CASE q >= 2
        <5>1. 2 * size <= q * size /\ q * size \in Nat
          BY <1>2, <3>3, <4>1, TimesGrows
        <5> QED
          BY <1>2, <3>3, <5>1
      <4> QED
        BY <3>3, <4>1
    <3> QED
      BY <3>1, <3>2, <3>3, <3>4, <3>5
  <2>2. pieces = [i \in 1 .. 1 |-> SubSeq(payload, (i - 1) * size + 1, Cut(payload, size, i))]
    BY <1>3, <2>1 DEF Pieces, Cut
  <2> QED
    BY <2>2
<1>5. /\ pieces \in Seq(Seq(Byte))
      /\ SubSeq(payload, 1, Cut(payload, size, 0)) \o pieces[1] = SubSeq(payload, 1, Cut(payload, size, 1))
      /\ SubSeq(payload, 1, Cut(payload, size, 0)) = <<>>
      /\ SubSeq(payload, 1, Cut(payload, size, 1)) = payload
  <2>1. 1 \in 1 .. Len(pieces) /\ 1 - 1 = 0
    BY <1>4
  <2>2. MakeTheWhole(pieces, payload, size)
    BY <1>2, <1>3, PiecesMakeTheWhole
  <2>3. SubSeq(payload, 1, Cut(payload, size, 1 - 1)) \o pieces[1] = SubSeq(payload, 1, Cut(payload, size, 1))
    BY <2>1, <2>2 DEF MakeTheWhole
  <2>4. pieces \in Seq(Seq(Byte)) /\ SubSeq(payload, 1, Cut(payload, size, 0)) = <<>>
        /\ SubSeq(payload, 1, Cut(payload, size, Len(pieces))) = payload
    BY <2>2 DEF MakeTheWhole
  <2>5. SubSeq(payload, 1, Cut(payload, size, 1)) = payload
    BY <1>4, <2>4, Zenon
  <2>6. SubSeq(payload, 1, Cut(payload, size, 0)) \o pieces[1] = SubSeq(payload, 1, Cut(payload, size, 1))
    BY <2>1, <2>3, Zenon
  <2> QED
    BY <2>4, <2>5, <2>6
<1>6. pieces[1] = payload
  <2>1. pieces[1] \in Seq(Byte)
    BY <1>4, <1>5, ElementOfSeq
  <2>2. <<>> \o pieces[1] = payload
    BY <1>5, Zenon
  <2>3. <<>> \o pieces[1] = pieces[1]
    BY <2>1, ConcatEmptySeq
  <2> QED
    BY <2>2, <2>3, Zenon
<1>7. PICK apdus : apdus = Command("get", payload)
  OBVIOUS
<1>8. apdus \in Seq(Apdus) /\ Len(apdus) = 1 /\ apdus[1].ins = "get" /\ apdus[1].data = payload /\ ~apdus[1].chained
  <2>1. Carry(apdus, "get", pieces)
    BY <1>1, <1>2, <1>3, <1>7, CommandCarries
  <2>2. 1 \in 1 .. Len(pieces) /\ ~(1 < Len(pieces))
    BY <1>4
  <2>3. /\ apdus \in Seq(Apdus) /\ Len(apdus) = Len(pieces) /\ apdus[1].ins = "get"
        /\ apdus[1].data = pieces[1] /\ (apdus[1].chained <=> 1 < Len(pieces))
    BY <2>1, <2>2 DEF Carry
  <2> QED
    BY <1>4, <1>6, <2>2, <2>3
<1>9. apdus # <<>> /\ Head(apdus) = apdus[1]
  BY <1>8
<1> QED
  BY <1>1, <1>7, <1>8, <1>9 DEF GetData

PutPayload(i, data) == <<i>> \o ConstructTlv(Chunk(data, i))

\* Of the APDUs that store the part i of data, what is to come and what was sent.
WriteUnderWay(i, data, apdus, sent) ==
    LET payload == PutPayload(i, data)  full == PutData(i, Chunk(data, i)) IN
    \E k \in 1 .. Len(full) :
        /\ apdus = SubSeq(full, k, Len(full))
        /\ sent = SubSeq(payload, 1, Cut(payload, MAX_COMMAND_APDU_DATA_LENGTH, k - 1))

\* Of the answer to a command that fetches value, what is to come and what is here.
ReadUnderWay(value, got, rest) ==
    LET tlv == ConstructTlv(value)  pieces == Pieces(tlv, MAX_RESPONSE_APDU_DATA_LENGTH) IN
    \E k \in 1 .. Len(pieces) :
        /\ got = SubSeq(tlv, 1, Cut(tlv, MAX_RESPONSE_APDU_DATA_LENGTH, k))
        /\ rest = SubSeq(pieces, k + 1, Len(pieces))

\* What is stored in an object fits into a TLV of the card.
LEMMA ObjectsFit ==
    ASSUME NEW value \in Seq(Byte), Len(value) <= MAX_DATA_OBJECT_SIZE
    PROVE  /\ Len(value) < Base * Base
           /\ ConstructTlv(value) \in Seq(Byte) /\ ConstructTlv(value) # <<>>
           /\ Len(ConstructTlv(value)) <= MaxTlv
           /\ ParseTlv(ConstructTlv(value)) = value /\ TlvValue(ConstructTlv(value)) = value
<1>1. MaxTlv \in 5 .. Base * Base - 1 /\ Base * Base \in Int
  BY StorageAssumption
<1>2. Len(value) \in Nat /\ Len(value) <= MaxTlv - 4 /\ MaxTlv \in Int /\ MaxTlv < Base * Base
  BY <1>1, LenProperties DEF MAX_DATA_OBJECT_SIZE
<1>3. Len(value) < Base * Base
  BY <1>1, <1>2
<1>4. /\ ConstructTlv(value) \in Seq(Byte) /\ ConstructTlv(value) # <<>>
      /\ Len(ConstructTlv(value)) <= Len(value) + 4
      /\ ParseTlv(ConstructTlv(value)) = value /\ TlvValue(ConstructTlv(value)) = value
  BY <1>3, TlvRoundTrip
<1>5. Len(ConstructTlv(value)) \in Nat
  BY <1>4, LenProperties
<1> QED
  BY <1>2, <1>3, <1>4, <1>5

\* The APDUs of a write: each has its piece of the payload, all but the last are chained.
PayloadIs(payload, i, tlv) == payload \in Seq(Byte) /\ payload[1] = i /\ Tail(payload) = tlv

PutInPieces(full, payload, size) ==
    /\ full \in Seq(Apdus) /\ Len(full) \in Nat \ {0}
    /\ \A k \in 1 .. Len(full) :
          /\ full[k].ins = "put" /\ (full[k].chained <=> k < Len(full))
          /\ full[k].data \in Seq(Byte)
          /\ SubSeq(payload, 1, Cut(payload, size, k - 1)) \o full[k].data
                = SubSeq(payload, 1, Cut(payload, size, k))
    /\ SubSeq(payload, 1, Cut(payload, size, 0)) = <<>>
    /\ SubSeq(payload, 1, Cut(payload, size, Len(full))) = payload

LEMMA PutApdus ==
    ASSUME NEW i \in Objects, NEW data \in Seq(Byte), Len(data) <= CAPACITY
    PROVE  /\ PayloadIs(PutPayload(i, data), i, ConstructTlv(Chunk(data, i)))
           /\ PutInPieces(PutData(i, Chunk(data, i)), PutPayload(i, data), MAX_COMMAND_APDU_DATA_LENGTH)
<1>1. PICK tlv, first, payload, size :
        /\ tlv = ConstructTlv(Chunk(data, i)) /\ first = <<i>> /\ payload = first \o tlv
        /\ size = MAX_COMMAND_APDU_DATA_LENGTH
  OBVIOUS
<1>2. tlv \in Seq(Byte) /\ tlv # <<>>
  BY <1>1, ChunksMakeTheData, ObjectsFit
<1>3. first \in Seq(Byte) /\ Len(first) = 1 /\ first[1] = i
  <2>1. i \in Byte
    BY StorageAssumption DEF Objects, Byte
  <2> QED
    BY <1>1, <2>1
<1>4. payload \in Seq(Byte) /\ Len(payload) = 1 + Len(tlv) /\ Len(tlv) \in Nat /\ payload[1] = i
      /\ \A j \in 1 .. Len(tlv) : payload[j + 1] = tlv[j]
  <2>1. /\ payload \in Seq(Byte) /\ Len(payload) = Len(first) + Len(tlv)
        /\ \A j \in 1 .. Len(first) + Len(tlv) :
              payload[j] = IF j <= Len(first) THEN first[j] ELSE tlv[j - Len(first)]
    BY <1>1, <1>2, <1>3, ConcatProperties
  <2>2. Len(tlv) \in Nat
    BY <1>2, LenProperties
  <2>3. payload[1] = i
    BY <1>3, <2>1, <2>2
  <2>4. ASSUME NEW j \in 1 .. Len(tlv) PROVE payload[j + 1] = tlv[j]
    <3>1. j + 1 \in 1 .. Len(first) + Len(tlv) /\ ~(j + 1 <= Len(first)) /\ (j + 1) - Len(first) = j
      BY <1>3, <2>2
    <3> QED
      BY <2>1, <3>1
  <2> QED
    BY <1>3, <2>1, <2>2, <2>3, <2>4
<1>5. Tail(payload) = tlv
  <2>1. payload # <<>>
    BY <1>4
  <2>2. Tail(payload) \in Seq(Byte) /\ Len(Tail(payload)) = Len(tlv)
        /\ \A j \in 1 .. Len(tlv) : Tail(payload)[j] = payload[j + 1]
    BY <1>4, <2>1, HeadTailProperties
  <2> QED
    BY <1>2, <1>4, <2>2, SeqEqual
<1>6. PICK full, pieces : full = Command("put", payload) /\ pieces = Pieces(payload, size)
  OBVIOUS
<1>7. /\ full \in Seq(Apdus) /\ Len(full) = Len(pieces) /\ Len(pieces) \in Nat \ {0}
      /\ \A k \in 1 .. Len(pieces) :
            full[k].ins = "put" /\ full[k].data = pieces[k] /\ (full[k].chained <=> k < Len(pieces))
  <2>1. "put" \in {"get", "put"} /\ pieces = Pieces(payload, MAX_COMMAND_APDU_DATA_LENGTH)
    BY <1>1, <1>6
  <2>2. PICK ins : ins = "put"
    OBVIOUS
  <2>3. full = Command(ins, payload) /\ ins \in {"get", "put"}
    BY <1>6, <2>2
  <2>4. Carry(full, ins, pieces)
    BY <1>4, <2>1, <2>3, CommandCarries
  <2> QED
    BY <2>2, <2>4 DEF Carry
<1>8. size \in Nat \ {0}
  BY <1>1, StorageAssumption
<1>9. /\ pieces \in Seq(Seq(Byte))
      /\ \A k \in 1 .. Len(pieces) :
            SubSeq(payload, 1, Cut(payload, size, k - 1)) \o pieces[k] = SubSeq(payload, 1, Cut(payload, size, k))
      /\ SubSeq(payload, 1, Cut(payload, size, 0)) = <<>>
      /\ SubSeq(payload, 1, Cut(payload, size, Len(pieces))) = payload
  <2>1. MakeTheWhole(pieces, payload, size)
    BY <1>4, <1>6, <1>8, PiecesMakeTheWhole
  <2> QED
    BY <2>1 DEF MakeTheWhole
<1>10. \A k \in 1 .. Len(pieces) : pieces[k] \in Seq(Byte)
  BY <1>9, ElementOfSeq
<1>11. PutPayload(i, data) = payload /\ PutData(i, Chunk(data, i)) = full
  BY <1>1, <1>6 DEF PutPayload, PutData
<1>12. PayloadIs(payload, i, tlv)
  BY <1>4, <1>5 DEF PayloadIs
<1>13. ASSUME NEW k \in 1 .. Len(full)
       PROVE  /\ full[k].ins = "put" /\ (full[k].chained <=> k < Len(full))
              /\ full[k].data = pieces[k] /\ full[k].data \in Seq(Byte)
  BY <1>7, <1>10
<1>14. ASSUME NEW k \in 1 .. Len(full)
       PROVE  SubSeq(payload, 1, Cut(payload, size, k - 1)) \o full[k].data = SubSeq(payload, 1, Cut(payload, size, k))
  <2>1. k \in 1 .. Len(pieces)
    BY <1>7
  <2>2. SubSeq(payload, 1, Cut(payload, size, k - 1)) \o pieces[k] = SubSeq(payload, 1, Cut(payload, size, k))
    BY <1>9, <2>1, Zenon
  <2> QED
    BY <1>13, <2>2, Zenon
<1>15. SubSeq(payload, 1, Cut(payload, size, Len(full))) = payload
  BY <1>7, <1>9, Zenon
<1>16. full \in Seq(Apdus) /\ Len(full) \in Nat \ {0} /\ SubSeq(payload, 1, Cut(payload, size, 0)) = <<>>
  BY <1>7, <1>9
<1>17. PutInPieces(full, payload, size)
  BY <1>13, <1>14, <1>15, <1>16, Zenon DEF PutInPieces
<1> QED
  BY <1>1, <1>11, <1>12, <1>17, Zenon

LEMMA WriteStarts ==
    ASSUME NEW i \in Objects, NEW data \in Seq(Byte), Len(data) <= CAPACITY
    PROVE  /\ WriteUnderWay(i, data, PutData(i, Chunk(data, i)), <<>>)
           /\ PutData(i, Chunk(data, i)) \in Seq(Apdus)
<1>1. PICK full, payload : full = PutData(i, Chunk(data, i)) /\ payload = PutPayload(i, data)
  OBVIOUS
<1>2. /\ full \in Seq(Apdus) /\ Len(full) \in Nat \ {0}
      /\ SubSeq(payload, 1, Cut(payload, MAX_COMMAND_APDU_DATA_LENGTH, 0)) = <<>>
  BY <1>1, PutApdus DEF PutInPieces
<1>3. SubSeq(full, 1, Len(full)) = full /\ 1 \in 1 .. Len(full) /\ 1 - 1 = 0
  BY <1>2, SubSeqFull
<1>4. SubSeq(payload, 1, Cut(payload, MAX_COMMAND_APDU_DATA_LENGTH, 1 - 1)) = <<>>
  BY <1>2, <1>3
<1> QED
  BY <1>1, <1>2, <1>3, <1>4 DEF WriteUnderWay

LEMMA WriteGoesOn ==
    ASSUME NEW i \in Objects, NEW data \in Seq(Byte), Len(data) <= CAPACITY,
           NEW apdus, NEW sent, WriteUnderWay(i, data, apdus, sent)
    PROVE  /\ apdus # <<>> /\ Head(apdus).ins = "put"
           /\ Head(apdus).chained =>
                 /\ Tail(apdus) \in Seq(Apdus) /\ sent \o Head(apdus).data \in Seq(Byte)
                 /\ WriteUnderWay(i, data, Tail(apdus), sent \o Head(apdus).data)
           /\ ~Head(apdus).chained => sent \o Head(apdus).data = PutPayload(i, data)
<1>1. PICK full, payload, size : full = PutData(i, Chunk(data, i)) /\ payload = PutPayload(i, data)
                                 /\ size = MAX_COMMAND_APDU_DATA_LENGTH
  OBVIOUS
<1>2. PICK k \in 1 .. Len(full) :
        apdus = SubSeq(full, k, Len(full)) /\ sent = SubSeq(payload, 1, Cut(payload, size, k - 1))
  BY <1>1 DEF WriteUnderWay
<1>3. /\ payload \in Seq(Byte) /\ full \in Seq(Apdus) /\ Len(full) \in Nat \ {0}
      /\ full[k].ins = "put" /\ (full[k].chained <=> k < Len(full)) /\ full[k].data \in Seq(Byte)
      /\ SubSeq(payload, 1, Cut(payload, size, k - 1)) \o full[k].data = SubSeq(payload, 1, Cut(payload, size, k))
      /\ SubSeq(payload, 1, Cut(payload, size, Len(full))) = payload
  <2>1. PutInPieces(full, payload, size) /\ PayloadIs(payload, i, ConstructTlv(Chunk(data, i)))
    BY <1>1, PutApdus
  <2> QED
    BY <2>1, Zenon DEF PutInPieces, PayloadIs
<1>4. Head(apdus) = full[k] /\ Tail(apdus) = SubSeq(full, k + 1, Len(full))
  <2>1. k \in 1 .. Len(full) /\ Len(full) \in k .. Len(full)
    BY <1>3
  <2> QED
    BY <1>2, <1>3, <2>1, HeadTailOfSubSeq
<1>5. Len(apdus) > 0 /\ Tail(apdus) \in Seq(Apdus)
  <2>1. k \in Int /\ Len(full) \in Int /\ (\A j \in k .. Len(full) : full[j] \in Apdus)
        /\ k + 1 \in Int /\ (\A j \in k + 1 .. Len(full) : full[j] \in Apdus) /\ k <= Len(full)
    BY <1>3, ElementOfSeq
  <2>2. Len(SubSeq(full, k, Len(full))) = Len(full) - k + 1
    BY <2>1, SubSeqProperties
  <2>3. SubSeq(full, k + 1, Len(full)) \in Seq(Apdus)
    BY <2>1, SubSeqProperties
  <2>4. Len(full) - k + 1 > 0
    BY <1>3
  <2>5. Len(apdus) > 0
    BY <1>2, <2>2, <2>4
  <2> QED
    BY <1>4, <2>3, <2>5
<1>6. apdus # <<>>
  BY <1>5
<1>7. sent \o Head(apdus).data = SubSeq(payload, 1, Cut(payload, size, k))
  BY <1>2, <1>3, <1>4
<1>8. CASE k < Len(full)
  <2>1. k + 1 \in 1 .. Len(full) /\ (k + 1) - 1 = k
    BY <1>3, <1>8
  <2>2. sent \o Head(apdus).data = SubSeq(payload, 1, Cut(payload, size, (k + 1) - 1))
    BY <1>7, <2>1
  <2>3. WriteUnderWay(i, data, Tail(apdus), sent \o Head(apdus).data)
    BY <1>1, <1>4, <2>1, <2>2 DEF WriteUnderWay
  <2>4. SubSeq(payload, 1, Cut(payload, size, k)) \in Seq(Byte)
    <3>1. PICK to : to = Cut(payload, size, k)
      OBVIOUS
    <3>2. to \in Int /\ \A j \in 1 .. to : j \in 1 .. Len(payload)
      <4>1. size \in Nat /\ k \in Nat /\ Len(payload) \in Nat /\ k * size \in Nat
        BY <1>1, <1>3, StorageAssumption, LenProperties
      <4> QED
        BY <3>1, <4>1 DEF Cut
    <3>3. \A j \in 1 .. to : payload[j] \in Byte
      BY <1>3, <3>2, ElementOfSeq
    <3> QED
      BY <3>1, <3>2, <3>3, SubSeqProperties
  <2> QED
    BY <1>3, <1>4, <1>5, <1>6, <1>7, <1>8, <2>3, <2>4
<1>9. CASE k = Len(full)
  <2>1. ~(k < Len(full)) /\ sent \o Head(apdus).data = payload
    <3>1. SubSeq(payload, 1, Cut(payload, size, k)) = payload
      BY <1>3, <1>9, Zenon
    <3>2. ~(k < Len(full))
      BY <1>3, <1>9
    <3> QED
      BY <1>7, <3>1, <3>2
  <2>2. ~Head(apdus).chained /\ Head(apdus).ins = "put"
    BY <1>3, <1>4, <2>1, Zenon
  <2>3. sent \o Head(apdus).data = PutPayload(i, data)
    BY <1>1, <2>1, Zenon
  <2> QED
    BY <1>6, <2>2, <2>3, Zenon
<1>10. k < Len(full) \/ k = Len(full)
  BY <1>3
<1> QED
  BY <1>8, <1>9, <1>10, Zenon

LEMMA WriteEnds ==
    ASSUME NEW i \in Objects, NEW data \in Seq(Byte), Len(data) <= CAPACITY,
           NEW command, command = PutPayload(i, data)
    PROVE  /\ command[1] = i /\ Len(Tail(command)) <= MaxTlv
           /\ TlvValue(Tail(command)) = Chunk(data, i)
<1>1. command[1] = i /\ Tail(command) = ConstructTlv(Chunk(data, i))
  <2>1. PayloadIs(command, i, ConstructTlv(Chunk(data, i)))
    BY PutApdus
  <2> QED
    BY <2>1 DEF PayloadIs
<1>2. Chunk(data, i) \in Seq(Byte) /\ Len(Chunk(data, i)) <= MAX_DATA_OBJECT_SIZE
  BY ChunksMakeTheData
<1> QED
  BY <1>1, <1>2, ObjectsFit

\* The answer to a command that fetches comes in pieces, and the last one makes it whole.
LEMMA ReadStarts ==
    ASSUME NEW value \in Seq(Byte), Len(value) <= MAX_DATA_OBJECT_SIZE,
           NEW all, all = Pieces(ConstructTlv(value), MAX_RESPONSE_APDU_DATA_LENGTH)
    PROVE  all[1] \in Seq(Byte) /\ ReadUnderWay(value, all[1], Tail(all))
<1>1. PICK tlv, size, pieces : /\ tlv = ConstructTlv(value) /\ size = MAX_RESPONSE_APDU_DATA_LENGTH
                               /\ pieces = Pieces(tlv, size)
  OBVIOUS
<1>0. pieces = all
  BY <1>1
<1>2. tlv \in Seq(Byte) /\ size \in Nat \ {0}
  BY <1>1, ObjectsFit, StorageAssumption
<1>3. /\ pieces \in Seq(Seq(Byte)) /\ Len(pieces) >= 1
      /\ \A k \in 1 .. Len(pieces) :
            SubSeq(tlv, 1, Cut(tlv, size, k - 1)) \o pieces[k] = SubSeq(tlv, 1, Cut(tlv, size, k))
      /\ SubSeq(tlv, 1, Cut(tlv, size, 0)) = <<>>
  <2>1. MakeTheWhole(pieces, tlv, size)
    BY <1>1, <1>2, PiecesMakeTheWhole
  <2> QED
    BY <2>1 DEF MakeTheWhole
<1>4. 1 \in 1 .. Len(pieces) /\ 1 - 1 = 0 /\ pieces # <<>>
  BY <1>3, LenProperties
<1>5. pieces[1] \in Seq(Byte)
  BY <1>3, <1>4, ElementOfSeq
<1>6. pieces[1] = SubSeq(tlv, 1, Cut(tlv, size, 1))
  <2>1. SubSeq(tlv, 1, Cut(tlv, size, 1 - 1)) \o pieces[1] = SubSeq(tlv, 1, Cut(tlv, size, 1))
    BY <1>3, <1>4
  <2>2. SubSeq(tlv, 1, Cut(tlv, size, 1 - 1)) = <<>>
    BY <1>3, <1>4
  <2> QED
    BY <1>5, <2>1, <2>2, ConcatEmptySeq
<1>7. Tail(pieces) = SubSeq(pieces, 1 + 1, Len(pieces))
  BY <1>3, <1>4, TailIsSubSeq
<1> QED
  BY <1>0, <1>1, <1>4, <1>5, <1>6, <1>7 DEF ReadUnderWay

LEMMA ReadGoesOn ==
    ASSUME NEW value \in Seq(Byte), Len(value) <= MAX_DATA_OBJECT_SIZE,
           NEW got \in Seq(Byte), NEW rest, ReadUnderWay(value, got, rest)
    PROVE  /\ rest = <<>> => ParseTlv(got) = value
           /\ rest # <<>> => /\ got \o Head(rest) \in Seq(Byte)
                             /\ ReadUnderWay(value, got \o Head(rest), Tail(rest))
<1>1. PICK tlv, size, pieces : /\ tlv = ConstructTlv(value) /\ size = MAX_RESPONSE_APDU_DATA_LENGTH
                               /\ pieces = Pieces(tlv, size)
  OBVIOUS
<1>2. tlv \in Seq(Byte) /\ size \in Nat \ {0} /\ ParseTlv(tlv) = value
  BY <1>1, ObjectsFit, StorageAssumption
<1>3. /\ pieces \in Seq(Seq(Byte)) /\ Len(pieces) >= 1
      /\ \A k \in 1 .. Len(pieces) :
            SubSeq(tlv, 1, Cut(tlv, size, k - 1)) \o pieces[k] = SubSeq(tlv, 1, Cut(tlv, size, k))
      /\ SubSeq(tlv, 1, Cut(tlv, size, Len(pieces))) = tlv
  <2>1. MakeTheWhole(pieces, tlv, size)
    BY <1>1, <1>2, PiecesMakeTheWhole
  <2> QED
    BY <2>1 DEF MakeTheWhole
<1>4. PICK k \in 1 .. Len(pieces) :
        got = SubSeq(tlv, 1, Cut(tlv, size, k)) /\ rest = SubSeq(pieces, k + 1, Len(pieces))
  BY <1>1 DEF ReadUnderWay
<1>5. Len(pieces) \in Nat
  BY <1>3, LenProperties
<1>6. CASE k = Len(pieces)
  <2>1. rest = <<>>
    <3>1. k + 1 \in Int /\ Len(pieces) \in Int /\ Len(pieces) < k + 1
      BY <1>5, <1>6
    <3> QED
      BY <1>4, <3>1, SubSeqEmpty
  <2>2. SubSeq(tlv, 1, Cut(tlv, size, k)) = tlv
    BY <1>3, <1>6, Zenon
  <2> QED
    BY <1>2, <1>4, <2>1, <2>2
<1>7. CASE k < Len(pieces)
  <2>1. PICK next : next = k + 1
    OBVIOUS
  <2>2. next \in 1 .. Len(pieces) /\ next - 1 = k /\ Len(pieces) \in next .. Len(pieces)
    BY <1>5, <1>7, <2>1
  <2>3. Head(rest) = pieces[next] /\ Tail(rest) = SubSeq(pieces, next + 1, Len(pieces))
    BY <1>3, <1>4, <2>1, <2>2, HeadTailOfSubSeq
  <2>4. rest # <<>>
    <3>1. next \in Int /\ Len(pieces) \in Int /\ next <= Len(pieces) /\ Len(pieces) - next + 1 > 0
          /\ \A j \in next .. Len(pieces) : pieces[j] \in Seq(Byte)
      BY <1>3, <2>2, ElementOfSeq
    <3>2. Len(SubSeq(pieces, next, Len(pieces))) = Len(pieces) - next + 1
      BY <3>1, SubSeqProperties
    <3>3. Len(rest) > 0
      BY <1>4, <2>1, <3>1, <3>2
    <3> QED
      BY <3>3
  <2>5. pieces[next] \in Seq(Byte)
    BY <1>3, <2>2, ElementOfSeq
  <2>6. SubSeq(tlv, 1, Cut(tlv, size, next - 1)) \o pieces[next] = SubSeq(tlv, 1, Cut(tlv, size, next))
    BY <1>3, <2>2
  <2>7. got \o pieces[next] = SubSeq(tlv, 1, Cut(tlv, size, next))
    BY <1>4, <2>2, <2>6
  <2>8. got \o pieces[next] \in Seq(Byte)
    BY <2>5, ConcatProperties
  <2> QED
    BY <1>1, <2>2, <2>3, <2>4, <2>7, <2>8 DEF ReadUnderWay
<1> QED
  BY <1>5, <1>6, <1>7

StorageCalls == [kind : {"idle", "writeCardData", "clearCardData", "readCardData"},
                 step : {"none", "write", "read", "over"},
                 data : Seq(Byte), i : 0 .. 3, apdus : Seq(Apdus), got : Seq(Byte),
                 answer : {"none", "ok", "garbled", "error", "refused"}, read : Seq(Byte)]

StorageTypeOK ==
    /\ object \in [Objects -> Seq(Byte)]
    /\ \A i \in Objects : Len(object[i]) <= MAX_DATA_OBJECT_SIZE
    /\ chain \in Seq(Byte)
    /\ op \in StorageCalls

\* A call is for a document, or for nothing; it is answered when it is over.
CallIsForADocument ==
    /\ op.kind = "writeCardData" => op.data \in Documents
    /\ op.kind # "writeCardData" => op.data = <<>>
    /\ op.answer # "none" => op.step = "over"
    /\ Sending => op.kind # "idle" /\ op.i \in Objects

\* The parts of the data before the one that is written are on the card.
WritingGoesOn ==
    op.step = "write" =>
        /\ op.kind # "readCardData" /\ Len(op.data) <= CAPACITY
        /\ \A j \in Objects : j < op.i => object[j] = Chunk(op.data, j)
        /\ present => WriteUnderWay(op.i, op.data, op.apdus, chain)

\* What is stored in the objects before i.
StoredBefore(i) == IF i = 1 THEN <<>> ELSE IF i = 2 THEN object[1] ELSE object[1] \o object[2]

\* A writer reads what it has written.
ReadingGoesOn ==
    op.step = "read" =>
        /\ op.kind \in {"readCardData", "writeCardData"}
        /\ op.kind = "writeCardData" => Stored = op.data
        /\ op.read = StoredBefore(op.i)
        /\ present => \/ op.apdus = GetData(op.i)
                      \/ op.apdus = <<>> /\ ReadUnderWay(object[op.i], op.got, response)

\* The card holds half a command only while one is written to it.
ChainIsOfTheCall == (present /\ op.step = "write") \/ chain = <<>>

StorageInvariant ==
    /\ StorageTypeOK /\ CallIsForADocument /\ WritingGoesOn /\ ReadingGoesOn /\ ChainIsOfTheCall
    /\ DocumentsAreWhole

LEMMA NothingIsSequence == <<>> \in Seq(Byte) /\ <<>> \in Seq(Apdus) /\ Len(<<>>) = 0
OBVIOUS

LEMMA SomethingFits == CAPACITY \in Nat /\ MAX_DATA_OBJECT_SIZE \in Nat \ {0}
<1>1. MaxTlv \in 5 .. Base * Base - 1 /\ Base * Base \in Int
  BY StorageAssumption
<1>2. MaxTlv \in Int /\ MaxTlv >= 5
  BY <1>1
<1> QED
  BY <1>2, StorageAssumption DEF MAX_DATA_OBJECT_SIZE

\* A call that is answered, unless it is said to be done.
LEMMA ReturnKeepsStorage ==
    ASSUME StorageTypeOK, CallIsForADocument, NEW o \in StorageCalls, o.kind = op.kind, o.data = op.data,
           NEW answer \in {"ok", "garbled", "error"}, op' = Return(o, answer),
           object' = object, chain' = <<>>,
           answer = "ok" /\ o.kind # "readCardData" => Stored = o.data,
           answer = "garbled" => o.kind = "readCardData",
           answer \in {"ok", "garbled"} /\ o.kind = "readCardData" => o.read = Stored
    PROVE  StorageInvariant'
<1>1. op' \in StorageCalls
  BY NothingIsSequence DEF Return, StorageCalls
<1>2. op'.kind = op.kind /\ op'.data = op.data /\ op'.step = "over" /\ op'.answer = answer /\ op'.read = o.read
  BY DEF Return, StorageCalls
<1>3. Stored' = Stored
  BY DEF Stored
<1>4. StorageTypeOK'
  BY <1>1, NothingIsSequence DEF StorageTypeOK
<1>5. CallIsForADocument'
  BY <1>2 DEF CallIsForADocument, Sending
<1>6. DocumentsAreWhole'
  BY <1>2, <1>3 DEF DocumentsAreWhole, DoneIsStored, ReadIsStored
<1> QED
  BY <1>2, <1>4, <1>5, <1>6 DEF StorageInvariant, WritingGoesOn, ReadingGoesOn, ChainIsOfTheCall

\* A call that goes on reading, from object i.
LEMMA ReadFromKeepsStorage ==
    ASSUME StorageTypeOK', CallIsForADocument, NEW o \in StorageCalls, o.kind = op.kind, o.data = op.data,
           o.answer = "none", o.kind \in {"readCardData", "writeCardData"},
           NEW i \in Objects, op' = ReadFrom(o, i), chain' = <<>>,
           o.kind = "writeCardData" => Stored' = o.data,
           i = 1 \/ o.read = StoredBefore(i)'
    PROVE  StorageInvariant'
<1>1. op'.kind = op.kind /\ op'.data = op.data /\ op'.step = "read" /\ op'.answer = "none" /\ op'.i = i
      /\ op'.apdus = GetData(i) /\ op'.read = (IF i = 1 THEN <<>> ELSE o.read)
  BY DEF ReadFrom, StorageCalls
<1>2. CallIsForADocument'
  BY <1>1 DEF CallIsForADocument, Sending
<1>3. op'.read = StoredBefore(i)'
  BY <1>1 DEF StoredBefore
<1>4. ReadingGoesOn'
  <2>1. op'.i = i /\ op'.apdus = GetData(i) /\ op'.kind \in {"readCardData", "writeCardData"}
        /\ (op'.kind = "writeCardData" => Stored' = op'.data)
    BY <1>1
  <2>2. op'.read = StoredBefore(op.i)'
    BY <1>1, <1>3 DEF StoredBefore
  <2>3. op'.apdus = GetData(op.i)'
    BY <2>1 DEF GetData, Command
  <2> QED
    BY <2>1, <2>2, <2>3 DEF ReadingGoesOn
<1>5. DocumentsAreWhole'
  BY <1>1 DEF DocumentsAreWhole, DoneIsStored, ReadIsStored
<1> QED
  BY <1>1, <1>2, <1>4, <1>5 DEF StorageInvariant, WritingGoesOn, ChainIsOfTheCall

LEMMA ReadFromIsACall ==
    ASSUME NEW o \in StorageCalls, NEW i \in Objects PROVE ReadFrom(o, i) \in StorageCalls
<1>1. PICK apdus, read : apdus = GetData(i) /\ read = IF i = 1 THEN <<>> ELSE o.read
  OBVIOUS
<1>2. apdus \in Seq(Apdus) /\ read \in Seq(Byte) /\ i \in 0 .. 3
  BY <1>1, GetDataIsOneApdu, NothingIsSequence DEF Objects, StorageCalls
<1>3. ReadFrom(o, i) = [o EXCEPT !.step = "read", !.i = i, !.apdus = apdus, !.got = <<>>, !.read = read]
  BY <1>1 DEF ReadFrom
<1>4. PICK step, got : step = "read" /\ got = <<>>
  OBVIOUS
<1>5. ReadFrom(o, i) = [o EXCEPT !.step = step, !.i = i, !.apdus = apdus, !.got = got, !.read = read]
  BY <1>3, <1>4
<1>6. step \in {"none", "write", "read", "over"} /\ got \in Seq(Byte)
  BY <1>4, NothingIsSequence
<1> QED
  BY <1>2, <1>5, <1>6 DEF StorageCalls

\* A call that goes on writing, the part i.
LEMMA WriteFromKeepsStorage ==
    ASSUME CallIsForADocument, NEW o \in StorageCalls, o.kind = op.kind, o.data = op.data,
           object' \in [Objects -> Seq(Byte)], \A j \in Objects : Len(object'[j]) <= MAX_DATA_OBJECT_SIZE,
           o.answer = "none", o.kind \in {"clearCardData", "writeCardData"}, Len(o.data) <= CAPACITY,
           NEW i \in Objects, op' = WriteFrom(o, i), chain' = <<>>,
           \A j \in Objects : j < i => object'[j] = Chunk(o.data, j)
    PROVE  StorageInvariant'
<1>1. PICK apdus, step : apdus = PutData(i, Chunk(o.data, i)) /\ step = "write"
  OBVIOUS
<1>2. o.data \in Seq(Byte)
  BY DEF StorageCalls
<1>3. apdus \in Seq(Apdus) /\ WriteUnderWay(i, o.data, apdus, <<>>)
  BY <1>1, <1>2, WriteStarts
<1>4. op' = [o EXCEPT !.step = step, !.i = i, !.apdus = apdus]
  BY <1>1 DEF WriteFrom
<1>5. op' \in StorageCalls
  <2>1. step \in {"none", "write", "read", "over"} /\ i \in 0 .. 3
    BY <1>1 DEF Objects
  <2> QED
    BY <1>3, <1>4, <2>1 DEF StorageCalls
<1>6. op'.kind = op.kind /\ op'.data = op.data /\ op'.step = "write" /\ op'.answer = "none" /\ op'.i = i
      /\ op'.apdus = apdus
  BY <1>1, <1>4 DEF StorageCalls
<1>7. StorageTypeOK'
  BY <1>5, NothingIsSequence DEF StorageTypeOK
<1>8. CallIsForADocument'
  BY <1>6 DEF CallIsForADocument, Sending
<1>9. WritingGoesOn'
  <2>1. PICK data : data = o.data
    OBVIOUS
  <2>2. WriteUnderWay(i, data, apdus, <<>>)
    BY <1>3, <2>1
  <2>3. op'.data = data /\ op'.i = i /\ op'.apdus = apdus /\ chain' = <<>>
    BY <1>6, <2>1
  <2>4. WriteUnderWay(op.i, op.data, op.apdus, chain)'
    BY <2>2, <2>3
  <2> QED
    BY <1>6, <2>1, <2>4 DEF WritingGoesOn
<1>10. DocumentsAreWhole'
  BY <1>6 DEF DocumentsAreWhole, DoneIsStored, ReadIsStored
<1> QED
  BY <1>6, <1>7, <1>8, <1>9, <1>10 DEF StorageInvariant, ReadingGoesOn, ChainIsOfTheCall

LEMMA StorageInvariantInit == StorageInit => StorageInvariant
<1> SUFFICES ASSUME StorageInit PROVE StorageInvariant
  OBVIOUS
<1>1. op \in StorageCalls
  <2>1. PICK none : none = <<>>
    OBVIOUS
  <2>2. none \in Seq(Byte) /\ none \in Seq(Apdus)
    BY <2>1, NothingIsSequence
  <2>3. op = [kind |-> "idle", step |-> "none", data |-> none, i |-> 0, apdus |-> none,
              got |-> none, answer |-> "none", read |-> none]
    BY <2>1 DEF StorageInit, NoCall
  <2> QED
    BY <2>2, <2>3 DEF StorageCalls
<1>2. StorageTypeOK
  <2>1. \A i \in Objects : object[i] = <<>>
    BY DEF StorageInit
  <2>2. object \in [Objects -> Seq(Byte)]
    BY NothingIsSequence DEF StorageInit
  <2>3. \A i \in Objects : Len(object[i]) <= MAX_DATA_OBJECT_SIZE
    BY <2>1, NothingIsSequence, SomethingFits
  <2> QED
    BY <1>1, <2>2, <2>3, NothingIsSequence DEF StorageTypeOK, StorageInit
<1>3. op.kind = "idle" /\ op.step = "none" /\ op.answer = "none" /\ op.data = <<>> /\ chain = <<>>
  BY DEF StorageInit, NoCall
<1> QED
  BY <1>2, <1>3 DEF StorageInvariant, CallIsForADocument, Sending, WritingGoesOn, ReadingGoesOn, ChainIsOfTheCall,
     DocumentsAreWhole, DoneIsStored, ReadIsStored

\* A new call is not about what the last one left.
LEMMA CallKeepsStorage ==
    ASSUME StorageInvariant, NEW kind \in {"writeCardData", "clearCardData", "readCardData"},
           NEW data \in Seq(Byte), Call(kind, data),
           kind = "writeCardData" => data \in Documents, kind # "writeCardData" => data = <<>>
    PROVE  StorageInvariant'
<1>1. PICK o : o = [NoCall EXCEPT !.kind = kind, !.data = data]
  OBVIOUS
<1>2. o \in StorageCalls /\ o.kind = kind /\ o.data = data /\ o.answer = "none" /\ o.step = "none"
  <2>1. PICK none : none = <<>>
    OBVIOUS
  <2>2. none \in Seq(Byte) /\ none \in Seq(Apdus)
    BY <2>1, NothingIsSequence
  <2>3. o = [kind |-> kind, step |-> "none", data |-> data, i |-> 0, apdus |-> none,
              got |-> none, answer |-> "none", read |-> none]
    BY <1>1, <2>1 DEF NoCall
  <2> QED
    BY <2>2, <2>3 DEF StorageCalls
<1>3. chain' = chain /\ object' = object /\ chain = <<>>
  BY DEF Call, StorageInvariant, ChainIsOfTheCall
<1>4. op' = IF kind = "readCardData" THEN ReadFrom(o, 1)
            ELSE IF Len(data) > CAPACITY THEN Return(o, "error") ELSE WriteFrom(o, 1)
  BY <1>1 DEF Call
<1>5. 1 \in Objects /\ \A j \in Objects : ~(j < 1)
  BY DEF Objects
<1>6. object' \in [Objects -> Seq(Byte)] /\ (\A j \in Objects : Len(object'[j]) <= MAX_DATA_OBJECT_SIZE)
  BY <1>3 DEF StorageInvariant, StorageTypeOK
<1>7. CASE kind = "readCardData"
  <2>1. op' \in StorageCalls /\ op' = ReadFrom(o, 1)
    BY <1>2, <1>4, <1>5, <1>7, ReadFromIsACall
  <2>2. StorageTypeOK'
    BY <1>3, <1>6, <2>1, NothingIsSequence DEF StorageTypeOK
  <2>3. op'.kind = kind /\ op'.data = <<>> /\ op'.step = "read" /\ op'.answer = "none" /\ op'.i = 1
        /\ op'.apdus = GetData(1) /\ op'.read = <<>>
    BY <1>2, <1>7, <2>1 DEF ReadFrom, StorageCalls
  <2>4. ReadingGoesOn'
    <3>1. op'.apdus = GetData(op.i)'
      BY <2>3 DEF GetData, Command
    <3> QED
      BY <1>7, <2>3, <3>1 DEF ReadingGoesOn, StoredBefore
  <2> QED
    BY <1>3, <1>5, <1>7, <2>2, <2>3, <2>4 DEF StorageInvariant, CallIsForADocument, Sending, WritingGoesOn, ChainIsOfTheCall,
       DocumentsAreWhole, DoneIsStored, ReadIsStored
<1>8. CASE kind # "readCardData" /\ Len(data) > CAPACITY
  <2>1. op' = Return(o, "error")
    BY <1>4, <1>8
  <2>2. op' \in StorageCalls /\ op'.kind = kind /\ op'.data = data /\ op'.step = "over" /\ op'.answer = "error"
    BY <1>2, <2>1, NothingIsSequence DEF Return, StorageCalls
  <2>3. StorageTypeOK'
    BY <1>3, <1>6, <2>2, NothingIsSequence DEF StorageTypeOK
  <2> QED
    BY <1>3, <1>8, <2>2, <2>3 DEF StorageInvariant, CallIsForADocument, Sending, WritingGoesOn, ReadingGoesOn, ChainIsOfTheCall,
       DocumentsAreWhole, DoneIsStored, ReadIsStored
<1>9. CASE kind # "readCardData" /\ ~(Len(data) > CAPACITY)
  <2>1. op' = WriteFrom(o, 1) /\ Len(data) <= CAPACITY
    <3>1. Len(data) \in Nat
      BY LenProperties
    <3> QED
      BY <1>4, <1>9, <3>1, SomethingFits
  <2>2. PICK apdus, step : apdus = PutData(1, Chunk(data, 1)) /\ step = "write"
    OBVIOUS
  <2>3. apdus \in Seq(Apdus) /\ WriteUnderWay(1, data, apdus, <<>>)
    BY <1>5, <2>1, <2>2, WriteStarts
  <2>4. op' = [o EXCEPT !.step = step, !.i = 1, !.apdus = apdus]
    BY <1>2, <2>1, <2>2 DEF WriteFrom
  <2>5. op' \in StorageCalls /\ op'.kind = kind /\ op'.data = data /\ op'.step = "write" /\ op'.answer = "none"
        /\ op'.i = 1 /\ op'.apdus = apdus
    <3>1. PICK one : one = 1
      OBVIOUS
    <3>2. step \in {"none", "write", "read", "over"} /\ one \in 0 .. 3 /\ step = "write"
      BY <2>2, <3>1
    <3>3. op' = [o EXCEPT !.step = step, !.i = one, !.apdus = apdus] /\ apdus \in Seq(Apdus)
      BY <2>3, <2>4, <3>1
    <3> QED
      BY <1>2, <3>1, <3>2, <3>3 DEF StorageCalls
  <2>6. StorageTypeOK'
    BY <1>3, <1>6, <2>5, NothingIsSequence DEF StorageTypeOK
  <2>7. WriteUnderWay(op.i, op.data, op.apdus, chain)'
    BY <1>3, <2>3, <2>5
  <2> QED
    BY <1>3, <1>5, <1>9, <2>1, <2>5, <2>6, <2>7 DEF StorageInvariant, CallIsForADocument, Sending, WritingGoesOn, ReadingGoesOn,
       ChainIsOfTheCall, DocumentsAreWhole, DoneIsStored, ReadIsStored
<1> QED
  BY <1>7, <1>8, <1>9

LEMMA SendChainedKeepsStorage ==
    ASSUME StorageInvariant, SendChained
    PROVE  StorageInvariant'
<1>1. /\ Sending /\ present /\ op.apdus # <<>> /\ Head(op.apdus).chained
      /\ chain' = chain \o Head(op.apdus).data /\ op' = [op EXCEPT !.apdus = Tail(@)]
      /\ object' = object /\ present' = present
  BY DEF SendChained
<1>2. PICK i, data, apdus, sent : i = op.i /\ data = op.data /\ apdus = op.apdus /\ sent = chain
  OBVIOUS
<1>3. i \in Objects /\ data \in Seq(Byte) /\ apdus \in Seq(Apdus) /\ sent \in Seq(Byte) /\ op \in StorageCalls
  BY <1>1, <1>2 DEF StorageInvariant, CallIsForADocument, StorageTypeOK, StorageCalls
<1>4. op.step = "write"
  <2>1. CASE op.step = "read"
    <3>1. apdus = GetData(i)
      BY <1>1, <1>2, <2>1 DEF StorageInvariant, ReadingGoesOn
    <3> QED
      BY <1>1, <1>2, <1>3, <3>1, GetDataIsOneApdu
  <2> QED
    BY <1>1, <2>1 DEF Sending
<1>5. Len(data) <= CAPACITY /\ WriteUnderWay(i, data, apdus, sent) /\ op.kind # "readCardData"
  BY <1>1, <1>2, <1>4 DEF StorageInvariant, WritingGoesOn
<1>6. PICK rest, all : rest = Tail(apdus) /\ all = sent \o Head(apdus).data
  OBVIOUS
<1>7. rest \in Seq(Apdus) /\ all \in Seq(Byte) /\ WriteUnderWay(i, data, rest, all)
  BY <1>1, <1>2, <1>3, <1>5, <1>6, WriteGoesOn
<1>8. chain' = all /\ op' = [op EXCEPT !.apdus = rest]
  BY <1>1, <1>2, <1>6
<1>9. op' \in StorageCalls /\ op'.kind = op.kind /\ op'.step = op.step /\ op'.data = data /\ op'.i = i
      /\ op'.apdus = rest /\ op'.answer = op.answer /\ op'.read = op.read
  BY <1>2, <1>3, <1>7, <1>8 DEF StorageCalls
<1>10. StorageTypeOK'
  BY <1>1, <1>7, <1>8, <1>9 DEF StorageInvariant, StorageTypeOK
<1>11. WritingGoesOn'
  <2>1. WriteUnderWay(op.i, op.data, op.apdus, chain)'
    BY <1>7, <1>8, <1>9
  <2> QED
    BY <1>1, <1>2, <1>4, <1>5, <1>9, <2>1 DEF StorageInvariant, WritingGoesOn
<1>12. Stored' = Stored
  BY <1>1 DEF Stored
<1> QED
  BY <1>1, <1>2, <1>4, <1>9, <1>10, <1>11, <1>12 DEF StorageInvariant, CallIsForADocument, Sending, ReadingGoesOn,
     ChainIsOfTheCall, DocumentsAreWhole, DoneIsStored, ReadIsStored

LEMMA SendPutKeepsStorage ==
    ASSUME StorageInvariant, SendPut
    PROVE  StorageInvariant'
<1>1. /\ Sending /\ present /\ op.apdus # <<>> /\ present' = present
      /\ Head(op.apdus).ins = "put" /\ ~Head(op.apdus).chained /\ chain' = <<>>
  BY DEF SendPut
<1>2. PICK i, data, apdus, command :
        i = op.i /\ data = op.data /\ apdus = op.apdus /\ command = chain \o Head(apdus).data
  OBVIOUS
<1>3. i \in Objects /\ data \in Seq(Byte) /\ apdus \in Seq(Apdus) /\ op \in StorageCalls /\ i \in 1 .. 3
  BY <1>1, <1>2 DEF StorageInvariant, CallIsForADocument, StorageTypeOK, StorageCalls, Objects
<1>4. op.step = "write"
  <2>1. CASE op.step = "read"
    <3>1. apdus = GetData(i)
      BY <1>1, <1>2, <2>1 DEF StorageInvariant, ReadingGoesOn
    <3> QED
      BY <1>1, <1>2, <1>3, <3>1, GetDataIsOneApdu
  <2> QED
    BY <1>1, <2>1 DEF Sending
<1>5. /\ Len(data) <= CAPACITY /\ WriteUnderWay(i, data, apdus, chain)
      /\ op.kind \in {"clearCardData", "writeCardData"} /\ op.answer = "none"
      /\ \A j \in Objects : j < i => object[j] = Chunk(data, j)
  BY <1>1, <1>2, <1>3, <1>4 DEF StorageInvariant, WritingGoesOn, CallIsForADocument, Sending, StorageCalls
<1>6. command = PutPayload(i, data)
  <2>1. ~Head(apdus).chained /\ command = chain \o Head(apdus).data
    BY <1>1, <1>2
  <2>2. chain \o Head(apdus).data = PutPayload(i, data)
    BY <1>3, <1>5, <2>1, WriteGoesOn, Zenon
  <2> QED
    BY <2>1, <2>2
<1>7. command[1] = i /\ Len(Tail(command)) <= MaxTlv /\ TlvValue(Tail(command)) = Chunk(data, i)
  BY <1>3, <1>5, <1>6, WriteEnds
<1>8. Len(Tail(command)) \in Nat /\ MaxTlv \in Int
  <2>1. Tail(command) \in Seq(Byte)
    <3>1. Tail(command) = ConstructTlv(Chunk(data, i))
      BY <1>3, <1>5, <1>6, PutApdus DEF PayloadIs
    <3> QED
      BY <1>3, <1>5, <3>1, ChunksMakeTheData, ObjectsFit
  <2>2. Base * Base \in Int /\ MaxTlv \in 5 .. Base * Base - 1
    BY StorageAssumption
  <2> QED
    BY <2>1, <2>2, LenProperties
<1>9. op' = AfterWrite(op) /\ object' = [object EXCEPT ![i] = Chunk(data, i)]
  <2>1. ~(Len(Tail(command)) > MaxTlv)
    BY <1>7, <1>8
  <2>2. \/ Len(Tail(command)) > MaxTlv
        \/ op' = AfterWrite(op) /\ object' = [object EXCEPT ![command[1]] = TlvValue(Tail(command))]
    BY <1>2, Zenon DEF SendPut
  <2>3. op' = AfterWrite(op) /\ object' = [object EXCEPT ![command[1]] = TlvValue(Tail(command))]
    BY <2>1, <2>2, Zenon
  <2> QED
    BY <1>7, <2>3, Zenon
<1>10. Chunk(data, i) \in Seq(Byte) /\ Len(Chunk(data, i)) <= MAX_DATA_OBJECT_SIZE
  BY <1>3, <1>5, ChunksMakeTheData
<1>11. /\ object' \in [Objects -> Seq(Byte)] /\ \A j \in Objects : Len(object'[j]) <= MAX_DATA_OBJECT_SIZE
       /\ \A j \in Objects : j <= i => object'[j] = Chunk(data, j)
  <2>1. object \in [Objects -> Seq(Byte)] /\ \A j \in Objects : Len(object[j]) <= MAX_DATA_OBJECT_SIZE
    BY DEF StorageInvariant, StorageTypeOK
  <2>2. \A j \in Objects : j <= i => j < i \/ j = i
    BY <1>3 DEF Objects
  <2> QED
    BY <1>3, <1>5, <1>9, <1>10, <2>1, <2>2
<1>12. CASE i < 3
  <2>1. PICK next : next = i + 1
    OBVIOUS
  <2>2. next \in Objects /\ (\A j \in Objects : j < next => j <= i) /\ op' = WriteFrom(op, next)
    BY <1>2, <1>3, <1>9, <1>12, <2>1 DEF Objects, AfterWrite
  <2> QED
    BY <1>1, <1>2, <1>3, <1>5, <1>11, <2>2, WriteFromKeepsStorage DEF StorageInvariant
<1>13. CASE ~(i < 3)
  <2>1. \A j \in Objects : object'[j] = Chunk(data, j)
    BY <1>3, <1>11, <1>13 DEF Objects
  <2>2. Stored' = data
    <3>1. object'[1] = Chunk(data, 1) /\ object'[2] = Chunk(data, 2) /\ object'[3] = Chunk(data, 3)
      BY <2>1 DEF Objects
    <3> QED
      BY <1>3, <1>5, <3>1, ChunksMakeTheData DEF Stored
  <2>3. CASE op.kind = "writeCardData"
    <3>1. op' = ReadFrom(op, 1) /\ 1 \in Objects
      BY <1>2, <1>9, <1>13, <2>3 DEF AfterWrite, Objects
    <3>2. StorageTypeOK'
      BY <1>1, <1>3, <1>11, <3>1, ReadFromIsACall, NothingIsSequence DEF StorageTypeOK
    <3> QED
      BY <1>1, <1>2, <1>3, <1>5, <2>2, <2>3, <3>1, <3>2, ReadFromKeepsStorage DEF StorageInvariant
  <2>4. CASE op.kind = "clearCardData"
    <3>1. op' = Return(op, "ok")
      BY <1>2, <1>9, <1>13, <2>4 DEF AfterWrite
    <3>2. op' \in StorageCalls /\ op'.kind = op.kind /\ op'.data = data /\ op'.step = "over" /\ op'.answer = "ok"
      BY <1>2, <1>3, <3>1, NothingIsSequence DEF Return, StorageCalls
    <3>3. StorageTypeOK'
      BY <1>1, <1>11, <3>2, NothingIsSequence DEF StorageTypeOK
    <3> QED
      BY <1>1, <1>2, <2>2, <2>4, <3>2, <3>3 DEF StorageInvariant, CallIsForADocument, Sending, WritingGoesOn, ReadingGoesOn,
         ChainIsOfTheCall, DocumentsAreWhole, DoneIsStored, ReadIsStored
  <2> QED
    BY <1>5, <2>3, <2>4
<1> QED
  BY <1>12, <1>13

\* What an object was read as is what is stored in it.
LEMMA AfterReadKeepsStorage ==
    ASSUME StorageInvariant, op.step = "read",
           NEW o \in StorageCalls, o.kind = op.kind, o.data = op.data, o.answer = op.answer, o.i = op.i, o.read = op.read,
           NEW value, value = object[op.i], op' = AfterRead(o, value),
           object' = object, chain' = chain
    PROVE  StorageInvariant'
<1>1. PICK i : i = op.i
  OBVIOUS
<1>2. /\ i \in Objects /\ i \in 1 .. 3 /\ o.answer = "none" /\ o.i = i
      /\ o.kind \in {"readCardData", "writeCardData"} /\ (o.kind = "writeCardData" => Stored = o.data)
      /\ o.read = StoredBefore(i) /\ value = object[i] /\ chain' = <<>>
      /\ (o.kind = "writeCardData" => o.data \in Documents)
  BY <1>1 DEF StorageInvariant, CallIsForADocument, Sending, ReadingGoesOn, ChainIsOfTheCall, Objects
<1>3. /\ object \in [Objects -> Seq(Byte)] /\ value \in Seq(Byte)
      /\ object[1] \in Seq(Byte) /\ object[2] \in Seq(Byte)
  BY <1>2 DEF StorageInvariant, StorageTypeOK, Objects
<1>4. PICK read : read = o.read \o value
  OBVIOUS
<1>5. o.read \in Seq(Byte) /\ read \in Seq(Byte)
  BY <1>3, <1>4, ConcatProperties DEF StorageCalls
<1>6. PICK p : p = [o EXCEPT !.read = read]
  OBVIOUS
<1>7. /\ p \in StorageCalls /\ p.kind = op.kind /\ p.data = op.data /\ p.answer = "none" /\ p.read = read
      /\ p.kind = o.kind /\ p.data = o.data
  BY <1>2, <1>5, <1>6 DEF StorageCalls
<1>8. op' = IF i < 3 THEN ReadFrom(p, i + 1) ELSE Judge(p)
  BY <1>2, <1>4, <1>6 DEF AfterRead
<1>9. Stored' = Stored /\ StoredBefore(2) = object[1] /\ StoredBefore(3) = object[1] \o object[2]
      /\ StoredBefore(1) = <<>> /\ Stored = (object[1] \o object[2]) \o object[3]
  BY DEF Stored, StoredBefore
<1>10. read = IF i = 3 THEN Stored ELSE StoredBefore(i + 1)
  <2>1. CASE i = 1
    <3>1. o.read = <<>> /\ value = object[1]
      BY <1>2, <1>9, <2>1
    <3>2. <<>> \o value = value
      BY <1>3, ConcatEmptySeq
    <3>3. read = StoredBefore(2)
      BY <1>4, <1>9, <3>1, <3>2
    <3> QED
      BY <2>1, <3>3
  <2>2. CASE i = 2
    <3>1. o.read = object[1] /\ value = object[2]
      BY <1>2, <1>9, <2>2
    <3>2. read = StoredBefore(3)
      BY <1>4, <1>9, <3>1
    <3> QED
      BY <2>2, <3>2
  <2>3. CASE i = 3
    <3>1. o.read = object[1] \o object[2] /\ value = object[3]
      BY <1>2, <1>9, <2>3
    <3>2. read = Stored
      BY <1>4, <1>9, <3>1
    <3> QED
      BY <2>3, <3>2
  <2> QED
    BY <1>2, <2>1, <2>2, <2>3
<1>11. CASE i < 3
  <2>1. PICK next : next = i + 1
    OBVIOUS
  <2>2. next \in Objects /\ op' = ReadFrom(p, next) /\ p.read = StoredBefore(next)
    BY <1>2, <1>7, <1>8, <1>10, <1>11, <2>1 DEF Objects
  <2>3. StorageTypeOK'
    BY <1>2, <1>3, <1>7, <2>2, ReadFromIsACall, NothingIsSequence DEF StorageInvariant, StorageTypeOK
  <2>4. p.read = StoredBefore(next)'
    BY <2>2 DEF StoredBefore
  <2> QED
    BY <1>2, <1>7, <1>9, <2>2, <2>3, <2>4, ReadFromKeepsStorage DEF StorageInvariant
<1>12. CASE ~(i < 3)
  <2>1. op' = Judge(p) /\ p.read = Stored
    BY <1>2, <1>7, <1>8, <1>10, <1>12
  <2>2. PICK answer \in {"ok", "garbled"} :
          op' = Return(p, answer) /\ (answer = "garbled" => p.read # <<>> /\ p.read \notin Documents)
    BY <2>1 DEF Judge
  <2>3. answer = "garbled" => p.kind = "readCardData"
    BY <1>2, <1>7, <2>1, <2>2
  <2>4. answer = "ok" /\ p.kind # "readCardData" => Stored = p.data
    BY <1>2, <1>7
  <2> QED
    BY <1>2, <1>7, <2>1, <2>2, <2>3, <2>4, ReturnKeepsStorage DEF StorageInvariant
<1> QED
  BY <1>11, <1>12

\* A piece of an answer, which may be the last.
LEMMA ReceivedKeepsStorage ==
    ASSUME StorageInvariant, op.step = "read", present,
           NEW got \in Seq(Byte), NEW rest, ReadUnderWay(object[op.i], got, rest),
           op' = Received(op, got, rest), response' = rest,
           object' = object, chain' = chain, present' = present
    PROVE  StorageInvariant'
<1>1. PICK i, value : i = op.i /\ value = object[op.i]
  OBVIOUS
<1>2. i \in Objects /\ value \in Seq(Byte) /\ Len(value) <= MAX_DATA_OBJECT_SIZE /\ op \in StorageCalls
  BY <1>1 DEF StorageInvariant, CallIsForADocument, Sending, StorageTypeOK
<1>3. CASE rest = <<>>
  <2>1. ParseTlv(got) = value
    BY <1>1, <1>2, <1>3, ReadGoesOn
  <2>2. op' = AfterRead(op, value)
    BY <1>3, <2>1 DEF Received
  <2> QED
    BY <1>1, <1>2, <2>2, AfterReadKeepsStorage
<1>4. CASE rest # <<>>
  <2>1. PICK none : none = <<>>
    OBVIOUS
  <2>2. none \in Seq(Apdus) /\ op' = [op EXCEPT !.got = got, !.apdus = none]
    BY <1>4, <2>1, NothingIsSequence DEF Received
  <2>3. /\ op' \in StorageCalls /\ op'.kind = op.kind /\ op'.step = op.step /\ op'.data = op.data /\ op'.i = i
        /\ op'.apdus = none /\ op'.got = got /\ op'.answer = op.answer /\ op'.read = op.read
    BY <1>1, <1>2, <2>2 DEF StorageCalls
  <2>4. StorageTypeOK'
    BY <2>3 DEF StorageInvariant, StorageTypeOK
  <2>5. Stored' = Stored /\ StoredBefore(i)' = StoredBefore(i)
    BY DEF Stored, StoredBefore
  <2>6. ReadingGoesOn'
    <3>1. ReadUnderWay(object[op.i], op.got, response)'
      BY <1>1, <2>3
    <3>2. op'.read = StoredBefore(op.i)'
      BY <1>1, <2>3, <2>5 DEF StorageInvariant, ReadingGoesOn, StoredBefore
    <3> QED
      BY <2>1, <2>3, <2>5, <3>1, <3>2 DEF StorageInvariant, ReadingGoesOn
  <2> QED
    BY <1>1, <2>3, <2>4, <2>5, <2>6 DEF StorageInvariant, CallIsForADocument, Sending, WritingGoesOn,
       ChainIsOfTheCall, DocumentsAreWhole, DoneIsStored, ReadIsStored
<1> QED
  BY <1>3, <1>4

LEMMA SendGetKeepsStorage ==
    ASSUME StorageInvariant, SendGet
    PROVE  StorageInvariant'
<1>1. /\ Sending /\ present /\ op.apdus # <<>> /\ present' = present
      /\ Head(op.apdus).ins = "get" /\ object' = object /\ chain' = chain
  BY DEF SendGet
<1>2. PICK i, data, value : i = op.i /\ data = op.data /\ value = object[op.i]
  OBVIOUS
<1>3. i \in Objects /\ data \in Seq(Byte) /\ value \in Seq(Byte) /\ Len(value) <= MAX_DATA_OBJECT_SIZE /\ op \in StorageCalls
  BY <1>1, <1>2 DEF StorageInvariant, CallIsForADocument, StorageTypeOK, StorageCalls
<1>4. op.step = "read"
  <2>1. CASE op.step = "write"
    <3>1. Len(data) <= CAPACITY /\ WriteUnderWay(i, data, op.apdus, chain)
      BY <1>1, <1>2, <2>1 DEF StorageInvariant, WritingGoesOn
    <3>2. Head(op.apdus).ins = "put"
      BY <1>3, <3>1, WriteGoesOn
    <3> QED
      BY <1>1, <3>2
  <2> QED
    BY <1>1, <2>1 DEF Sending
<1>5. op.apdus = GetData(i)
  BY <1>1, <1>2, <1>4 DEF StorageInvariant, ReadingGoesOn
<1>6. Head(op.apdus).data = <<i>>
  BY <1>3, <1>5, GetDataIsOneApdu
<1>7. Head(op.apdus).data[1] = i
  BY <1>6
<1>8. PICK pieces : pieces = Pieces(ConstructTlv(value), MAX_RESPONSE_APDU_DATA_LENGTH)
  OBVIOUS
<1>9. IF value = <<>> THEN op' = AfterRead(op, <<>>)
      ELSE response' = Tail(pieces) /\ op' = Received(op, pieces[1], Tail(pieces))
  BY <1>2, <1>7, <1>8 DEF SendGet
<1>10. CASE value = <<>>
  BY <1>1, <1>2, <1>3, <1>4, <1>9, <1>10, AfterReadKeepsStorage
<1>11. CASE value # <<>>
  <2>1. pieces[1] \in Seq(Byte) /\ ReadUnderWay(value, pieces[1], Tail(pieces))
    BY <1>3, <1>8, ReadStarts
  <2> QED
    BY <1>1, <1>2, <1>4, <1>9, <1>11, <2>1, ReceivedKeepsStorage
<1> QED
  BY <1>10, <1>11

LEMMA GetResponseKeepsStorage ==
    ASSUME StorageInvariant, GetResponse
    PROVE  StorageInvariant'
<1>1. /\ Sending /\ present /\ op.apdus = <<>> /\ response # <<>> /\ present' = present
      /\ response' = Tail(response) /\ op' = Received(op, op.got \o Head(response), Tail(response))
      /\ object' = object /\ chain' = chain
  BY DEF GetResponse
<1>2. PICK i, data, value : i = op.i /\ data = op.data /\ value = object[op.i]
  OBVIOUS
<1>3. i \in Objects /\ data \in Seq(Byte) /\ value \in Seq(Byte) /\ Len(value) <= MAX_DATA_OBJECT_SIZE /\ op.got \in Seq(Byte)
  BY <1>1, <1>2 DEF StorageInvariant, CallIsForADocument, StorageTypeOK, StorageCalls
<1>4. op.step = "read"
  <2>1. CASE op.step = "write"
    <3>1. Len(data) <= CAPACITY /\ WriteUnderWay(i, data, op.apdus, chain)
      BY <1>1, <1>2, <2>1 DEF StorageInvariant, WritingGoesOn
    <3> QED
      BY <1>1, <1>3, <3>1, WriteGoesOn
  <2> QED
    BY <1>1, <2>1 DEF Sending
<1>5. ReadUnderWay(value, op.got, response)
  BY <1>1, <1>2, <1>3, <1>4, GetDataIsOneApdu DEF StorageInvariant, ReadingGoesOn
<1>6. op.got \o Head(response) \in Seq(Byte) /\ ReadUnderWay(value, op.got \o Head(response), Tail(response))
  BY <1>1, <1>3, <1>5, ReadGoesOn
<1> QED
  BY <1>1, <1>2, <1>4, <1>6, ReceivedKeepsStorage

\* A card that is gone has no half of a command.
LEMMA TransmitFailsKeepsStorage ==
    ASSUME StorageInvariant, TransmitFails
    PROVE  StorageInvariant'
<1>1. Sending /\ ~present /\ op' = Return(op, "error") /\ object' = object /\ chain' = chain /\ chain = <<>>
  BY DEF TransmitFails, StorageInvariant, ChainIsOfTheCall
<1>2. op \in StorageCalls
  BY DEF StorageInvariant, StorageTypeOK
<1> QED
  BY <1>1, <1>2, ReturnKeepsStorage DEF StorageInvariant

LEMMA CardMovesKeepStorage ==
    ASSUME StorageInvariant, TakeOut \/ PutIn \/ UNCHANGED storageVars
    PROVE  StorageInvariant'
<1>1. object' = object /\ op' = op
  BY DEF TakeOut, PutIn, storageVars
<1>2. Stored' = Stored /\ StoredBefore(op.i)' = StoredBefore(op.i) /\ Sending' = Sending
  BY <1>1 DEF Stored, StoredBefore, Sending
<1>3. DocumentsAreWhole' /\ CallIsForADocument'
  BY <1>1, <1>2 DEF StorageInvariant, DocumentsAreWhole, DoneIsStored, ReadIsStored, CallIsForADocument
<1>4. \/ present' = FALSE /\ chain' = <<>>
      \/ ~Sending /\ chain' = chain
      \/ present' = present /\ chain' = chain /\ response' = response
  BY DEF TakeOut, PutIn, storageVars
<1>5. chain' \in Seq(Byte) /\ ChainIsOfTheCall'
  BY <1>1, <1>4, NothingIsSequence DEF StorageInvariant, StorageTypeOK, ChainIsOfTheCall, Sending
<1>6. StorageTypeOK'
  BY <1>1, <1>5 DEF StorageInvariant, StorageTypeOK
<1>7. WritingGoesOn'
  BY <1>1, <1>4 DEF StorageInvariant, WritingGoesOn, Sending
<1>8. ReadingGoesOn'
  BY <1>1, <1>2, <1>4 DEF StorageInvariant, ReadingGoesOn, Sending
<1> QED
  BY <1>3, <1>5, <1>6, <1>7, <1>8 DEF StorageInvariant

LEMMA StorageNextKeepsStorage == StorageInvariant /\ [StorageNext]_storageVars => StorageInvariant'
<1> SUFFICES ASSUME StorageInvariant, [StorageNext]_storageVars PROVE StorageInvariant'
  OBVIOUS
<1>1. CASE WriteCardData
  <2>1. PICK data \in Documents : Call("writeCardData", data)
    BY <1>1 DEF WriteCardData
  <2>2. data \in Seq(Byte)
    BY <2>1, StorageAssumption DEF Byte
  <2> QED
    BY <2>1, <2>2, CallKeepsStorage
<1>2. CASE ClearCardData
  BY <1>2, NothingIsSequence, CallKeepsStorage DEF ClearCardData
<1>3. CASE ReadCardData
  BY <1>3, NothingIsSequence, CallKeepsStorage DEF ReadCardData
<1>4. CASE SendChained
  BY <1>4, SendChainedKeepsStorage
<1>5. CASE SendPut
  BY <1>5, SendPutKeepsStorage
<1>6. CASE SendGet
  BY <1>6, SendGetKeepsStorage
<1>7. CASE GetResponse
  BY <1>7, GetResponseKeepsStorage
<1>8. CASE TransmitFails
  BY <1>8, TransmitFailsKeepsStorage
<1>9. CASE TakeOut \/ PutIn \/ UNCHANGED storageVars
  BY <1>9, CardMovesKeepStorage
<1> QED
  BY <1>1, <1>2, <1>3, <1>4, <1>5, <1>6, <1>7, <1>8, <1>9 DEF StorageNext

\* For every size of a byte, an APDU, a TLV and a data object, and every set of
\* documents: a write or clearing that is reported as done left exactly its
\* data on the card, the card refuses no write for its length, and a read that
\* is answered was given all that is stored.
THEOREM DocumentsStayWhole == StorageSpec => []DocumentsAreWhole
<1>1. StorageInvariant => DocumentsAreWhole
  BY DEF StorageInvariant
<1> QED
  BY <1>1, StorageInvariantInit, StorageNextKeepsStorage, PTL DEF StorageSpec
----------------------------------------------------------------------------
(* The bits on the paper: what is written of a number, a name, the         *)
(* write-ins, the votes and the ballot's configuration is what is read,    *)
(* and the paper's votes are those that were cast, for any election,       *)
(* alphabet and number of choices.                                         *)

LEMMA AllNumbers ==
    ASSUME NEW S, 0 \in S, \A n \in Nat : n \in S => n + 1 \in S
    PROVE  \A n \in Nat : n \in S
<1> DEFINE Less == {p \in Nat \X Nat : p[1] < p[2]}
           Others == Nat \ S
<1>1. IsWellFoundedOn(Less, Nat)
  BY NatLessThanWellFounded DEF OpToRel
<1>2. SUFFICES ASSUME Others # {} PROVE FALSE
  OBVIOUS
<1>3. PICK x \in Others : \A y \in Others : <<y, x>> \notin Less
  <2> HIDE DEF Less, Others
  <2> QED
    <3>1. Others \subseteq Nat
      BY DEF Others
    <3> QED
      BY <1>1, <1>2, <3>1, WFMin
<1>4. x \in Nat /\ x # 0 /\ x - 1 \in Nat /\ <<x - 1, x>> \in Less
  BY <1>3
<1>5. x - 1 \in S
  BY <1>3, <1>4
<1> QED
  BY <1>3, <1>4, <1>5

\* A set with one more element has twice the subsets.
LEMMA Powers ==
    /\ 2^0 = 1
    /\ \A n \in Nat : 2^n \in Nat /\ 2^n > 0 /\ 2^(n + 1) = 2 * 2^n
<1> DEFINE Subsets(n) == SUBSET (1 .. n)
<1>1. ASSUME NEW n \in Nat
      PROVE  IsFiniteSet(Subsets(n)) /\ Cardinality(Subsets(n)) = 2^n /\ 2^n \in Nat
  <2>1. IsFiniteSet(1 .. n) /\ Cardinality(1 .. n) = n
    BY FS_Interval
  <2>2. IsFiniteSet(Subsets(n)) /\ Cardinality(Subsets(n)) = 2^Cardinality(1 .. n)
    BY <2>1, FS_SUBSET
  <2>3. Cardinality(Subsets(n)) \in Nat
    BY <2>2, FS_CardinalityType
  <2> QED
    BY <2>1, <2>2, <2>3
<1>2. ASSUME NEW n \in Nat PROVE 2^(n + 1) = 2 * 2^n
  <2> DEFINE Added == {s \cup {n + 1} : s \in Subsets(n)}
             add == [s \in Subsets(n) |-> s \cup {n + 1}]
  <2>1. add \in Bijection(Subsets(n), Added)
    <3>1. add \in [Subsets(n) -> Added]
      OBVIOUS
    <3>2. ASSUME NEW s \in Subsets(n), NEW t \in Subsets(n), add[s] = add[t] PROVE s = t
      <4>1. s = (s \cup {n + 1}) \ {n + 1} /\ t = (t \cup {n + 1}) \ {n + 1}
        OBVIOUS
      <4> QED
        BY <4>1, <3>2
    <3>3. \A u \in Added : \E s \in Subsets(n) : add[s] = u
      OBVIOUS
    <3> HIDE DEF add, Added
    <3>4. add \in Injection(Subsets(n), Added)
      <4>1. DOMAIN add = Subsets(n)
        BY <3>1
      <4> QED
        BY <3>1, <3>2, <4>1 DEF Injection, IsInjective
    <3>5. add \in Surjection(Subsets(n), Added)
      BY <3>1, <3>3 DEF Surjection
    <3> QED
      BY <3>4, <3>5 DEF Bijection
  <2>2. IsFiniteSet(Added) /\ Cardinality(Added) = 2^n
    <3>1. ExistsBijection(Subsets(n), Added)
      BY <2>1 DEF ExistsBijection
    <3> HIDE DEF Added, Subsets
    <3> QED
      BY <3>1, <1>1, FS_Bijection
  <2>3. Subsets(n + 1) = Subsets(n) \cup Added
    <3>1. ASSUME NEW s \in Subsets(n + 1), s \notin Subsets(n) PROVE s \in Added
      <4>1. n + 1 \in s
        BY <3>1
      <4>2. s \ {n + 1} \in Subsets(n)
        OBVIOUS
      <4>3. s = (s \ {n + 1}) \cup {n + 1}
        BY <4>1
      <4> QED
        BY <4>2, <4>3
    <3>2. Subsets(n) \subseteq Subsets(n + 1)
      OBVIOUS
    <3>3. ASSUME NEW s \in Subsets(n) PROVE s \cup {n + 1} \in Subsets(n + 1)
      OBVIOUS
    <3> HIDE DEF Subsets
    <3>4. Added \subseteq Subsets(n + 1)
      BY <3>3
    <3> QED
      BY <3>1, <3>2, <3>4
  <2>4. Subsets(n) \cap Added = {}
    OBVIOUS
  <2> HIDE DEF Added, Subsets
  <2>5. Cardinality(Subsets(n) \cup Added)
           = Cardinality(Subsets(n)) + Cardinality(Added) - Cardinality(Subsets(n) \cap Added)
    BY <1>1, <2>2, FS_Union
  <2>6. Cardinality(Subsets(n + 1)) = 2^(n + 1)
    BY <1>1
  <2>7. Cardinality(Subsets(n) \cap Added) = 0
    BY <2>4, FS_EmptySet
  <2>8. Cardinality(Subsets(n + 1)) = 2^n + 2^n - 0
    BY <1>1, <2>2, <2>3, <2>5, <2>7
  <2>9. 2^n \in Nat
    BY <1>1
  <2> QED
    BY <2>6, <2>8, <2>9
<1>3. 2^0 = 1
  OBVIOUS
<1>4. ASSUME NEW n \in Nat PROVE 2^n > 0
  <2> DEFINE S == {k \in Nat : 2^k > 0}
  <2>1. \A k \in Nat : k \in S => k + 1 \in S
    BY <1>1, <1>2
  <2>2. 0 \in S
    BY <1>3
  <2> HIDE DEF S
  <2>3. \A k \in Nat : k \in S
    BY <2>1, <2>2, AllNumbers
  <2> QED
    BY <2>3 DEF S
<1> QED
  BY <1>1, <1>2, <1>3, <1>4

\* sizeof finds the bits a number needs.
LEMMA SizeOfNumber ==
    ASSUME NEW n \in Nat, n < 2^30
    PROVE  sizeof(n) \in 1 .. 31 /\ n < 2^sizeof(n)
<1> DEFINE Fits(k) == n < 2^k /\ (k = 1 \/ n >= 2^(k - 1))
           S == {k \in Nat : n < 2^(k + 1) => \E j \in 1 .. k + 1 : Fits(j)}
<1>1. 0 \in S
  <2>1. n < 2^(0 + 1) => Fits(1)
    BY 0 + 1 = 1
  <2> HIDE DEF Fits
  <2> QED
    BY <2>1
<1>2. ASSUME NEW k \in Nat, k \in S PROVE k + 1 \in S
  <2>1. SUFFICES ASSUME n < 2^(k + 2) PROVE \E j \in 1 .. k + 2 : Fits(j)
    BY k + 1 + 1 = k + 2
  <2>2. CASE n < 2^(k + 1)
    <3> HIDE DEF Fits
    <3> QED
      BY <2>2, <1>2
  <2>3. CASE ~(n < 2^(k + 1))
    <3>1. k + 2 - 1 = k + 1 /\ 2^(k + 1) \in Nat
      BY Powers
    <3>2. Fits(k + 2)
      BY <2>1, <2>3, <3>1
    <3> HIDE DEF Fits
    <3> QED
      BY <3>2
  <2> QED
    BY <2>2, <2>3
<1> HIDE DEF S
<1>3. 29 \in S
  BY <1>1, <1>2, AllNumbers
<1>4. \E j \in 1 .. 30 : Fits(j)
  <2>1. 29 + 1 = 30
    OBVIOUS
  <2> HIDE DEF Fits
  <2> QED
    BY <1>3, <2>1 DEF S
<1>5. \E j \in 1 .. 31 : Fits(j)
  <2> HIDE DEF Fits
  <2> QED
    BY <1>4
<1>6. sizeof(n) = CHOOSE j \in 1 .. 31 : Fits(j)
  BY DEF sizeof
<1> HIDE DEF Fits
<1>7. sizeof(n) \in 1 .. 31 /\ Fits(sizeof(n))
  BY <1>5, <1>6
<1> QED
  BY <1>7 DEF Fits

\* The greatest of a set of numbers is one of them.
LEMMA GreatestIsIn ==
    ASSUME NEW n \in Nat, NEW s \in SUBSET (1 .. n), s # {}
    PROVE  Max(s) \in s
<1> DEFINE S == {k \in Nat : \A t \in SUBSET (1 .. k) : t # {} =>
                    \E x \in t : \A y \in t : x >= y}
<1>1. 0 \in S
  <2>1. \A t \in SUBSET (1 .. 0) : t = {}
    OBVIOUS
  <2> QED
    BY <2>1
<1>2. ASSUME NEW k \in Nat, k \in S PROVE k + 1 \in S
  <2>1. SUFFICES ASSUME NEW t \in SUBSET (1 .. k + 1), t # {}
                 PROVE  \E x \in t : \A y \in t : x >= y
    OBVIOUS
  <2>2. CASE k + 1 \in t
    BY <2>2
  <2>3. CASE k + 1 \notin t
    <3>1. t \in SUBSET (1 .. k)
      BY <2>3
    <3> QED
      BY <3>1, <1>2, <2>1
  <2> QED
    BY <2>2, <2>3
<1> HIDE DEF S
<1>3. n \in S
  BY <1>1, <1>2, AllNumbers
<1>4. \E x \in s : \A y \in s : x >= y
  BY <1>3 DEF S
<1> QED
  BY <1>4 DEF Max

LEMMA GreatestOfInterval ==
    ASSUME NEW k \in Nat, NEW s \in SUBSET (1 .. k + 1), k + 1 \in s
    PROVE  Max(s) = k + 1 /\ s \ {k + 1} \in SUBSET (1 .. k)
<1>1. \A x \in s : (\A y \in s : x >= y) => x = k + 1
  OBVIOUS
<1>2. \A y \in s : k + 1 >= y
  OBVIOUS
<1>3. Max(s) = k + 1
  BY <1>1, <1>2 DEF Max
<1>4. s \ {k + 1} \in SUBSET (1 .. k)
  OBVIOUS
<1> QED
  BY <1>3, <1>4

\* h is what a fold makes of each set of places of a list of n.
IsFold(h, n, base, G) ==
    \A s \in SUBSET (1 .. n) : h[s] = IF s = {} THEN base ELSE G[h[s \ {Max(s)}], Max(s)]

\* What a fold computes is defined, for steps that stay in a set.
LEMMA FoldIsDefined ==
    ASSUME NEW n \in Nat, NEW A, NEW base \in A, NEW G \in [A \X (1 .. n) -> A]
    PROVE  \E h \in [SUBSET (1 .. n) -> A] : IsFold(h, n, base, G)
<1> DEFINE Step(h, s) == IF s = {} THEN base ELSE G[h[s \ {Max(s)}], Max(s)]
           Iter(h, k) == h \in [SUBSET (1 .. k) -> A] /\ \A s \in SUBSET (1 .. k) : h[s] = Step(h, s)
           S == {k \in Nat : k <= n => \E h : Iter(h, k)}
<1>1. 0 \in S
  <2>1. PICK h : h = [s \in SUBSET (1 .. 0) |-> base]
    OBVIOUS
  <2>2. \A s \in SUBSET (1 .. 0) : s = {}
    OBVIOUS
  <2>3. Iter(h, 0)
    BY <2>1, <2>2
  <2> HIDE DEF Iter
  <2> QED
    BY <2>3
<1>2. ASSUME NEW k \in Nat, k \in S PROVE k + 1 \in S
  <2>1. SUFFICES ASSUME k + 1 <= n PROVE \E g : Iter(g, k + 1)
    <3> HIDE DEF Iter
    <3> QED
      OBVIOUS
  <2>2. PICK h : Iter(h, k)
    <3> HIDE DEF Iter
    <3> QED
      BY <1>2, <2>1
  <2>3. PICK g : g = [s \in SUBSET (1 .. k + 1) |->
                        IF k + 1 \in s THEN G[h[s \ {k + 1}], k + 1] ELSE h[s]]
    OBVIOUS
  <2>4. ASSUME NEW s \in SUBSET (1 .. k) PROVE g[s] = h[s] /\ s \in SUBSET (1 .. k + 1)
    <3>1. k + 1 \notin s /\ s \in SUBSET (1 .. k + 1)
      OBVIOUS
    <3> QED
      BY <2>3, <3>1
  <2>5. ASSUME NEW s \in SUBSET (1 .. k + 1) PROVE g[s] \in A /\ g[s] = Step(g, s)
    <3>1. CASE k + 1 \in s
      <4>1. Max(s) = k + 1 /\ s \ {k + 1} \in SUBSET (1 .. k)
        BY <3>1, GreatestOfInterval
      <4>2. g[s \ {k + 1}] = h[s \ {k + 1}] /\ h[s \ {k + 1}] \in A
        BY <4>1, <2>4, <2>2
      <4>3. g[s] = G[h[s \ {k + 1}], k + 1]
        BY <2>3, <3>1
      <4>4. g[s] \in A
        <5>1. k + 1 \in 1 .. n
          BY <2>1
        <5>2. \A a \in A, i \in 1 .. n : G[a, i] \in A
          OBVIOUS
        <5> QED
          BY <4>2, <4>3, <5>1, <5>2
      <4>5. g[s] = G[g[s \ {Max(s)}], Max(s)] /\ s # {}
        BY <4>1, <4>2, <4>3, <3>1
      <4> QED
        BY <4>4, <4>5
    <3>2. CASE k + 1 \notin s
      <4>1. s \in SUBSET (1 .. k) /\ s \ {Max(s)} \in SUBSET (1 .. k)
        <5>1. s \subseteq 1 .. k
          BY <3>2
        <5> QED
          BY <5>1
      <4>2. g[s] = h[s] /\ g[s \ {Max(s)}] = h[s \ {Max(s)}]
        BY <4>1, <2>4
      <4>3. h[s] \in A /\ h[s] = Step(h, s)
        BY <4>1, <2>2
      <4> QED
        BY <4>2, <4>3
    <3> QED
      BY <3>1, <3>2
  <2>6. g \in [SUBSET (1 .. k + 1) -> A]
    <3> HIDE DEF Step
    <3>1. g = [s \in SUBSET (1 .. k + 1) |-> g[s]]
      BY <2>3
    <3> QED
      BY <3>1, <2>5
  <2>7. Iter(g, k + 1)
    <3> HIDE DEF Step
    <3> QED
      BY <2>5, <2>6
  <2> HIDE DEF Iter
  <2> QED
    BY <2>7
<1>3. n \in S
  <2> HIDE DEF S
  <2> QED
    BY <1>1, <1>2, AllNumbers
<1>4. PICK h : Iter(h, n)
  <2> HIDE DEF Iter
  <2> QED
    BY <1>3
<1> QED
  BY <1>4 DEF IsFold

----------------------------------------------------------------------------
(* Numbers.                                                                *)

Bits == {0, 1}

\* What is written of a number, bit by bit.
LEMMA NumberBits ==
    ASSUME NEW n \in Nat, NEW size \in Nat
    PROVE  /\ Uint(n, size) \in Seq(Bits) /\ Len(Uint(n, size)) = size
           /\ \A i \in 1 .. size : Uint(n, size)[i] = (n \div 2^(size - i)) % 2
<1>1. ASSUME NEW i \in 1 .. size PROVE (n \div 2^(size - i)) % 2 \in Bits
  <2>1. size - i \in Nat
    OBVIOUS
  <2>2. 2^(size - i) \in Nat /\ 2^(size - i) > 0
    BY <2>1, Powers
  <2>3. ASSUME NEW q \in Nat, q > 0 PROVE n \div q \in Nat
    BY <2>3
  <2>4. \A m \in Nat : m % 2 \in Bits
    BY DEF Bits
  <2> QED
    BY <2>2, <2>3, <2>4
<1> DEFINE Digit(i) == (n \div 2^(size - i)) % 2
<1>2. Uint(n, size) = [i \in 1 .. size |-> Digit(i)]
  BY DEF Uint
<1>3. \A i \in 1 .. size : Digit(i) \in Bits
  BY <1>1
<1> HIDE DEF Digit
<1>4. Uint(n, size) \in Seq(Bits) /\ Len(Uint(n, size)) = size
      /\ \A i \in 1 .. size : Uint(n, size)[i] = Digit(i)
  BY <1>2, <1>3
<1> QED
  BY <1>4 DEF Digit

LEMMA Product ==
    ASSUME NEW a \in Nat, NEW b \in Nat
    PROVE  a * b \in Nat /\ a * (b + 1) = a * b + a
  OBVIOUS

LEMMA QuotientIs ==
    ASSUME NEW m \in Nat, NEW d \in Nat, d > 0, NEW x \in Nat, NEW e \in Nat,
           m = d * x + e, e < d
    PROVE  m \div d = x
<1> DEFINE y == m \div d
<1>1. y \in Nat /\ d * y <= m /\ m < d * y + d
  <2>1. m \div d \in Int /\ m = (d * (m \div d)) + (m % d) /\ m % d \in 0 .. d - 1
    OBVIOUS
  <2>2. m \div d >= 0
    OBVIOUS
  <2>3. d * y \in Int
    BY <2>1
  <2> QED
    BY <2>1, <2>2, <2>3
<1> HIDE DEF y
<1>2. ASSUME NEW u \in Nat, NEW v \in Nat, u < v PROVE d * u + d <= d * v
  <2>1. PICK k \in Nat : v = u + 1 + k
    <3>1. v - u - 1 \in Nat /\ v = u + 1 + (v - u - 1)
      BY <1>2
    <3> QED
      BY <3>1
  <2>2. d * v = d * (u + 1) + d * k
    BY <2>1
  <2>3. d * (u + 1) = d * u + d /\ d * k \in Nat /\ d * u \in Nat
    BY Product
  <2> QED
    BY <2>2, <2>3
<1>3. d * x \in Nat /\ d * y \in Nat
  BY <1>1, Product
<1>4. ~(x < y)
  BY <1>1, <1>2, <1>3
<1>5. ~(y < x)
  BY <1>1, <1>2, <1>3
<1>6. x = y
  BY <1>1, <1>4, <1>5
<1> QED
  BY <1>6 DEF y

\* A number without its last bits, one bit more.
LEMMA NextBit ==
    ASSUME NEW n \in Nat, NEW q \in Nat, q > 0
    PROVE  n \div q = (2 * (n \div (2 * q))) + ((n \div q) % 2)
<1> DEFINE a == n \div q
           b == a \div 2
           c == a % 2
           r == n % q
<1>1. a \in Nat /\ r \in Nat /\ r < q /\ n = q * a + r
  <2>1. n \div q \in Int /\ n = (q * (n \div q)) + (n % q) /\ n % q \in 0 .. q - 1
    OBVIOUS
  <2>2. n \div q >= 0
    OBVIOUS
  <2> QED
    BY <2>1, <2>2
<1> HIDE DEF a, r
<1>2. b \in Nat /\ c \in {0, 1} /\ a = 2 * b + c
  BY <1>1
<1> HIDE DEF b, c
<1>3. n = (2 * q) * b + (q * c + r)
  <2>1. q * a = q * (2 * b) + q * c
    BY <1>2
  <2>2. q * (2 * b) = (2 * q) * b
    BY <1>2
  <2>3. q * (2 * b) \in Nat /\ q * c \in Nat
    BY <1>2
  <2> QED
    BY <1>1, <2>1, <2>2, <2>3
<1>4. q * c + r \in Nat /\ q * c + r < 2 * q
  BY <1>1, <1>2
<1>5. n \div (2 * q) = b
  BY <1>2, <1>3, <1>4, QuotientIs, 2 * q \in Nat, 2 * q > 0
<1> QED
  BY <1>2, <1>5 DEF a, b, c

\* A reader finds the bits w of bits after the first at.
Holds(bits, at, w) ==
    /\ at + Len(w) <= Len(bits)
    /\ \A i \in 1 .. Len(w) : bits[at + i] = w[i]

LEMMA Joined ==
    ASSUME NEW v \in Seq(Bits), NEW w \in Seq(Bits)
    PROVE  v \o w \in Seq(Bits) /\ Len(v \o w) = Len(v) + Len(w)
  OBVIOUS

LEMMA Inside ==
    ASSUME NEW u \in Seq(Bits), NEW v \in Seq(Bits), NEW w \in Seq(Bits)
    PROVE  /\ u \o v \o w \in Seq(Bits)
           /\ Len(u \o v \o w) = Len(u) + Len(v) + Len(w)
           /\ \A i \in 1 .. Len(v) : (u \o v \o w)[Len(u) + i] = v[i]
<1>1. u \o v \in Seq(Bits) /\ Len(u \o v) = Len(u) + Len(v)
  BY Joined
<1>2. \A i \in 1 .. Len(v) : Len(u) + i \in 1 .. Len(u \o v) /\ (u \o v)[Len(u) + i] = v[i]
  BY <1>1
<1>3. \A x \in Seq(Bits), i \in Nat : i \in 1 .. Len(x) => (x \o w)[i] = x[i]
  OBVIOUS
<1>4. u \o v \o w \in Seq(Bits) /\ Len(u \o v \o w) = Len(u \o v) + Len(w)
  BY <1>1, Joined
<1> QED
  BY <1>1, <1>2, <1>3, <1>4

Same(u, v) == u = v

LEMMA Appended ==
    ASSUME NEW X, NEW p \in Seq(X), NEW q \in Seq(X), NEW x \in X
    PROVE  Same(Append(p \o q, x), p \o Append(q, x))
<1> DEFINE u == Append(p \o q, x)  v == p \o Append(q, x)
<1>1. p \o q \in Seq(X) /\ Append(q, x) \in Seq(X)
  OBVIOUS
<1>2. u \in Seq(X) /\ Len(u) = Len(p) + Len(q) + 1
  BY <1>1
<1>3. v \in Seq(X) /\ Len(v) = Len(p) + Len(q) + 1
  BY <1>1
<1>4. ASSUME NEW i \in 1 .. Len(p) + Len(q) + 1 PROVE u[i] = v[i]
  <2>1. CASE i <= Len(p)
    BY <1>1, <2>1
  <2>2. CASE i > Len(p) /\ i <= Len(p) + Len(q)
    BY <1>1, <2>2
  <2>3. CASE i = Len(p) + Len(q) + 1
    BY <1>1, <2>3
  <2> QED
    BY <2>1, <2>2, <2>3
<1> HIDE DEF u, v
<1>5. u = v
  BY <1>2, <1>3, <1>4
<1> QED
  BY <1>5 DEF u, v, Same

LEMMA HoldsParts ==
    ASSUME NEW bits \in Seq(Bits), NEW at \in Nat, NEW v \in Seq(Bits), NEW w \in Seq(Bits),
           Holds(bits, at, v \o w)
    PROVE  Holds(bits, at, v) /\ Holds(bits, at + Len(v), w)
<1>1. Len(v \o w) = Len(v) + Len(w)
  OBVIOUS
<1>2. \A i \in 1 .. Len(v) : (v \o w)[i] = v[i] /\ i \in 1 .. Len(v \o w)
  BY <1>1
<1>3. \A i \in 1 .. Len(w) : (v \o w)[Len(v) + i] = w[i] /\ Len(v) + i \in 1 .. Len(v \o w)
  BY <1>1
<1>4. at + Len(v) + Len(w) <= Len(bits)
  BY <1>1 DEF Holds
<1>5. Holds(bits, at, v)
  BY <1>2, <1>4 DEF Holds
<1>6. ASSUME NEW i \in 1 .. Len(w) PROVE bits[at + Len(v) + i] = w[i]
  <2>1. bits[at + (Len(v) + i)] = (v \o w)[Len(v) + i]
    BY <1>3 DEF Holds
  <2>2. at + (Len(v) + i) = at + Len(v) + i
    OBVIOUS
  <2> QED
    BY <1>3, <2>1, <2>2
<1> QED
  BY <1>4, <1>5, <1>6 DEF Holds

\* The fold of ReadUint, one bit at a time.
LEMMA BitsAreAdded ==
    ASSUME NEW s \in Seq(Bits)
    PROVE  \E H \in [0 .. Len(s) -> Nat] :
              /\ H[0] = 0
              /\ \A k \in 0 .. Len(s) - 1 : H[k + 1] = 2 * H[k] + s[k + 1]
              /\ FoldLeft(LAMBDA n, bit : 2 * n + bit, 0, s) = H[Len(s)]
<1> DEFINE N == Len(s)
           Step(h, t) == IF t = {} THEN 0 ELSE 2 * h[t \ {Max(t)}] + s[Max(t)]
           fold == CHOOSE h : h = [t \in SUBSET (1 .. N) |-> Step(h, t)]
           G == [p \in Nat \X (1 .. N) |-> 2 * p[1] + s[p[2]]]
<1>1. N \in Nat /\ DOMAIN s = 1 .. N /\ \A i \in 1 .. N : s[i] \in Nat
  BY DEF Bits
<1>2. FoldLeft(LAMBDA n, bit : 2 * n + bit, 0, s) = fold[1 .. N]
  BY <1>1 DEF FoldLeft, MapThenFoldSet
<1>3. ASSUME NEW a \in Nat, NEW i \in 1 .. N
      PROVE  G[a, i] = 2 * a + s[i] /\ G[a, i] \in Nat
  <2>1. <<a, i>> \in Nat \X (1 .. N) /\ 2 * a + s[i] \in Nat
    BY <1>1
  <2>2. G[<<a, i>>] = 2 * a + s[i]
    BY <2>1
  <2> HIDE DEF G
  <2> QED
    BY <2>1, <2>2
<1>4. G \in [Nat \X (1 .. N) -> Nat] /\ 0 \in Nat
  BY <1>1
<1> HIDE DEF G
<1>5. PICK h \in [SUBSET (1 .. N) -> Nat] : IsFold(h, N, 0, G)
  <2> HIDE DEF N
  <2> QED
    BY <1>1, <1>4, FoldIsDefined
<1>6. h = [t \in SUBSET (1 .. N) |-> Step(h, t)]
  <2>1. ASSUME NEW t \in SUBSET (1 .. N) PROVE h[t] = Step(h, t)
    <3>1. CASE t = {}
      BY <3>1, <1>5 DEF IsFold
    <3>2. CASE t # {}
      <4>1. Max(t) \in 1 .. N
        BY <3>2, <1>1, GreatestIsIn
      <4>2. h[t \ {Max(t)}] \in Nat
        BY <1>5
      <4> QED
        BY <3>2, <4>1, <4>2, <1>3, <1>5 DEF IsFold
    <3> QED
      BY <3>1, <3>2
  <2> HIDE DEF Step
  <2> QED
    BY <2>1
<1>7. fold = [t \in SUBSET (1 .. N) |-> Step(fold, t)]
  <2> HIDE DEF Step
  <2> QED
    BY <1>6
<1> HIDE DEF fold
<1>8. fold[1 .. 0] = 0
  BY <1>7, <1>1
<1>9. ASSUME NEW k \in Nat, k + 1 <= N
      PROVE  fold[1 .. k + 1] = 2 * fold[1 .. k] + s[k + 1]
  <2>1. Max(1 .. k + 1) = k + 1
    BY GreatestOfInterval
  <2>2. (1 .. k + 1) \ {k + 1} = 1 .. k
    OBVIOUS
  <2>3. k + 1 \in 1 .. k + 1
    OBVIOUS
  <2>4. 1 .. k + 1 \in SUBSET (1 .. N)
    BY <1>9, <1>1
  <2> QED
    BY <1>7, <2>1, <2>2, <2>3, <2>4
<1> DEFINE S == {k \in Nat : k <= N => fold[1 .. k] \in Nat}
<1>10. \A k \in Nat : k \in S
  <2>1. 0 \in S
    BY <1>8
  <2>2. ASSUME NEW k \in Nat, k \in S PROVE k + 1 \in S
    <3>1. SUFFICES ASSUME k + 1 <= N PROVE fold[1 .. k + 1] \in Nat
      OBVIOUS
    <3>2. fold[1 .. k] \in Nat /\ s[k + 1] \in Nat
      BY <2>2, <3>1, <1>1
    <3> QED
      BY <3>1, <3>2, <1>9
  <2> HIDE DEF S
  <2> QED
    BY <2>1, <2>2, AllNumbers
<1> DEFINE H == [k \in 0 .. N |-> fold[1 .. k]]
<1>11. H \in [0 .. N -> Nat]
  BY <1>1, <1>10
<1>12. H[0] = 0 /\ H[N] = fold[1 .. N]
  BY <1>1, <1>8
<1>13. ASSUME NEW k \in 0 .. N - 1 PROVE H[k + 1] = 2 * H[k] + s[k + 1]
  <2>1. k \in Nat /\ k + 1 <= N /\ k \in 0 .. N /\ k + 1 \in 0 .. N
    BY <1>1
  <2> QED
    BY <2>1, <1>9
<1> HIDE DEF H
<1> QED
  BY <1>2, <1>11, <1>12, <1>13

\* What a reader finds is what it cuts out.
LEMMA HeldIsCut ==
    ASSUME NEW bits \in Seq(Bits), NEW at \in Nat, NEW w \in Seq(Bits), Holds(bits, at, w)
    PROVE  SubSeq(bits, at + 1, at + Len(w)) = w
<1> DEFINE size == Len(w)
           t == SubSeq(bits, at + 1, at + size)
<1>1. size \in Nat /\ \A i \in 1 .. size : bits[at + i] = w[i]
  BY DEF Holds
<1> HIDE DEF size
<1>2. t = [i \in 1 .. size |-> bits[at + i]]
  <2>1. /\ (at + size) - (at + 1) + 1 = size
        /\ \A i \in 1 .. size : (at + 1) + i - 1 = at + i
    BY <1>1
  <2> QED
    BY <1>1, <2>1
<1> HIDE DEF t
<1>3. t = [i \in 1 .. size |-> w[i]]
  BY <1>1, <1>2
<1>4. w = [i \in 1 .. size |-> w[i]]
  BY DEF size
<1> QED
  BY <1>3, <1>4 DEF t, size

\* A number that is written is read.
LEMMA NumberIsRead ==
    ASSUME NEW bits \in Seq(Bits), NEW at \in Nat, NEW size \in Nat, NEW n \in Nat, n < 2^size,
           Holds(bits, at, Uint(n, size))
    PROVE  ReadUint(bits, at, size) = n
<1> DEFINE s == Uint(n, size)
<1>1. s \in Seq(Bits) /\ Len(s) = size
      /\ \A i \in 1 .. size : s[i] = (n \div 2^(size - i)) % 2
  BY NumberBits
<1> HIDE DEF s
<1>2. SubSeq(bits, at + 1, at + size) = s
  <2>1. Holds(bits, at, s)
    BY DEF s
  <2> QED
    BY <1>1, <2>1, HeldIsCut
<1>3. PICK H \in [0 .. size -> Nat] :
        /\ H[0] = 0
        /\ \A k \in 0 .. size - 1 : H[k + 1] = 2 * H[k] + s[k + 1]
        /\ FoldLeft(LAMBDA m, bit : 2 * m + bit, 0, s) = H[size]
  BY <1>1, BitsAreAdded
<1>4. ReadUint(bits, at, size) = H[size]
  BY <1>2, <1>3 DEF ReadUint
<1> DEFINE S == {k \in Nat : k <= size => H[k] = n \div 2^(size - k)}
<1>5. 0 \in S
  <2>1. n \div 2^size = 0
    BY Powers, QuotientIs, 2^size * 0 = 0
  <2>2. size - 0 = size
    OBVIOUS
  <2> QED
    BY <1>3, <2>1, <2>2
<1>6. ASSUME NEW k \in Nat, k \in S PROVE k + 1 \in S
  <2>1. SUFFICES ASSUME k + 1 <= size PROVE H[k + 1] = n \div 2^(size - (k + 1))
    OBVIOUS
  <2> DEFINE q == 2^(size - (k + 1))
  <2>2. size - (k + 1) \in Nat /\ size - k = (size - (k + 1)) + 1 /\ k \in 0 .. size - 1
    BY <2>1
  <2>3. q \in Nat /\ q > 0 /\ 2^(size - k) = 2 * q
    BY <2>2, Powers
  <2> HIDE DEF q
  <2>4. H[k] = n \div (2 * q)
    <3>1. H[k] = n \div 2^(size - k)
      BY <1>6, <2>1
    <3> QED
      BY <3>1, <2>3
  <2>5. s[k + 1] = (n \div q) % 2
    BY <1>1, <2>2 DEF q
  <2>6. H[k + 1] = 2 * H[k] + s[k + 1]
    BY <1>3, <2>2
  <2>7. n \div q = (2 * (n \div (2 * q))) + ((n \div q) % 2)
    BY <2>3, NextBit
  <2>8. H[k + 1] = n \div q
    BY <2>4, <2>5, <2>6, <2>7
  <2> QED
    BY <2>8 DEF q
<1> HIDE DEF S
<1>7. size \in S
  BY <1>5, <1>6, AllNumbers
<1>8. H[size] = n \div 2^(size - size) /\ size - size = 0
  BY <1>7 DEF S
<1>9. n \div 1 = n
  OBVIOUS
<1> QED
  BY <1>4, <1>8, <1>9, Powers

LEMMA BitIsBit ==
    ASSUME NEW b \in BOOLEAN
    PROVE  Bit(b) \in Seq(Bits) /\ Len(Bit(b)) = 1 /\ (Bit(b)[1] = 1) = b
<1>1. CASE b
  <2>1. Bit(b) = <<1>>
    BY <1>1 DEF Bit
  <2>2. <<1>> \in Seq(Bits) /\ Len(<<1>>) = 1 /\ <<1>>[1] = 1
    BY DEF Bits
  <2>3. Bit(b) \in Seq(Bits) /\ Len(Bit(b)) = 1 /\ Bit(b)[1] = 1
    BY <2>1, <2>2
  <2> QED
    BY <1>1, <2>3
<1>2. CASE ~b
  <2>1. Bit(b) = <<0>>
    BY <1>2 DEF Bit
  <2>2. <<0>> \in Seq(Bits) /\ Len(<<0>>) = 1 /\ <<0>>[1] # 1
    BY DEF Bits
  <2>3. Bit(b) \in Seq(Bits) /\ Len(Bit(b)) = 1 /\ Bit(b)[1] # 1
    BY <2>1, <2>2
  <2> QED
    BY <1>2, <2>3
<1> QED
  BY <1>1, <1>2

----------------------------------------------------------------------------
(* Names.                                                                  *)

\* H[k] is the first k of the lists of f, one after the other.
IsJoin(H, f, n) == H[0] = <<>> /\ \A k \in 0 .. n - 1 : H[k + 1] = H[k] \o f[k + 1]

LEMMA JoinIsDefined ==
    ASSUME NEW X, NEW n \in Nat, NEW f \in [1 .. n -> Seq(X)]
    PROVE  \E H \in [0 .. n -> Seq(X)] : IsJoin(H, f, n)
<1> DEFINE Join(H, k) == H \in [0 .. k -> Seq(X)] /\ IsJoin(H, f, k)
           S == {k \in Nat : k <= n => \E H : Join(H, k)}
<1>1. 0 \in S
  <2>1. PICK H : H = [k \in 0 .. 0 |-> <<>>]
    OBVIOUS
  <2>2. H \in [0 .. 0 -> Seq(X)] /\ H[0] = <<>>
    BY <2>1
  <2>3. Join(H, 0)
    BY <2>2 DEF IsJoin
  <2> HIDE DEF Join
  <2> QED
    BY <2>3
<1>2. ASSUME NEW k \in Nat, k \in S PROVE k + 1 \in S
  <2>1. SUFFICES ASSUME k + 1 <= n PROVE \E g : Join(g, k + 1)
    <3> HIDE DEF Join
    <3> QED
      OBVIOUS
  <2>2. PICK H : Join(H, k)
    <3> HIDE DEF Join
    <3> QED
      BY <1>2, <2>1
  <2>3. PICK g : g = [j \in 0 .. k + 1 |-> IF j = k + 1 THEN H[k] \o f[k + 1] ELSE H[j]]
    OBVIOUS
  <2>4. \A j \in 0 .. k : g[j] = H[j] /\ H[j] \in Seq(X)
    BY <2>2, <2>3
  <2>5. g[k + 1] = H[k] \o f[k + 1]
    <3>1. k + 1 \in 0 .. k + 1
      OBVIOUS
    <3> QED
      BY <3>1, <2>3
  <2>6. g[k + 1] \in Seq(X)
    <3>1. H[k] \in Seq(X) /\ f[k + 1] \in Seq(X)
      BY <2>1, <2>4
    <3>2. \A a \in Seq(X), b \in Seq(X) : a \o b \in Seq(X)
      OBVIOUS
    <3> QED
      BY <2>5, <3>1, <3>2
  <2>7. g \in [0 .. k + 1 -> Seq(X)]
    <3>1. ASSUME NEW j \in 0 .. k + 1 PROVE g[j] \in Seq(X)
      <4>1. j \in 0 .. k \/ j = k + 1
        OBVIOUS
      <4> QED
        BY <4>1, <2>4, <2>6
    <3>2. g = [j \in 0 .. k + 1 |-> g[j]]
      BY <2>3
    <3> QED
      BY <3>1, <3>2
  <2>8. IsJoin(g, f, k + 1)
    <3>1. g[0] = <<>>
      BY <2>2, <2>4 DEF IsJoin
    <3>2. ASSUME NEW j \in 0 .. k PROVE g[j + 1] = g[j] \o f[j + 1]
      <4>1. CASE j = k
        BY <4>1, <2>4, <2>5
      <4>2. CASE j # k
        <5>1. j \in 0 .. k - 1 /\ j \in 0 .. k /\ j + 1 \in 0 .. k
          BY <4>2
        <5> QED
          BY <5>1, <2>2, <2>4 DEF IsJoin
      <4> QED
        BY <4>1, <4>2
    <3>3. 0 .. (k + 1) - 1 = 0 .. k
      OBVIOUS
    <3> QED
      BY <3>1, <3>2, <3>3 DEF IsJoin
  <2> HIDE DEF Join
  <2>9. Join(g, k + 1)
    BY <2>7, <2>8 DEF Join
  <2> QED
    BY <2>9
<1>3. n \in S
  <2> HIDE DEF S
  <2> QED
    BY <1>1, <1>2, AllNumbers
<1>4. PICK H : Join(H, n)
  <2> HIDE DEF Join
  <2> QED
    BY <1>3
<1> QED
  BY <1>4

\* What FlattenSeq computes.
LEMMA Flattened ==
    ASSUME NEW X, NEW n \in Nat, NEW f \in [1 .. n -> Seq(X)]
    PROVE  \E H \in [0 .. n -> Seq(X)] : IsJoin(H, f, n) /\ FlattenSeq(f) = H[n]
<1>1. PICK H \in [0 .. n -> Seq(X)] : IsJoin(H, f, n)
  BY JoinIsDefined
<1>2. f \in Seq(Seq(X)) /\ Len(f) = n
  OBVIOUS
<1>3. \A k \in 1 .. n : H[k] = IF k = 1 THEN f[k] ELSE H[k - 1] \o f[k]
  <2>1. SUFFICES ASSUME NEW k \in 1 .. n PROVE H[k] = IF k = 1 THEN f[k] ELSE H[k - 1] \o f[k]
    OBVIOUS
  <2>2. k - 1 \in 0 .. n - 1 /\ (k - 1) + 1 = k
    OBVIOUS
  <2>3. H[k] = H[k - 1] \o f[k]
    BY <2>2, <1>1 DEF IsJoin
  <2>4. CASE k = 1
    <3>1. H[0] = <<>> /\ k - 1 = 0
      BY <2>4, <1>1 DEF IsJoin
    <3>2. f[k] \in Seq(X)
      OBVIOUS
    <3>3. \A a \in Seq(X) : <<>> \o a = a
      OBVIOUS
    <3> QED
      BY <2>3, <2>4, <3>1, <3>2, <3>3
  <2>5. CASE k # 1
    BY <2>3, <2>5
  <2> QED
    BY <2>4, <2>5
<1> DEFINE Step(h, i) == IF i = 1 THEN f[i] ELSE h[i - 1] \o f[i]
           flatten == CHOOSE h : h = [i \in 1 .. n |-> Step(h, i)]
           h0 == [i \in 1 .. n |-> H[i]]
<1>4. h0 = [i \in 1 .. n |-> Step(h0, i)]
  <2>1. ASSUME NEW i \in 1 .. n PROVE H[i] = Step(h0, i)
    <3>1. i # 1 => i - 1 \in 1 .. n
      OBVIOUS
    <3> QED
      BY <1>3, <3>1
  <2> HIDE DEF Step
  <2> QED
    BY <2>1
<1> HIDE DEF h0
<1>5. flatten = [i \in 1 .. n |-> Step(flatten, i)]
  <2> HIDE DEF Step
  <2> QED
    BY <1>4
<1>6. n # 0 => FlattenSeq(f) = flatten[n]
  BY <1>2 DEF FlattenSeq
<1> HIDE DEF flatten
<1> DEFINE S == {k \in Nat : k + 1 <= n => flatten[k + 1] = H[k + 1]}
<1>7. 0 \in S
  BY <1>3, <1>5
<1>8. ASSUME NEW k \in Nat, k \in S PROVE k + 1 \in S
  <2> DEFINE m == k + 2
  <2>1. SUFFICES ASSUME m <= n PROVE flatten[m] = H[m]
    BY k + 1 + 1 = k + 2
  <2>2. m \in 1 .. n /\ m # 1 /\ k + 1 = m - 1 /\ k + 1 <= n
    BY <2>1
  <2>4. flatten[m - 1] = H[m - 1]
    BY <1>8, <2>2
  <2> HIDE DEF m
  <2>3. flatten[m] = flatten[m - 1] \o f[m]
    BY <1>5, <2>2
  <2>5. H[m] = H[m - 1] \o f[m]
    BY <1>3, <2>2
  <2> QED
    BY <2>3, <2>4, <2>5
<1> HIDE DEF S
<1>9. FlattenSeq(f) = H[n]
  <2>1. CASE n = 0
    <3>1. FlattenSeq(f) = f /\ f = <<>> /\ H[n] = <<>>
      BY <2>1, <1>1, <1>2 DEF FlattenSeq, IsJoin
    <3> QED
      BY <3>1
  <2>2. CASE n # 0
    <3>1. n - 1 \in Nat /\ (n - 1) + 1 = n
      BY <2>2
    <3>2. n - 1 \in S
      BY <3>1, <1>7, <1>8, AllNumbers
    <3> QED
      BY <3>1, <3>2, <2>2, <1>6 DEF S
  <2> QED
    BY <2>1, <2>2
<1> QED
  BY <1>1, <1>9

LEMMA BitsFlattened ==
    ASSUME NEW n \in Nat, NEW f \in [1 .. n -> Seq(Bits)]
    PROVE  \E H \in [0 .. n -> Seq(Bits)] : IsJoin(H, f, n) /\ FlattenSeq(f) = H[n]
  BY Flattened

LEMMA JoinStep ==
    ASSUME NEW n \in Nat, NEW f \in [1 .. n -> Seq(Bits)], NEW H \in [0 .. n -> Seq(Bits)],
           IsJoin(H, f, n), NEW k \in Nat, k + 1 <= n
    PROVE  /\ H[k] \in Seq(Bits) /\ f[k + 1] \in Seq(Bits) /\ H[k + 1] = H[k] \o f[k + 1]
           /\ Len(H[k + 1]) = Len(H[k]) + Len(f[k + 1])
<1>1. k \in 0 .. n - 1 /\ k \in 0 .. n /\ k + 1 \in 1 .. n
  OBVIOUS
<1>2. H[k + 1] = H[k] \o f[k + 1]
  BY <1>1 DEF IsJoin
<1>3. H[k] \in Seq(Bits)
  BY <1>1
<1>4. f[k + 1] \in Seq(Bits)
  BY <1>1
<1>5. \A a \in Seq(Bits), b \in Seq(Bits) : Len(a \o b) = Len(a) + Len(b)
  OBVIOUS
<1> QED
  BY <1>2, <1>3, <1>4, <1>5

\* Where each list of a join is.
LEMMA JoinHolds ==
    ASSUME NEW n \in Nat, NEW f \in [1 .. n -> Seq(Bits)],
           NEW H \in [0 .. n -> Seq(Bits)], IsJoin(H, f, n),
           NEW bits \in Seq(Bits), NEW at \in Nat, Holds(bits, at, H[n])
    PROVE  \A k \in 0 .. n - 1 : Holds(bits, at + Len(H[k]), f[k + 1])
<1> DEFINE Good(k) == Holds(bits, at, H[k]) =>
               \A j \in 0 .. k - 1 : Holds(bits, at + Len(H[j]), f[j + 1])
           S == {k \in Nat : k <= n => Good(k)}
<1>1. 0 \in S
  OBVIOUS
<1>2. ASSUME NEW k \in Nat, k \in S PROVE k + 1 \in S
  <2>1. SUFFICES ASSUME k + 1 <= n, Holds(bits, at, H[k + 1]),
                        NEW j \in 0 .. k
                 PROVE  Holds(bits, at + Len(H[j]), f[j + 1])
    OBVIOUS
  <2>2. H[k] \in Seq(Bits) /\ f[k + 1] \in Seq(Bits) /\ H[k + 1] = H[k] \o f[k + 1]
    <3>1. k + 1 <= n
      BY <2>1
    <3> HIDE DEF Good, S
    <3> QED
      BY <3>1, JoinStep, Zenon
  <2>3. Holds(bits, at, H[k]) /\ Holds(bits, at + Len(H[k]), f[k + 1])
    BY <2>1, <2>2, HoldsParts
  <2>4. CASE j = k
    BY <2>3, <2>4
  <2>5. CASE j # k
    <3>1. j \in 0 .. k - 1
      BY <2>5
    <3> QED
      BY <3>1, <2>1, <2>3, <1>2
  <2> QED
    BY <2>4, <2>5
<1> HIDE DEF S
<1>3. n \in S
  BY <1>1, <1>2, AllNumbers
<1> QED
  BY <1>3 DEF S

\* Lists of one length.
LEMMA JoinLength ==
    ASSUME NEW n \in Nat, NEW size \in Nat, NEW f \in [1 .. n -> Seq(Bits)],
           \A i \in 1 .. n : Len(f[i]) = size,
           NEW H \in [0 .. n -> Seq(Bits)], IsJoin(H, f, n)
    PROVE  \A k \in 0 .. n : Len(H[k]) = k * size
<1> DEFINE S == {k \in Nat : k <= n => Len(H[k]) = k * size}
<1>1. 0 \in S
  BY DEF IsJoin
<1>2. ASSUME NEW k \in Nat, k \in S PROVE k + 1 \in S
  <2>1. SUFFICES ASSUME k + 1 <= n PROVE Len(H[k + 1]) = (k + 1) * size
    OBVIOUS
  <2>2. Len(H[k + 1]) = Len(H[k]) + Len(f[k + 1])
    <3>1. k \in 0 .. n - 1 /\ k \in 0 .. n /\ k + 1 \in 1 .. n
      BY <2>1
    <3>2. H[k + 1] = H[k] \o f[k + 1]
      BY <3>1 DEF IsJoin
    <3> HIDE DEF S
    <3>3. H[k] \in Seq(Bits) /\ f[k + 1] \in Seq(Bits)
      BY <3>1
    <3> QED
      BY <3>2, <3>3, Joined
  <2>3. Len(H[k]) = k * size /\ Len(f[k + 1]) = size
    <3>1. k <= n /\ k + 1 \in 1 .. n
      BY <2>1
    <3>2. Len(H[k]) = k * size
      BY <1>2, <3>1
    <3> QED
      BY <3>1, <3>2
  <2>4. Len(H[k + 1]) = k * size + size
    BY <2>2, <2>3
  <2>5. (k + 1) * size = k * size + size
    OBVIOUS
  <2> QED
    BY <2>4, <2>5
<1> HIDE DEF S
<1>3. \A k \in Nat : k \in S
  BY <1>1, <1>2, AllNumbers
<1> QED
  BY <1>3 DEF S

Names == {name \in Seq(Range(WriteInChars)) : Len(name) <= MAXIMUM_WRITE_IN_LENGTH}

LEMMA Alphabet ==
    /\ Len(WriteInChars) \in 1 .. 256 /\ DOMAIN WriteInChars = 1 .. Len(WriteInChars)
    /\ \A i, j \in DOMAIN WriteInChars : WriteInChars[i] = WriteInChars[j] => i = j
    /\ MAXIMUM_WRITE_IN_LENGTH \in Nat /\ MAXIMUM_WRITE_IN_LENGTH < 2^30
<1>1. /\ WriteInChars \in Seq(Range(WriteInChars)) /\ IsInjective(WriteInChars)
      /\ Len(WriteInChars) \in 1 .. 256
      /\ MAXIMUM_WRITE_IN_LENGTH \in 1 .. 2^30 - 1
  BY EncoderAssumption DEF EncoderAssumption
<1>2. DOMAIN WriteInChars = 1 .. Len(WriteInChars)
  <2>1. \A S : \A s \in Seq(S) : DOMAIN s = 1 .. Len(s)
    OBVIOUS
  <2> QED
    BY <1>1, <2>1, Zenon
<1>3. \A i, j \in DOMAIN WriteInChars : WriteInChars[i] = WriteInChars[j] => i = j
  BY <1>1 DEF IsInjective
<1>4. MAXIMUM_WRITE_IN_LENGTH \in Nat /\ MAXIMUM_WRITE_IN_LENGTH < 2^30
  <2> DEFINE power == 2^30
  <2>1. power \in Int
    OBVIOUS
  <2>2. MAXIMUM_WRITE_IN_LENGTH \in 1 .. power - 1
    BY <1>1
  <2> HIDE DEF power
  <2>3. MAXIMUM_WRITE_IN_LENGTH \in Nat /\ MAXIMUM_WRITE_IN_LENGTH < power
    BY <2>1, <2>2
  <2> QED
    BY <2>3 DEF power
<1> QED
  BY <1>1, <1>2, <1>3, <1>4

\* A character's code says which it is.
LEMMA CharIsCoded ==
    ASSUME NEW char \in Range(WriteInChars)
    PROVE  /\ CharBits \in Nat /\ CharCode(char) \in Nat /\ CharCode(char) < 2^CharBits
           /\ WriteInChars[CharCode(char) + 1] = char
<1> DEFINE L == Len(WriteInChars)
           Found(i) == WriteInChars[i] = char /\ \A j \in 1 .. i - 1 : ~(WriteInChars[j] = char)
<1>1. L \in 1 .. 256 /\ DOMAIN WriteInChars = 1 .. L
      /\ \A i, j \in 1 .. L : WriteInChars[i] = WriteInChars[j] => i = j
  BY Alphabet
<1>2. L - 1 \in Nat /\ L - 1 < 2^30
  <2>1. 255 < 2^30
    OBVIOUS
  <2> HIDE DEF L
  <2>2. L - 1 \in 0 .. 255
    BY <1>1
  <2> QED
    BY <2>1, <2>2
<1> HIDE DEF L
<1>3. CharBits \in Nat /\ L - 1 < 2^CharBits
  <2> DEFINE size == sizeof(L - 1)
  <2>1. size \in 1 .. 31 /\ L - 1 < 2^size
    BY <1>2, SizeOfNumber
  <2>2. CharBits = size
    BY DEF CharBits, L
  <2> HIDE DEF size
  <2>3. size \in Nat
    BY <2>1
  <2> QED
    BY <2>1, <2>2, <2>3
<1>4. PICK i \in 1 .. L : WriteInChars[i] = char
  BY <1>1 DEF Range
<1>5. Found(i)
  <2>1. \A j \in 1 .. i - 1 : j \in 1 .. L /\ j # i
    BY <1>1
  <2> QED
    BY <1>1, <1>4, <2>1
<1> DEFINE code == CHOOSE k \in 1 .. L : Found(k)
<1>6. CharCode(char) = code - 1
  BY <1>1 DEF CharCode, IndexOf
<1>7. code \in 1 .. L /\ Found(code)
  <2> HIDE DEF Found
  <2> QED
    BY <1>4, <1>5
<1> HIDE DEF code
<1>8. CharCode(char) \in Nat /\ CharCode(char) <= L - 1 /\ CharCode(char) + 1 = code
  BY <1>1, <1>6, <1>7
<1>9. 2^CharBits \in Nat
  BY <1>3, Powers
<1> QED
  BY <1>1, <1>3, <1>7, <1>8, <1>9

\* A name that is written, anywhere among other bits, is read.
LEMMA NameIsRead ==
    ASSUME NEW name \in Names
    PROVE  /\ WriteName(name) \in Seq(Bits)
           /\ \A vote : \A bits \in Seq(Bits), at \in Nat :
                 Holds(bits, at, WriteName(name)) =>
                    ReadName(bits, [at |-> at, vote |-> vote]) =
                       [at |-> at + Len(WriteName(name)),
                        vote |-> Append(vote, [id |-> Named(name), name |-> name])]
<1> DEFINE n == Len(name)
           size == sizeof(MAXIMUM_WRITE_IN_LENGTH)
           f == [i \in 1 .. n |-> Uint(CharCode(name[i]), CharBits)]
<1>1. name \in Seq(Range(WriteInChars)) /\ n \in Nat /\ n <= MAXIMUM_WRITE_IN_LENGTH
  BY DEF Names
<1>2. \A i \in 1 .. n : name[i] \in Range(WriteInChars)
  BY <1>1
<1>3. size \in Nat /\ n < 2^size
  <2>1. MAXIMUM_WRITE_IN_LENGTH \in Nat /\ MAXIMUM_WRITE_IN_LENGTH < 2^30
    BY Alphabet
  <2>2. size \in 1 .. 31 /\ MAXIMUM_WRITE_IN_LENGTH < 2^size
    BY <2>1, SizeOfNumber
  <2> HIDE DEF size, n
  <2>3. size \in Nat /\ 2^size \in Nat
    BY <2>2, Powers
  <2> QED
    BY <1>1, <2>1, <2>2, <2>3
<1>4. ASSUME NEW i \in 1 .. n
      PROVE  f[i] = Uint(CharCode(name[i]), CharBits) /\ f[i] \in Seq(Bits) /\ Len(f[i]) = CharBits
  BY <1>2, CharIsCoded, NumberBits
<1>5. f \in [1 .. n -> Seq(Bits)]
  BY <1>4
<1>6. CharBits \in Nat
  <2>1. PICK char : char \in Range(WriteInChars)
    <3>1. 1 \in DOMAIN WriteInChars
      <4>1. \A m \in 1 .. 256 : 1 \in 1 .. m
        OBVIOUS
      <4> QED
        BY <4>1, Alphabet
    <3> QED
      BY <3>1 DEF Range
  <2> QED
    BY <2>1, CharIsCoded
<1> HIDE DEF f, n, size
<1>7. PICK H \in [0 .. n -> Seq(Bits)] :
         IsJoin(H, f, n) /\ Concat(name, LAMBDA char : Uint(CharCode(char), CharBits)) = H[n]
  <2>1. PICK H \in [0 .. n -> Seq(Bits)] : IsJoin(H, f, n) /\ FlattenSeq(f) = H[n]
    BY <1>1, <1>5, BitsFlattened
  <2>2. DOMAIN name = 1 .. n
    BY <1>1 DEF n
  <2>3. f = [i \in DOMAIN name |-> Uint(CharCode(name[i]), CharBits)]
    BY <2>2 DEF f
  <2>4. Concat(name, LAMBDA char : Uint(CharCode(char), CharBits)) = FlattenSeq(f)
    BY <2>3 DEF Concat
  <2> QED
    BY <2>1, <2>4
<1>8. WriteName(name) = Uint(n, size) \o H[n]
  BY <1>7 DEF WriteName, UintUpTo, n, size
<1>9. Uint(n, size) \in Seq(Bits) /\ Len(Uint(n, size)) = size
      /\ H[n] \in Seq(Bits) /\ Len(H[n]) = n * CharBits
  <2>1. \A k \in 0 .. n : Len(H[k]) = k * CharBits
    BY <1>1, <1>4, <1>5, <1>6, <1>7, JoinLength
  <2>2. n \in 0 .. n
    BY <1>1
  <2> QED
    BY <1>1, <1>3, <1>7, <2>1, <2>2, NumberBits
<1>10. WriteName(name) \in Seq(Bits) /\ Len(WriteName(name)) = size + n * CharBits
  <2>1. Uint(n, size) \o H[n] \in Seq(Bits)
        /\ Len(Uint(n, size) \o H[n]) = Len(Uint(n, size)) + Len(H[n])
    BY <1>9, Joined
  <2> QED
    BY <1>8, <1>9, <2>1
<1>11. ASSUME NEW bits \in Seq(Bits), NEW at \in Nat, NEW vote, Holds(bits, at, WriteName(name))
       PROVE  ReadName(bits, [at |-> at, vote |-> vote]) =
                 [at |-> at + Len(WriteName(name)),
                  vote |-> Append(vote, [id |-> Named(name), name |-> name])]
  <2> DEFINE start == at + size
             Read(length) == [i \in 1 .. length |->
                 WriteInChars[ReadUint(bits, start + (i - 1) * CharBits, CharBits) + 1]]
  <2>1. Holds(bits, at, Uint(n, size)) /\ Holds(bits, start, H[n]) /\ start \in Nat
    <3>1. Holds(bits, at, Uint(n, size) \o H[n])
      BY <1>8, <1>11
    <3>2. Holds(bits, at, Uint(n, size)) /\ Holds(bits, at + Len(Uint(n, size)), H[n])
      BY <3>1, <1>9, HoldsParts
    <3> QED
      BY <3>2, <1>3, <1>9
  <2>2. ReadUint(bits, at, size) = n
    BY <1>1, <1>3, <2>1, NumberIsRead
  <2> HIDE DEF start
  <2>3. ASSUME NEW i \in 1 .. n
        PROVE  WriteInChars[ReadUint(bits, start + (i - 1) * CharBits, CharBits) + 1] = name[i]
    <3>1. i - 1 \in 0 .. n - 1 /\ i - 1 \in 0 .. n /\ i - 1 \in Nat /\ (i - 1) + 1 = i
      BY <1>1
    <3>2. Len(H[i - 1]) = (i - 1) * CharBits
      BY <3>1, <1>1, <1>4, <1>5, <1>6, <1>7, JoinLength
    <3>3. Holds(bits, start + Len(H[i - 1]), f[(i - 1) + 1])
      BY <3>1, <2>1, <1>1, <1>5, <1>7, JoinHolds
    <3>4. Holds(bits, start + (i - 1) * CharBits, Uint(CharCode(name[i]), CharBits))
      BY <3>1, <3>2, <3>3, <1>4
    <3>5. start + (i - 1) * CharBits \in Nat
      <4>1. \A a \in Nat, b \in Nat : a * b \in Nat /\ a + b \in Nat
        OBVIOUS
      <4> QED
        BY <4>1, <3>1, <2>1, <1>6, Zenon
    <3>6. ReadUint(bits, start + (i - 1) * CharBits, CharBits) = CharCode(name[i])
      BY <3>4, <3>5, <1>2, CharIsCoded, NumberIsRead
    <3> QED
      BY <3>6, <1>2, CharIsCoded
  <2>4. Read(n) = name
    <3>1. name = [i \in 1 .. n |-> name[i]]
      BY <1>1 DEF n
    <3> QED
      BY <3>1, <2>3
  <2>5. ReadName(bits, [at |-> at, vote |-> vote]) =
           [at |-> start + n * CharBits,
            vote |-> Append(vote, [id |-> Named(Read(n)), name |-> Read(n)])]
    BY <2>2 DEF ReadName, start, size
  <2>6. start + n * CharBits = at + Len(WriteName(name))
    <3>1. n * CharBits \in Nat
      BY <1>1, <1>6, Product
    <3> QED
      BY <3>1, <1>3, <1>10 DEF start
  <2> HIDE DEF Read
  <2> QED
    BY <2>4, <2>5, <2>6
<1> QED
  BY <1>10, <1>11

----------------------------------------------------------------------------
(* Write-ins.                                                              *)

\* What the reader makes of names.
Writable == {[id |-> Named(name), name |-> name] : name \in Names}

\* Write-ins as they are read: an id made of the name.
AsRead(writeIns) ==
    [i \in DOMAIN writeIns |-> [id |-> Named(writeIns[i].name), name |-> writeIns[i].name]]

ReadNames(bits, r, n) == FoldLeft(LAMBDA read, i : ReadName(bits, read), r, [i \in 1 .. n |-> i])

\* A reading that is repeated n times goes from R[0] to R[n].
LEMMA ReadingIsRepeated ==
    ASSUME NEW bits, NEW n \in Nat, NEW R, \A k \in 0 .. n - 1 : ReadName(bits, R[k]) = R[k + 1]
    PROVE  ReadNames(bits, R[0], n) = R[n]
<1> DEFINE Step(h, t) == IF t = {} THEN R[0] ELSE ReadName(bits, h[t \ {Max(t)}])
           fold == CHOOSE h : h = [t \in SUBSET (1 .. n) |-> Step(h, t)]
           h0 == [t \in SUBSET (1 .. n) |-> R[Cardinality(t)]]
<1>1. FoldLeft(LAMBDA read, i : ReadName(bits, read), R[0], [i \in 1 .. n |-> i]) = fold[1 .. n]
  <2>1. DOMAIN [i \in 1 .. n |-> i] = 1 .. n
    OBVIOUS
  <2> QED
    BY <2>1 DEF FoldLeft, MapThenFoldSet
<1>2. ASSUME NEW t \in SUBSET (1 .. n) PROVE R[Cardinality(t)] = Step(h0, t)
  <2>1. IsFiniteSet(1 .. n) /\ Cardinality(1 .. n) = n
    BY FS_Interval
  <2>2. IsFiniteSet(t) /\ Cardinality(t) \in Nat /\ Cardinality(t) <= n
    BY <2>1, FS_Subset, FS_CardinalityType
  <2>3. CASE t = {}
    BY <2>3, FS_EmptySet
  <2>4. CASE t # {}
    <3>1. Max(t) \in t
      BY <2>4, GreatestIsIn
    <3>2. Cardinality(t \ {Max(t)}) = Cardinality(t) - 1
      BY <2>2, <3>1, FS_RemoveElement
    <3>3. Cardinality(t) # 0
      BY <2>2, <2>4, FS_EmptySet
    <3>4. Cardinality(t) - 1 \in 0 .. n - 1 /\ (Cardinality(t) - 1) + 1 = Cardinality(t)
      BY <2>2, <3>3
    <3>5. ReadName(bits, R[Cardinality(t) - 1]) = R[Cardinality(t)]
      BY <3>4
    <3>6. h0[t \ {Max(t)}] = R[Cardinality(t) - 1]
      BY <3>2
    <3> QED
      BY <2>4, <3>5, <3>6
  <2> QED
    BY <2>3, <2>4
<1>3. h0 = [t \in SUBSET (1 .. n) |-> Step(h0, t)]
  <2> HIDE DEF Step
  <2> QED
    BY <1>2
<1> HIDE DEF h0
<1>4. fold = [t \in SUBSET (1 .. n) |-> Step(fold, t)]
  <2> HIDE DEF Step
  <2> QED
    BY <1>3
<1> HIDE DEF fold
<1> DEFINE S == {k \in Nat : k <= n => fold[1 .. k] = R[k]}
<1>5. 0 \in S
  <2>1. 1 .. 0 = {} /\ {} \in SUBSET (1 .. n)
    OBVIOUS
  <2> QED
    BY <2>1, <1>4
<1>6. ASSUME NEW k \in Nat, k \in S PROVE k + 1 \in S
  <2>1. SUFFICES ASSUME k + 1 <= n PROVE fold[1 .. k + 1] = R[k + 1]
    OBVIOUS
  <2>2. Max(1 .. k + 1) = k + 1
    BY GreatestOfInterval
  <2>3. (1 .. k + 1) \ {k + 1} = 1 .. k
    OBVIOUS
  <2>4. k + 1 \in 1 .. k + 1
    OBVIOUS
  <2>5. 1 .. k + 1 \in SUBSET (1 .. n)
    BY <2>1
  <2>6. fold[1 .. k + 1] = ReadName(bits, fold[1 .. k])
    BY <1>4, <2>2, <2>3, <2>4, <2>5
  <2>7. fold[1 .. k] = R[k] /\ k \in 0 .. n - 1
    BY <1>6, <2>1
  <2> QED
    BY <2>6, <2>7
<1> HIDE DEF S
<1>7. n \in S
  BY <1>5, <1>6, AllNumbers
<1>8. fold[1 .. n] = R[n]
  BY <1>7 DEF S
<1> QED
  BY <1>1, <1>8 DEF ReadNames

\* A reader that finds the write-ins' data finds the write-ins.
LEMMA WriteInsAreThere ==
    ASSUME NEW max \in Nat, max < 2^30,
           NEW W, \A w \in W : w.name \in Names,
           NEW writeIns \in Seq(W), Len(writeIns) <= max
    PROVE  /\ WriteInData(writeIns, max) \in Seq(Bits)
           /\ \A V : \A vote \in Seq(V), bits \in Seq(Bits), at \in Nat :
                 Holds(bits, at, WriteInData(writeIns, max)) =>
                    ReadWriteIns(bits, [at |-> at, vote |-> vote], max)
                       = [at |-> at + Len(WriteInData(writeIns, max)),
                          vote |-> vote \o AsRead(writeIns)]
<1> DEFINE n == Len(writeIns)
           size == sizeof(max)
           f == [i \in 1 .. n |-> WriteName(writeIns[i].name)]
           list == AsRead(writeIns)
           written == WriteInData(writeIns, max)
<1>1. n \in Nat /\ DOMAIN writeIns = 1 .. n
  OBVIOUS
<1>2. ASSUME NEW i \in 1 .. n
      PROVE  /\ writeIns[i].name \in Names
             /\ list[i] = [id |-> Named(writeIns[i].name), name |-> writeIns[i].name]
  <2>1. writeIns[i] \in W
    OBVIOUS
  <2>2. list[i] = [id |-> Named(writeIns[i].name), name |-> writeIns[i].name]
    BY <1>1 DEF AsRead
  <2> QED
    BY <2>1, <2>2
<1>3. list \in Seq(Writable) /\ Len(list) = n
  <2>1. list = [i \in 1 .. n |-> list[i]]
    BY <1>1 DEF AsRead
  <2>2. ASSUME NEW i \in 1 .. n PROVE list[i] \in Writable
    BY <1>2 DEF Writable
  <2> HIDE DEF list, n
  <2> QED
    BY <1>1, <2>1, <2>2
<1>4. size \in Nat /\ n < 2^size
  <2>1. size \in 1 .. 31 /\ max < 2^size
    BY SizeOfNumber
  <2> HIDE DEF size, n
  <2>2. size \in Nat /\ 2^size \in Nat
    BY <2>1, Powers
  <2>3. n <= max
    BY DEF n
  <2> QED
    BY <1>1, <2>1, <2>2, <2>3
<1>5. ASSUME NEW i \in 1 .. n PROVE f[i] = WriteName(writeIns[i].name) /\ f[i] \in Seq(Bits)
  BY <1>2, NameIsRead
<1>6. f \in [1 .. n -> Seq(Bits)]
  BY <1>5
<1> HIDE DEF f, n, size, list
<1>7. PICK H \in [0 .. n -> Seq(Bits)] :
         IsJoin(H, f, n) /\ Concat(writeIns, LAMBDA w : WriteName(w.name)) = H[n]
  <2>1. PICK H \in [0 .. n -> Seq(Bits)] : IsJoin(H, f, n) /\ FlattenSeq(f) = H[n]
    BY <1>1, <1>6, BitsFlattened
  <2>2. Concat(writeIns, LAMBDA w : WriteName(w.name)) = FlattenSeq(f)
    BY <1>1 DEF Concat, f, n
  <2> QED
    BY <2>1, <2>2
<1>8. written = Uint(n, size) \o H[n]
  BY <1>7 DEF WriteInData, UintUpTo, n, size
<1>9. Uint(n, size) \in Seq(Bits) /\ Len(Uint(n, size)) = size /\ H[n] \in Seq(Bits)
  BY <1>1, <1>4, <1>7, NumberBits
<1>10. written \in Seq(Bits) /\ Len(written) = size + Len(H[n])
  <2>1. Uint(n, size) \o H[n] \in Seq(Bits)
        /\ Len(Uint(n, size) \o H[n]) = Len(Uint(n, size)) + Len(H[n])
    BY <1>9, Joined
  <2> HIDE DEF written
  <2> QED
    BY <1>8, <1>9, <2>1
<1> HIDE DEF written
<1>11. SUFFICES ASSUME NEW V, NEW vote \in Seq(V), NEW bits \in Seq(Bits), NEW at \in Nat,
                       Holds(bits, at, written)
                PROVE  ReadWriteIns(bits, [at |-> at, vote |-> vote], max)
                          = [at |-> at + Len(written), vote |-> vote \o list]
  BY <1>10 DEF written, list
<1> DEFINE X == V \cup Writable
<1>12. vote \in Seq(X) /\ list \in Seq(X)
  BY <1>3
<1> HIDE DEF X
<1>13. Holds(bits, at, Uint(n, size)) /\ Holds(bits, at + size, H[n])
  <2>1. Holds(bits, at, Uint(n, size) \o H[n])
    BY <1>8, <1>11
  <2>2. Holds(bits, at, Uint(n, size)) /\ Holds(bits, at + Len(Uint(n, size)), H[n])
    BY <2>1, <1>9, HoldsParts
  <2> QED
    BY <2>2, <1>9
<1>14. ReadUint(bits, at, size) = n
  BY <1>1, <1>4, <1>13, NumberIsRead
<1> DEFINE start == at + size
           R == [k \in 0 .. n |-> [at |-> start + Len(H[k]), vote |-> vote \o SubSeq(list, 1, k)]]
<1>15. start \in Nat
  BY <1>4
<1>16. ASSUME NEW k \in 0 .. n - 1 PROVE ReadName(bits, R[k]) = R[k + 1]
  <2>1. k \in Nat /\ k + 1 <= n /\ k \in 0 .. n /\ k + 1 \in 0 .. n /\ k + 1 \in 1 .. n
    BY <1>1
  <2> DEFINE name == writeIns[k + 1].name
             here == start + Len(H[k])
             read == vote \o SubSeq(list, 1, k)
  <2>2. name \in Names /\ list[k + 1] = [id |-> Named(name), name |-> name]
        /\ f[k + 1] = WriteName(name)
    BY <2>1, <1>2, <1>5
  <2>3. /\ H[k] \in Seq(Bits) /\ f[k + 1] \in Seq(Bits)
        /\ Len(H[k + 1]) = Len(H[k]) + Len(f[k + 1])
    BY <2>1, <1>1, <1>6, <1>7, JoinStep
  <2> HIDE DEF start, name
  <2>4. here \in Nat
    BY <2>3, <1>15
  <2>5. Holds(bits, here, WriteName(name))
    <3>1. Holds(bits, start + Len(H[k]), f[k + 1])
      <4>1. Holds(bits, start, H[n])
        BY <1>13 DEF start
      <4> QED
        BY <4>1, <1>1, <1>6, <1>7, <1>15, JoinHolds
    <3> QED
      BY <3>1, <2>2
  <2> HIDE DEF here, read
  <2>6. ReadName(bits, [at |-> here, vote |-> read])
           = [at |-> here + Len(WriteName(name)), vote |-> Append(read, list[k + 1])]
    BY <2>2, <2>4, <2>5, NameIsRead
  <2>7. R[k] = [at |-> here, vote |-> read]
    BY <2>1 DEF here, read
  <2>8. here + Len(WriteName(name)) = start + Len(H[k + 1])
    BY <2>2, <2>3, <1>15 DEF here
  <2>9. Append(read, list[k + 1]) = vote \o SubSeq(list, 1, k + 1)
    <3> DEFINE some == SubSeq(list, 1, k)
               next == list[k + 1]
    <3>1. SubSeq(list, 1, k + 1) = Append(some, next)
      BY <1>3, <2>1
    <3>2. some \in Seq(X) /\ next \in X
      BY <1>1, <1>3, <1>12, <2>1
    <3> HIDE DEF some, next
    <3>3. Same(Append(vote \o some, next), vote \o Append(some, next))
      BY <3>2, <1>12, Appended, Zenon
    <3> QED
      BY <3>1, <3>3 DEF Same, read, some, next
  <2>10. R[k + 1] = [at |-> start + Len(H[k + 1]), vote |-> vote \o SubSeq(list, 1, k + 1)]
    BY <2>1
  <2> QED
    BY <2>6, <2>7, <2>8, <2>9, <2>10
<1>17. R[0] = [at |-> at + size, vote |-> vote]
  <2>1. H[0] = <<>> /\ Len(H[0]) = 0 /\ 0 \in 0 .. n
    BY <1>1, <1>7 DEF IsJoin
  <2>2. vote \o SubSeq(list, 1, 0) = vote
    BY <1>12
  <2>3. start + 0 = at + size
    BY <1>15
  <2>4. R[0] = [at |-> start + Len(H[0]), vote |-> vote \o SubSeq(list, 1, 0)]
    BY <2>1
  <2> QED
    BY <2>1, <2>2, <2>3, <2>4
<1>18. R[n] = [at |-> at + Len(written), vote |-> vote \o list]
  <2>1. SubSeq(list, 1, n) = list /\ n \in 0 .. n
    BY <1>1, <1>3
  <2>2. start + Len(H[n]) = at + Len(written)
    <3>1. Len(H[n]) \in Nat /\ Len(written) = size + Len(H[n])
      BY <1>9, <1>10
    <3>2. \A u \in Nat, v \in Nat : (at + u) + v = at + (u + v)
      OBVIOUS
    <3>3. size \in Nat
      BY <1>4
    <3> HIDE DEF R
    <3> QED
      BY <3>1, <3>2, <3>3
  <2>3. R[n] = [at |-> start + Len(H[n]), vote |-> vote \o SubSeq(list, 1, n)]
    BY <2>1
  <2> QED
    BY <2>1, <2>2, <2>3
<1> HIDE DEF R
<1>19. ReadNames(bits, R[0], n) = R[n]
  BY <1>1, <1>16, ReadingIsRepeated
<1>20. ReadWriteIns(bits, [at |-> at, vote |-> vote], max) = ReadNames(bits, R[0], n)
  <2> DEFINE r == [at |-> at, vote |-> vote]
  <2>1. [r EXCEPT !.at = r.at + size] = R[0] /\ r.at = at
    BY <1>17
  <2> HIDE DEF r
  <2>2. ReadWriteIns(bits, r, max)
           = ReadNames(bits, [r EXCEPT !.at = r.at + sizeof(max)], ReadUint(bits, r.at, sizeof(max)))
    BY DEF ReadWriteIns, ReadNames
  <2> QED
    BY <2>1, <2>2, <1>14 DEF size, r
<1> QED
  BY <1>18, <1>19, <1>20

\* A reader at the start of w, among other bits, finds it.
LEMMA IsFound ==
    ASSUME NEW w \in Seq(Bits), NEW before \in Seq(Bits), NEW after \in Seq(Bits)
    PROVE  /\ before \o w \o after \in Seq(Bits) /\ Len(before) \in Nat
           /\ Holds(before \o w \o after, Len(before), w)
<1> DEFINE bits == before \o w \o after
<1>1. /\ bits \in Seq(Bits)
      /\ Len(bits) = Len(before) + Len(w) + Len(after)
      /\ \A i \in 1 .. Len(w) : bits[Len(before) + i] = w[i]
  BY Inside
<1> HIDE DEF bits
<1>2. Len(w) \in Nat /\ Len(before) \in Nat /\ Len(after) \in Nat
  OBVIOUS
<1>3. Holds(bits, Len(before), w)
  BY <1>1, <1>2 DEF Holds
<1> QED
  BY <1>1, <1>2, <1>3 DEF bits

\* What a voter wrote in is read from the paper as it was written, name by
\* name and in order, wherever it is among the ballot's bits, with an id made
\* of the name, and the reader goes on behind it (encodeBallotVotesInto and
\* decodeBallotVotes, with writeString and readString).
THEOREM WriteInsAreRead ==
    ASSUME NEW max \in Nat, max < 2^30,
           NEW W, \A w \in W : w.name \in Names,
           NEW writeIns \in Seq(W), Len(writeIns) <= max,
           NEW V, NEW vote \in Seq(V),
           NEW before \in Seq(Bits), NEW after \in Seq(Bits)
    PROVE  LET written == WriteInData(writeIns, max) IN
           ReadWriteIns(before \o written \o after, [at |-> Len(before), vote |-> vote], max)
              = [at |-> Len(before) + Len(written), vote |-> vote \o AsRead(writeIns)]
<1> DEFINE written == WriteInData(writeIns, max)
           bits == before \o written \o after
           at == Len(before)
<1>1. written \in Seq(Bits)
  BY WriteInsAreThere
<1> HIDE DEF written
<1>2. bits \in Seq(Bits) /\ at \in Nat /\ Holds(bits, at, written)
  BY <1>1, IsFound
<1> HIDE DEF bits, at
<1>3. ReadWriteIns(bits, [at |-> at, vote |-> vote], max)
         = [at |-> at + Len(written), vote |-> vote \o AsRead(writeIns)]
  <2>1. \A X : \A v \in Seq(X), b \in Seq(Bits), p \in Nat :
           Holds(b, p, written) =>
              ReadWriteIns(b, [at |-> p, vote |-> v], max)
                 = [at |-> p + Len(written), vote |-> v \o AsRead(writeIns)]
    BY WriteInsAreThere DEF written
  <2> QED
    BY <1>2, <2>1
<1> QED
  BY <1>3 DEF written, bits, at

----------------------------------------------------------------------------
(* Candidates.                                                             *)

\* What is kept of a list: its elements at the places of T.
Kept(s, T) == FlattenSeq([i \in 1 .. Len(s) |-> IF i \in T THEN <<s[i]>> ELSE <<>>])

LEMMA KeptElements ==
    ASSUME NEW X, NEW s \in Seq(X), NEW T \in SUBSET (1 .. Len(s))
    PROVE  /\ Kept(s, T) \in Seq({s[i] : i \in T})
           /\ Len(Kept(s, T)) = Cardinality(T)
<1> DEFINE n == Len(s)
           Y == {s[i] : i \in T}
           f == [i \in 1 .. n |-> IF i \in T THEN <<s[i]>> ELSE <<>>]
<1>1. n \in Nat
  OBVIOUS
<1>2. ASSUME NEW i \in 1 .. n
      PROVE  f[i] = (IF i \in T THEN <<s[i]>> ELSE <<>>) /\ f[i] \in Seq(Y)
  <2>1. f[i] = IF i \in T THEN <<s[i]>> ELSE <<>>
    OBVIOUS
  <2>2. CASE i \in T
    <3>1. s[i] \in Y
      BY <2>2
    <3> HIDE DEF Y, f
    <3>2. <<s[i]>> \in Seq(Y)
      BY <3>1
    <3> QED
      BY <2>1, <2>2, <3>2
  <2>3. CASE i \notin T
    <3>1. <<>> \in Seq(Y)
      OBVIOUS
    <3> QED
      BY <2>1, <2>3, <3>1
  <2> QED
    BY <2>2, <2>3
<1>3. f \in [1 .. n -> Seq(Y)]
  BY <1>2
<1>4. Kept(s, T) = FlattenSeq(f)
  BY DEF Kept
<1> HIDE DEF f, Y
<1>5. PICK H \in [0 .. n -> Seq(Y)] : IsJoin(H, f, n) /\ FlattenSeq(f) = H[n]
  BY <1>1, <1>3, Flattened
<1> HIDE DEF n
<1> DEFINE Before(k) == T \cap (1 .. k)
           S == {k \in Nat : k <= n => IsFiniteSet(Before(k)) /\ Len(H[k]) = Cardinality(Before(k))}
<1>6. 0 \in S
  <2>1. Before(0) = {}
    OBVIOUS
  <2>2. Len(H[0]) = 0
    BY <1>5 DEF IsJoin
  <2> HIDE DEF Before
  <2> QED
    BY <2>1, <2>2, FS_EmptySet
<1>7. ASSUME NEW k \in Nat, k \in S PROVE k + 1 \in S
  <2>1. SUFFICES ASSUME k + 1 <= n
                 PROVE  /\ IsFiniteSet(Before(k + 1))
                        /\ Len(H[k + 1]) = Cardinality(Before(k + 1))
    <3> HIDE DEF Before
    <3> QED
      OBVIOUS
  <2>2. k \in 0 .. n - 1 /\ k \in 0 .. n /\ k + 1 \in 1 .. n /\ k <= n
    BY <2>1, <1>1
  <2>3. IsFiniteSet(Before(k)) /\ Len(H[k]) = Cardinality(Before(k))
    <3> HIDE DEF Before
    <3> QED
      BY <1>7, <2>2
  <2>4. H[k + 1] = H[k] \o f[k + 1] /\ H[k] \in Seq(Y)
    BY <1>5, <2>2 DEF IsJoin
  <2>5. CASE k + 1 \in T
    <3>1. Before(k + 1) = Before(k) \cup {k + 1} /\ k + 1 \notin Before(k)
      BY <2>5
    <3>2. f[k + 1] = <<s[k + 1]>> /\ f[k + 1] \in Seq(Y)
      BY <2>2, <2>5, <1>2
    <3> HIDE DEF Before
    <3>3. Len(H[k + 1]) = Len(H[k]) + 1
      <4>1. \A a \in Seq(Y), b \in Seq(Y) : Len(a \o b) = Len(a) + Len(b)
        OBVIOUS
      <4>2. Len(f[k + 1]) = 1
        BY <3>2
      <4> QED
        BY <4>1, <4>2, <2>4, <3>2
    <3>4. IsFiniteSet(Before(k + 1)) /\ Cardinality(Before(k + 1)) = Cardinality(Before(k)) + 1
      BY <2>3, <3>1, FS_AddElement
    <3> QED
      BY <2>3, <3>3, <3>4
  <2>6. CASE k + 1 \notin T
    <3>1. Before(k + 1) = Before(k)
      <4>1. \A j \in T : j \in 1 .. k + 1 <=> j \in 1 .. k
        BY <2>6
      <4> QED
        BY <4>1
    <3>2. f[k + 1] = <<>>
      BY <2>2, <2>6, <1>2
    <3> HIDE DEF Before
    <3>3. H[k + 1] = H[k]
      <4>1. \A a \in Seq(Y) : a \o <<>> = a
        OBVIOUS
      <4> QED
        BY <4>1, <2>4, <3>2
    <3> QED
      BY <2>3, <3>1, <3>3
  <2> QED
    BY <2>5, <2>6
<1> HIDE DEF S
<1>8. n \in S
  BY <1>1, <1>6, <1>7, AllNumbers
<1>9. Before(n) = T
  BY DEF n
<1>10. Len(H[n]) = Cardinality(T)
  <2> HIDE DEF Before
  <2> QED
    BY <1>8, <1>9, <1>1 DEF S
<1> QED
  BY <1>1, <1>4, <1>5, <1>10 DEF Y

Flags(n, B) == FlattenSeq([i \in 1 .. n |-> Bit(B[i])])

\* Flags that are written one by one are read.
LEMMA FlagsAreThere ==
    ASSUME NEW n \in Nat, NEW B \in [1 .. n -> BOOLEAN]
    PROVE  /\ Flags(n, B) \in Seq(Bits) /\ Len(Flags(n, B)) = n
           /\ \A bits \in Seq(Bits), at \in Nat :
                 Holds(bits, at, Flags(n, B)) => \A i \in 1 .. n : (bits[at + i] = 1) = B[i]
<1> DEFINE f == [i \in 1 .. n |-> Bit(B[i])]
           w == Flags(n, B)
<1>0. w = FlattenSeq(f)
  BY DEF Flags
<1> HIDE DEF w
<1>1. ASSUME NEW i \in 1 .. n
      PROVE  f[i] \in Seq(Bits) /\ Len(f[i]) = 1 /\ (f[i][1] = 1) = B[i]
  <2>1. f[i] = Bit(B[i]) /\ B[i] \in BOOLEAN
    OBVIOUS
  <2> HIDE DEF f
  <2> QED
    BY <2>1, BitIsBit
<1>2. f \in [1 .. n -> Seq(Bits)]
  BY <1>1
<1> HIDE DEF f
<1>3. PICK H \in [0 .. n -> Seq(Bits)] : IsJoin(H, f, n) /\ FlattenSeq(f) = H[n]
  BY <1>2, BitsFlattened
<1>4. \A k \in 0 .. n : Len(H[k]) = k * 1
  <2>1. \A i \in 1 .. n : Len(f[i]) = 1
    BY <1>1
  <2>2. 1 \in Nat
    OBVIOUS
  <2> QED
    BY <2>1, <2>2, <1>2, <1>3, JoinLength
<1>5. \A k \in 0 .. n : Len(H[k]) = k
  BY <1>4
<1>6. w = H[n] /\ w \in Seq(Bits) /\ Len(w) = n
  BY <1>0, <1>3, <1>5
<1>7. ASSUME NEW bits \in Seq(Bits), NEW at \in Nat, Holds(bits, at, w), NEW i \in 1 .. n
      PROVE  (bits[at + i] = 1) = B[i]
  <2>1. i - 1 \in 0 .. n - 1 /\ i - 1 \in 0 .. n /\ (i - 1) + 1 = i
    OBVIOUS
  <2>2. Holds(bits, at + Len(H[i - 1]), f[(i - 1) + 1])
    <3>1. Holds(bits, at, H[n])
      BY <1>6, <1>7
    <3> QED
      BY <3>1, <2>1, <1>2, <1>3, JoinHolds
  <2>3. Holds(bits, at + (i - 1), f[i])
    BY <2>1, <2>2, <1>5
  <2>4. bits[at + (i - 1) + 1] = f[i][1]
    BY <2>3, <1>1 DEF Holds
  <2>5. at + (i - 1) + 1 = at + i
    OBVIOUS
  <2> QED
    BY <2>4, <2>5, <1>1
<1> QED
  BY <1>6, <1>7 DEF w

\* A list without a value twice has each in one place.
PlaceOf(s, x) == CHOOSE i \in DOMAIN s : s[i] = x /\ \A j \in 1 .. i - 1 : ~(s[j] = x)

LEMMA PlaceIs ==
    ASSUME NEW s, NEW n \in Nat, DOMAIN s = 1 .. n, IsInjective(s), NEW i \in 1 .. n
    PROVE  PlaceOf(s, s[i]) = i
<1> DEFINE Found(k) == s[k] = s[i] /\ \A j \in 1 .. k - 1 : ~(s[j] = s[i])
<1>1. \A j, k \in 1 .. n : s[j] = s[k] => j = k
  BY DEF IsInjective
<1>2. Found(i)
  <2>1. \A j \in 1 .. i - 1 : j \in 1 .. n /\ j # i
    OBVIOUS
  <2> QED
    BY <1>1, <2>1
<1>3. \A k \in 1 .. n : Found(k) => k = i
  BY <1>1
<1>4. PlaceOf(s, s[i]) = CHOOSE k \in 1 .. n : Found(k)
  BY DEF PlaceOf
<1> HIDE DEF Found
<1> QED
  BY <1>2, <1>3, <1>4

----------------------------------------------------------------------------
(* Votes.                                                                  *)

\* A contest as the schemas of an election have it.
Electable(c) ==
    /\ c.candidates \in Seq(Range(c.candidates)) /\ IsInjective(c.candidates)
    /\ IF c.type = "yesno" THEN c.candidates = <<"yes", "no">>
       ELSE c.seats \in Nat /\ c.seats < 2^30

IsWritten(choice) == choice.id[1] = "named"

\* What the screens let a voter choose: candidates, each once, and where they
\* are allowed, names of the alphabet, no more than there are seats.
IsChoice(c, choice) ==
    \/ \E candidate \in Range(c.candidates) : choice = [id |-> Official(candidate), name |-> <<>>]
    \/ /\ c.type # "yesno" /\ c.allowWriteIns
       /\ choice = [id |-> choice.id, name |-> choice.name]
       /\ IsWritten(choice) /\ choice.name \in Names

Fillable(c, vote) ==
    /\ vote \in Seq(Range(vote))
    /\ \A i \in DOMAIN vote : IsChoice(c, vote[i])
    /\ Len(vote) <= MaxSelectable(c)
    /\ \A i, j \in DOMAIN vote : vote[i].id = vote[j].id /\ ~IsWritten(vote[i]) => i = j

IsChosen(vote, candidate) == \E i \in DOMAIN vote : vote[i].id = Official(candidate)

\* The candidates that are chosen, in the order of the ballot.
ChosenOf(c, vote) == Those(c.candidates, LAMBDA candidate : IsChosen(vote, candidate))

AsOfficial(candidates) ==
    [i \in DOMAIN candidates |-> [id |-> Official(candidates[i]), name |-> <<>>]]

\* A vote as it is read: the candidates in the order of the ballot, then the
\* write-ins in the order they were written.
AsPrinted(c, vote) ==
    IF c.type = "yesno" THEN vote
    ELSE AsOfficial(ChosenOf(c, vote)) \o AsRead(WriteIns(vote))

LEMMA WriteInsAreKept ==
    ASSUME NEW c, NEW vote, Fillable(c, vote)
    PROVE  LET T == {i \in 1 .. Len(vote) : IsWritten(vote[i])} IN
           /\ WriteIns(vote) = Kept(vote, T)
           /\ WriteIns(vote) \in Seq({vote[i] : i \in T})
           /\ Len(WriteIns(vote)) = Cardinality(T)
<1> DEFINE n == Len(vote)
           T == {i \in 1 .. n : IsWritten(vote[i])}
<1>1. vote \in Seq(Range(vote)) /\ DOMAIN vote = 1 .. n
  BY DEF Fillable
<1>2. WriteIns(vote) = FlattenSeq([i \in DOMAIN vote |-> IF IsWritten(vote[i]) THEN <<vote[i]>> ELSE <<>>])
  BY DEF WriteIns, Those, Concat, IsWritten
<1>3. \A i \in 1 .. n : i \in T <=> IsWritten(vote[i])
  OBVIOUS
<1> HIDE DEF T
<1>4. [i \in DOMAIN vote |-> IF IsWritten(vote[i]) THEN <<vote[i]>> ELSE <<>>]
        = [i \in 1 .. Len(vote) |-> IF i \in T THEN <<vote[i]>> ELSE <<>>]
  BY <1>1, <1>3
<1>5. WriteIns(vote) = Kept(vote, T)
  BY <1>2, <1>4 DEF Kept
<1>6. T \in SUBSET (1 .. Len(vote))
  BY DEF T
<1>7. Kept(vote, T) \in Seq({vote[i] : i \in T}) /\ Len(Kept(vote, T)) = Cardinality(T)
  BY <1>1, <1>6, KeptElements
<1> QED
  BY <1>5, <1>7 DEF T

LEMMA ChosenAreKept ==
    ASSUME NEW c, NEW vote, Electable(c)
    PROVE  LET T == {i \in 1 .. Len(c.candidates) : IsChosen(vote, c.candidates[i])} IN
           /\ ChosenOf(c, vote) = Kept(c.candidates, T)
           /\ ChosenOf(c, vote) \in Seq({c.candidates[i] : i \in T})
           /\ Len(ChosenOf(c, vote)) = Cardinality(T)
<1> DEFINE list == c.candidates
           n == Len(list)
           T == {i \in 1 .. n : IsChosen(vote, list[i])}
<1>1. list \in Seq(Range(list)) /\ DOMAIN list = 1 .. n
  BY DEF Electable
<1>2. ChosenOf(c, vote) = FlattenSeq([i \in DOMAIN list |-> IF IsChosen(vote, list[i]) THEN <<list[i]>> ELSE <<>>])
  BY DEF ChosenOf, Those, Concat
<1>3. \A i \in 1 .. n : i \in T <=> IsChosen(vote, list[i])
  OBVIOUS
<1>4. T \in SUBSET (1 .. Len(list))
  OBVIOUS
<1> HIDE DEF T, list
<1>5. [i \in DOMAIN list |-> IF IsChosen(vote, list[i]) THEN <<list[i]>> ELSE <<>>]
        = [i \in 1 .. Len(list) |-> IF i \in T THEN <<list[i]>> ELSE <<>>]
  BY <1>1, <1>3
<1>6. ChosenOf(c, vote) = Kept(list, T)
  BY <1>2, <1>5 DEF Kept
<1>7. Kept(list, T) \in Seq({list[i] : i \in T}) /\ Len(Kept(list, T)) = Cardinality(T)
  BY <1>1, <1>4, KeptElements
<1> QED
  BY <1>6, <1>7 DEF T, list

\* As many candidates are read as were chosen.
LEMMA ChosenAreCounted ==
    ASSUME NEW c, NEW vote, Electable(c), Fillable(c, vote)
    PROVE  /\ Len(vote) \in Nat /\ Len(WriteIns(vote)) \in Nat
           /\ Len(ChosenOf(c, vote)) = Len(vote) - Len(WriteIns(vote))
<1> DEFINE n == Len(vote)
           list == c.candidates
           W == {j \in 1 .. n : IsWritten(vote[j])}
           O == {j \in 1 .. n : ~IsWritten(vote[j])}
           D == {i \in 1 .. Len(list) : IsChosen(vote, list[i])}
           place == [j \in O |-> CHOOSE i \in D : vote[j].id = Official(list[i])]
<1>1. n \in Nat /\ DOMAIN vote = 1 .. n
  BY DEF Fillable
<1>2. DOMAIN list = 1 .. Len(list) /\ \A i, k \in 1 .. Len(list) : list[i] = list[k] => i = k
  BY DEF Electable, IsInjective
<1>3. ASSUME NEW j \in O PROVE place[j] \in D /\ vote[j].id = Official(list[place[j]])
  <2>1. PICK candidate \in Range(list) : vote[j].id = Official(candidate)
    <3>1. IsChoice(c, vote[j]) /\ ~IsWritten(vote[j])
      BY <1>1 DEF Fillable
    <3>2. PICK candidate \in Range(list) : vote[j] = [id |-> Official(candidate), name |-> <<>>]
      BY <3>1 DEF IsChoice
    <3> QED
      BY <3>2
  <2>2. PICK i \in 1 .. Len(list) : candidate = list[i]
    BY <1>2 DEF Range
  <2>3. i \in D
    BY <2>1, <2>2, <1>1 DEF IsChosen
  <2>4. place[j] = CHOOSE u \in D : vote[j].id = Official(list[u])
    OBVIOUS
  <2> HIDE DEF D, place, O, list
  <2> QED
    BY <2>1, <2>2, <2>3, <2>4
<1>4. place \in [O -> D]
  BY <1>3
<1>5. ASSUME NEW j \in O, NEW k \in O, place[j] = place[k] PROVE j = k
  <2>1. vote[j].id = vote[k].id
    BY <1>3, <1>5
  <2>2. j \in DOMAIN vote /\ k \in DOMAIN vote /\ ~IsWritten(vote[j])
    BY <1>1
  <2> QED
    BY <2>1, <2>2 DEF Fillable
<1>6. ASSUME NEW i \in D PROVE \E j \in O : place[j] = i
  <2>1. PICK j \in 1 .. n : vote[j].id = Official(list[i])
    BY <1>1 DEF IsChosen
  <2>2. j \in O
    BY <2>1 DEF IsWritten, Official
  <2>3. place[j] \in D /\ Official(list[place[j]]) = Official(list[i])
    BY <2>1, <2>2, <1>3
  <2>4. list[place[j]] = list[i]
    BY <2>3 DEF Official
  <2> QED
    BY <2>2, <2>3, <2>4, <1>2
<1>7. ExistsBijection(O, D)
  <2> HIDE DEF O, D, place
  <2>1. place \in Injection(O, D)
    <3>1. DOMAIN place = O
      BY <1>4
    <3> QED
      BY <1>4, <1>5, <3>1 DEF Injection, IsInjective
  <2>2. place \in Surjection(O, D)
    BY <1>4, <1>6 DEF Surjection
  <2> QED
    BY <2>1, <2>2 DEF ExistsBijection, Bijection
<1>8. W \cup O = 1 .. n /\ W \cap O = {} /\ W \subseteq 1 .. n /\ O \subseteq 1 .. n
  OBVIOUS
<1>9. Len(ChosenOf(c, vote)) = Cardinality(D) /\ Len(WriteIns(vote)) = Cardinality(W)
  BY ChosenAreKept, WriteInsAreKept
<1> HIDE DEF W, O, D, n
<1>10. IsFiniteSet(W) /\ IsFiniteSet(O) /\ Cardinality(W) \in Nat /\ Cardinality(O) \in Nat
  <2>1. IsFiniteSet(1 .. n)
    BY <1>1, FS_Interval
  <2>2. IsFiniteSet(W) /\ IsFiniteSet(O)
    BY <2>1, <1>8, FS_Subset
  <2> QED
    BY <2>2, FS_CardinalityType
<1>11. Cardinality(D) = Cardinality(O)
  BY <1>7, <1>10, FS_Bijection
<1>12. n = Cardinality(W) + Cardinality(O) - 0
  <2>1. Cardinality(1 .. n) = n
    BY <1>1, FS_Interval
  <2>2. Cardinality(W \cup O) = Cardinality(W) + Cardinality(O) - Cardinality(W \cap O)
    BY <1>10, FS_Union
  <2>3. Cardinality(W \cap O) = 0
    BY <1>8, FS_EmptySet
  <2> QED
    BY <2>1, <2>2, <2>3, <1>8
<1> QED
  BY <1>1, <1>9, <1>10, <1>11, <1>12 DEF n

ContestData(c, vote) ==
    IF c.type = "yesno" THEN Bit(vote[1].id = Official("yes")) ELSE WriteCandidateVote(c, vote)

\* What is read of a yes/no contest.
LEMMA YesNoIsThere ==
    ASSUME NEW c, NEW vote, Electable(c), Fillable(c, vote), vote # <<>>, c.type = "yesno"
    PROVE  /\ ContestData(c, vote) \in Seq(Bits)
           /\ \A choices : \A bits \in Seq(Bits), at \in Nat :
                 Holds(bits, at, ContestData(c, vote)) =>
                    ReadContest(bits, [at |-> at, votes |-> choices], c) =
                       [at |-> at + Len(ContestData(c, vote)),
                        votes |-> [choices EXCEPT ![c.id] = AsPrinted(c, vote)]]
<1> DEFINE b == vote[1].id = Official("yes")
           w == ContestData(c, vote)
<1>1. w = Bit(b) /\ b \in BOOLEAN
  BY DEF ContestData
<1>2. Len(vote) = 1 /\ vote = <<vote[1]>> /\ 1 \in DOMAIN vote
  <2>1. vote \in Seq(Range(vote)) /\ Len(vote) <= 1
    BY DEF Fillable, MaxSelectable
  <2>2. Len(vote) # 0
    BY <2>1
  <2> QED
    BY <2>1, <2>2
<1>3. vote[1] = [id |-> Official(IF b THEN "yes" ELSE "no"), name |-> <<>>]
  <2>1. PICK candidate \in Range(c.candidates) :
           vote[1] = [id |-> Official(candidate), name |-> <<>>]
    BY <1>2 DEF Fillable, IsChoice
  <2>2. c.candidates = <<"yes", "no">>
    BY DEF Electable
  <2>3. candidate \in {"yes", "no"}
    BY <2>2 DEF Range
  <2>4. CASE candidate = "yes"
    BY <2>1, <2>4
  <2>5. CASE candidate = "no"
    <3>1. ~b
      BY <2>1, <2>5 DEF Official
    <3> QED
      BY <2>1, <2>5, <3>1
  <2> QED
    BY <2>3, <2>4, <2>5
<1> HIDE DEF b, w
<1>4. w \in Seq(Bits) /\ Len(w) = 1 /\ (w[1] = 1) = b
  BY <1>1, BitIsBit
<1>5. ASSUME NEW bits \in Seq(Bits), NEW at \in Nat, NEW choices, Holds(bits, at, w)
      PROVE  ReadContest(bits, [at |-> at, votes |-> choices], c) =
                [at |-> at + Len(w), votes |-> [choices EXCEPT ![c.id] = AsPrinted(c, vote)]]
  <2>1. (bits[at + 1] = 1) = b
    BY <1>4, <1>5 DEF Holds
  <2>2. AsPrinted(c, vote) = <<[id |-> Official(IF b THEN "yes" ELSE "no"), name |-> <<>>]>>
    BY <1>2, <1>3 DEF AsPrinted
  <2>3. ReadContest(bits, [at |-> at, votes |-> choices], c) =
          [at |-> at + 1, votes |-> [choices EXCEPT ![c.id] =
             <<[id |-> Official(IF bits[at + 1] = 1 THEN "yes" ELSE "no"), name |-> <<>>]>>]]
    BY DEF ReadContest
  <2> QED
    BY <2>1, <2>2, <2>3, <1>4
<1> QED
  BY <1>4, <1>5 DEF w

\* The candidates a reader finds chosen, whose flags are after the first at bits.
Flagged(c, bits, at) ==
    Those(c.candidates, LAMBDA candidate :
        bits[at + IndexOf(c.candidates, LAMBDA k : k = candidate)] = 1)

\* A candidate is chosen where its flag says so.
LEMMA FlagsAreChosen ==
    ASSUME NEW c, NEW vote, Electable(c), NEW bits, NEW at,
           \A i \in 1 .. Len(c.candidates) : (bits[at + i] = 1) = IsChosen(vote, c.candidates[i])
    PROVE  Flagged(c, bits, at) = ChosenOf(c, vote)
<1> DEFINE list == c.candidates
           n == Len(list)
<1>1. n \in Nat /\ DOMAIN list = 1 .. n /\ IsInjective(list)
  BY DEF Electable
<1>2. \A i \in 1 .. n : (bits[at + i] = 1) = IsChosen(vote, list[i])
  OBVIOUS
<1>3. ChosenOf(c, vote) = FlattenSeq([i \in DOMAIN list |-> IF IsChosen(vote, list[i]) THEN <<list[i]>> ELSE <<>>])
  BY DEF ChosenOf, Those, Concat
<1>4. Flagged(c, bits, at)
        = FlattenSeq([i \in DOMAIN list |->
             IF bits[at + PlaceOf(list, list[i])] = 1 THEN <<list[i]>> ELSE <<>>])
  BY DEF Flagged, Those, Concat, IndexOf, PlaceOf
<1> HIDE DEF n, list
<1>5. ASSUME NEW i \in 1 .. n
      PROVE  (IF bits[at + PlaceOf(list, list[i])] = 1 THEN <<list[i]>> ELSE <<>>)
               = (IF IsChosen(vote, list[i]) THEN <<list[i]>> ELSE <<>>)
  <2>1. PlaceOf(list, list[i]) = i
    BY <1>1, PlaceIs
  <2>2. (bits[at + i] = 1) = IsChosen(vote, list[i])
    BY <1>2
  <2> QED
    BY <2>1, <2>2
<1>6. [i \in DOMAIN list |-> IF bits[at + PlaceOf(list, list[i])] = 1 THEN <<list[i]>> ELSE <<>>]
        = [i \in DOMAIN list |-> IF IsChosen(vote, list[i]) THEN <<list[i]>> ELSE <<>>]
  BY <1>1, <1>5
<1> QED
  BY <1>3, <1>4, <1>6 DEF list

\* There is room on the paper for the names that are written in.
LEMMA WriteInsFit ==
    ASSUME NEW c, NEW vote, Electable(c), Fillable(c, vote), c.type # "yesno"
    PROVE  LET max == maximumWriteIns(c, Len(vote) - Len(WriteIns(vote))) IN
           /\ max \in Nat /\ max < 2^30 /\ Len(WriteIns(vote)) <= max
           /\ max = maximumWriteIns(c, Len(ChosenOf(c, vote)))
           /\ ~(c.allowWriteIns /\ max > 0) => WriteIns(vote) = <<>>
<1> DEFINE n == Len(vote)
           m == Len(WriteIns(vote))
           max == maximumWriteIns(c, n - m)
           power == 2^30
           T == {i \in 1 .. n : IsWritten(vote[i])}
<1>1. n \in Nat /\ m \in Nat /\ Len(ChosenOf(c, vote)) = n - m
  BY ChosenAreCounted
<1>2. Len(ChosenOf(c, vote)) \in Nat
  <2>1. \A X : \A s \in Seq(X) : Len(s) \in Nat
    OBVIOUS
  <2> QED
    BY <2>1, ChosenAreKept
<1>3. c.seats \in Nat /\ c.seats < power /\ n <= c.seats
  BY DEF Electable, Fillable, MaxSelectable
<1>4. WriteIns(vote) \in Seq({vote[i] : i \in T})
  BY WriteInsAreKept
<1>5. power \in Nat
  OBVIOUS
<1>6. m = 0 => WriteIns(vote) = <<>>
  BY <1>4
<1> HIDE DEF n, m, power
<1>7. max = IF n - m < c.seats THEN c.seats - (n - m) ELSE 0
  BY DEF maximumWriteIns
<1> HIDE DEF max
<1>8. max \in Nat /\ max < power /\ m <= max
  BY <1>1, <1>2, <1>3, <1>5, <1>7
<1>9. ~(max > 0) => m = 0
  BY <1>1, <1>8
<1>10. ~c.allowWriteIns => WriteIns(vote) = <<>>
  <2>1. SUFFICES ASSUME ~c.allowWriteIns PROVE T = {}
    <3> HIDE DEF T
    <3> QED
      BY <1>4
  <2>2. ASSUME NEW i \in T PROVE FALSE
    <3>1. i \in DOMAIN vote /\ IsWritten(vote[i])
      BY DEF Fillable, n
    <3>2. IsChoice(c, vote[i])
      BY <3>1 DEF Fillable
    <3> QED
      BY <2>1, <3>1, <3>2 DEF IsChoice, IsWritten, Official
  <2> QED
    BY <2>2
<1> QED
  BY <1>1, <1>6, <1>8, <1>9, <1>10 DEF max, n, m, power

\* What is read of a contest with candidates.
LEMMA CandidatesAreThere ==
    ASSUME NEW c, NEW vote, Electable(c), Fillable(c, vote), c.type # "yesno"
    PROVE  /\ ContestData(c, vote) \in Seq(Bits)
           /\ \A choices : \A bits \in Seq(Bits), at \in Nat :
                 Holds(bits, at, ContestData(c, vote)) =>
                    ReadContest(bits, [at |-> at, votes |-> choices], c) =
                       [at |-> at + Len(ContestData(c, vote)),
                        votes |-> [choices EXCEPT ![c.id] = AsPrinted(c, vote)]]
<1> DEFINE list == c.candidates
           n == Len(list)
           B == [i \in 1 .. n |-> IsChosen(vote, list[i])]
           flags == Flags(n, B)
           writeIns == WriteIns(vote)
           max == maximumWriteIns(c, Len(vote) - Len(writeIns))
           room == c.allowWriteIns /\ max > 0
           data == WriteInData(writeIns, max)
           rest == IF room THEN data ELSE <<>>
           w == ContestData(c, vote)
           T == {i \in 1 .. Len(vote) : IsWritten(vote[i])}
           W == {vote[i] : i \in T}
           chosen == ChosenOf(c, vote)
           official == AsOfficial(chosen)
           V == {[id |-> Official(x), name |-> <<>>] : x \in Range(list)}
<1>1. n \in Nat /\ DOMAIN list = 1 .. n
  BY DEF Electable
<1>2. B \in [1 .. n -> BOOLEAN] /\ \A i \in 1 .. n : B[i] = IsChosen(vote, list[i])
  BY DEF IsChosen
<1>3. Concat(list, LAMBDA candidate : Bit(\E i \in DOMAIN vote : vote[i].id = Official(candidate)))
         = flags
  <2>1. Concat(list, LAMBDA candidate : Bit(\E i \in DOMAIN vote : vote[i].id = Official(candidate)))
          = FlattenSeq([i \in DOMAIN list |-> Bit(IsChosen(vote, list[i]))])
    BY DEF Concat, IsChosen
  <2>2. [i \in DOMAIN list |-> Bit(IsChosen(vote, list[i]))] = [i \in 1 .. n |-> Bit(B[i])]
    <3> HIDE DEF B, list, n
    <3> QED
      BY <1>1, <1>2
  <2> QED
    BY <2>1, <2>2 DEF Flags
<1>4. w = flags \o rest
  BY <1>3 DEF ContestData, WriteCandidateVote
<1>5. /\ max \in Nat /\ max < 2^30 /\ Len(writeIns) <= max
      /\ max = maximumWriteIns(c, Len(chosen))
      /\ ~room => writeIns = <<>>
  BY WriteInsFit
<1>6. writeIns \in Seq(W) /\ \A x \in W : x.name \in Names
  <2>1. writeIns \in Seq(W)
    BY WriteInsAreKept
  <2>2. ASSUME NEW i \in T PROVE vote[i].name \in Names
    <3>1. i \in DOMAIN vote /\ IsWritten(vote[i])
      BY DEF Fillable
    <3>2. IsChoice(c, vote[i])
      BY <3>1 DEF Fillable
    <3> QED
      BY <3>1, <3>2 DEF IsChoice, IsWritten, Official
  <2> QED
    BY <2>1, <2>2
<1>7. chosen \in Seq(Range(list))
  <2> DEFINE D == {i \in 1 .. n : IsChosen(vote, list[i])}
  <2>1. chosen \in Seq({list[i] : i \in D})
    BY ChosenAreKept
  <2>2. {list[i] : i \in D} \subseteq Range(list)
    BY <1>1 DEF Range
  <2> HIDE DEF D, chosen
  <2> QED
    BY <2>1, <2>2
<1> HIDE DEF B, writeIns, max, W, chosen
<1>8. official \in Seq(V) /\ Len(official) = Len(chosen)
  <2>1. official = [i \in 1 .. Len(chosen) |-> [id |-> Official(chosen[i]), name |-> <<>>]]
    BY <1>7 DEF AsOfficial
  <2>2. \A i \in 1 .. Len(chosen) : [id |-> Official(chosen[i]), name |-> <<>>] \in V
    BY <1>7
  <2>3. Len(chosen) \in Nat
    BY <1>7
  <2> HIDE DEF V, official
  <2> QED
    BY <2>1, <2>2, <2>3
<1>9. /\ flags \in Seq(Bits) /\ Len(flags) = n
      /\ \A bits \in Seq(Bits), at \in Nat :
            Holds(bits, at, flags) => \A i \in 1 .. n : (bits[at + i] = 1) = B[i]
  BY <1>1, <1>2, FlagsAreThere
<1>10. /\ data \in Seq(Bits)
       /\ \A X : \A v \in Seq(X), bits \in Seq(Bits), at \in Nat :
             Holds(bits, at, data) =>
                ReadWriteIns(bits, [at |-> at, vote |-> v], max)
                   = [at |-> at + Len(data), vote |-> v \o AsRead(writeIns)]
  BY <1>5, <1>6, WriteInsAreThere
<1> HIDE DEF flags, data, w, room, official, V
<1>11. rest \in Seq(Bits)
  BY <1>10
<1> HIDE DEF rest
<1>12. w \in Seq(Bits) /\ Len(w) = n + Len(rest)
  <2>1. flags \o rest \in Seq(Bits) /\ Len(flags \o rest) = Len(flags) + Len(rest)
    BY <1>9, <1>11, Joined
  <2> QED
    BY <2>1, <1>4, <1>9
<1>13. ASSUME NEW bits \in Seq(Bits), NEW at \in Nat, Holds(bits, at, w)
       PROVE  ReadCandidateVote(bits, c, at)
                 = [at |-> at + Len(w), vote |-> official \o AsRead(writeIns)]
  <2>1. Holds(bits, at, flags) /\ Holds(bits, at + n, rest)
    <3>1. Holds(bits, at, flags \o rest)
      BY <1>4, <1>13
    <3> QED
      BY <3>1, <1>9, <1>11, HoldsParts
  <2>2. \A i \in 1 .. n : (bits[at + i] = 1) = IsChosen(vote, list[i])
    BY <2>1, <1>2, <1>9
  <2>3. Flagged(c, bits, at) = chosen
    BY <2>2, FlagsAreChosen, Zenon DEF chosen
  <2> DEFINE r == [at |-> at + n, vote |-> official]
  <2>4. ReadCandidateVote(bits, c, at) =
           LET max2 == maximumWriteIns(c, Len(official)) IN
           IF c.allowWriteIns /\ max2 > 0 THEN ReadWriteIns(bits, r, max2) ELSE r
    BY <2>3 DEF ReadCandidateVote, Flagged, official, AsOfficial
  <2>5. ReadCandidateVote(bits, c, at) = IF room THEN ReadWriteIns(bits, r, max) ELSE r
    BY <2>4, <1>5, <1>8 DEF room
  <2>6. at + n \in Nat /\ at + Len(w) = (at + n) + Len(rest)
    BY <1>1, <1>11, <1>12
  <2>7. CASE room
    <3>1. rest = data
      BY <2>7 DEF rest
    <3>2. ReadWriteIns(bits, r, max)
             = [at |-> (at + n) + Len(data), vote |-> official \o AsRead(writeIns)]
      BY <3>1, <2>1, <2>6, <1>8, <1>10
    <3> QED
      BY <2>5, <2>6, <2>7, <3>1, <3>2
  <2>8. CASE ~room
    <3>1. rest = <<>> /\ Len(rest) = 0
      BY <2>8 DEF rest
    <3>2. AsRead(writeIns) = <<>>
      BY <2>8, <1>5 DEF AsRead
    <3>3. official \o <<>> = official
      BY <1>8
    <3>4. (at + n) + 0 = at + n
      BY <2>6
    <3> QED
      BY <2>5, <2>6, <2>8, <3>1, <3>2, <3>3, <3>4
  <2> QED
    BY <2>7, <2>8
<1>14. AsPrinted(c, vote) = official \o AsRead(writeIns)
  BY DEF AsPrinted, official, chosen, writeIns
<1>15. ASSUME NEW choices, NEW bits \in Seq(Bits), NEW at \in Nat, Holds(bits, at, w)
       PROVE  ReadContest(bits, [at |-> at, votes |-> choices], c) =
                 [at |-> at + Len(w), votes |-> [choices EXCEPT ![c.id] = AsPrinted(c, vote)]]
  <2>1. ReadCandidateVote(bits, c, at) = [at |-> at + Len(w), vote |-> AsPrinted(c, vote)]
    BY <1>13, <1>14, <1>15
  <2>2. ReadContest(bits, [at |-> at, votes |-> choices], c) =
           [at |-> ReadCandidateVote(bits, c, at).at,
            votes |-> [choices EXCEPT ![c.id] = ReadCandidateVote(bits, c, at).vote]]
    BY DEF ReadContest
  <2> QED
    BY <2>1, <2>2
<1> QED
  BY <1>12, <1>15 DEF w

LEMMA ContestIsThere ==
    ASSUME NEW c, NEW vote, Electable(c), Fillable(c, vote), vote # <<>>
    PROVE  /\ ContestData(c, vote) \in Seq(Bits)
           /\ \A choices : \A bits \in Seq(Bits), at \in Nat :
                 Holds(bits, at, ContestData(c, vote)) =>
                    ReadContest(bits, [at |-> at, votes |-> choices], c) =
                       [at |-> at + Len(ContestData(c, vote)),
                        votes |-> [choices EXCEPT ![c.id] = AsPrinted(c, vote)]]
<1>1. CASE c.type = "yesno"
  BY <1>1, YesNoIsThere
<1>2. CASE c.type # "yesno"
  BY <1>2, CandidatesAreThere
<1> QED
  BY <1>1, <1>2

\* A contest that is left out is read as one without a vote.
LEMMA NothingIsPrinted ==
    ASSUME NEW c, Electable(c)
    PROVE  AsPrinted(c, <<>>) = <<>>
<1>1. CASE c.type = "yesno"
  BY <1>1 DEF AsPrinted
<1>2. CASE c.type # "yesno"
  <2> DEFINE chosen == ChosenOf(c, <<>>)
             writeIns == WriteIns(<<>>)
  <2>1. Fillable(c, <<>>)
    BY <1>2 DEF Fillable, MaxSelectable, Electable
  <2>2. Len(writeIns) \in Nat /\ Len(chosen) = Len(<<>>) - Len(writeIns)
    BY <2>1, ChosenAreCounted
  <2>3. \A X : \A s \in Seq(X) : Len(s) \in Nat /\ (Len(s) = 0 => s = <<>>)
    OBVIOUS
  <2>4. Len(chosen) \in Nat /\ (Len(chosen) = 0 => chosen = <<>>)
    BY <2>3, ChosenAreKept
  <2>5. Len(writeIns) = 0 => writeIns = <<>>
    BY <2>1, <2>3, WriteInsAreKept
  <2> HIDE DEF chosen, writeIns
  <2>6. Len(chosen) = 0 /\ Len(writeIns) = 0
    BY <2>2, <2>4
  <2>7. AsOfficial(chosen) = <<>> /\ AsRead(writeIns) = <<>>
    BY <2>4, <2>5, <2>6 DEF AsOfficial, AsRead
  <2>8. AsPrinted(c, <<>>) = AsOfficial(chosen) \o AsRead(writeIns)
    BY <1>2 DEF AsPrinted, chosen, writeIns
  <2>9. <<>> \o <<>> = <<>>
    OBVIOUS
  <2> QED
    BY <2>7, <2>8, <2>9
<1> QED
  BY <1>1, <1>2

ReadContests(bits, r, list) == FoldLeft(LAMBDA read, c : ReadContest(bits, read, c), r, list)

IsReading(h, bits, list, base, n) ==
    h = [t \in SUBSET (1 .. n) |->
            IF t = {} THEN base ELSE ReadContest(bits, h[t \ {Max(t)}], list[Max(t)])]

\* What the fold of a reader computes is defined, as for numbers.
LEMMA ReadingIsDefined ==
    ASSUME NEW bits, NEW list, NEW base, NEW n \in Nat
    PROVE  \E h : IsReading(h, bits, list, base, n)
<1> DEFINE Next1(r, i) == ReadContest(bits, r, list[i])
           Step(h, t) == IF t = {} THEN base ELSE Next1(h[t \ {Max(t)}], Max(t))
           Iter(h, k) == h = [t \in SUBSET (1 .. k) |-> Step(h, t)]
           S == {k \in Nat : \E h : Iter(h, k)}
<1> HIDE DEF Next1
<1>1. 0 \in S
  <2>1. PICK h : h = [t \in SUBSET (1 .. 0) |-> base]
    OBVIOUS
  <2>2. \A t \in SUBSET (1 .. 0) : t = {}
    OBVIOUS
  <2>3. Iter(h, 0)
    <3>1. \A t \in SUBSET (1 .. 0) : Step(h, t) = base
      BY <2>2
    <3> HIDE DEF Step
    <3> QED
      BY <2>1, <3>1
  <2> HIDE DEF Iter
  <2> QED
    BY <2>3
<1>2. ASSUME NEW k \in Nat, k \in S PROVE k + 1 \in S
  <2>1. PICK h : Iter(h, k)
    BY <1>2
  <2>2. PICK g : g = [t \in SUBSET (1 .. k + 1) |->
                        IF k + 1 \in t THEN Next1(h[t \ {k + 1}], k + 1) ELSE h[t]]
    OBVIOUS
  <2>3. ASSUME NEW t \in SUBSET (1 .. k) PROVE g[t] = h[t] /\ h[t] = Step(h, t)
    <3>1. k + 1 \notin t /\ t \in SUBSET (1 .. k + 1)
      OBVIOUS
    <3>2. h[t] = Step(h, t)
      <4> HIDE DEF Step
      <4> QED
        BY <2>1
    <3> QED
      BY <2>2, <3>1, <3>2
  <2>4. ASSUME NEW t \in SUBSET (1 .. k + 1) PROVE g[t] = Step(g, t)
    <3>1. CASE k + 1 \in t
      <4>1. Max(t) = k + 1 /\ t \ {k + 1} \in SUBSET (1 .. k)
        BY <3>1, GreatestOfInterval
      <4>2. g[t \ {k + 1}] = h[t \ {k + 1}]
        BY <4>1, <2>3
      <4>3. g[t] = Next1(h[t \ {k + 1}], k + 1)
        BY <2>2, <3>1
      <4> QED
        BY <4>1, <4>2, <4>3, <3>1
    <3>2. CASE k + 1 \notin t
      <4>1. t \in SUBSET (1 .. k) /\ t \ {Max(t)} \in SUBSET (1 .. k)
        <5>1. t \subseteq 1 .. k
          BY <3>2
        <5> QED
          BY <5>1
      <4>2. g[t] = h[t] /\ g[t \ {Max(t)}] = h[t \ {Max(t)}] /\ h[t] = Step(h, t)
        BY <4>1, <2>3
      <4> QED
        BY <4>2
    <3> QED
      BY <3>1, <3>2
  <2>5. Iter(g, k + 1)
    <3> HIDE DEF Step
    <3>1. g = [t \in SUBSET (1 .. k + 1) |-> g[t]]
      BY <2>2
    <3> QED
      BY <3>1, <2>4
  <2> HIDE DEF Iter
  <2> QED
    BY <2>5
<1>3. n \in S
  <2> HIDE DEF S
  <2> QED
    BY <1>1, <1>2, AllNumbers
<1>4. PICK h : Iter(h, n)
  <2> HIDE DEF Iter
  <2> QED
    BY <1>3
<1> QED
  BY <1>4 DEF Next1, IsReading

\* Reading the contests of a list one after the other goes from R[0] to the
\* last of R.
LEMMA ContestReadingGoesOn ==
    ASSUME NEW bits, NEW X, NEW list \in Seq(X), NEW R,
           \A k \in 0 .. Len(list) - 1 : ReadContest(bits, R[k], list[k + 1]) = R[k + 1]
    PROVE  ReadContests(bits, R[0], list) = R[Len(list)]
<1> DEFINE n == Len(list)
           Step(h, t) == IF t = {} THEN R[0] ELSE ReadContest(bits, h[t \ {Max(t)}], list[Max(t)])
           fold == CHOOSE h : h = [t \in SUBSET (1 .. n) |-> Step(h, t)]
<1>1. n \in Nat /\ DOMAIN list = 1 .. n
  OBVIOUS
<1>2. ReadContests(bits, R[0], list) = fold[1 .. n]
  BY <1>1 DEF ReadContests, FoldLeft, MapThenFoldSet
<1>3. fold = [t \in SUBSET (1 .. n) |-> Step(fold, t)]
  <2>1. \E h : h = [t \in SUBSET (1 .. n) |-> Step(h, t)]
    <3>1. \E h : IsReading(h, bits, list, R[0], n)
      BY <1>1, ReadingIsDefined
    <3> QED
      BY <3>1 DEF IsReading
  <2> HIDE DEF Step
  <2> QED
    BY <2>1
<1>4. \A k \in 0 .. n - 1 : ReadContest(bits, R[k], list[k + 1]) = R[k + 1]
  OBVIOUS
<1> HIDE DEF fold, n
<1> DEFINE S == {k \in Nat : k <= n => fold[1 .. k] = R[k]}
<1>5. 0 \in S
  <2>1. 1 .. 0 = {} /\ {} \in SUBSET (1 .. n)
    OBVIOUS
  <2> QED
    BY <2>1, <1>3
<1>6. ASSUME NEW k \in Nat, k \in S PROVE k + 1 \in S
  <2>1. SUFFICES ASSUME k + 1 <= n PROVE fold[1 .. k + 1] = R[k + 1]
    OBVIOUS
  <2>2. Max(1 .. k + 1) = k + 1
    BY GreatestOfInterval
  <2>3. (1 .. k + 1) \ {k + 1} = 1 .. k
    OBVIOUS
  <2>4. k + 1 \in 1 .. k + 1
    OBVIOUS
  <2>5. 1 .. k + 1 \in SUBSET (1 .. n)
    BY <2>1, <1>1
  <2>6. fold[1 .. k + 1] = ReadContest(bits, fold[1 .. k], list[k + 1])
    BY <1>3, <2>2, <2>3, <2>4, <2>5
  <2>7. fold[1 .. k] = R[k] /\ k \in 0 .. n - 1
    BY <1>1, <1>6, <2>1
  <2> QED
    BY <1>4, <2>6, <2>7
<1> HIDE DEF S
<1>7. n \in S
  BY <1>1, <1>5, <1>6, AllNumbers
<1>8. fold[1 .. n] = R[n]
  BY <1>1, <1>7 DEF S
<1> QED
  BY <1>2, <1>8 DEF n

\* One contest more.
LEMMA ReadingGoesFurther ==
    ASSUME NEW bits, NEW first, NEW X, NEW list \in Seq(X), NEW c \in X
    PROVE  /\ ReadContests(bits, first, <<>>) = first
           /\ ReadContests(bits, first, list \o <<c>>)
                 = ReadContest(bits, ReadContests(bits, first, list), c)
<1> DEFINE n == Len(list)
           more == list \o <<c>>
<1>1. n \in Nat /\ more \in Seq(X) /\ Len(more) = n + 1 /\ more[n + 1] = c
      /\ \A k \in 0 .. n - 1 : more[k + 1] = list[k + 1]
  OBVIOUS
<1> HIDE DEF more
<1>2. PICK h : IsReading(h, bits, more, first, n + 1)
  <2> HIDE DEF n
  <2>1. n + 1 \in Nat
    BY <1>1
  <2> QED
    BY <2>1, ReadingIsDefined
<1> DEFINE R == [k \in 0 .. n + 1 |-> h[1 .. k]]
<1>3. R[0] = first
  <2>1. 1 .. 0 = {} /\ {} \in SUBSET (1 .. n + 1) /\ 0 \in 0 .. n + 1
    BY <1>1
  <2>2. h[{}] = first
    BY <2>1, <1>2 DEF IsReading
  <2> QED
    BY <2>1, <2>2
<1>4. ASSUME NEW k \in 0 .. n PROVE R[k + 1] = ReadContest(bits, R[k], more[k + 1])
  <2>1. k \in Nat /\ k + 1 \in 0 .. n + 1 /\ k \in 0 .. n + 1 /\ k + 1 \in 1 .. k + 1
    BY <1>1
  <2>2. Max(1 .. k + 1) = k + 1
    BY <2>1, GreatestOfInterval
  <2>3. (1 .. k + 1) \ {k + 1} = 1 .. k
    BY <2>1
  <2>4. 1 .. k + 1 \in SUBSET (1 .. n + 1) /\ 1 .. k + 1 # {}
    <3>1. k <= n
      BY <1>1
    <3>2. \A i \in 1 .. k + 1 : i \in 1 .. n + 1
      BY <1>1, <2>1, <3>1
    <3> QED
      BY <2>1, <3>2
  <2>5. h[1 .. k + 1] = ReadContest(bits, h[(1 .. k + 1) \ {Max(1 .. k + 1)}], more[Max(1 .. k + 1)])
    BY <2>4, <1>2 DEF IsReading
  <2> QED
    BY <2>1, <2>2, <2>3, <2>5
<1> HIDE DEF R
<1>5. ReadContests(bits, R[0], more) = R[n + 1]
  <2>1. \A k \in 0 .. Len(more) - 1 : ReadContest(bits, R[k], more[k + 1]) = R[k + 1]
    BY <1>1, <1>4
  <2>2. ReadContests(bits, R[0], more) = R[Len(more)]
    BY <2>1, <1>1, ContestReadingGoesOn
  <2> QED
    BY <2>2, <1>1
<1>6. ReadContests(bits, R[0], list) = R[n]
  <2>1. \A k \in 0 .. Len(list) - 1 : ReadContest(bits, R[k], list[k + 1]) = R[k + 1]
    BY <1>1, <1>4
  <2> QED
    BY <2>1, ContestReadingGoesOn
<1>7. ReadContests(bits, R[0], <<>>) = R[0]
  <2> DEFINE none == <<>>
  <2>1. none \in Seq(X) /\ Len(none) = 0
    OBVIOUS
  <2>2. \A k \in 0 .. Len(none) - 1 : ReadContest(bits, R[k], none[k + 1]) = R[k + 1]
    BY <2>1
  <2> HIDE DEF none
  <2>3. ReadContests(bits, R[0], none) = R[Len(none)]
    BY <2>1, <2>2, ContestReadingGoesOn
  <2> QED
    BY <2>1, <2>3 DEF none
<1>8. R[n + 1] = ReadContest(bits, R[n], c)
  BY <1>1, <1>4
<1> QED
  BY <1>3, <1>5, <1>6, <1>7, <1>8 DEF more

\* Votes in the contests of a ballot.
Votable(contests, choices) ==
    /\ contests \in Seq(Range(contests))
    /\ \A i, j \in DOMAIN contests : contests[i].id = contests[j].id => i = j
    /\ \A c \in Range(contests) : Electable(c) /\ c.id \in ContestIds /\ Fillable(c, choices[c.id])

AnsweredOf(contests, choices) == {i \in 1 .. Len(contests) : choices[contests[i].id] # <<>>}

\* What is written of each contest behind the flags.
Data(contests, choices) ==
    [i \in 1 .. Len(contests) |->
        IF i \in AnsweredOf(contests, choices)
        THEN ContestData(contests[i], choices[contests[i].id]) ELSE <<>>]

\* What a reader has read of the votes after the first k contests.
IsReadOf(read, contests, choices, k) ==
    /\ read = [id \in ContestIds |-> read[id]]
    /\ \A i \in DOMAIN contests :
          read[contests[i].id] =
             IF i <= k THEN AsPrinted(contests[i], choices[contests[i].id]) ELSE <<>>
    /\ \A id \in ContestIds : id \notin {c.id : c \in Range(contests)} => read[id] = <<>>

LEMMA VotesGoOn ==
    ASSUME NEW contests, NEW choices, Votable(contests, choices), NEW k \in Nat, k + 1 \in DOMAIN contests,
           NEW read, IsReadOf(read, contests, choices, k)
    PROVE  LET c == contests[k + 1] IN
           /\ choices[c.id] = <<>> => IsReadOf(read, contests, choices, k + 1)
           /\ IsReadOf([read EXCEPT ![c.id] = AsPrinted(c, choices[c.id])], contests, choices, k + 1)
<1> DEFINE c == contests[k + 1]
           now == AsPrinted(c, choices[c.id])
           next == [read EXCEPT ![c.id] = now]
<1>1. c \in Range(contests) /\ Electable(c) /\ c.id \in ContestIds
  BY DEF Range, Votable
<1>2. \A i \in DOMAIN contests : i \in Nat /\ (contests[i].id = c.id => i = k + 1)
      /\ contests[i] \in Range(contests)
  BY DEF Votable, Range
<1>3. ASSUME choices[c.id] = <<>> PROVE IsReadOf(read, contests, choices, k + 1)
  <2>1. now = <<>>
    BY <1>1, <1>3, NothingIsPrinted
  <2>2. ASSUME NEW i \in DOMAIN contests
        PROVE  read[contests[i].id] =
                  IF i <= k + 1 THEN AsPrinted(contests[i], choices[contests[i].id]) ELSE <<>>
    <3>1. read[contests[i].id] = IF i <= k THEN AsPrinted(contests[i], choices[contests[i].id]) ELSE <<>>
      BY DEF IsReadOf
    <3>2. CASE i = k + 1
      BY <2>1, <3>1, <3>2
    <3>3. CASE i # k + 1
      <4>1. i <= k <=> i <= k + 1
        BY <1>2, <3>3
      <4> QED
        BY <3>1, <4>1
    <3> QED
      BY <3>2, <3>3
  <2> QED
    BY <2>2 DEF IsReadOf
<1>4. IsReadOf(next, contests, choices, k + 1)
  <2>1. DOMAIN read = ContestIds
    BY DEF IsReadOf
  <2>2. next = [id \in ContestIds |-> IF id = c.id THEN now ELSE read[id]]
    BY <2>1
  <2> HIDE DEF next, now, c
  <2>3. ASSUME NEW i \in DOMAIN contests
        PROVE  next[contests[i].id] =
                  IF i <= k + 1 THEN AsPrinted(contests[i], choices[contests[i].id]) ELSE <<>>
    <3>1. read[contests[i].id] = IF i <= k THEN AsPrinted(contests[i], choices[contests[i].id]) ELSE <<>>
      BY DEF IsReadOf
    <3>2. contests[i].id \in ContestIds
      BY <1>2 DEF Votable
    <3>3. CASE i = k + 1
      <4>1. contests[i] = c /\ i <= k + 1
        BY <3>3 DEF c
      <4> QED
        BY <2>2, <3>2, <4>1 DEF now
    <3>4. CASE i # k + 1
      <4>1. contests[i].id # c.id /\ (i <= k <=> i <= k + 1)
        BY <1>2, <3>4
      <4> QED
        BY <2>2, <3>1, <3>2, <4>1
    <3> QED
      BY <3>3, <3>4
  <2>4. ASSUME NEW id \in ContestIds, id \notin {x.id : x \in Range(contests)}
        PROVE  next[id] = <<>>
    <3>1. id # c.id /\ read[id] = <<>>
      BY <1>1, <2>4 DEF IsReadOf
    <3> QED
      BY <2>2, <3>1
  <2>5. next = [id \in ContestIds |-> next[id]]
    BY <2>2
  <2> QED
    BY <2>3, <2>4, <2>5 DEF IsReadOf
<1> QED
  BY <1>3, <1>4

\* The data of each contest, and the answered contests one after the other.
LEMMA DataIsThere ==
    ASSUME NEW contests, NEW choices, Votable(contests, choices)
    PROVE  LET f == Data(contests, choices)
               n == Len(contests)
           IN  /\ n \in Nat /\ DOMAIN contests = 1 .. n
               /\ f \in [1 .. n -> Seq(Bits)]
               /\ \A i \in 1 .. n :
                     f[i] = IF i \in AnsweredOf(contests, choices)
                            THEN ContestData(contests[i], choices[contests[i].id]) ELSE <<>>
<1> DEFINE f == Data(contests, choices)
           n == Len(contests)
<1>1. n \in Nat /\ DOMAIN contests = 1 .. n
  BY DEF Votable
<1>2. ASSUME NEW i \in 1 .. n
      PROVE  /\ f[i] = IF i \in AnsweredOf(contests, choices)
                       THEN ContestData(contests[i], choices[contests[i].id]) ELSE <<>>
             /\ f[i] \in Seq(Bits)
  <2> DEFINE c == contests[i]
  <2>1. f[i] = IF i \in AnsweredOf(contests, choices) THEN ContestData(c, choices[c.id]) ELSE <<>>
    BY DEF Data
  <2>2. Electable(c) /\ Fillable(c, choices[c.id])
    BY <1>1 DEF Votable, Range
  <2>3. CASE i \in AnsweredOf(contests, choices)
    <3>1. choices[c.id] # <<>>
      BY <2>3 DEF AnsweredOf
    <3>2. ContestData(c, choices[c.id]) \in Seq(Bits)
      BY <2>2, <3>1, ContestIsThere
    <3> QED
      BY <2>1, <2>3, <3>2
  <2>4. CASE i \notin AnsweredOf(contests, choices)
    <3>1. <<>> \in Seq(Bits)
      OBVIOUS
    <3> QED
      BY <2>1, <2>4, <3>1
  <2> QED
    BY <2>1, <2>3, <2>4
<1>3. f \in [1 .. n -> Seq(Bits)]
  <2>1. f = [i \in 1 .. n |-> f[i]]
    BY DEF Data
  <2> HIDE DEF f, n
  <2> QED
    BY <1>2, <2>1
<1> QED
  BY <1>1, <1>2, <1>3

\* The reader, at start and with nothing read, comes to end with the votes read.
ReadsAnswers(bits, start, blank, contests, choices, end) ==
    \E read : /\ IsReadOf(read, contests, choices, Len(contests))
              /\ ReadContests(bits, [at |-> start, votes |-> blank],
                              Kept(contests, AnsweredOf(contests, choices)))
                 = [at |-> end, votes |-> read]

\* The answered contests are read one after the other.
LEMMA AnswersAreRead ==
    ASSUME NEW contests, NEW choices, Votable(contests, choices),
           NEW bits \in Seq(Bits), NEW start \in Nat,
           Holds(bits, start, FlattenSeq(Data(contests, choices))),
           NEW blank, IsReadOf(blank, contests, choices, 0)
    PROVE  ReadsAnswers(bits, start, blank, contests, choices,
                        start + Len(FlattenSeq(Data(contests, choices))))
<1> DEFINE n == Len(contests)
           f == Data(contests, choices)
           T == AnsweredOf(contests, choices)
           X == Range(contests)
           g == [i \in 1 .. n |-> IF i \in T THEN <<contests[i]>> ELSE <<>>]
           first == [at |-> start, votes |-> blank]
<1>1. n \in Nat /\ DOMAIN contests = 1 .. n /\ f \in [1 .. n -> Seq(Bits)]
      /\ \A i \in 1 .. n : f[i] = IF i \in T
                                  THEN ContestData(contests[i], choices[contests[i].id]) ELSE <<>>
  BY DataIsThere
<1>2. ASSUME NEW i \in 1 .. n
      PROVE  g[i] = (IF i \in T THEN <<contests[i]>> ELSE <<>>) /\ g[i] \in Seq(X)
  <2>1. contests[i] \in X
    BY <1>1 DEF Range
  <2> HIDE DEF X, T
  <2> QED
    BY <2>1
<1>3. g \in [1 .. n -> Seq(X)]
  BY <1>2
<1>4. \A i \in 1 .. n : i \in T <=> choices[contests[i].id] # <<>>
  BY DEF AnsweredOf
<1> HIDE DEF g, X, T
<1>5. PICK G \in [0 .. n -> Seq(X)] : IsJoin(G, g, n) /\ FlattenSeq(g) = G[n]
  BY <1>1, <1>3, Flattened
<1>6. Kept(contests, T) = G[n]
  BY <1>5 DEF Kept, g
<1> HIDE DEF f, n
<1>7. PICK D \in [0 .. n -> Seq(Bits)] : IsJoin(D, f, n) /\ FlattenSeq(f) = D[n]
  BY <1>1, BitsFlattened
<1>8. Holds(bits, start, D[n])
  BY <1>7 DEF f
<1> HIDE DEF first
<1> DEFINE Good(k, read) == /\ IsReadOf(read, contests, choices, k)
                            /\ ReadContests(bits, first, G[k])
                                  = [at |-> start + Len(D[k]), votes |-> read]
           S == {k \in Nat : k <= n => \E read : Good(k, read)}
<1>9. 0 \in S
  <2>1. G[0] = <<>> /\ D[0] = <<>> /\ Len(D[0]) = 0
    BY <1>5, <1>7 DEF IsJoin
  <2>2. ReadContests(bits, first, <<>>) = first
    <3>1. \A x : ReadContests(bits, first, <<>>) = first
      <4>1. SUFFICES ASSUME NEW x PROVE ReadContests(bits, first, <<>>) = first
        OBVIOUS
      <4>2. <<>> \in Seq({x}) /\ x \in {x}
        OBVIOUS
      <4> QED
        BY <4>2, ReadingGoesFurther, Zenon
    <3> QED
      BY <3>1
  <2>3. start + 0 = start
    OBVIOUS
  <2>4. Good(0, blank)
    BY <2>1, <2>2, <2>3 DEF first
  <2> HIDE DEF Good
  <2> QED
    BY <2>4
<1>10. ASSUME NEW k \in Nat, k \in S PROVE k + 1 \in S
  <2>1. SUFFICES ASSUME k + 1 <= n PROVE \E read : Good(k + 1, read)
    <3> HIDE DEF Good
    <3> QED
      OBVIOUS
  <2>2. k \in 0 .. n - 1 /\ k \in 0 .. n /\ k + 1 \in 0 .. n /\ k + 1 \in 1 .. n /\ k <= n
    BY <2>1, <1>1
  <2>3. PICK read : Good(k, read)
    <3> HIDE DEF Good
    <3> QED
      BY <1>10, <2>2
  <2> DEFINE c == contests[k + 1]
             next == [read EXCEPT ![c.id] = AsPrinted(c, choices[c.id])]
             at == start + Len(D[k])
  <2>4. /\ choices[c.id] = <<>> => IsReadOf(read, contests, choices, k + 1)
        /\ IsReadOf(next, contests, choices, k + 1)
    <3>1. k + 1 \in DOMAIN contests
      BY <2>2, <1>1
    <3>2. IsReadOf(read, contests, choices, k)
      BY <2>3
    <3> QED
      BY <3>1, <3>2, VotesGoOn
  <2>5. G[k] \in Seq(X) /\ G[k + 1] = G[k] \o g[k + 1]
    BY <1>5, <2>2 DEF IsJoin
  <2>6. D[k] \in Seq(Bits) /\ D[k + 1] = D[k] \o f[k + 1]
    BY <1>7, <2>2 DEF IsJoin
  <2>7. c \in X /\ Electable(c) /\ Fillable(c, choices[c.id])
    BY <1>1, <2>2 DEF X, Range, Votable
  <2>8. CASE k + 1 \in T
    <3>1. g[k + 1] = <<c>> /\ f[k + 1] = ContestData(c, choices[c.id]) /\ choices[c.id] # <<>>
      BY <2>2, <2>8, <1>1, <1>2, <1>4
    <3>2. Holds(bits, at, f[k + 1]) /\ at \in Nat
      <4>1. Holds(bits, start + Len(D[k]), f[k + 1])
        BY <1>1, <1>7, <1>8, <2>2, JoinHolds
      <4>2. Len(D[k]) \in Nat
        BY <2>6
      <4>3. start + Len(D[k]) \in Nat
        BY <4>2
      <4> QED
        BY <4>1, <4>3
    <3>3. ReadContests(bits, first, G[k + 1]) = ReadContest(bits, ReadContests(bits, first, G[k]), c)
      BY <3>1, <2>5, <2>7, ReadingGoesFurther
    <3>4. ReadContests(bits, first, G[k]) = [at |-> at, votes |-> read]
      BY <2>3
    <3> HIDE DEF at, next
    <3>5. ReadContest(bits, [at |-> at, votes |-> read], c)
             = [at |-> at + Len(f[k + 1]), votes |-> next]
      <4>1. Holds(bits, at, ContestData(c, choices[c.id]))
        BY <3>1, <3>2
      <4> HIDE DEF c
      <4>2. ReadContest(bits, [at |-> at, votes |-> read], c)
               = [at |-> at + Len(ContestData(c, choices[c.id])),
                  votes |-> [read EXCEPT ![c.id] = AsPrinted(c, choices[c.id])]]
        BY <4>1, <3>1, <3>2, <2>7, ContestIsThere
      <4> QED
        BY <3>1, <4>2 DEF next
    <3>6. at + Len(f[k + 1]) = start + Len(D[k + 1])
      <4>1. f[k + 1] \in Seq(Bits)
        BY <1>1, <2>2
      <4>2. Len(D[k + 1]) = Len(D[k]) + Len(f[k + 1]) /\ Len(D[k]) \in Nat /\ Len(f[k + 1]) \in Nat
        BY <4>1, <2>6, Joined
      <4>3. \A a, b \in Nat : (start + a) + b = start + (a + b)
        OBVIOUS
      <4> HIDE DEF Good, S, c
      <4>4. (start + Len(D[k])) + Len(f[k + 1]) = start + (Len(D[k]) + Len(f[k + 1]))
        BY <4>2, <4>3, Zenon
      <4> QED
        BY <4>2, <4>4, Zenon DEF at
    <3>7. Good(k + 1, next)
      BY <2>4, <3>3, <3>4, <3>5, <3>6
    <3> HIDE DEF Good
    <3> QED
      BY <3>7
  <2>9. CASE k + 1 \notin T
    <3>1. g[k + 1] = <<>> /\ f[k + 1] = <<>> /\ choices[c.id] = <<>>
      BY <2>2, <2>9, <1>1, <1>2, <1>4
    <3>2. G[k + 1] = G[k]
      <4>1. \A a \in Seq(X) : a \o <<>> = a
        OBVIOUS
      <4> QED
        BY <4>1, <3>1, <2>5
    <3>3. D[k + 1] = D[k]
      <4>1. \A a \in Seq(Bits) : a \o <<>> = a
        OBVIOUS
      <4> QED
        BY <4>1, <3>1, <2>6
    <3>4. Good(k + 1, read)
      BY <2>3, <2>4, <3>1, <3>2, <3>3
    <3> HIDE DEF Good
    <3> QED
      BY <3>4
  <2> QED
    BY <2>8, <2>9
<1> HIDE DEF S
<1>11. n \in S
  BY <1>1, <1>9, <1>10, AllNumbers
<1>12. PICK read : Good(n, read)
  <2>1. n <= n
    BY <1>1
  <2> HIDE DEF Good
  <2> QED
    BY <1>11, <2>1 DEF S
<1> QED
  BY <1>6, <1>7, <1>12 DEF ReadsAnswers, n, f, T, first

Blank == [id \in ContestIds |-> <<>>]

LEMMA VotesAreWritten ==
    ASSUME NEW contests, NEW choices, Votable(contests, choices)
    PROVE  LET n == Len(contests)
               B == [i \in 1 .. n |-> choices[contests[i].id] # <<>>]
           IN  encodeBallotVotes(contests, choices) = Flags(n, B) \o FlattenSeq(Data(contests, choices))
<1> DEFINE n == Len(contests)
           B == [i \in 1 .. n |-> choices[contests[i].id] # <<>>]
           T == AnsweredOf(contests, choices)
           first == Concat(contests, LAMBDA c : Bit(choices[c.id] # <<>>))
           second == Concat(contests, LAMBDA c :
                        IF choices[c.id] = <<>> THEN <<>>
                        ELSE IF c.type = "yesno" THEN Bit(choices[c.id][1].id = Official("yes"))
                        ELSE WriteCandidateVote(c, choices[c.id]))
<1>1. n \in Nat /\ DOMAIN contests = 1 .. n
  BY DEF Votable
<1>2. first = Flags(n, B)
  <2>1. first = FlattenSeq([i \in DOMAIN contests |-> Bit(choices[contests[i].id] # <<>>)])
    BY DEF Concat
  <2>2. [i \in DOMAIN contests |-> Bit(choices[contests[i].id] # <<>>)] = [i \in 1 .. n |-> Bit(B[i])]
    BY <1>1
  <2> QED
    BY <2>1, <2>2 DEF Flags
<1>3. second = FlattenSeq(Data(contests, choices))
  <2> DEFINE Written(i) == IF choices[contests[i].id] = <<>> THEN <<>>
                           ELSE ContestData(contests[i], choices[contests[i].id])
  <2>1. second = FlattenSeq([i \in DOMAIN contests |-> Written(i)])
    BY DEF Concat, ContestData
  <2>2. Data(contests, choices) = [i \in 1 .. n |-> Written(i)]
    <3>1. \A i \in 1 .. n : i \in T <=> choices[contests[i].id] # <<>>
      BY DEF AnsweredOf
    <3> QED
      BY <3>1 DEF Data
  <2> HIDE DEF Written
  <2> QED
    BY <1>1, <2>1, <2>2
<1>4. encodeBallotVotes(contests, choices) = first \o second
  BY DEF encodeBallotVotes
<1> HIDE DEF first, second
<1> QED
  BY <1>2, <1>3, <1>4

LEMMA AnsweredAreFlagged ==
    ASSUME NEW contests, NEW choices, Votable(contests, choices), NEW bits, NEW at,
           \A i \in 1 .. Len(contests) : (bits[at + i] = 1) = (choices[contests[i].id] # <<>>)
    PROVE  decodeBallotVotes(contests, bits, at)
           = ReadContests(bits, [at |-> at + Len(contests), votes |-> Blank],
                          Kept(contests, AnsweredOf(contests, choices)))
<1> DEFINE n == Len(contests)
           T == AnsweredOf(contests, choices)
           answered == Those(contests, LAMBDA c : bits[at + IndexOf(contests, LAMBDA k : k = c)] = 1)
<1>1. n \in Nat /\ DOMAIN contests = 1 .. n
  BY DEF Votable
<1>2. IsInjective(contests)
  BY DEF Votable, IsInjective
<1>3. answered = FlattenSeq([i \in DOMAIN contests |->
             IF bits[at + PlaceOf(contests, contests[i])] = 1 THEN <<contests[i]>> ELSE <<>>])
  BY DEF Those, Concat, IndexOf, PlaceOf
<1>4. ASSUME NEW i \in 1 .. n
      PROVE  (IF bits[at + PlaceOf(contests, contests[i])] = 1 THEN <<contests[i]>> ELSE <<>>)
               = (IF i \in T THEN <<contests[i]>> ELSE <<>>)
  <2>1. PlaceOf(contests, contests[i]) = i
    BY <1>1, <1>2, PlaceIs
  <2>2. i \in T <=> bits[at + i] = 1
    BY DEF AnsweredOf
  <2> QED
    BY <2>1, <2>2
<1>5. answered = Kept(contests, T)
  <2>1. [i \in DOMAIN contests |->
             IF bits[at + PlaceOf(contests, contests[i])] = 1 THEN <<contests[i]>> ELSE <<>>]
          = [i \in 1 .. Len(contests) |-> IF i \in T THEN <<contests[i]>> ELSE <<>>]
    <3> HIDE DEF T
    <3> QED
      BY <1>1, <1>4
  <2> QED
    BY <1>3, <2>1 DEF Kept
<1>6. decodeBallotVotes(contests, bits, at)
         = ReadContests(bits, [at |-> at + Len(contests), votes |-> Blank], answered)
  BY DEF decodeBallotVotes, ReadContests, Blank
<1> QED
  BY <1>5, <1>6

\* A reader that finds what was written of the votes finds the votes.
LEMMA VotesAreThere ==
    ASSUME NEW contests, NEW choices, Votable(contests, choices)
    PROVE  LET w == encodeBallotVotes(contests, choices) IN
           /\ w \in Seq(Bits)
           /\ \A bits \in Seq(Bits), at \in Nat :
                 Holds(bits, at, w) =>
                    \E read : /\ IsReadOf(read, contests, choices, Len(contests))
                              /\ decodeBallotVotes(contests, bits, at)
                                    = [at |-> at + Len(w), votes |-> read]
<1> DEFINE n == Len(contests)
           B == [i \in 1 .. n |-> choices[contests[i].id] # <<>>]
           flags == Flags(n, B)
           data == FlattenSeq(Data(contests, choices))
           w == encodeBallotVotes(contests, choices)
<1>1. n \in Nat /\ DOMAIN contests = 1 .. n
  BY DEF Votable
<1>2. B \in [1 .. n -> BOOLEAN] /\ \A i \in 1 .. n : B[i] = (choices[contests[i].id] # <<>>)
  OBVIOUS
<1>3. w = flags \o data
  BY VotesAreWritten
<1> HIDE DEF B, w
<1>4. /\ flags \in Seq(Bits) /\ Len(flags) = n
      /\ \A bits \in Seq(Bits), at \in Nat :
            Holds(bits, at, flags) => \A i \in 1 .. n : (bits[at + i] = 1) = B[i]
  BY <1>1, <1>2, FlagsAreThere
<1>5. data \in Seq(Bits)
  <2>1. Data(contests, choices) \in [1 .. n -> Seq(Bits)]
    BY DataIsThere
  <2>2. PICK D \in [0 .. n -> Seq(Bits)] :
           IsJoin(D, Data(contests, choices), n) /\ FlattenSeq(Data(contests, choices)) = D[n]
    BY <1>1, <2>1, BitsFlattened
  <2>3. n \in 0 .. n
    BY <1>1
  <2> QED
    BY <2>2, <2>3
<1> HIDE DEF flags, data
<1>6. flags \o data \in Seq(Bits) /\ Len(flags \o data) = Len(flags) + Len(data)
  BY <1>4, <1>5, Joined
<1>7. w \in Seq(Bits) /\ Len(w) = n + Len(data)
  BY <1>3, <1>4, <1>6
<1>8. IsReadOf(Blank, contests, choices, 0)
  <2>1. \A i \in DOMAIN contests : contests[i].id \in ContestIds /\ ~(i <= 0)
    BY <1>1 DEF Votable, Range
  <2> QED
    BY <2>1 DEF IsReadOf, Blank
<1>9. ASSUME NEW bits \in Seq(Bits), NEW at \in Nat, Holds(bits, at, w)
      PROVE  \E read : /\ IsReadOf(read, contests, choices, Len(contests))
                       /\ decodeBallotVotes(contests, bits, at) = [at |-> at + Len(w), votes |-> read]
  <2> DEFINE start == at + n
  <2>1. Holds(bits, at, flags) /\ Holds(bits, start, data)
    <3>1. Holds(bits, at, flags \o data)
      BY <1>3, <1>9
    <3> QED
      BY <3>1, <1>4, <1>5, HoldsParts
  <2>2. start \in Nat
    BY <1>1
  <2> HIDE DEF start
  <2>3. PICK read : /\ IsReadOf(read, contests, choices, Len(contests))
                    /\ ReadContests(bits, [at |-> start, votes |-> Blank],
                                    Kept(contests, AnsweredOf(contests, choices)))
                       = [at |-> start + Len(data), votes |-> read]
    <3>1. Holds(bits, start, FlattenSeq(Data(contests, choices)))
      BY <2>1 DEF data
    <3>2. ReadsAnswers(bits, start, Blank, contests, choices, start + Len(FlattenSeq(Data(contests, choices))))
      BY <1>8, <2>2, <3>1, AnswersAreRead
    <3> QED
      BY <3>2 DEF ReadsAnswers, data
  <2>4. \A i \in 1 .. Len(contests) : (bits[at + i] = 1) = (choices[contests[i].id] # <<>>)
    BY <1>2, <1>4, <2>1
  <2>5. decodeBallotVotes(contests, bits, at)
           = ReadContests(bits, [at |-> start, votes |-> Blank],
                          Kept(contests, AnsweredOf(contests, choices)))
    BY <2>4, AnsweredAreFlagged DEF start
  <2>6. start + Len(data) = at + Len(w)
    BY <1>1, <1>5, <1>7 DEF start
  <2> QED
    BY <2>3, <2>5, <2>6
<1> QED
  BY <1>7, <1>9 DEF w

\* What a voter chose in each contest is read from the paper, wherever the
\* votes are among the ballot's bits: the candidates in the order of the ballot
\* and the names in the order they were written in; a contest without a vote is
\* read as one, and the reader goes on behind the votes (encodeBallotVotesInto
\* and decodeBallotVotes).
THEOREM VotesAreRead ==
    ASSUME NEW contests, NEW choices, Votable(contests, choices),
           NEW before \in Seq(Bits), NEW after \in Seq(Bits)
    PROVE  LET written == encodeBallotVotes(contests, choices)
               read == decodeBallotVotes(contests, before \o written \o after, Len(before))
           IN  /\ read.at = Len(before) + Len(written)
               /\ DOMAIN read.votes = ContestIds
               /\ \A c \in Range(contests) : read.votes[c.id] = AsPrinted(c, choices[c.id])
               /\ \A id \in ContestIds :
                     id \notin {c.id : c \in Range(contests)} => read.votes[id] = <<>>
<1> DEFINE written == encodeBallotVotes(contests, choices)
           bits == before \o written \o after
           at == Len(before)
<1>1. /\ written \in Seq(Bits)
      /\ \A b \in Seq(Bits), p \in Nat :
            Holds(b, p, written) =>
               \E read : /\ IsReadOf(read, contests, choices, Len(contests))
                         /\ decodeBallotVotes(contests, b, p) = [at |-> p + Len(written), votes |-> read]
  BY VotesAreThere
<1> HIDE DEF written
<1>2. bits \in Seq(Bits) /\ at \in Nat /\ Holds(bits, at, written)
  BY <1>1, IsFound
<1> HIDE DEF bits, at
<1>3. PICK read : /\ IsReadOf(read, contests, choices, Len(contests))
                  /\ decodeBallotVotes(contests, bits, at) = [at |-> at + Len(written), votes |-> read]
  BY <1>1, <1>2
<1>4. ASSUME NEW c \in Range(contests) PROVE read[c.id] = AsPrinted(c, choices[c.id])
  <2>1. PICK i \in DOMAIN contests : contests[i] = c
    BY DEF Range
  <2>2. i <= Len(contests)
    BY DEF Votable
  <2> QED
    BY <1>3, <2>1, <2>2 DEF IsReadOf
<1>5. DOMAIN read = ContestIds
      /\ \A id \in ContestIds : id \notin {c.id : c \in Range(contests)} => read[id] = <<>>
  BY <1>3 DEF IsReadOf
<1> QED
  BY <1>3, <1>4, <1>5 DEF written, bits, at
----------------------------------------------------------------------------
(* The ballot's configuration.                                             *)

\* toUint8 refuses longer lists.
Countable(list) == list \in Seq(Range(list)) /\ Len(list) <= 255

\* An election as the schemas have it, small enough for the writer's bytes.
LEMMA ElectionIsPrintable ==
    /\ Countable(Election.precincts) /\ Countable(Election.ballotStyles) /\ Countable(Election.contests)
    /\ \A c \in Range(Election.contests) : Electable(c)
    /\ Election.hash \in Seq(Nat)
<1>1. \A c \in Range(Election.contests) : Electable(c)
  BY ElectionAssumption, EncoderAssumption DEF ElectionAssumption, EncoderAssumption, Electable
<1>2. Election.hash \in Seq(Nat)
  <2>1. Election.hash \in Seq(0 .. 15)
    BY EncoderAssumption DEF EncoderAssumption
  <2> QED
    BY <2>1
<1>3. Countable(Election.precincts) /\ Countable(Election.ballotStyles) /\ Countable(Election.contests)
  BY ElectionAssumption, EncoderAssumption DEF ElectionAssumption, EncoderAssumption, Countable
<1> QED
  BY <1>1, <1>2, <1>3

LEMMA CountedLength ==
    ASSUME NEW list, Countable(list)
    PROVE  Len(list) \in 0 .. 255
<1>1. list \in Seq(Range(list)) /\ Len(list) <= 255
  BY DEF Countable
<1>2. Len(list) \in Nat
  BY <1>1
<1>3. \A n \in Nat : n <= 255 => n \in 0 .. 255
  OBVIOUS
<1> DEFINE n == Len(list)
<1>4. n \in Nat /\ n <= 255
  BY <1>1, <1>2
<1> HIDE DEF n
<1>5. n \in 0 .. 255
  BY <1>3, <1>4
<1> QED
  BY <1>5 DEF n

\* A number fits into the bits its greatest value needs.
LEMMA NumberFits ==
    ASSUME NEW m \in 0 .. 255, NEW n \in 0 .. m
    PROVE  sizeof(m) \in Nat /\ n \in Nat /\ n < 2^sizeof(m)
<1> DEFINE size == sizeof(m)
           power == 2^size
<1>1. m \in Nat /\ n \in Nat /\ n <= m
  OBVIOUS
<1>2. m < 2^30
  <2>1. 255 < 2^30 /\ 2^30 \in Nat
    OBVIOUS
  <2> QED
    BY <1>1, <2>1
<1>3. size \in 1 .. 31 /\ m < power
  BY <1>1, <1>2, SizeOfNumber
<1> HIDE DEF size
<1>4. size \in Nat
  BY <1>3
<1>5. power \in Nat
  BY <1>4, Powers
<1> HIDE DEF power
<1>6. n < power
  BY <1>1, <1>3, <1>5
<1> QED
  BY <1>1, <1>4, <1>6 DEF power, size

LEMMA FirstOf ==
    ASSUME NEW n \in Nat, NEW T \in SUBSET (1 .. n), T # {}
    PROVE  \E i \in T : \A j \in 1 .. i - 1 : j \notin T
<1> DEFINE S == {k \in Nat : (\E i \in T : i <= k) => \E i \in T : \A j \in 1 .. i - 1 : j \notin T}
<1>1. 0 \in S
  OBVIOUS
<1>2. ASSUME NEW k \in Nat, k \in S PROVE k + 1 \in S
  <2>1. SUFFICES ASSUME NEW i \in T, i <= k + 1
                 PROVE  \E u \in T : \A j \in 1 .. u - 1 : j \notin T
    OBVIOUS
  <2>2. CASE \E u \in T : u <= k
    BY <2>2, <1>2
  <2>3. CASE ~ \E u \in T : u <= k
    <3>1. \A j \in 1 .. i - 1 : j <= k
      BY <2>1
    <3>2. \A j \in 1 .. i - 1 : j \notin T
      BY <2>3, <3>1
    <3> QED
      BY <3>2
  <2> QED
    BY <2>2, <2>3
<1> HIDE DEF S
<1>3. n \in S
  BY <1>1, <1>2, AllNumbers
<1>4. \E i \in T : i <= n
  <2>1. PICK i : i \in T
    OBVIOUS
  <2>2. i \in 1 .. n /\ i <= n
    BY <2>1
  <2> QED
    BY <2>1, <2>2
<1> QED
  BY <1>3, <1>4 DEF S

LEMMA PrecinctIsIndexed ==
    ASSUME Countable(Election.precincts), NEW home \in Range(Election.precincts)
    PROVE  /\ PrecinctIndex(home) \in 0 .. Len(Election.precincts) - 1
           /\ Election.precincts[PrecinctIndex(home) + 1] = home
<1> DEFINE list == Election.precincts
           L == Len(list)
           T == {i \in 1 .. L : list[i] = home}
           Found(i) == list[i] = home /\ \A j \in 1 .. i - 1 : ~(list[j] = home)
           place == CHOOSE i \in 1 .. L : Found(i)
<1>1. L \in Nat /\ DOMAIN list = 1 .. L
  BY DEF Countable
<1>2. T # {}
  BY <1>1 DEF Range
<1>3. PICK i \in T : \A j \in 1 .. i - 1 : j \notin T
  <2>1. T \in SUBSET (1 .. L)
    OBVIOUS
  <2> HIDE DEF T, L
  <2> QED
    BY <1>1, <1>2, <2>1, FirstOf
<1>4. \A j \in 1 .. i - 1 : j \in 1 .. L
  BY <1>1, <1>3
<1>5. Found(i) /\ i \in 1 .. L
  BY <1>3, <1>4
<1>6. PrecinctIndex(home) = place - 1
  BY <1>1 DEF PrecinctIndex, IndexOf
<1>7. place \in 1 .. L /\ Found(place)
  <2> HIDE DEF Found
  <2> QED
    BY <1>5
<1> HIDE DEF place
<1>8. list[place] = home
  BY <1>7
<1> HIDE DEF L, list
<1>9. place - 1 \in 0 .. L - 1 /\ (place - 1) + 1 = place
  BY <1>1, <1>7
<1> QED
  BY <1>6, <1>8, <1>9 DEF L, list

LEMMA StyleIsIndexed ==
    ASSUME Countable(Election.ballotStyles), NEW s \in Range(Election.ballotStyles)
    PROVE  /\ StyleIndex(s.id) \in 0 .. Len(Election.ballotStyles) - 1
           /\ Election.ballotStyles[StyleIndex(s.id) + 1].id = s.id
<1> DEFINE list == Election.ballotStyles
           L == Len(list)
           T == {i \in 1 .. L : list[i].id = s.id}
           Found(i) == list[i].id = s.id /\ \A j \in 1 .. i - 1 : ~(list[j].id = s.id)
           place == CHOOSE i \in 1 .. L : Found(i)
<1>1. L \in Nat /\ DOMAIN list = 1 .. L
  BY DEF Countable
<1>2. T # {}
  BY <1>1 DEF Range
<1>3. PICK i \in T : \A j \in 1 .. i - 1 : j \notin T
  <2>1. T \in SUBSET (1 .. L)
    OBVIOUS
  <2> HIDE DEF T, L
  <2> QED
    BY <1>1, <1>2, <2>1, FirstOf
<1>4. \A j \in 1 .. i - 1 : j \in 1 .. L
  BY <1>1, <1>3
<1>5. Found(i) /\ i \in 1 .. L
  BY <1>3, <1>4
<1>6. StyleIndex(s.id) = place - 1
  BY <1>1 DEF StyleIndex, IndexOf
<1>7. place \in 1 .. L /\ Found(place)
  <2> HIDE DEF Found
  <2> QED
    BY <1>5
<1> HIDE DEF place
<1>8. list[place].id = s.id
  BY <1>7
<1> HIDE DEF L, list
<1>9. place - 1 \in 0 .. L - 1 /\ (place - 1) + 1 = place
  BY <1>1, <1>7
<1> QED
  BY <1>6, <1>8, <1>9 DEF L, list

Reads(bits, at, size, n) == ReadUint(bits, at, size) = n

\* A reader finds w, and then what is behind it.
LEMMA OneMore ==
    ASSUME NEW bits \in Seq(Bits), NEW at \in Nat, NEW v \in Seq(Bits),
           NEW n \in Nat, NEW size \in Nat, n < 2^size,
           Holds(bits, at, v \o Uint(n, size))
    PROVE  /\ Holds(bits, at, v)
           /\ Reads(bits, at + Len(v), size, n)
<1>1. Uint(n, size) \in Seq(Bits) /\ Len(Uint(n, size)) = size
  BY NumberBits
<1>2. Holds(bits, at, v) /\ Holds(bits, at + Len(v), Uint(n, size))
  BY <1>1, HoldsParts
<1>3. at + Len(v) \in Nat
  OBVIOUS
<1>4. ReadUint(bits, at + Len(v), size) = n
  BY <1>2, <1>3, NumberIsRead
<1> QED
  BY <1>2, <1>4 DEF Reads

ReadsBit(bits, at, b) == (bits[at + 1] = 1) = b

LEMMA OneBitMore ==
    ASSUME NEW bits \in Seq(Bits), NEW at \in Nat, NEW v \in Seq(Bits), NEW b \in BOOLEAN,
           Holds(bits, at, v \o Bit(b))
    PROVE  /\ Holds(bits, at, v)
           /\ ReadsBit(bits, at + Len(v), b)
<1>1. Bit(b) \in Seq(Bits) /\ Len(Bit(b)) = 1 /\ (Bit(b)[1] = 1) = b
  BY BitIsBit
<1>2. Holds(bits, at, v) /\ Holds(bits, at + Len(v), Bit(b))
  BY <1>1, HoldsParts
<1>3. bits[at + Len(v) + 1] = Bit(b)[1]
  BY <1>1, <1>2 DEF Holds
<1> QED
  BY <1>1, <1>2, <1>3 DEF ReadsBit

\* A reader that finds the configuration reads it.
LEMMA ConfigIsThere ==
    ASSUME Countable(Election.precincts), Countable(Election.ballotStyles), Countable(Election.contests),
           NEW home \in Range(Election.precincts), NEW s \in Range(Election.ballotStyles),
           NEW testMode \in BOOLEAN, NEW ballotType \in 0 .. BallotTypeMaximumValue
    PROVE  LET written == encodeBallotConfig(s.id, home, testMode, ballotType) IN
           /\ written \in Seq(Bits)
           /\ \A bits \in Seq(Bits), at \in Nat :
                 Holds(bits, at, written) =>
                    decodeBallotConfig(bits, at) =
                       [counts |-> <<Len(Election.precincts), Len(Election.ballotStyles),
                                     Len(Election.contests)>>,
                        precinct |-> home, style |-> s.id, isTestMode |-> testMode,
                        ballotType |-> ballotType, at |-> at + Len(written)]
<1> DEFINE n1 == Len(Election.precincts)
           n2 == Len(Election.ballotStyles)
           n3 == Len(Election.contests)
           i == PrecinctIndex(home)
           j == StyleIndex(s.id)
           k1 == sizeof(n1 - 1)
           k2 == sizeof(n2 - 1)
           k3 == sizeof(BallotTypeMaximumValue)
           w1 == Uint(n1, 8)
           w2 == w1 \o Uint(n2, 8)
           w3 == w2 \o Uint(n3, 8)
           w4 == w3 \o Uint(i, k1)
           w5 == w4 \o Uint(j, k2)
           w6 == w5 \o Bit(testMode)
           w7 == w6 \o Uint(ballotType, k3)
           w8 == w7 \o Bit(FALSE)
           written == encodeBallotConfig(s.id, home, testMode, ballotType)
<1>1. n1 \in 0 .. 255 /\ n2 \in 0 .. 255 /\ n3 \in 0 .. 255
  BY CountedLength
<1>2. i \in 0 .. n1 - 1 /\ Election.precincts[i + 1] = home
  BY PrecinctIsIndexed
<1>3. j \in 0 .. n2 - 1 /\ Election.ballotStyles[j + 1].id = s.id
  BY StyleIsIndexed
<1> HIDE DEF n1, n2, n3, i, j
<1>4. ASSUME NEW n \in 0 .. 255, NEW u \in 0 .. n - 1 PROVE n - 1 \in 0 .. 255 /\ u \in 0 .. n - 1
  OBVIOUS
<1>5. k1 \in Nat /\ i \in Nat /\ i < 2^k1
  BY <1>1, <1>2, <1>4, NumberFits
<1>6. k2 \in Nat /\ j \in Nat /\ j < 2^k2
  BY <1>1, <1>3, <1>4, NumberFits
<1>7. k3 \in Nat /\ ballotType \in Nat /\ ballotType < 2^k3
  <2>1. BallotTypeMaximumValue \in 0 .. 255
    BY DEF BallotTypeMaximumValue
  <2> QED
    BY <2>1, NumberFits
<1>8. n1 \in Nat /\ n2 \in Nat /\ n3 \in Nat /\ n1 < 2^8 /\ n2 < 2^8 /\ n3 < 2^8 /\ 8 \in Nat
  <2>1. 2^8 = 256
    OBVIOUS
  <2> QED
    BY <1>1, <2>1
<1> HIDE DEF k1, k2, k3
<1>10. w1 \in Seq(Bits) /\ Len(w1) = 8
  BY <1>8, NumberBits
<1> HIDE DEF w1
<1>11. ASSUME NEW v \in Seq(Bits), NEW n \in Nat, NEW size \in Nat
       PROVE  v \o Uint(n, size) \in Seq(Bits) /\ Len(v \o Uint(n, size)) = Len(v) + size
  <2>1. Uint(n, size) \in Seq(Bits) /\ Len(Uint(n, size)) = size
    BY NumberBits
  <2>2. v \o Uint(n, size) \in Seq(Bits)
        /\ Len(v \o Uint(n, size)) = Len(v) + Len(Uint(n, size))
    BY <2>1, Joined
  <2> QED
    BY <2>1, <2>2
<1>12. ASSUME NEW v \in Seq(Bits), NEW b \in BOOLEAN
       PROVE  v \o Bit(b) \in Seq(Bits) /\ Len(v \o Bit(b)) = Len(v) + 1
  <2>1. Bit(b) \in Seq(Bits) /\ Len(Bit(b)) = 1
    BY BitIsBit
  <2>2. v \o Bit(b) \in Seq(Bits) /\ Len(v \o Bit(b)) = Len(v) + Len(Bit(b))
    BY <2>1, Joined
  <2> QED
    BY <2>1, <2>2
<1>13. w2 \in Seq(Bits) /\ Len(w2) = 16
  <2>1. w2 \in Seq(Bits) /\ Len(w2) = Len(w1) + 8
    BY <1>8, <1>10, <1>11
  <2> QED
    BY <2>1, <1>10
<1> HIDE DEF w2
<1>14. w3 \in Seq(Bits) /\ Len(w3) = 24
  <2>1. w3 \in Seq(Bits) /\ Len(w3) = Len(w2) + 8
    BY <1>8, <1>13, <1>11
  <2> QED
    BY <2>1, <1>13
<1> HIDE DEF w3
<1>15. w4 \in Seq(Bits) /\ Len(w4) = 24 + k1
  <2>1. w4 \in Seq(Bits) /\ Len(w4) = Len(w3) + k1
    BY <1>5, <1>14, <1>11, Zenon
  <2> QED
    BY <2>1, <1>14
<1> HIDE DEF w4
<1>16. w5 \in Seq(Bits) /\ Len(w5) = 24 + k1 + k2
  <2>1. w5 \in Seq(Bits) /\ Len(w5) = Len(w4) + k2
    BY <1>6, <1>15, <1>11, Zenon
  <2> QED
    BY <2>1, <1>15
<1> HIDE DEF w5
<1>17. w6 \in Seq(Bits) /\ Len(w6) = 24 + k1 + k2 + 1
  <2>1. w6 \in Seq(Bits) /\ Len(w6) = Len(w5) + 1
    BY <1>16, <1>12, Zenon
  <2> QED
    BY <2>1, <1>16
<1> HIDE DEF w6
<1>18. w7 \in Seq(Bits) /\ Len(w7) = 24 + k1 + k2 + 1 + k3
  <2>1. w7 \in Seq(Bits) /\ Len(w7) = Len(w6) + k3
    BY <1>7, <1>17, <1>11, Zenon
  <2> QED
    BY <2>1, <1>17
<1> HIDE DEF w7
<1>19. w8 \in Seq(Bits) /\ Len(w8) = 24 + k1 + k2 + 1 + k3 + 1
  <2>1. w8 \in Seq(Bits) /\ Len(w8) = Len(w7) + 1
    BY <1>18, <1>12, Zenon
  <2> QED
    BY <2>1, <1>18
<1>20. written = w8
  BY DEF encodeBallotConfig, UintUpTo, w1, w2, w3, w4, w5, w6, w7, n1, n2, n3, i, j, k1, k2, k3
<1> HIDE DEF w8
<1> HIDE DEF written
<1>21. SUFFICES ASSUME NEW bits \in Seq(Bits), NEW at \in Nat, Holds(bits, at, w8)
                PROVE  decodeBallotConfig(bits, at) =
                          [counts |-> <<n1, n2, n3>>, precinct |-> home, style |-> s.id,
                           isTestMode |-> testMode, ballotType |-> ballotType, at |-> at + Len(w8)]
  BY <1>19, <1>20 DEF written, n1, n2, n3
<1>22. Holds(bits, at, w7)
  <2>1. Holds(bits, at, w7 \o Bit(FALSE))
    BY <1>21 DEF w8
  <2> QED
    BY <2>1, <1>18, <1>21, OneBitMore, Zenon
<1>23. Holds(bits, at, w6) /\ Reads(bits, at + Len(w6), k3, ballotType)
  <2>1. Holds(bits, at, w6 \o Uint(ballotType, k3))
    BY <1>22 DEF w7
  <2> QED
    BY <2>1, <1>7, <1>17, <1>21, OneMore, Zenon
<1>24. Holds(bits, at, w5) /\ ReadsBit(bits, at + Len(w5), testMode)
  <2>1. Holds(bits, at, w5 \o Bit(testMode))
    BY <1>23 DEF w6
  <2> QED
    BY <2>1, <1>16, <1>21, OneBitMore, Zenon
<1>25. Holds(bits, at, w4) /\ Reads(bits, at + Len(w4), k2, j)
  <2>1. Holds(bits, at, w4 \o Uint(j, k2))
    BY <1>24 DEF w5
  <2> QED
    BY <2>1, <1>6, <1>15, <1>21, OneMore, Zenon
<1>26. Holds(bits, at, w3) /\ Reads(bits, at + Len(w3), k1, i)
  <2>1. Holds(bits, at, w3 \o Uint(i, k1))
    BY <1>25 DEF w4
  <2> QED
    BY <2>1, <1>5, <1>14, <1>21, OneMore, Zenon
<1>27. Holds(bits, at, w2) /\ Reads(bits, at + Len(w2), 8, n3)
  <2>1. Holds(bits, at, w2 \o Uint(n3, 8))
    BY <1>26 DEF w3
  <2> QED
    BY <2>1, <1>8, <1>13, <1>21, OneMore, Zenon
<1>28. Holds(bits, at, w1) /\ Reads(bits, at + Len(w1), 8, n2)
  <2>1. Holds(bits, at, w1 \o Uint(n2, 8))
    BY <1>27 DEF w2
  <2> QED
    BY <2>1, <1>8, <1>10, <1>21, OneMore, Zenon
<1>29. ReadUint(bits, at, 8) = n1
  <2>1. Holds(bits, at, Uint(n1, 8))
    BY <1>28 DEF w1
  <2> QED
    BY <2>1, <1>8, <1>21, NumberIsRead
<1> DEFINE next == at + 24 + k1 + k2
<1>30. /\ ReadUint(bits, at, 8) = n1 /\ ReadUint(bits, at + 8, 8) = n2
       /\ ReadUint(bits, at + 16, 8) = n3
       /\ ReadUint(bits, at + 24, k1) = i /\ ReadUint(bits, at + 24 + k1, k2) = j
  <2>1. at + (24 + k1) = at + 24 + k1
    BY <1>21, <1>5
  <2> QED
    BY <2>1, <1>10, <1>13, <1>14, <1>15, <1>25, <1>26, <1>27, <1>28, <1>29 DEF Reads
<1>31. (bits[next + 1] = 1) = testMode /\ ReadUint(bits, next + 1, k3) = ballotType
  <2>1. at + Len(w5) = next /\ at + Len(w6) = next + 1
    BY <1>5, <1>6, <1>16, <1>17, <1>21
  <2> HIDE DEF next
  <2> QED
    BY <2>1, <1>23, <1>24 DEF Reads, ReadsBit
<1>32. next + k3 + 2 = at + Len(w8)
  <2>1. k1 \in Nat /\ k2 \in Nat /\ k3 \in Nat /\ at \in Nat
    BY <1>5, <1>6, <1>7, <1>21
  <2>2. Len(w8) = 24 + k1 + k2 + 1 + k3 + 1
    BY <1>19
  <2> QED
    BY <2>1, <2>2
<1> HIDE DEF next
<1>33. decodeBallotConfig(bits, at) =
         [counts |-> <<n1, n2, n3>>, precinct |-> Election.precincts[i + 1],
          style |-> Election.ballotStyles[j + 1].id, isTestMode |-> testMode,
          ballotType |-> ballotType, at |-> at + Len(w8)]
  <2>1. decodeBallotConfig(bits, at) =
          [counts |-> <<ReadUint(bits, at, 8), ReadUint(bits, at + 8, 8), ReadUint(bits, at + 16, 8)>>,
           precinct |-> Election.precincts[ReadUint(bits, at + 24, k1) + 1],
           style |-> Election.ballotStyles[ReadUint(bits, at + 24 + k1, k2) + 1].id,
           isTestMode |-> bits[next + 1] = 1,
           ballotType |-> ReadUint(bits, next + 1, k3),
           at |-> next + k3 + 2]
    BY DEF decodeBallotConfig, next, k1, k2, k3, n1, n2
  <2> QED
    BY <2>1, <1>30, <1>31, <1>32
<1> QED
  BY <1>2, <1>3, <1>33

\* The precinct, the ballot style and the type that a ballot is printed for are
\* read from it, with the counts of the election it was printed for, and the
\* reader goes on with the votes (encodeBallotConfigInto and
\* decodeBallotConfigFromReader).
THEOREM ConfigIsRead ==
    ASSUME NEW home \in Range(Election.precincts), NEW s \in Range(Election.ballotStyles),
           NEW testMode \in BOOLEAN, NEW ballotType \in 0 .. BallotTypeMaximumValue,
           NEW before \in Seq(Bits), NEW after \in Seq(Bits)
    PROVE  LET written == encodeBallotConfig(s.id, home, testMode, ballotType) IN
           decodeBallotConfig(before \o written \o after, Len(before)) =
              [counts |-> <<Len(Election.precincts), Len(Election.ballotStyles),
                            Len(Election.contests)>>,
               precinct |-> home, style |-> s.id, isTestMode |-> testMode,
               ballotType |-> ballotType, at |-> Len(before) + Len(written)]
<1> DEFINE written == encodeBallotConfig(s.id, home, testMode, ballotType)
           bits == before \o written \o after
           at == Len(before)
<1>1. /\ written \in Seq(Bits)
      /\ \A b \in Seq(Bits), p \in Nat :
            Holds(b, p, written) =>
               decodeBallotConfig(b, p) =
                  [counts |-> <<Len(Election.precincts), Len(Election.ballotStyles),
                                Len(Election.contests)>>,
                   precinct |-> home, style |-> s.id, isTestMode |-> testMode,
                   ballotType |-> ballotType, at |-> p + Len(written)]
  BY ElectionIsPrintable, ConfigIsThere
<1> HIDE DEF written
<1>2. bits \in Seq(Bits) /\ at \in Nat /\ Holds(bits, at, written)
  BY <1>1, IsFound
<1> HIDE DEF bits, at
<1>3. decodeBallotConfig(bits, at) =
         [counts |-> <<Len(Election.precincts), Len(Election.ballotStyles), Len(Election.contests)>>,
          precinct |-> home, style |-> s.id, isTestMode |-> testMode,
          ballotType |-> ballotType, at |-> at + Len(written)]
  BY <1>1, <1>2
<1> QED
  BY <1>3 DEF written, bits, at

----------------------------------------------------------------------------
(* The whole ballot.                                                       *)

\* Numbers of one size, one after the other.
LEMMA NumbersJoined ==
    ASSUME NEW list \in Seq(Nat), NEW size \in Nat
    PROVE  LET w == Concat(list, LAMBDA x : Uint(x, size)) IN
           w \in Seq(Bits) /\ Len(w) = Len(list) * size
<1> DEFINE n == Len(list)
           f == [i \in 1 .. n |-> Uint(list[i], size)]
           w == Concat(list, LAMBDA x : Uint(x, size))
<1>1. n \in Nat /\ DOMAIN list = 1 .. n /\ \A i \in 1 .. n : list[i] \in Nat
  OBVIOUS
<1>2. ASSUME NEW i \in 1 .. n PROVE f[i] \in Seq(Bits) /\ Len(f[i]) = size
  <2>1. f[i] = Uint(list[i], size)
    OBVIOUS
  <2> QED
    BY <2>1, <1>1, NumberBits
<1>3. f \in [1 .. n -> Seq(Bits)]
  BY <1>2
<1>4. w = FlattenSeq(f)
  BY <1>1 DEF Concat
<1> HIDE DEF f, w, n
<1>5. PICK H \in [0 .. n -> Seq(Bits)] : IsJoin(H, f, n) /\ FlattenSeq(f) = H[n]
  BY <1>1, <1>3, BitsFlattened
<1>6. \A k \in 0 .. n : Len(H[k]) = k * size
  BY <1>1, <1>2, <1>3, <1>5, JoinLength
<1>7. n \in 0 .. n
  BY <1>1
<1> QED
  BY <1>4, <1>5, <1>6, <1>7 DEF w, n

\* What is kept of a list whose ids are all different has different ids.
LEMMA KeptApart ==
    ASSUME NEW X, NEW s \in Seq(X), NEW T \in SUBSET (1 .. Len(s)),
           \A i, j \in DOMAIN s : s[i].id = s[j].id => i = j
    PROVE  \A i, j \in DOMAIN Kept(s, T) : Kept(s, T)[i].id = Kept(s, T)[j].id => i = j
<1> DEFINE n == Len(s)
           f == [i \in 1 .. n |-> IF i \in T THEN <<s[i]>> ELSE <<>>]
<1>1. n \in Nat /\ DOMAIN s = 1 .. n /\ \A i \in 1 .. n : s[i] \in X
  OBVIOUS
<1>2. ASSUME NEW i \in 1 .. n
      PROVE  f[i] = (IF i \in T THEN <<s[i]>> ELSE <<>>) /\ f[i] \in Seq(X)
  <2>1. s[i] \in X
    BY <1>1
  <2> QED
    BY <2>1
<1>3. f \in [1 .. n -> Seq(X)]
  BY <1>2
<1>4. Kept(s, T) = FlattenSeq(f)
  BY DEF Kept
<1> HIDE DEF f, n
<1>5. PICK H \in [0 .. n -> Seq(X)] : IsJoin(H, f, n) /\ FlattenSeq(f) = H[n]
  BY <1>1, <1>3, Flattened
<1> DEFINE From(k) == \A i \in DOMAIN H[k] : \E m \in 1 .. k : H[k][i] = s[m]
           Apart(k) == \A i, j \in DOMAIN H[k] : H[k][i].id = H[k][j].id => i = j
           S == {k \in Nat : k <= n => From(k) /\ Apart(k)}
<1>6. 0 \in S
  <2>1. H[0] = <<>> /\ DOMAIN H[0] = {}
    BY <1>5 DEF IsJoin
  <2> QED
    BY <2>1
<1>7. ASSUME NEW k \in Nat, k \in S PROVE k + 1 \in S
  <2>1. SUFFICES ASSUME k + 1 <= n PROVE From(k + 1) /\ Apart(k + 1)
    <3> HIDE DEF From, Apart
    <3> QED
      OBVIOUS
  <2>2. k \in 0 .. n - 1 /\ k \in 0 .. n /\ k + 1 \in 1 .. n /\ k <= n /\ k + 1 \in 1 .. k + 1
    BY <2>1, <1>1
  <2>3. From(k) /\ Apart(k)
    <3> HIDE DEF From, Apart
    <3> QED
      BY <1>7, <2>2
  <2>4. H[k] \in Seq(X) /\ H[k + 1] = H[k] \o f[k + 1] /\ s[k + 1] \in X
    BY <1>1, <1>5, <2>2 DEF IsJoin
  <2> DEFINE h == H[k]
             g == H[k + 1]
             x == s[k + 1]
  <2>5. CASE k + 1 \in T
    <3>1. g = h \o <<x>>
      BY <2>2, <2>4, <2>5, <1>2
    <3>2. h \in Seq(X) /\ x \in X /\ From(k) /\ Apart(k)
      BY <2>3, <2>4
    <3>3. \A m \in 1 .. k : s[m].id # x.id
      <4>1. \A m \in 1 .. k : m \in 1 .. n /\ m # k + 1
        BY <2>2, <1>1
      <4> QED
        BY <4>1, <2>2, <1>1
    <3>4. \A i \in DOMAIN h : h[i].id # x.id
      <4> HIDE DEF x
      <4> QED
        BY <3>2, <3>3
    <3> HIDE DEF x
    <3>5. /\ DOMAIN g = 1 .. Len(h) + 1 /\ DOMAIN h = 1 .. Len(h) /\ Len(h) \in Nat
          /\ g[Len(h) + 1] = x /\ \A i \in 1 .. Len(h) : g[i] = h[i]
      <4> HIDE DEF g, h
      <4> QED
        BY <3>1, <3>2
    <3>6. \A i \in DOMAIN g : (i \in DOMAIN h /\ g[i] = h[i]) \/ (i = Len(h) + 1 /\ g[i] = x)
      <4> HIDE DEF g, h
      <4> QED
        BY <3>5
    <3>7. From(k + 1)
      <4>1. ASSUME NEW i \in DOMAIN g PROVE \E m \in 1 .. k + 1 : g[i] = s[m]
        <5>1. CASE i \in DOMAIN h /\ g[i] = h[i]
          <6>1. PICK m \in 1 .. k : h[i] = s[m]
            BY <5>1, <3>2
          <6>2. m \in 1 .. k + 1
            OBVIOUS
          <6> QED
            BY <5>1, <6>1, <6>2
        <5>2. CASE g[i] = x
          BY <5>2, <2>2 DEF x
        <5> QED
          BY <5>1, <5>2, <3>6
      <4> QED
        BY <4>1
    <3>8. Apart(k + 1)
      <4>1. ASSUME NEW i \in DOMAIN g, NEW j \in DOMAIN g, g[i].id = g[j].id PROVE i = j
        BY <4>1, <3>2, <3>4, <3>6
      <4> QED
        BY <4>1
    <3> QED
      BY <3>7, <3>8
  <2>6. CASE k + 1 \notin T
    <3>1. g = h
      <4>1. f[k + 1] = <<>>
        BY <2>2, <2>6, <1>2
      <4>2. \A a \in Seq(X) : a \o <<>> = a
        OBVIOUS
      <4> QED
        BY <4>1, <4>2, <2>4
    <3>2. \A m \in 1 .. k : m \in 1 .. k + 1
      OBVIOUS
    <3> QED
      BY <3>1, <3>2, <2>3
  <2> QED
    BY <2>5, <2>6
<1> HIDE DEF S
<1>8. n \in S
  BY <1>1, <1>6, <1>7, AllNumbers
<1>9. Apart(n)
  <2>1. n <= n
    BY <1>1
  <2> HIDE DEF From, Apart
  <2> QED
    BY <1>8, <2>1 DEF S
<1> QED
  BY <1>4, <1>5, <1>9

LEMMA ContestsOfElection ==
    ASSUME NEW st
    PROVE  LET contests == getContests(st) IN
           /\ contests \in Seq(Range(contests))
           /\ Range(contests) \subseteq Range(Election.contests)
           /\ \A i, j \in DOMAIN contests : contests[i].id = contests[j].id => i = j
<1> DEFINE all == Election.contests
           Test(c) == c.districtId \in st.districts /\ c.partyId \in {"", st.partyId}
           T == {i \in 1 .. Len(all) : Test(all[i])}
           contests == getContests(st)
<1>1. all \in Seq(Range(all)) /\ DOMAIN all = 1 .. Len(all)
      /\ \A i, j \in DOMAIN all : all[i].id = all[j].id => i = j
  BY ElectionAssumption DEF ElectionAssumption
<1>2. contests = FlattenSeq([i \in DOMAIN all |-> IF Test(all[i]) THEN <<all[i]>> ELSE <<>>])
  BY DEF getContests, Those, Concat
<1>3. \A i \in 1 .. Len(all) : i \in T <=> Test(all[i])
  OBVIOUS
<1>4. T \in SUBSET (1 .. Len(all))
  OBVIOUS
<1> HIDE DEF Test, T, all, contests
<1>5. [i \in DOMAIN all |-> IF Test(all[i]) THEN <<all[i]>> ELSE <<>>]
        = [i \in 1 .. Len(all) |-> IF i \in T THEN <<all[i]>> ELSE <<>>]
  BY <1>1, <1>3
<1>6. contests = Kept(all, T)
  BY <1>2, <1>5 DEF Kept
<1>7. contests \in Seq({all[i] : i \in T})
  BY <1>1, <1>4, <1>6, KeptElements
<1>8. \A i, j \in DOMAIN contests : contests[i].id = contests[j].id => i = j
  BY <1>1, <1>4, <1>6, KeptApart
<1>9. contests \in Seq(Range(contests))
  <2>1. DOMAIN contests = 1 .. Len(contests) /\ Len(contests) \in Nat
    BY <1>7
  <2>2. contests = [i \in 1 .. Len(contests) |-> contests[i]]
    BY <1>7
  <2>3. \A i \in 1 .. Len(contests) : contests[i] \in Range(contests)
    BY <2>1 DEF Range
  <2> QED
    BY <2>1, <2>2, <2>3
<1>10. ASSUME NEW c \in Range(contests) PROVE c \in Range(all)
  <2>1. PICK i \in DOMAIN contests : contests[i] = c
    BY DEF Range
  <2>2. c \in {all[m] : m \in T}
    BY <1>7, <2>1
  <2> QED
    BY <2>2, <1>1, <1>4 DEF Range
<1> QED
  BY <1>8, <1>9, <1>10 DEF contests, all

\* The contests of a style can be printed as they are voted.
LEMMA ContestsOfStyle ==
    ASSUME NEW st, NEW choices,
           \A c \in Range(getContests(st)) : Fillable(c, choices[c.id])
    PROVE  Votable(getContests(st), choices)
<1>1. \A c \in Range(getContests(st)) : c \in Range(Election.contests)
  BY ContestsOfElection
<1>2. \A c \in Range(getContests(st)) :
         Electable(c) /\ c.id \in ContestIds /\ Fillable(c, choices[c.id])
  BY <1>1, ElectionIsPrintable DEF ContestIds
<1> QED
  BY <1>2, ContestsOfElection DEF Votable

\* What Padded adds is less than a byte of zeros.
LEMMA PaddingIsLeft ==
    ASSUME NEW body \in Seq(Bits)
    PROVE  /\ Padded(body) \in Seq(Bits)
           /\ Holds(Padded(body), 0, body)
           /\ OnlyPaddingLeft(Padded(body), Len(body))
<1> DEFINE n == Len(body)
           left == (8 - (n % 8)) % 8
           zeros == [i \in 1 .. left |-> 0]
           bits == Padded(body)
<1>1. n \in Nat /\ left \in 0 .. 7
  <2>1. n \in Nat
    OBVIOUS
  <2> HIDE DEF n
  <2>2. n % 8 \in 0 .. 7
    BY <2>1
  <2>3. \A r \in 0 .. 7 : (8 - r) % 8 \in 0 .. 7
    OBVIOUS
  <2> QED
    BY <2>1, <2>2, <2>3
<1>2. bits = body \o zeros
  BY DEF Padded
<1> HIDE DEF left, bits
<1>3. zeros \in Seq(Bits) /\ Len(zeros) = left /\ \A i \in 1 .. left : zeros[i] = 0
  BY <1>1 DEF Bits
<1> HIDE DEF zeros
<1>4. /\ bits \in Seq(Bits) /\ Len(bits) = n + left
      /\ \A i \in 1 .. n : bits[i] = body[i]
      /\ \A i \in n + 1 .. n + left : bits[i] = zeros[i - n]
  BY <1>1, <1>2, <1>3
<1>5. Holds(bits, 0, body)
  <2>1. 0 + Len(body) <= Len(bits)
    BY <1>1, <1>4
  <2>2. \A i \in 1 .. Len(body) : 0 + i = i
    OBVIOUS
  <2> QED
    BY <1>4, <2>1, <2>2 DEF Holds
<1>6. OnlyPaddingLeft(bits, n)
  <2>1. Len(bits) - n = left
    BY <1>1, <1>4
  <2>2. ASSUME NEW i \in n + 1 .. n + left PROVE bits[i] = 0
    <3>1. i - n \in 1 .. left
      BY <1>1
    <3> QED
      BY <3>1, <1>3, <1>4
  <2> QED
    BY <1>1, <1>4, <2>1, <2>2 DEF OnlyPaddingLeft
<1> QED
  BY <1>4, <1>5, <1>6 DEF bits

\* A printed ballot is read without an error, and says the ballot style, the
\* precinct, the mode and the type it was printed for and, in each contest of
\* the style, what the voter chose; nothing is read of any other contest
\* (encodeBallot and decodeBallot).
THEOREM PaperIsRead ==
    ASSUME NEW home \in Range(Election.precincts), NEW s \in Range(Election.ballotStyles),
           NEW testMode \in BOOLEAN, NEW ballotType \in 0 .. BallotTypeMaximumValue,
           NEW choices,
           \A c \in Range(getContests(getBallotStyle(s.id))) : Fillable(c, choices[c.id])
    PROVE  LET contests == getContests(getBallotStyle(s.id))
               read == decodeBallot(encodeBallot(s.id, home, choices, testMode, ballotType))
               bits == encodeBallot(s.id, home, choices, testMode, ballotType)
           IN  /\ bits # <<>> /\ read.ok
               /\ read.style = s.id /\ read.precinct = home
               /\ read.isTestMode = testMode /\ read.ballotType = ballotType
               /\ DOMAIN read.votes = ContestIds
               /\ \A c \in Range(contests) : read.votes[c.id] = AsPrinted(c, choices[c.id])
               /\ \A id \in ContestIds :
                     id \notin {c.id : c \in Range(contests)} => read.votes[id] = <<>>
<1> DEFINE contests == getContests(getBallotStyle(s.id))
           prelude == Concat(Prelude, LAMBDA x : Uint(x, 8))
           hash == Concat(Election.hash, LAMBDA x : Uint(x, 4))
           config == encodeBallotConfig(s.id, home, testMode, ballotType)
           chosen == encodeBallotVotes(contests, choices)
           head == prelude \o hash
           front == head \o config
           body == front \o chosen
           bits == Padded(body)
           start == 24 + 4 * Len(Election.hash)
           counts == <<Len(Election.precincts), Len(Election.ballotStyles), Len(Election.contests)>>
<1>1. prelude \in Seq(Bits) /\ Len(prelude) = 24
  <2>1. Prelude \in Seq(Nat) /\ Len(Prelude) * 8 = 24
    BY DEF Prelude
  <2>2. prelude \in Seq(Bits) /\ Len(prelude) = Len(Prelude) * 8
    BY <2>1, NumbersJoined
  <2> QED
    BY <2>1, <2>2
<1>2. hash \in Seq(Bits) /\ Len(hash) = Len(Election.hash) * 4 /\ Len(Election.hash) \in Nat
  <2>1. Election.hash \in Seq(Nat)
    BY ElectionIsPrintable
  <2>2. Len(Election.hash) \in Nat
    BY <2>1
  <2>3. hash \in Seq(Bits) /\ Len(hash) = Len(Election.hash) * 4
    BY <2>1, NumbersJoined
  <2> QED
    BY <2>2, <2>3
<1>3. /\ config \in Seq(Bits)
      /\ \A b \in Seq(Bits), at \in Nat :
            Holds(b, at, config) =>
               decodeBallotConfig(b, at) =
                  [counts |-> counts, precinct |-> home, style |-> s.id,
                   isTestMode |-> testMode, ballotType |-> ballotType, at |-> at + Len(config)]
  BY ElectionIsPrintable, ConfigIsThere
<1>4. Votable(contests, choices)
  BY ContestsOfStyle
<1>5. /\ chosen \in Seq(Bits)
      /\ \A b \in Seq(Bits), at \in Nat :
            Holds(b, at, chosen) =>
               \E read : /\ IsReadOf(read, contests, choices, Len(contests))
                         /\ decodeBallotVotes(contests, b, at)
                               = [at |-> at + Len(chosen), votes |-> read]
  BY <1>4, VotesAreThere
<1>6. encodeBallot(s.id, home, choices, testMode, ballotType) = bits
  BY DEF encodeBallot
<1>7. decodeBallot(bits) =
         LET cfg == decodeBallotConfig(bits, start)
             read == decodeBallotVotes(getContests(getBallotStyle(cfg.style)), bits, cfg.at)
         IN  [ok |-> /\ SubSeq(bits, 1, 24) = prelude
                     /\ cfg.counts = counts
                     /\ OnlyPaddingLeft(bits, read.at),
              style |-> cfg.style, precinct |-> cfg.precinct, votes |-> read.votes,
              isTestMode |-> cfg.isTestMode, ballotType |-> cfg.ballotType]
  BY DEF decodeBallot
<1> HIDE DEF prelude, hash, config, chosen, counts
<1>8. head \in Seq(Bits) /\ Len(head) = start
  <2>1. head \in Seq(Bits) /\ Len(head) = Len(prelude) + Len(hash)
    BY <1>1, <1>2, Joined
  <2> HIDE DEF head
  <2> QED
    BY <1>1, <1>2, <2>1
<1> HIDE DEF head
<1>9. start \in Nat
  BY <1>2
<1> HIDE DEF start
<1>10. front \in Seq(Bits) /\ Len(front) = start + Len(config)
  <2>1. front \in Seq(Bits) /\ Len(front) = Len(head) + Len(config)
    BY <1>3, <1>8, Joined
  <2> QED
    BY <2>1, <1>8
<1> HIDE DEF front
<1>11. body \in Seq(Bits) /\ Len(body) = Len(front) + Len(chosen)
  BY <1>5, <1>10, Joined
<1> HIDE DEF body
<1>12. bits \in Seq(Bits) /\ Holds(bits, 0, body) /\ OnlyPaddingLeft(bits, Len(body))
  BY <1>11, PaddingIsLeft
<1> HIDE DEF bits
<1>13. \A n \in Nat : 0 + n = n
  OBVIOUS
<1>14. Holds(bits, 0, front) /\ Holds(bits, Len(front), chosen)
  <2>1. Holds(bits, 0, front \o chosen) /\ 0 \in Nat
    BY <1>12 DEF body
  <2>2. Holds(bits, 0, front) /\ Holds(bits, 0 + Len(front), chosen)
    BY <2>1, <1>5, <1>10, <1>12, HoldsParts
  <2>3. Len(front) \in Nat
    BY <1>10
  <2> QED
    BY <2>2, <2>3, <1>13
<1>15. Holds(bits, 0, head) /\ Holds(bits, start, config)
  <2>1. Holds(bits, 0, head \o config) /\ 0 \in Nat
    BY <1>14 DEF front
  <2>2. Holds(bits, 0, head) /\ Holds(bits, 0 + Len(head), config)
    BY <2>1, <1>3, <1>8, <1>12, HoldsParts
  <2> QED
    BY <2>2, <1>8, <1>9, <1>13
<1>16. SubSeq(bits, 1, 24) = prelude
  <2>1. Holds(bits, 0, prelude \o hash) /\ 0 \in Nat
    BY <1>15 DEF head
  <2>2. Holds(bits, 0, prelude)
    BY <2>1, <1>1, <1>2, <1>12, HoldsParts
  <2>3. SubSeq(bits, 0 + 1, 0 + Len(prelude)) = prelude
    BY <2>1, <2>2, <1>1, <1>12, HeldIsCut
  <2>4. 0 + 1 = 1 /\ 0 + Len(prelude) = 24
    BY <1>1
  <2> QED
    BY <2>3, <2>4
<1>17. decodeBallotConfig(bits, start) =
          [counts |-> counts, precinct |-> home, style |-> s.id,
           isTestMode |-> testMode, ballotType |-> ballotType, at |-> Len(front)]
  BY <1>3, <1>9, <1>10, <1>12, <1>15
<1>18. PICK read : /\ IsReadOf(read, contests, choices, Len(contests))
                   /\ decodeBallotVotes(contests, bits, Len(front)) = [at |-> Len(body), votes |-> read]
  <2>1. Len(front) \in Nat
    BY <1>10
  <2>2. Holds(bits, Len(front), chosen) /\ bits \in Seq(Bits)
    BY <1>12, <1>14
  <2> HIDE DEF contests
  <2>3. \E read : /\ IsReadOf(read, contests, choices, Len(contests))
                  /\ decodeBallotVotes(contests, bits, Len(front))
                        = [at |-> Len(front) + Len(chosen), votes |-> read]
    BY <2>1, <2>2, <1>5
  <2> QED
    BY <2>3, <1>11
<1>19. decodeBallot(bits) =
          [ok |-> TRUE, style |-> s.id, precinct |-> home, votes |-> read,
           isTestMode |-> testMode, ballotType |-> ballotType]
  <2> DEFINE cfg == decodeBallotConfig(bits, start)
             votesRead == decodeBallotVotes(getContests(getBallotStyle(cfg.style)), bits, cfg.at)
  <2>1. /\ cfg.counts = counts /\ cfg.precinct = home /\ cfg.style = s.id
        /\ cfg.isTestMode = testMode /\ cfg.ballotType = ballotType /\ cfg.at = Len(front)
    BY <1>17
  <2> HIDE DEF cfg
  <2>2. votesRead = [at |-> Len(body), votes |-> read]
    BY <2>1, <1>18
  <2> HIDE DEF votesRead
  <2>3. votesRead.at = Len(body) /\ votesRead.votes = read
    BY <2>2
  <2>4. decodeBallot(bits) =
          [ok |-> /\ SubSeq(bits, 1, 24) = prelude
                  /\ cfg.counts = counts
                  /\ OnlyPaddingLeft(bits, votesRead.at),
           style |-> cfg.style, precinct |-> cfg.precinct, votes |-> votesRead.votes,
           isTestMode |-> cfg.isTestMode, ballotType |-> cfg.ballotType]
    BY <1>7 DEF cfg, votesRead
  <2>5. OnlyPaddingLeft(bits, votesRead.at) = TRUE
    BY <2>3, <1>12 DEF OnlyPaddingLeft
  <2> QED
    BY <2>1, <2>3, <2>4, <2>5, <1>16
<1>20. ASSUME NEW c \in Range(contests) PROVE read[c.id] = AsPrinted(c, choices[c.id])
  <2> HIDE DEF contests
  <2>1. PICK i \in DOMAIN contests : contests[i] = c
    BY DEF Range
  <2>2. i <= Len(contests)
    BY <1>4 DEF Votable
  <2> QED
    BY <1>18, <2>1, <2>2 DEF IsReadOf
<1>21. DOMAIN read = ContestIds
       /\ \A id \in ContestIds : id \notin {c.id : c \in Range(contests)} => read[id] = <<>>
  BY <1>18 DEF IsReadOf
<1> HIDE DEF contests
<1>22. bits # <<>>
  <2>1. Len(body) <= Len(bits)
    BY <1>11, <1>12, <1>13 DEF Holds
  <2>2. Len(body) >= start /\ start >= 24
    BY <1>2, <1>3, <1>5, <1>10, <1>11 DEF start
  <2>3. Len(bits) \in Nat /\ Len(body) \in Nat
    <3>1. body \in Seq(Bits) /\ bits \in Seq(Bits)
      BY <1>11, <1>12
    <3> QED
      BY <3>1
  <2>4. Len(bits) # 0
    BY <2>1, <2>2, <2>3, <1>9
  <2>5. Len(<<>>) = 0
    OBVIOUS
  <2> QED
    BY <2>4, <2>5, Zenon
<1>23. LET r == decodeBallot(encodeBallot(s.id, home, choices, testMode, ballotType)) IN
       /\ r.ok /\ r.style = s.id /\ r.precinct = home
       /\ r.isTestMode = testMode /\ r.ballotType = ballotType /\ r.votes = read
  BY <1>6, <1>19
<1> QED
  BY <1>6, <1>20, <1>21, <1>22, <1>23 DEF contests

----------------------------------------------------------------------------
(* The record and the paper.                                               *)

\* A record of the votes v of a ballot style and a precinct.
IsRecordOf(record, st, p, v) ==
    /\ record.style = st /\ record.precinct = p
    /\ getCurrentSnapshot(record)
          = buildCVRContestsFromVotes(getContests(getBallotStyle(st)), v, "machine")

LEMMA RecordIs ==
    ASSUME NEW s, NEW p, NEW v, NEW b, NEW sc, NEW t
    PROVE  IsRecordOf(MachineRecord(s, p, v, b, sc, t), s, p, v)
<1> DEFINE r == MachineRecord(s, p, v, b, sc, t)
<1>1. r.style = s /\ r.precinct = p
  BY DEF MachineRecord, RecordOfBallot
<1>2. r.current = "original"
  BY DEF MachineRecord, RecordOfBallot
<1> QED
  BY <1>1, <1>2 DEF MachineRecord, RecordOfBallot, getCurrentSnapshot, IsRecordOf

\* K and L hold the elements of s and t at the same places, those of U.
Paired(K, L, s, t, U) ==
    /\ Len(K) = Len(L)
    /\ \A m \in 1 .. Len(K) : \E i \in U : K[m] = s[i] /\ L[m] = t[i]
    /\ \A i \in U : \E m \in 1 .. Len(K) : K[m] = s[i] /\ L[m] = t[i]

LEMMA OneMorePair ==
    ASSUME NEW X, NEW Y, NEW h \in Seq(X), NEW g \in Seq(Y), NEW s, NEW t, NEW U, NEW j,
           Paired(h, g, s, t, U), s[j] \in X, t[j] \in Y
    PROVE  Paired(h \o <<s[j]>>, g \o <<t[j]>>, s, t, U \cup {j})
<1> DEFINE K == h \o <<s[j]>>
           L == g \o <<t[j]>>
           n == Len(h)
           x == s[j]
           y == t[j]
<1>1. n \in Nat /\ Len(g) = n
  BY DEF Paired
<1>2. Len(K) = n + 1 /\ K[n + 1] = x /\ \A m \in 1 .. n : K[m] = h[m]
  <2>1. \A a \in Seq(X), b \in X :
           /\ Len(a \o <<b>>) = Len(a) + 1 /\ (a \o <<b>>)[Len(a) + 1] = b
           /\ \A m \in 1 .. Len(a) : (a \o <<b>>)[m] = a[m]
    OBVIOUS
  <2> QED
    BY <2>1
<1>3. Len(L) = n + 1 /\ L[n + 1] = y /\ \A m \in 1 .. n : L[m] = g[m]
  <2>1. \A a \in Seq(Y), b \in Y :
           /\ Len(a \o <<b>>) = Len(a) + 1 /\ (a \o <<b>>)[Len(a) + 1] = b
           /\ \A m \in 1 .. Len(a) : (a \o <<b>>)[m] = a[m]
    OBVIOUS
  <2> QED
    BY <1>1, <2>1
<1> HIDE DEF K, L, n
<1>4. /\ \A m \in 1 .. n : \E i \in U : h[m] = s[i] /\ g[m] = t[i]
      /\ \A i \in U : \E m \in 1 .. n : h[m] = s[i] /\ g[m] = t[i]
  BY DEF Paired, n
<1>5. ASSUME NEW m \in 1 .. n + 1
      PROVE  \E i \in U \cup {j} : K[m] = s[i] /\ L[m] = t[i]
  <2>1. m \in 1 .. n \/ m = n + 1
    BY <1>1
  <2>2. CASE m \in 1 .. n
    BY <2>2, <1>2, <1>3, <1>4
  <2>3. CASE m = n + 1
    BY <2>3, <1>2, <1>3
  <2> QED
    BY <2>1, <2>2, <2>3
<1>6. ASSUME NEW i \in U \cup {j}
      PROVE  \E m \in 1 .. n + 1 : K[m] = s[i] /\ L[m] = t[i]
  <2>1. CASE i = j
    <3>1. n + 1 \in 1 .. n + 1
      BY <1>1
    <3> QED
      BY <2>1, <3>1, <1>2, <1>3
  <2>2. CASE i \in U
    <3>1. PICK m \in 1 .. n : h[m] = s[i] /\ g[m] = t[i]
      BY <2>2, <1>4
    <3>2. m \in 1 .. n + 1
      BY <1>1
    <3> QED
      BY <3>1, <3>2, <1>2, <1>3
  <2> QED
    BY <2>1, <2>2
<1> QED
  BY <1>2, <1>3, <1>5, <1>6 DEF Paired, K, L

\* What is kept of two lists at the same places is in the same places.
LEMMA KeptPaired ==
    ASSUME NEW X, NEW s \in Seq(X), NEW Y, NEW t \in Seq(Y), Len(t) = Len(s),
           NEW T \in SUBSET (1 .. Len(s))
    PROVE  Paired(Kept(s, T), Kept(t, T), s, t, T)
<1> DEFINE n == Len(s)
           f == [i \in 1 .. n |-> IF i \in T THEN <<s[i]>> ELSE <<>>]
           e == [i \in 1 .. n |-> IF i \in T THEN <<t[i]>> ELSE <<>>]
<1>1. n \in Nat /\ (\A i \in 1 .. n : s[i] \in X) /\ \A i \in 1 .. n : t[i] \in Y
  OBVIOUS
<1>2. ASSUME NEW i \in 1 .. n
      PROVE  f[i] = (IF i \in T THEN <<s[i]>> ELSE <<>>) /\ f[i] \in Seq(X)
  <2>1. s[i] \in X
    BY <1>1
  <2> QED
    BY <2>1
<1>3. ASSUME NEW i \in 1 .. n
      PROVE  e[i] = (IF i \in T THEN <<t[i]>> ELSE <<>>) /\ e[i] \in Seq(Y)
  <2>1. t[i] \in Y
    BY <1>1
  <2> QED
    BY <2>1
<1>4. f \in [1 .. n -> Seq(X)] /\ e \in [1 .. n -> Seq(Y)]
  BY <1>2, <1>3
<1>5. Kept(s, T) = FlattenSeq(f) /\ Kept(t, T) = FlattenSeq(e)
  BY DEF Kept
<1> HIDE DEF f, e, n
<1>6. PICK H \in [0 .. n -> Seq(X)] : IsJoin(H, f, n) /\ FlattenSeq(f) = H[n]
  BY <1>1, <1>4, Flattened
<1>7. PICK G \in [0 .. n -> Seq(Y)] : IsJoin(G, e, n) /\ FlattenSeq(e) = G[n]
  BY <1>1, <1>4, Flattened
<1> DEFINE Before(k) == T \cap (1 .. k)
           Inv(k) == Paired(H[k], G[k], s, t, Before(k))
           S == {k \in Nat : k <= n => Inv(k)}
<1>8. 0 \in S
  <2>1. H[0] = <<>> /\ G[0] = <<>>
    BY <1>6, <1>7 DEF IsJoin
  <2>2. Before(0) = {} /\ Len(<<>>) = 0 /\ 1 .. 0 = {}
    OBVIOUS
  <2> HIDE DEF Before
  <2> QED
    BY <2>1, <2>2 DEF Paired
<1>9. ASSUME NEW k \in Nat, k \in S PROVE k + 1 \in S
  <2>1. SUFFICES ASSUME k + 1 <= n PROVE Inv(k + 1)
    <3> HIDE DEF Inv
    <3> QED
      OBVIOUS
  <2>2. k \in 0 .. n - 1 /\ k \in 0 .. n /\ k + 1 \in 1 .. n /\ k <= n
    BY <2>1, <1>1
  <2>3. Inv(k)
    <3> HIDE DEF Inv
    <3> QED
      BY <1>9, <2>2
  <2>4. /\ H[k] \in Seq(X) /\ H[k + 1] = H[k] \o f[k + 1] /\ s[k + 1] \in X
        /\ G[k] \in Seq(Y) /\ G[k + 1] = G[k] \o e[k + 1] /\ t[k + 1] \in Y
    BY <1>1, <1>6, <1>7, <2>2 DEF IsJoin
  <2>5. CASE k + 1 \in T
    <3>1. Before(k + 1) = Before(k) \cup {k + 1}
      BY <2>5
    <3>2. H[k + 1] = H[k] \o <<s[k + 1]>> /\ G[k + 1] = G[k] \o <<t[k + 1]>>
      BY <2>2, <2>4, <2>5, <1>2, <1>3
    <3> HIDE DEF Before
    <3>3. Paired(H[k] \o <<s[k + 1]>>, G[k] \o <<t[k + 1]>>, s, t, Before(k) \cup {k + 1})
      BY <2>3, <2>4, OneMorePair
    <3> QED
      BY <3>1, <3>2, <3>3
  <2>6. CASE k + 1 \notin T
    <3>1. Before(k + 1) = Before(k)
      BY <2>6
    <3>2. H[k + 1] = H[k] /\ G[k + 1] = G[k]
      <4>1. f[k + 1] = <<>> /\ e[k + 1] = <<>>
        BY <2>2, <2>6, <1>2, <1>3
      <4>2. (\A a \in Seq(X) : a \o <<>> = a) /\ \A a \in Seq(Y) : a \o <<>> = a
        OBVIOUS
      <4> QED
        BY <4>1, <4>2, <2>4
    <3> HIDE DEF Before
    <3> QED
      BY <3>1, <3>2, <2>3
  <2> QED
    BY <2>5, <2>6
<1> HIDE DEF S
<1>10. n \in S
  BY <1>1, <1>8, <1>9, AllNumbers
<1>11. Inv(n)
  <2> HIDE DEF Inv
  <2> QED
    BY <1>1, <1>10 DEF S
<1>12. Before(n) = T
  BY DEF n
<1> HIDE DEF Before
<1> QED
  BY <1>5, <1>6, <1>7, <1>11, <1>12

\* The write-ins of any list of choices.
LEMMA WrittenAreKept ==
    ASSUME NEW X, NEW s \in Seq(X)
    PROVE  WriteIns(s) = Kept(s, {i \in 1 .. Len(s) : IsWritten(s[i])})
<1> DEFINE n == Len(s)
           T == {i \in 1 .. n : IsWritten(s[i])}
<1>1. DOMAIN s = 1 .. n
  OBVIOUS
<1>2. WriteIns(s) = FlattenSeq([i \in DOMAIN s |-> IF IsWritten(s[i]) THEN <<s[i]>> ELSE <<>>])
  BY DEF WriteIns, Those, Concat, IsWritten
<1>3. \A i \in 1 .. n : i \in T <=> IsWritten(s[i])
  OBVIOUS
<1> HIDE DEF T
<1>4. [i \in DOMAIN s |-> IF IsWritten(s[i]) THEN <<s[i]>> ELSE <<>>]
        = [i \in 1 .. Len(s) |-> IF i \in T THEN <<s[i]>> ELSE <<>>]
  BY <1>1, <1>3
<1> QED
  BY <1>2, <1>4 DEF Kept, T

\* Two lists, one after the other.
LEMMA JoinedLists ==
    ASSUME NEW a, NEW b, a \in Seq(Range(a)), b \in Seq(Range(b))
    PROVE  /\ Len(a) \in Nat /\ Len(b) \in Nat
           /\ a \o b \in Seq(Range(a) \cup Range(b))
           /\ Len(a \o b) = Len(a) + Len(b)
           /\ \A i \in 1 .. Len(a) : (a \o b)[i] = a[i]
           /\ \A i \in 1 .. Len(b) : (a \o b)[Len(a) + i] = b[i]
<1> DEFINE Z == Range(a) \cup Range(b)
<1>1. a \in Seq(Z) /\ b \in Seq(Z)
  <2>1. \A X, Y : X \subseteq Y => Seq(X) \subseteq Seq(Y)
    OBVIOUS
  <2>2. Range(a) \subseteq Z /\ Range(b) \subseteq Z
    OBVIOUS
  <2> HIDE DEF Z
  <2> QED
    BY <2>1, <2>2
<1> HIDE DEF Z
<1>2. Len(a) \in Nat /\ Len(b) \in Nat /\ a \o b \in Seq(Z) /\ Len(a \o b) = Len(a) + Len(b)
  BY <1>1
<1>3. \A i \in 1 .. Len(a) : (a \o b)[i] = a[i]
  BY <1>1
<1>4. \A i \in 1 .. Len(b) : (a \o b)[Len(a) + i] = b[i]
  <2>1. ASSUME NEW i \in 1 .. Len(b) PROVE (a \o b)[Len(a) + i] = b[i]
    <3>1. Len(a) + i \in Len(a) + 1 .. Len(a) + Len(b) /\ (Len(a) + i) - Len(a) = i
      BY <1>2
    <3>2. \A k \in Len(a) + 1 .. Len(a) + Len(b) : (a \o b)[k] = b[k - Len(a)]
      BY <1>1
    <3> QED
      BY <3>1, <3>2
  <2> QED
    BY <2>1
<1> QED
  BY <1>2, <1>3, <1>4 DEF Z

\* Keeping the second of two lists.
LEMMA SecondIsKept ==
    ASSUME NEW a, NEW b, a \in Seq(Range(a)), b \in Seq(Range(b))
    PROVE  Kept(a \o b, Len(a) + 1 .. Len(a) + Len(b)) = b
<1> DEFINE s == a \o b
           p == Len(a)
           n == Len(b)
           X == Range(a) \cup Range(b)
           T == p + 1 .. p + n
           f == [i \in 1 .. Len(s) |-> IF i \in T THEN <<s[i]>> ELSE <<>>]
<1>1. /\ p \in Nat /\ n \in Nat /\ s \in Seq(X) /\ Len(s) = p + n
      /\ \A i \in 1 .. n : s[p + i] = b[i]
  BY JoinedLists
<1>2. Kept(s, T) = FlattenSeq(f)
  BY DEF Kept
<1>3. b \in Seq(Range(b)) /\ Len(b) = n
  OBVIOUS
<1> HIDE DEF s, p, n, X
<1>4. ASSUME NEW i \in 1 .. p + n
      PROVE  f[i] = (IF i \in T THEN <<s[i]>> ELSE <<>>) /\ s[i] \in X /\ f[i] \in Seq(X)
  <2>1. s[i] \in X
    BY <1>1
  <2>2. f[i] = IF i \in T THEN <<s[i]>> ELSE <<>>
    BY <1>1
  <2> HIDE DEF f, T
  <2>3. <<s[i]>> \in Seq(X) /\ <<>> \in Seq(X)
    BY <2>1
  <2> QED
    BY <2>1, <2>2, <2>3
<1>5. f \in [1 .. p + n -> Seq(X)]
  BY <1>1, <1>4
<1> HIDE DEF f
<1>6. PICK H \in [0 .. p + n -> Seq(X)] : IsJoin(H, f, p + n) /\ FlattenSeq(f) = H[p + n]
  <2>1. p + n \in Nat
    BY <1>1
  <2> DEFINE m == p + n
  <2> HIDE DEF m
  <2>2. m \in Nat /\ f \in [1 .. m -> Seq(X)]
    BY <2>1, <1>5 DEF m
  <2>3. \E H \in [0 .. m -> Seq(X)] : IsJoin(H, f, m) /\ FlattenSeq(f) = H[m]
    BY <2>2, Flattened
  <2> QED
    BY <2>3 DEF m
<1> DEFINE Nothing == {k \in Nat : k <= p => H[k] = <<>>}
<1>7. p \in Nothing
  <2>1. 0 \in Nothing
    BY <1>6 DEF IsJoin
  <2>2. ASSUME NEW k \in Nat, k \in Nothing PROVE k + 1 \in Nothing
    <3>1. SUFFICES ASSUME k + 1 <= p PROVE H[k + 1] = <<>>
      OBVIOUS
    <3>2. k \in 0 .. (p + n) - 1 /\ k + 1 \in 1 .. p + n /\ k + 1 \notin T /\ k <= p
      BY <3>1, <1>1
    <3>3. H[k] = <<>> /\ f[k + 1] = <<>>
      BY <3>2, <2>2, <1>4
    <3>4. H[k + 1] = H[k] \o f[k + 1]
      BY <3>2, <1>6 DEF IsJoin
    <3>5. <<>> \o <<>> = <<>>
      OBVIOUS
    <3> QED
      BY <3>3, <3>4, <3>5
  <2> HIDE DEF Nothing
  <2> QED
    BY <2>1, <2>2, <1>1, AllNumbers
<1>8. H[p] = <<>>
  BY <1>7, <1>1
<1> HIDE DEF Nothing
<1> DEFINE Added(k) == Len(H[p + k]) = k /\ \A m \in 1 .. k : H[p + k][m] = b[m]
           S == {k \in Nat : k <= n => Added(k)}
<1>9. n \in S
  <2>1. 0 \in S
    <3>1. p + 0 = p
      BY <1>1
    <3>2. Len(H[p + 0]) = 0
      BY <3>1, <1>8
    <3> QED
      BY <3>2
  <2>2. ASSUME NEW k \in Nat, k \in S PROVE k + 1 \in S
    <3>1. SUFFICES ASSUME k + 1 <= n PROVE Added(k + 1)
      <4> HIDE DEF Added
      <4> QED
        OBVIOUS
    <3>2. /\ p + k \in 0 .. (p + n) - 1 /\ p + k \in 0 .. p + n /\ p + (k + 1) \in 1 .. p + n
          /\ (p + k) + 1 = p + (k + 1) /\ p + (k + 1) \in T /\ k <= n /\ k + 1 \in 1 .. n
      BY <3>1, <1>1
    <3>3. Added(k)
      <4> HIDE DEF Added
      <4> QED
        BY <3>2, <2>2
    <3>4. f[p + (k + 1)] = <<b[k + 1]>> /\ b[k + 1] \in X
      BY <3>2, <1>1, <1>4
    <3>5. H[p + (k + 1)] = H[p + k] \o <<b[k + 1]>> /\ H[p + k] \in Seq(X)
      <4>1. H[(p + k) + 1] = H[p + k] \o f[(p + k) + 1]
        BY <3>2, <1>6 DEF IsJoin
      <4> QED
        BY <4>1, <3>2, <3>4, <1>6
    <3>6. \A h \in Seq(X), x \in X :
             /\ Len(h \o <<x>>) = Len(h) + 1 /\ (h \o <<x>>)[Len(h) + 1] = x
             /\ \A m \in 1 .. Len(h) : (h \o <<x>>)[m] = h[m]
      OBVIOUS
    <3>7. /\ Len(H[p + (k + 1)]) = k + 1 /\ H[p + (k + 1)][k + 1] = b[k + 1]
          /\ \A m \in 1 .. k : H[p + (k + 1)][m] = b[m]
      <4>1. /\ Len(H[p + (k + 1)]) = Len(H[p + k]) + 1
            /\ H[p + (k + 1)][Len(H[p + k]) + 1] = b[k + 1]
            /\ \A m \in 1 .. Len(H[p + k]) : H[p + (k + 1)][m] = H[p + k][m]
        <5> HIDE DEF Added
        <5> QED
          BY <3>4, <3>5, <3>6
      <4>2. Len(H[p + k]) = k /\ \A m \in 1 .. k : H[p + k][m] = b[m]
        BY <3>3
      <4> QED
        BY <4>1, <4>2
    <3>8. \A m \in 1 .. k + 1 : m \in 1 .. k \/ m = k + 1
      OBVIOUS
    <3> QED
      BY <3>7, <3>8
  <2> HIDE DEF S
  <2> QED
    BY <2>1, <2>2, <1>1, AllNumbers
<1>10. Added(n)
  <2> HIDE DEF Added
  <2> QED
    BY <1>1, <1>9
<1>11. H[p + n] \in Seq(X)
  BY <1>1, <1>6
<1>12. \A u \in Seq(X), v \in Seq(Range(b)) :
          Len(u) = Len(v) /\ (\A m \in 1 .. Len(u) : u[m] = v[m]) => u = v
  OBVIOUS
<1>13. H[p + n] = b
  BY <1>3, <1>10, <1>11, <1>12
<1> QED
  BY <1>2, <1>6, <1>13 DEF s, T, p, n

LEMMA SameOfficials ==
    ASSUME NEW a, NEW b,
           \A x : (\E i \in DOMAIN a : a[i].id = Official(x)) <=> (\E i \in DOMAIN b : b[i].id = Official(x))
    PROVE  OfficialsIn(a) = OfficialsIn(b)
  BY DEF OfficialsIn

LEMMA KindsOfId ==
    /\ \A x, y : Official(x) = Official(y) => x = y
    /\ \A x : Official(x)[1] = "candidate"
    /\ \A x : Named(x)[1] = "named"
    /\ \A x : Indexed(x)[1] = "write-in" /\ Indexed(x)[2] = x
    /\ "candidate" # "named" /\ "candidate" # "write-in" /\ "named" # "write-in"
  BY DEF Official, Named, Indexed

\* A choice is of a candidate of the contest or it is written in.
LEMMA ChoiceIs ==
    ASSUME NEW c, NEW choice, IsChoice(c, choice)
    PROVE  /\ choice = [id |-> choice.id, name |-> choice.name]
           /\ \/ /\ ~IsWritten(choice)
                 /\ \E x \in Range(c.candidates) : choice.id = Official(x) /\ choice.name = <<>>
              \/ /\ IsWritten(choice) /\ choice.name \in Names
                 /\ c.type # "yesno" /\ c.allowWriteIns
                 /\ \A x : choice.id # Official(x)
<1>1. CASE \E x \in Range(c.candidates) : choice = [id |-> Official(x), name |-> <<>>]
  <2>1. PICK x \in Range(c.candidates) : choice = [id |-> Official(x), name |-> <<>>]
    BY <1>1
  <2>2. choice.id = Official(x) /\ choice.name = <<>>
    BY <2>1
  <2>3. ~IsWritten(choice)
    BY <2>2, KindsOfId DEF IsWritten
  <2> QED
    BY <2>1, <2>2, <2>3
<1>2. CASE ~ \E x \in Range(c.candidates) : choice = [id |-> Official(x), name |-> <<>>]
  <2>1. /\ c.type # "yesno" /\ c.allowWriteIns
        /\ choice = [id |-> choice.id, name |-> choice.name]
        /\ IsWritten(choice) /\ choice.name \in Names
    BY <1>2 DEF IsChoice
  <2>2. \A x : choice.id # Official(x)
    BY <2>1, KindsOfId DEF IsWritten
  <2> QED
    BY <2>1, <2>2
<1> QED
  BY <1>1, <1>2

\* The paper has the candidates and the names of the vote.
LEMMA PaperSaysTheVote ==
    ASSUME NEW c, NEW vote, Electable(c), Fillable(c, vote)
    PROVE  /\ OfficialsIn(AsPrinted(c, vote)) = OfficialsIn(vote)
           /\ NamesIn(AsPrinted(c, vote)) = NamesIn(vote)
<1>1. CASE c.type = "yesno"
  BY <1>1 DEF AsPrinted
<1>2. CASE c.type # "yesno"
  <2> DEFINE chosen == ChosenOf(c, vote)
             a == AsOfficial(chosen)
             w == WriteIns(vote)
             b == AsRead(w)
             T == {i \in 1 .. Len(c.candidates) : IsChosen(vote, c.candidates[i])}
             n == Len(chosen)
             m == Len(w)
             p == a \o b
  <2>1. AsPrinted(c, vote) = p
    BY <1>2 DEF AsPrinted
  <2>2. /\ chosen = Kept(c.candidates, T) /\ chosen \in Seq({c.candidates[i] : i \in T})
    BY ChosenAreKept
  <2>3. w \in Seq({vote[i] : i \in {j \in 1 .. Len(vote) : IsWritten(vote[j])}})
    BY WriteInsAreKept
  <2>4. c.candidates \in Seq(Range(c.candidates)) /\ DOMAIN c.candidates = 1 .. Len(c.candidates)
    BY DEF Electable
  <2>5. Paired(chosen, chosen, c.candidates, c.candidates, T)
    <3>1. T \in SUBSET (1 .. Len(c.candidates))
      OBVIOUS
    <3> HIDE DEF T
    <3> QED
      BY <2>2, <2>4, <3>1, KeptPaired
  <2>6. n \in Nat /\ DOMAIN chosen = 1 .. n /\ m \in Nat /\ DOMAIN w = 1 .. m
    BY <2>2, <2>3
  <2>7. \A j \in 1 .. Len(vote) : vote[j].id[1] = "named" <=> IsWritten(vote[j])
    BY DEF IsWritten
  <2> HIDE DEF chosen, w
  <2>8. /\ a = [i \in 1 .. n |-> [id |-> Official(chosen[i]), name |-> <<>>]]
        /\ b = [i \in 1 .. m |-> [id |-> Named(w[i].name), name |-> w[i].name]]
    BY <2>6 DEF AsOfficial, AsRead
  <2> HIDE DEF a, b
  <2>9. /\ a \in Seq(Range(a)) /\ Len(a) = n /\ b \in Seq(Range(b)) /\ Len(b) = m
    <3>1. DOMAIN a = 1 .. n /\ DOMAIN b = 1 .. m
      BY <2>8
    <3>2. a \in [1 .. n -> Range(a)] /\ b \in [1 .. m -> Range(b)]
      <4>1. a = [i \in 1 .. n |-> a[i]] /\ b = [i \in 1 .. m |-> b[i]]
        BY <2>8
      <4> QED
        BY <3>1, <4>1 DEF Range
    <3>3. \A S : \A k \in Nat : \A f \in [1 .. k -> S] : f \in Seq(S) /\ Len(f) = k
      OBVIOUS
    <3> QED
      BY <2>6, <3>2, <3>3
  <2>10. /\ p \in Seq(Range(a) \cup Range(b)) /\ Len(p) = n + m
         /\ \A i \in 1 .. n : p[i] = a[i]
         /\ \A i \in 1 .. m : p[n + i] = b[i]
    <3>1. /\ a \o b \in Seq(Range(a) \cup Range(b))
          /\ Len(a \o b) = Len(a) + Len(b)
          /\ \A i \in 1 .. Len(a) : (a \o b)[i] = a[i]
          /\ \A i \in 1 .. Len(b) : (a \o b)[Len(a) + i] = b[i]
      <4>1. a \in Seq(Range(a)) /\ b \in Seq(Range(b))
        BY <2>9
      <4> HIDE DEF T, n, m, p
      <4> QED
        BY <4>1, JoinedLists
    <3> HIDE DEF p, n, m
    <3>2. Len(a) = n /\ Len(b) = m
      BY <2>9
    <3>3. /\ p \in Seq(Range(a) \cup Range(b)) /\ Len(p) = Len(a) + Len(b)
          /\ \A i \in 1 .. Len(a) : p[i] = a[i]
          /\ \A i \in 1 .. Len(b) : p[Len(a) + i] = b[i]
      BY <3>1 DEF p
    <3> QED
      BY <3>2, <3>3
  <2> HIDE DEF p, n, m
  <2>11. DOMAIN p = 1 .. n + m
    BY <2>10
  <2>12. \A i \in 1 .. n : p[i].id = Official(chosen[i]) /\ p[i].name = <<>>
    BY <2>8, <2>10
  <2>13. \A i \in 1 .. m : p[n + i].id = Named(w[i].name)
    BY <2>8, <2>10
  <2>14. ASSUME NEW i \in 1 .. n + m
         PROVE  i \in 1 .. n \/ \E k \in 1 .. m : i = n + k
    <3>1. CASE i <= n
      BY <3>1, <2>6 DEF n
    <3>2. CASE ~(i <= n)
      <4>1. i - n \in 1 .. m /\ i = n + (i - n)
        BY <3>2, <2>6
      <4> QED
        BY <4>1
    <3> QED
      BY <3>1, <3>2
  <2>15. OfficialsIn(p) = OfficialsIn(vote)
    <3>1. ASSUME NEW x, NEW i \in DOMAIN p, p[i].id = Official(x)
          PROVE  \E j \in DOMAIN vote : vote[j].id = Official(x)
      <4>1. i \in 1 .. n \/ \E k \in 1 .. m : i = n + k
        BY <2>11, <2>14
      <4>2. i \in 1 .. n
        <5>1. \A k \in 1 .. m : p[n + k].id # Official(x)
          BY <2>13, KindsOfId
        <5> QED
          BY <3>1, <4>1, <5>1
      <4>3. chosen[i] = x
        BY <3>1, <4>2, <2>12, KindsOfId
      <4>4. PICK k \in T : chosen[i] = c.candidates[k]
        BY <2>5, <4>2 DEF Paired, n
      <4>5. IsChosen(vote, x)
        BY <4>3, <4>4
      <4> QED
        BY <4>5 DEF IsChosen
    <3>2. ASSUME NEW x, NEW j \in DOMAIN vote, vote[j].id = Official(x)
          PROVE  \E i \in DOMAIN p : p[i].id = Official(x)
      <4>1. IsChoice(c, vote[j])
        BY DEF Fillable
      <4>2. PICK y \in Range(c.candidates) : vote[j].id = Official(y)
        BY <3>2, <4>1, ChoiceIs
      <4>3. y = x
        BY <3>2, <4>2, KindsOfId
      <4>4. IsChosen(vote, x)
        BY <3>2 DEF IsChosen
      <4>5. PICK k \in 1 .. Len(c.candidates) : c.candidates[k] = x
        BY <2>4, <4>2, <4>3 DEF Range
      <4>6. k \in T
        BY <4>4, <4>5
      <4>7. PICK i \in 1 .. n : chosen[i] = x
        <5> HIDE DEF T
        <5>1. \E i \in 1 .. n : chosen[i] = c.candidates[k]
          BY <2>5, <4>6 DEF Paired, n
        <5> QED
          BY <4>5, <5>1
      <4>8. i \in DOMAIN p
        BY <2>6, <2>11 DEF n, m
      <4> QED
        BY <4>7, <4>8, <2>12
    <3> QED
      BY <3>1, <3>2, SameOfficials
  <2>16. WriteIns(p) = b
    <3> DEFINE W == {i \in 1 .. Len(p) : IsWritten(p[i])}
    <3>1. W = n + 1 .. n + m
      <4>1. \A i \in 1 .. n : ~IsWritten(p[i])
        BY <2>12, KindsOfId DEF IsWritten
      <4>2. \A i \in 1 .. m : IsWritten(p[n + i])
        BY <2>13, KindsOfId DEF IsWritten
      <4>3. ASSUME NEW i \in n + 1 .. n + m PROVE i \in W
        <5>1. i - n \in 1 .. m /\ n + (i - n) = i /\ i \in 1 .. n + m
          BY <2>6 DEF n, m
        <5> QED
          BY <4>2, <5>1, <2>10
      <4>4. ASSUME NEW i \in W PROVE i \in n + 1 .. n + m
        <5>1. i \in 1 .. n + m /\ i \notin 1 .. n
          BY <4>1, <2>10
        <5> QED
          BY <5>1, <2>6 DEF n, m
      <4> QED
        BY <4>3, <4>4
    <3>2. WriteIns(p) = Kept(p, W)
      BY <2>10, WrittenAreKept
    <3>3. Kept(a \o b, Len(a) + 1 .. Len(a) + Len(b)) = b
      BY <2>9, SecondIsKept
    <3> HIDE DEF W
    <3> QED
      BY <3>1, <3>2, <3>3, <2>9 DEF p
  <2>17. NamesIn(p) = NamesIn(vote)
    <3>1. NamesIn(p) = [i \in DOMAIN b |-> b[i].name]
      BY <2>16 DEF NamesIn
    <3>2. NamesIn(vote) = [i \in DOMAIN w |-> w[i].name]
      BY DEF NamesIn, w
    <3>3. DOMAIN b = DOMAIN w /\ \A i \in DOMAIN w : b[i].name = w[i].name
      BY <2>6, <2>8 DEF m
    <3> QED
      BY <3>1, <3>2, <3>3
  <2> QED
    BY <2>1, <2>15, <2>17
<1> QED
  BY <1>1, <1>2

LEMMA WriteInsAreCounted ==
    ASSUME NEW X, NEW s \in Seq(X)
    PROVE  WriteInCount(s) \in Nat
<1> DEFINE n == Len(s)
           T == {i \in 1 .. n : IsWriteIn(s[i])}
<1>1. DOMAIN s = 1 .. n
  OBVIOUS
<1>2. WriteInCount(s) = Len(FlattenSeq([i \in DOMAIN s |-> IF IsWriteIn(s[i]) THEN <<s[i]>> ELSE <<>>]))
  BY DEF WriteInCount, Those, Concat
<1>3. (\A i \in 1 .. n : i \in T <=> IsWriteIn(s[i])) /\ T \in SUBSET (1 .. Len(s))
  OBVIOUS
<1> HIDE DEF T
<1>4. [i \in DOMAIN s |-> IF IsWriteIn(s[i]) THEN <<s[i]>> ELSE <<>>]
        = [i \in 1 .. Len(s) |-> IF i \in T THEN <<s[i]>> ELSE <<>>]
  BY <1>1, <1>3
<1>5. WriteInCount(s) = Len(Kept(s, T))
  BY <1>2, <1>4 DEF Kept
<1>6. Kept(s, T) \in Seq({s[i] : i \in T})
  BY <1>3, KeptElements
<1>7. Len(Kept(s, T)) \in Nat
  BY <1>6
<1> QED
  BY <1>5, <1>7

\* The texts of the selections of a record.
LEMMA TextsAreKept ==
    ASSUME NEW X, NEW s \in Seq(X)
    PROVE  LET T == {i \in 1 .. Len(s) : s[i].id[1] = "write-in"}
           IN  TextsIn(s) = [i \in DOMAIN Kept(s, T) |-> Kept(s, T)[i].text]
<1> DEFINE n == Len(s)
           T == {i \in 1 .. n : s[i].id[1] = "write-in"}
           those == Those(s, LAMBDA x : x.id[1] = "write-in")
<1>1. DOMAIN s = 1 .. n
  OBVIOUS
<1>2. those = FlattenSeq([i \in DOMAIN s |-> IF s[i].id[1] = "write-in" THEN <<s[i]>> ELSE <<>>])
  BY DEF Those, Concat
<1>3. \A i \in 1 .. n : i \in T <=> s[i].id[1] = "write-in"
  OBVIOUS
<1>4. TextsIn(s) = [i \in DOMAIN those |-> those[i].text]
  BY DEF TextsIn
<1> HIDE DEF T, those
<1>5. [i \in DOMAIN s |-> IF s[i].id[1] = "write-in" THEN <<s[i]>> ELSE <<>>]
        = [i \in 1 .. Len(s) |-> IF i \in T THEN <<s[i]>> ELSE <<>>]
  BY <1>1, <1>3
<1>6. those = Kept(s, T)
  BY <1>2, <1>5 DEF Kept
<1> QED
  BY <1>4, <1>6 DEF T

\* An option of a contest has a place among its candidates.
LEMMA OptionHasPosition ==
    ASSUME NEW c, Electable(c)
    PROVE  /\ \A x \in Range(c.candidates) : getOptionPosition(c, Official(x)) >= 0
           /\ \A k \in Nat : getOptionPosition(c, Indexed(k)) >= 0
<1> DEFINE n == Len(c.candidates)
<1>1. n \in Nat /\ DOMAIN c.candidates = 1 .. n
  BY DEF Electable
<1>2. ASSUME NEW k \in Nat PROVE getOptionPosition(c, Indexed(k)) >= 0
  <2>1. getOptionPosition(c, Indexed(k)) = n + k
    <3>1. Indexed(k) \notin Officials(c)
      BY KindsOfId DEF Officials
    <3>2. Indexed(k)[1] = "write-in" /\ Indexed(k)[2] = k
      BY KindsOfId
    <3> QED
      BY <3>1, <3>2 DEF getOptionPosition
  <2> QED
    BY <1>1, <2>1
<1>3. ASSUME NEW x \in Range(c.candidates) PROVE getOptionPosition(c, Official(x)) >= 0
  <2> DEFINE Found(i) == Official(c.candidates[i]) = Official(x)
                         /\ \A j \in 1 .. i - 1 : ~(Official(c.candidates[j]) = Official(x))
             place == CHOOSE i \in DOMAIN c.candidates : Found(i)
  <2>1. PICK i \in 1 .. n : c.candidates[i] = x
    BY <1>1 DEF Range
  <2>2. Found(i)
    <3>1. ASSUME NEW j \in 1 .. i - 1 PROVE c.candidates[j] # x
      <4>1. j \in 1 .. n /\ j # i
        BY <1>1
      <4> QED
        BY <4>1, <2>1, <1>1 DEF Electable, IsInjective
    <3> QED
      BY <2>1, <3>1, KindsOfId
  <2>3. place \in 1 .. n
    <3> HIDE DEF Found
    <3> QED
      BY <1>1, <2>2
  <2>4. IndexOf(c.candidates, LAMBDA k : Official(k) = Official(x)) = place
    BY DEF IndexOf
  <2>5. Official(x) \in Officials(c) /\ Official(x)[1] # "write-in"
    BY KindsOfId DEF Officials
  <2> HIDE DEF place
  <2>6. getOptionPosition(c, Official(x)) = place - 1
    BY <2>4, <2>5 DEF getOptionPosition
  <2> QED
    BY <2>3, <2>6, <1>1
<1> QED
  BY <1>2, <1>3

\* A record of a machine's vote has its candidates and its names, and no more
\* of them than there are seats.
LEMMA RecordSaysTheVote ==
    ASSUME NEW c, NEW vote, Electable(c), Fillable(c, vote)
    PROVE  LET contest == buildCVRContest(c, vote, "machine") IN
           /\ contest.contestId = c.id /\ contest.overvotes = 0
           /\ OfficialsIn(contest.selections) = OfficialsIn(vote)
           /\ TextsIn(contest.selections) = NamesIn(vote)
           /\ \A s \in Range(contest.selections) : s.position >= 0
<1> DEFINE contest == buildCVRContest(c, vote, "machine")
           all == contest.selections
           n == Len(vote)
           T == {i \in 1 .. n : IsWritten(vote[i])}
           Count(i) == WriteInCount(SubSeq(vote, 1, i - 1))
<1>1. vote \in Seq(Range(vote)) /\ n \in Nat /\ DOMAIN vote = 1 .. n
  BY DEF Fillable
<1>2. contest.contestId = c.id /\ contest.overvotes = 0
  <2>1. MaxSelectable(c) \in Nat /\ n <= MaxSelectable(c)
    BY DEF Fillable, Electable, MaxSelectable
  <2>2. ~(n > MaxSelectable(c))
    BY <2>1, <1>1
  <2> QED
    BY <2>2 DEF buildCVRContest
<1>3. ASSUME NEW i \in 1 .. n
      PROVE  /\ IsWriteIn(vote[i]) <=> IsWritten(vote[i])
             /\ WriteInIndexed(vote)[i].id = IF IsWritten(vote[i]) THEN Indexed(Count(i)) ELSE vote[i].id
             /\ Count(i) \in Nat
             /\ ~IsWritten(vote[i]) => \E x \in Range(c.candidates) : vote[i].id = Official(x)
             /\ IsWritten(vote[i]) => \A x : vote[i].id # Official(x)
  <2>1. IsChoice(c, vote[i])
    BY <1>1 DEF Fillable
  <2>2. /\ vote[i] = [id |-> vote[i].id, name |-> vote[i].name]
        /\ ~IsWritten(vote[i]) => \E x \in Range(c.candidates) : vote[i].id = Official(x)
        /\ IsWritten(vote[i]) => \A x : vote[i].id # Official(x)
    BY <2>1, ChoiceIs
  <2>3. IsWriteIn(vote[i]) <=> IsWritten(vote[i])
    BY <2>2, KindsOfId DEF IsWriteIn, IsWritten
  <2>4. WriteInIndexed(vote)[i]
          = IF IsWriteIn(vote[i]) THEN [vote[i] EXCEPT !.id = Indexed(Count(i))] ELSE vote[i]
    BY <1>1 DEF WriteInIndexed
  <2>5. [vote[i] EXCEPT !.id = Indexed(Count(i))].id = Indexed(Count(i))
    <3> DEFINE d == vote[i].id
               e == vote[i].name
               z == Indexed(Count(i))
    <3>1. vote[i] = [id |-> d, name |-> e]
      BY <2>2
    <3> HIDE DEF d, e, z
    <3>2. [[id |-> d, name |-> e] EXCEPT !.id = z].id = z
      OBVIOUS
    <3> QED
      BY <3>1, <3>2 DEF z
  <2>6. Count(i) \in Nat
    <3>1. SubSeq(vote, 1, i - 1) \in Seq(Range(vote))
      BY <1>1
    <3> QED
      BY <3>1, WriteInsAreCounted
  <2> HIDE DEF Count
  <2> QED
    BY <2>2, <2>3, <2>4, <2>5, <2>6
<1>4. /\ all = [i \in 1 .. n |->
                  [id |-> WriteInIndexed(vote)[i].id,
                   position |-> getOptionPosition(c, WriteInIndexed(vote)[i].id),
                   indication |-> TRUE,
                   allocable |-> Allocable(c, vote, vote[i]),
                   text |-> vote[i].name]]
  BY <1>1 DEF buildCVRContest
<1>5. ASSUME NEW i \in 1 .. n
      PROVE  /\ all[i].id = IF IsWritten(vote[i]) THEN Indexed(Count(i)) ELSE vote[i].id
             /\ all[i].text = vote[i].name
             /\ all[i].position = getOptionPosition(c, all[i].id)
  <2>1. all[i].id = WriteInIndexed(vote)[i].id
        /\ all[i].text = vote[i].name
        /\ all[i].position = getOptionPosition(c, WriteInIndexed(vote)[i].id)
    <3> HIDE DEF all
    <3> QED
      BY <1>4
  <2> QED
    BY <2>1, <1>3
<1>6. DOMAIN all = 1 .. n
  BY <1>4
<1> HIDE DEF all, contest, Count, n
<1>7. all \in Seq(Range(all)) /\ Len(all) = n
  <2>1. all = [i \in 1 .. n |-> all[i]]
    BY <1>4
  <2>2. all \in [1 .. n -> Range(all)]
    BY <1>6, <2>1 DEF Range
  <2>3. \A S : \A k \in Nat : \A f \in [1 .. k -> S] : f \in Seq(S) /\ Len(f) = k
    OBVIOUS
  <2> QED
    BY <1>1, <2>2, <2>3
<1>8. OfficialsIn(all) = OfficialsIn(vote)
  <2>1. ASSUME NEW x, NEW i \in DOMAIN all
        PROVE  all[i].id = Official(x) <=> vote[i].id = Official(x)
    BY <1>3, <1>5, <1>6, KindsOfId
  <2> QED
    BY <2>1, <1>1, <1>6, SameOfficials
<1>9. TextsIn(all) = NamesIn(vote)
  <2> DEFINE U == {i \in 1 .. Len(all) : all[i].id[1] = "write-in"}
             K == Kept(all, U)
             L == Kept(vote, T)
  <2>1. U = T
    <3>1. ASSUME NEW i \in 1 .. n PROVE all[i].id[1] = "write-in" <=> IsWritten(vote[i])
      BY <1>3, <1>5, KindsOfId
    <3> QED
      BY <1>7, <3>1 DEF n
  <2>2. TextsIn(all) = [i \in DOMAIN K |-> K[i].text]
    BY <1>7, TextsAreKept
  <2>3. NamesIn(vote) = [i \in DOMAIN L |-> L[i].name]
    <3>1. WriteIns(vote) = L
      BY WriteInsAreKept DEF n
    <3> HIDE DEF L
    <3> QED
      BY <3>1 DEF NamesIn
  <2>4. T \in SUBSET (1 .. Len(all)) /\ Len(vote) = Len(all)
    BY <1>7 DEF n
  <2> HIDE DEF U, T
  <2>5. Paired(K, L, all, vote, T)
    BY <1>1, <1>7, <2>1, <2>4, KeptPaired
  <2>6. K \in Seq({all[i] : i \in T}) /\ L \in Seq({vote[i] : i \in T})
    BY <1>1, <1>7, <2>1, <2>4, KeptElements
  <2>7. DOMAIN K = 1 .. Len(K) /\ DOMAIN L = 1 .. Len(L) /\ Len(K) = Len(L)
    <3> HIDE DEF K, L
    <3> QED
      BY <2>5, <2>6 DEF Paired
  <2>8. ASSUME NEW m \in DOMAIN K PROVE K[m].text = L[m].name
    <3> HIDE DEF K, L
    <3>1. PICK i \in T : K[m] = all[i] /\ L[m] = vote[i]
      BY <2>5, <2>7 DEF Paired
    <3>2. i \in 1 .. n
      BY <1>7, <2>4
    <3> QED
      BY <3>1, <3>2, <1>5
  <2> HIDE DEF K, L
  <2> QED
    BY <2>2, <2>3, <2>7, <2>8
<1>10. ASSUME NEW s \in Range(all) PROVE s.position >= 0
  <2>1. PICK i \in 1 .. n : s = all[i]
    BY <1>6 DEF Range
  <2>2. CASE IsWritten(vote[i])
    BY <2>1, <2>2, <1>3, <1>5, OptionHasPosition
  <2>3. CASE ~IsWritten(vote[i])
    <3>1. PICK x \in Range(c.candidates) : vote[i].id = Official(x)
      BY <2>3, <1>3
    <3> QED
      BY <2>1, <2>3, <3>1, <1>5, OptionHasPosition
  <2> QED
    BY <2>2, <2>3
<1> QED
  BY <1>2, <1>8, <1>9, <1>10 DEF all, contest

----------------------------------------------------------------------------
(* The voter's choices.                                                    *)

\* A name on the screen fits on paper.
LEMMA NameLengths ==
    /\ WRITE_IN_CANDIDATE_MAX_LENGTH \in Nat /\ MAXIMUM_WRITE_IN_LENGTH \in Nat
    /\ WRITE_IN_CANDIDATE_MAX_LENGTH <= MAXIMUM_WRITE_IN_LENGTH
    /\ 0 <= WRITE_IN_CANDIDATE_MAX_LENGTH
<1>1. MAXIMUM_WRITE_IN_LENGTH \in 1 .. 2^30 - 1
  BY EncoderAssumption, Zenon DEF EncoderAssumption
<1>2. WRITE_IN_CANDIDATE_MAX_LENGTH \in 1 .. MAXIMUM_WRITE_IN_LENGTH
  BY NamesAssumption, Zenon DEF NamesAssumption
<1>3. \A m, n : n \in 1 .. m => n \in Nat /\ 0 <= n /\ (m \in Nat => n <= m)
  OBVIOUS
<1>4. MAXIMUM_WRITE_IN_LENGTH \in Nat
  BY <1>1, <1>3, Zenon
<1> QED
  BY <1>2, <1>3, <1>4, Zenon

WithKey(out, k) == IF k = " " /\ out # <<>> /\ Last(out) = " " THEN out ELSE Append(out, k)

\* Spaces that are collapsed leave a name of the same keys, and no longer.
LEMMA CollapsedIsName ==
    ASSUME NEW X, NEW s \in Seq(X)
    PROVE  CollapseSpaces(s) \in Seq(X) /\ Len(CollapseSpaces(s)) <= Len(s)
<1> DEFINE N == Len(s)
           Step(h, t) == IF t = {} THEN <<>> ELSE WithKey(h[t \ {Max(t)}], s[Max(t)])
           fold == CHOOSE h : h = [t \in SUBSET (1 .. N) |-> Step(h, t)]
           G == [p \in Seq(X) \X (1 .. N) |-> WithKey(p[1], s[p[2]])]
<1>1. N \in Nat /\ DOMAIN s = 1 .. N /\ \A i \in 1 .. N : s[i] \in X
  OBVIOUS
<1>2. CollapseSpaces(s) = fold[1 .. N]
  BY <1>1 DEF CollapseSpaces, FoldLeft, MapThenFoldSet, WithKey
<1>3. ASSUME NEW a \in Seq(X), NEW i \in 1 .. N
      PROVE  /\ WithKey(a, s[i]) \in Seq(X) /\ Len(WithKey(a, s[i])) <= Len(a) + 1
             /\ G[a, i] = WithKey(a, s[i])
  <2>1. s[i] \in X
    BY <1>1
  <2>2. Append(a, s[i]) \in Seq(X) /\ Len(Append(a, s[i])) = Len(a) + 1 /\ Len(a) \in Nat
    BY <2>1
  <2>3. WithKey(a, s[i]) = a \/ WithKey(a, s[i]) = Append(a, s[i])
    BY DEF WithKey
  <2>4. Len(a) <= Len(a) + 1 /\ Len(a) + 1 <= Len(a) + 1
    BY <2>2
  <2>5. <<a, i>> \in Seq(X) \X (1 .. N)
    OBVIOUS
  <2>6. G[<<a, i>>] = WithKey(a, s[i])
    BY <2>5
  <2> HIDE DEF G
  <2> QED
    BY <2>2, <2>3, <2>4, <2>6
<1>4. G \in [Seq(X) \X (1 .. N) -> Seq(X)] /\ <<>> \in Seq(X)
  <2>1. ASSUME NEW p \in Seq(X) \X (1 .. N) PROVE WithKey(p[1], s[p[2]]) \in Seq(X)
    <3>1. p[1] \in Seq(X) /\ p[2] \in 1 .. N
      OBVIOUS
    <3> QED
      BY <3>1, <1>3
  <2> QED
    BY <2>1
<1> HIDE DEF G
<1>5. PICK h \in [SUBSET (1 .. N) -> Seq(X)] : IsFold(h, N, <<>>, G)
  <2> HIDE DEF N
  <2> QED
    BY <1>1, <1>4, FoldIsDefined
<1>6. h = [t \in SUBSET (1 .. N) |-> Step(h, t)]
  <2>1. ASSUME NEW t \in SUBSET (1 .. N) PROVE h[t] = Step(h, t)
    <3>1. CASE t = {}
      BY <3>1, <1>5 DEF IsFold
    <3>2. CASE t # {}
      <4>1. Max(t) \in 1 .. N
        BY <3>2, <1>1, GreatestIsIn
      <4>2. h[t \ {Max(t)}] \in Seq(X)
        BY <1>5
      <4>3. h[t] = G[h[t \ {Max(t)}], Max(t)]
        BY <3>2, <1>5 DEF IsFold
      <4>4. G[h[t \ {Max(t)}], Max(t)] = WithKey(h[t \ {Max(t)}], s[Max(t)])
        BY <4>1, <4>2, <1>3
      <4> QED
        BY <3>2, <4>3, <4>4
    <3> QED
      BY <3>1, <3>2
  <2> HIDE DEF Step
  <2> QED
    BY <2>1
<1>7. fold = [t \in SUBSET (1 .. N) |-> Step(fold, t)]
  <2> HIDE DEF Step
  <2> QED
    BY <1>6
<1> HIDE DEF fold
<1>8. fold[1 .. 0] = <<>>
  BY <1>7, <1>1
<1>9. ASSUME NEW k \in Nat, k + 1 <= N
      PROVE  fold[1 .. k + 1] = WithKey(fold[1 .. k], s[k + 1])
  <2>1. Max(1 .. k + 1) = k + 1
    BY GreatestOfInterval
  <2>2. (1 .. k + 1) \ {k + 1} = 1 .. k
    OBVIOUS
  <2>3. k + 1 \in 1 .. k + 1
    OBVIOUS
  <2>4. 1 .. k + 1 \in SUBSET (1 .. N)
    BY <1>9, <1>1
  <2> QED
    BY <1>7, <2>1, <2>2, <2>3, <2>4
<1> DEFINE Name(k) == fold[1 .. k] \in Seq(X) /\ Len(fold[1 .. k]) <= k
           S == {k \in Nat : k <= N => Name(k)}
<1>10. N \in S
  <2>1. 0 \in S
    <3>1. <<>> \in Seq(X) /\ Len(<<>>) = 0
      OBVIOUS
    <3>2. Name(0)
      BY <3>1, <1>8
    <3> HIDE DEF Name
    <3> QED
      BY <3>2
  <2>2. ASSUME NEW k \in Nat, k \in S PROVE k + 1 \in S
    <3>1. SUFFICES ASSUME k + 1 <= N PROVE Name(k + 1)
      <4> HIDE DEF Name
      <4> QED
        OBVIOUS
    <3>2. k <= N /\ k + 1 \in 1 .. N
      BY <3>1, <1>1
    <3>3. Name(k)
      <4> HIDE DEF Name
      <4> QED
        BY <3>2, <2>2
    <3>4. /\ WithKey(fold[1 .. k], s[k + 1]) \in Seq(X)
          /\ Len(WithKey(fold[1 .. k], s[k + 1])) <= Len(fold[1 .. k]) + 1
      BY <3>2, <3>3, <1>3
    <3>5. fold[1 .. k + 1] \in Seq(X) /\ Len(fold[1 .. k + 1]) <= Len(fold[1 .. k]) + 1
      BY <3>1, <3>4, <1>9
    <3>6. Len(fold[1 .. k + 1]) \in Nat /\ Len(fold[1 .. k]) \in Nat
      BY <3>3, <3>5
    <3> QED
      BY <3>3, <3>5, <3>6
  <2> HIDE DEF S
  <2> QED
    BY <2>1, <2>2, <1>1, AllNumbers
<1> QED
  BY <1>1, <1>2, <1>10

LEMMA TrimmedIsName ==
    ASSUME NEW X, NEW s \in Seq(X)
    PROVE  /\ trimStart(s) \in Seq(X) /\ Len(trimStart(s)) <= Len(s)
           /\ Reverse(s) \in Seq(X) /\ Len(Reverse(s)) = Len(s)
<1> DEFINE n == Len(s)
           letters == {i \in DOMAIN s : s[i] # " "}
           First(i) == \A j \in letters : i <= j
           first == CHOOSE i \in letters : First(i)
<1>1. n \in Nat /\ DOMAIN s = 1 .. n
  OBVIOUS
<1>2. Reverse(s) \in Seq(X) /\ Len(Reverse(s)) = n
  BY <1>1 DEF Reverse
<1>3. CASE letters = {}
  <2>1. trimStart(s) = <<>>
    BY <1>3 DEF trimStart
  <2> QED
    BY <1>1, <1>2, <2>1
<1>4. CASE letters # {}
  <2>1. letters \in SUBSET (1 .. n)
    BY <1>1
  <2>2. trimStart(s) = SubSeq(s, first, n)
    BY <1>4 DEF trimStart
  <2> HIDE DEF letters
  <2>3. PICK i \in letters : \A j \in 1 .. i - 1 : j \notin letters
    BY <1>1, <1>4, <2>1, FirstOf
  <2>4. First(i)
    BY <2>1, <2>3
  <2>5. first \in letters
    <3> HIDE DEF First
    <3> QED
      BY <2>3, <2>4
  <2> HIDE DEF first
  <2>6. first \in 1 .. n
    BY <2>1, <2>5
  <2>7. SubSeq(s, first, n) \in Seq(X) /\ Len(SubSeq(s, first, n)) = n - first + 1
    BY <1>1, <2>6
  <2>8. n - first + 1 <= n
    BY <1>1, <2>6
  <2> QED
    BY <1>2, <2>2, <2>7, <2>8
<1> QED
  BY <1>3, <1>4

LEMMA NormalizedIsName ==
    ASSUME NEW X, NEW s \in Seq(X)
    PROVE  normalizeCandidateName(s) \in Seq(X) /\ Len(normalizeCandidateName(s)) <= Len(s)
<1> DEFINE r == trimStart(s)
           t == Reverse(r)
           u == trimStart(t)
           v == Reverse(u)
<1>1. r \in Seq(X) /\ Len(r) <= Len(s) /\ Len(r) \in Nat /\ Len(s) \in Nat
  BY TrimmedIsName
<1> HIDE DEF r
<1>2. t \in Seq(X) /\ Len(t) = Len(r)
  BY <1>1, TrimmedIsName
<1> HIDE DEF t
<1>3. u \in Seq(X) /\ Len(u) <= Len(t) /\ Len(u) \in Nat
  BY <1>2, TrimmedIsName
<1> HIDE DEF u
<1>4. v \in Seq(X) /\ Len(v) = Len(u)
  BY <1>3, TrimmedIsName
<1> HIDE DEF v
<1>5. CollapseSpaces(v) \in Seq(X) /\ Len(CollapseSpaces(v)) <= Len(v)
  BY <1>4, CollapsedIsName
<1>6. normalizeCandidateName(s) = CollapseSpaces(v)
  BY DEF normalizeCandidateName, trim, v, u, t, r
<1>7. Len(CollapseSpaces(v)) \in Nat
  BY <1>5
<1> QED
  BY <1>1, <1>2, <1>3, <1>4, <1>5, <1>6, <1>7

\* What is typed stays within the keys and the length of a name.
LEMMA TypedIsName ==
    ASSUME typed \in Seq(Keys), NEW key \in Keys
    PROVE  AfterKey(key) \in Seq(Keys) /\ Len(AfterKey(key)) <= WRITE_IN_CANDIDATE_MAX_LENGTH
<1> DEFINE t == Append(typed, key)
           u == trimStart(t)
           name == CollapseSpaces(u)
           most == WRITE_IN_CANDIDATE_MAX_LENGTH
<1>1. t \in Seq(Keys)
  OBVIOUS
<1> HIDE DEF t
<1>2. u \in Seq(Keys)
  BY <1>1, TrimmedIsName
<1> HIDE DEF u
<1>3. name \in Seq(Keys)
  BY <1>2, CollapsedIsName
<1>4. AfterKey(key) = SubSeq(name, 1, IF Len(name) < most THEN Len(name) ELSE most)
  BY DEF AfterKey, u, t
<1> HIDE DEF name
<1>5. most \in Nat
  BY NameLengths
<1> HIDE DEF most
<1>6. CASE Len(name) < most
  BY <1>3, <1>4, <1>5, <1>6 DEF most
<1>7. CASE ~(Len(name) < most)
  <2>1. most <= Len(name)
    BY <1>3, <1>5, <1>7
  <2>2. SubSeq(name, 1, most) \in Seq(Keys) /\ Len(SubSeq(name, 1, most)) = most
    BY <1>3, <1>5, <2>1
  <2> QED
    BY <1>4, <1>5, <1>7, <2>2 DEF most
<1> QED
  BY <1>6, <1>7

LEMMA ListOfItself ==
    ASSUME NEW X, NEW s \in Seq(X)
    PROVE  s \in Seq(Range(s)) /\ DOMAIN s = 1 .. Len(s) /\ Len(s) \in Nat
<1>1. DOMAIN s = 1 .. Len(s) /\ Len(s) \in Nat
  OBVIOUS
<1>2. s = [i \in 1 .. Len(s) |-> s[i]]
  OBVIOUS
<1>3. \A i \in 1 .. Len(s) : s[i] \in Range(s)
  BY <1>1 DEF Range
<1> QED
  BY <1>1, <1>2, <1>3

LEMMA NothingIsFillable ==
    ASSUME NEW c, Electable(c)
    PROVE  Fillable(c, <<>>)
<1>1. MaxSelectable(c) \in Nat
  BY DEF Electable, MaxSelectable
<1>2. <<>> \in Seq(Range(<<>>)) /\ DOMAIN <<>> = {} /\ Len(<<>>) = 0
  OBVIOUS
<1> QED
  BY <1>1, <1>2 DEF Fillable

\* One choice more, while there is room for it.
LEMMA ChoiceIsAdded ==
    ASSUME NEW c, NEW vote, NEW choice, Electable(c), Fillable(c, vote), IsChoice(c, choice),
           Len(vote) < MaxSelectable(c),
           IsWritten(choice) \/ \A i \in DOMAIN vote : vote[i].id # choice.id
    PROVE  Fillable(c, Append(vote, choice))
<1> DEFINE n == Len(vote)
           new == Append(vote, choice)
           X == Range(vote) \cup {choice}
<1>1. vote \in Seq(Range(vote)) /\ n \in Nat /\ DOMAIN vote = 1 .. n
  BY DEF Fillable
<1>2. vote \in Seq(X) /\ choice \in X
  <2>1. \A Y, Z : Y \subseteq Z => Seq(Y) \subseteq Seq(Z)
    OBVIOUS
  <2>2. Range(vote) \subseteq X
    OBVIOUS
  <2> HIDE DEF X
  <2>3. vote \in Seq(X)
    BY <2>1, <2>2, <1>1
  <2> QED
    BY <2>3 DEF X
<1> HIDE DEF X
<1>3. /\ new \in Seq(X) /\ Len(new) = n + 1
      /\ new[n + 1] = choice /\ \A i \in 1 .. n : new[i] = vote[i]
  BY <1>2
<1> HIDE DEF new
<1>4. new \in Seq(Range(new)) /\ DOMAIN new = 1 .. n + 1
  BY <1>3, ListOfItself
<1>5. \A i \in 1 .. n + 1 : i \in 1 .. n \/ i = n + 1
  BY <1>1
<1>6. ASSUME NEW i \in 1 .. n + 1 PROVE IsChoice(c, new[i])
  <2>1. \A j \in 1 .. n : IsChoice(c, vote[j])
    BY <1>1 DEF Fillable
  <2> QED
    BY <2>1, <1>3, <1>5
<1>7. Len(new) <= MaxSelectable(c)
  <2>1. MaxSelectable(c) \in Nat
    BY DEF Electable, MaxSelectable
  <2> QED
    BY <2>1, <1>1, <1>3
<1>8. ASSUME NEW i \in 1 .. n + 1, NEW j \in 1 .. n + 1, new[i].id = new[j].id, ~IsWritten(new[i])
      PROVE  i = j
  <2>1. \A k \in 1 .. n : vote[k].id = choice.id => IsWritten(vote[k]) /\ IsWritten(choice)
    BY <1>1 DEF IsWritten
  <2>2. CASE i \in 1 .. n /\ j \in 1 .. n
    BY <1>1, <1>3, <1>8, <2>2 DEF Fillable
  <2>3. CASE i \in 1 .. n /\ j = n + 1
    BY <1>3, <1>8, <2>1, <2>3
  <2>4. CASE i = n + 1 /\ j \in 1 .. n
    BY <1>3, <1>8, <2>1, <2>4
  <2> QED
    BY <1>5, <2>2, <2>3, <2>4
<1> QED
  BY <1>4, <1>6, <1>7, <1>8 DEF Fillable, new

\* The choices of one id are taken back.
Without(vote, id) == Those(vote, LAMBDA choice : choice.id # id)

LEMMA ChoiceIsRemoved ==
    ASSUME NEW c, NEW vote, NEW id, Electable(c), Fillable(c, vote)
    PROVE  Fillable(c, Without(vote, id))
<1> DEFINE n == Len(vote)
           T == {i \in 1 .. n : vote[i].id # id}
           those == Without(vote, id)
           places == [i \in 1 .. n |-> [id |-> i]]
           K == Kept(vote, T)
           L == Kept(places, T)
<1>1. vote \in Seq(Range(vote)) /\ n \in Nat /\ DOMAIN vote = 1 .. n
  BY DEF Fillable
<1>2. those = K
  <2>1. those = FlattenSeq([i \in DOMAIN vote |-> IF vote[i].id # id THEN <<vote[i]>> ELSE <<>>])
    BY DEF Without, Those, Concat
  <2>2. \A i \in 1 .. n : i \in T <=> vote[i].id # id
    OBVIOUS
  <2> HIDE DEF T, those
  <2>3. [i \in DOMAIN vote |-> IF vote[i].id # id THEN <<vote[i]>> ELSE <<>>]
          = [i \in 1 .. Len(vote) |-> IF i \in T THEN <<vote[i]>> ELSE <<>>]
    BY <1>1, <2>2
  <2> QED
    BY <2>1, <2>3 DEF Kept
<1>3. T \in SUBSET (1 .. Len(vote))
  OBVIOUS
<1>4. /\ places \in Seq({[id |-> i] : i \in 1 .. n}) /\ Len(places) = n /\ DOMAIN places = 1 .. n
      /\ \A i \in 1 .. n : places[i].id = i
  BY <1>1
<1>5. \A i, j \in DOMAIN places : places[i].id = places[j].id => i = j
  BY <1>4
<1> HIDE DEF T, those, places
<1>6. Paired(K, L, vote, places, T)
  <2> DEFINE X == Range(vote)
             Y == {[id |-> i] : i \in 1 .. n}
  <2>1. vote \in Seq(X) /\ places \in Seq(Y) /\ Len(places) = Len(vote)
    BY <1>1, <1>4
  <2> HIDE DEF X, Y
  <2> QED
    BY <2>1, <1>3, KeptPaired
<1>7. /\ K \in Seq({vote[i] : i \in T}) /\ Len(K) = Cardinality(T)
      /\ L \in Seq({places[i] : i \in T})
  <2>1. K \in Seq({vote[i] : i \in T}) /\ Len(K) = Cardinality(T)
    BY <1>1, <1>3, KeptElements
  <2>2. T \in SUBSET (1 .. Len(places))
    BY <1>3, <1>4
  <2>3. L \in Seq({places[i] : i \in T})
    BY <1>4, <2>2, KeptElements
  <2> QED
    BY <2>1, <2>3
<1>8. \A i, j \in DOMAIN L : L[i].id = L[j].id => i = j
  <2>1. T \in SUBSET (1 .. Len(places))
    BY <1>3, <1>4
  <2> QED
    BY <1>4, <1>5, <2>1, KeptApart
<1>9. Len(K) <= n
  <2>1. IsFiniteSet(1 .. n) /\ Cardinality(1 .. n) = n
    BY <1>1, FS_Interval
  <2>2. Cardinality(T) <= n
    BY <2>1, <1>3, FS_Subset
  <2> QED
    BY <2>2, <1>7
<1> HIDE DEF K, L
<1>10. K \in Seq(Range(K)) /\ DOMAIN K = 1 .. Len(K) /\ Len(K) \in Nat /\ DOMAIN L = 1 .. Len(K)
  BY <1>6, <1>7, ListOfItself DEF Paired
<1>11. ASSUME NEW k \in 1 .. Len(K)
       PROVE  \E i \in 1 .. n : K[k] = vote[i] /\ L[k].id = i
  <2>1. PICK i \in T : K[k] = vote[i] /\ L[k] = places[i]
    BY <1>6 DEF Paired
  <2>2. i \in 1 .. n
    BY <1>3
  <2> QED
    BY <2>1, <2>2, <1>4
<1>12. ASSUME NEW k \in 1 .. Len(K) PROVE IsChoice(c, K[k])
  <2>1. PICK i \in 1 .. n : K[k] = vote[i]
    BY <1>11
  <2> QED
    BY <2>1, <1>1 DEF Fillable
<1>13. ASSUME NEW k \in 1 .. Len(K), NEW m \in 1 .. Len(K), K[k].id = K[m].id, ~IsWritten(K[k])
       PROVE  k = m
  <2>1. PICK i \in 1 .. n : K[k] = vote[i] /\ L[k].id = i
    BY <1>11
  <2>2. PICK j \in 1 .. n : K[m] = vote[j] /\ L[m].id = j
    BY <1>11
  <2>3. i = j
    BY <2>1, <2>2, <1>1, <1>13 DEF Fillable
  <2> QED
    BY <2>1, <2>2, <2>3, <1>8, <1>10
<1>14. Len(K) <= MaxSelectable(c)
  <2>1. MaxSelectable(c) \in Nat /\ n <= MaxSelectable(c)
    BY DEF Fillable, Electable, MaxSelectable
  <2> QED
    BY <2>1, <1>1, <1>9, <1>10
<1>15. Fillable(c, K)
  BY <1>10, <1>12, <1>13, <1>14 DEF Fillable
<1> QED
  BY <1>2, <1>15 DEF those

\* Votes of the contests of a ballot style.
IsVoteOf(st, v) ==
    /\ DOMAIN v = ContestIds /\ v = [id \in ContestIds |-> v[id]]
    /\ \A c \in Range(getContests(getBallotStyle(st))) : Fillable(c, v[c.id])
    /\ \A id \in ContestIds :
          v[id] # <<>> => \E c \in Range(getContests(getBallotStyle(st))) : c.id = id

LEMMA VoteIsChanged ==
    ASSUME NEW st, NEW v, IsVoteOf(st, v), NEW c \in Range(getContests(getBallotStyle(st))),
           NEW vote, Fillable(c, vote)
    PROVE  IsVoteOf(st, [v EXCEPT ![c.id] = vote])
<1> DEFINE contests == getContests(getBallotStyle(st))
           new == [v EXCEPT ![c.id] = vote]
<1>1. Range(contests) \subseteq Range(Election.contests)
      /\ \A i, j \in DOMAIN contests : contests[i].id = contests[j].id => i = j
  BY ContestsOfElection
<1>2. c.id \in ContestIds
  BY <1>1 DEF ContestIds
<1>3. /\ DOMAIN new = ContestIds /\ new = [id \in ContestIds |-> new[id]]
      /\ new[c.id] = vote /\ \A id \in ContestIds : id # c.id => new[id] = v[id]
  BY <1>2 DEF IsVoteOf
<1> HIDE DEF new, contests
<1>4. ASSUME NEW d \in Range(contests) PROVE Fillable(d, new[d.id])
  <2>1. CASE d.id = c.id
    <3>1. d = c
      BY <2>1, <1>1 DEF Range, contests
    <3> QED
      BY <3>1, <1>3
  <2>2. CASE d.id # c.id
    <3>1. d.id \in ContestIds
      BY <1>1 DEF ContestIds
    <3>2. Fillable(d, v[d.id])
      BY DEF IsVoteOf, contests
    <3> QED
      BY <2>2, <3>1, <3>2, <1>3
  <2> QED
    BY <2>1, <2>2
<1>5. ASSUME NEW id \in ContestIds, new[id] # <<>> PROVE \E d \in Range(contests) : d.id = id
  <2>1. CASE id = c.id
    BY <2>1 DEF contests
  <2>2. CASE id # c.id
    BY <2>2, <1>3, <1>5 DEF IsVoteOf, contests
  <2> QED
    BY <2>1, <2>2
<1> QED
  BY <1>3, <1>4, <1>5 DEF IsVoteOf, new, contests

VoterContests == Range(getContests(getBallotStyle(style)))

\* The screen writes a name for a contest that has room for it, and asks about
\* write-ins of the voter's contests.
DialogOK ==
    /\ dialog.kind = "write-in" =>
          \E c \in VoterContests :
             dialog.contest = c.id /\ c.allowWriteIns /\ Len(votes[c.id]) < MaxSelectable(c)
    /\ dialog.kind = "remove" => \E c \in VoterContests : dialog.contest = c.id

VoterOK ==
    /\ \E s \in Range(Election.ballotStyles) : style = s.id
    /\ precinct \in Range(Election.precincts)
    /\ typed \in Seq(Keys) /\ Len(typed) <= WRITE_IN_CANDIDATE_MAX_LENGTH

MarkInvariant == VoterOK /\ IsVoteOf(style, votes) /\ DialogOK

LEMMA NoDialogIsOK == ASSUME dialog.kind \notin {"write-in", "remove"} PROVE DialogOK
  BY DEF DialogOK

LEMMA ContestOfVoter ==
    ASSUME MarkInvariant, NEW c \in VoterContests
    PROVE  /\ c \in Range(Election.contests) /\ Electable(c) /\ c.id \in ContestIds
           /\ ContestOf(c.id) = c
           /\ Fillable(c, votes[c.id])
           /\ Len(votes[c.id]) \in Nat /\ MaxSelectable(c) \in Nat
           /\ Len(votes[c.id]) <= MaxSelectable(c)
           /\ c.allowWriteIns => c.type # "yesno"
<1>1. c \in Range(Election.contests)
  BY ContestsOfElection DEF VoterContests
<1>2. Electable(c) /\ c.id \in ContestIds
  BY <1>1, ElectionIsPrintable DEF ContestIds
<1>3. ContestOf(c.id) = c
  <2>1. \A d, e \in Range(Election.contests) : d.id = e.id => d = e
    BY ElectionAssumption DEF ElectionAssumption, Range
  <2> QED
    BY <1>1, <2>1 DEF ContestOf
<1>4. Fillable(c, votes[c.id])
  BY DEF MarkInvariant, IsVoteOf, VoterContests
<1>5. /\ Len(votes[c.id]) \in Nat /\ MaxSelectable(c) \in Nat
      /\ Len(votes[c.id]) <= MaxSelectable(c)
  BY <1>2, <1>4 DEF Fillable, Electable, MaxSelectable
<1>6. c.allowWriteIns => c.type # "yesno"
  BY <1>1, ElectionAssumption DEF ElectionAssumption
<1> QED
  BY <1>1, <1>2, <1>3, <1>4, <1>5, <1>6

LEMMA VoterStays ==
    ASSUME VoterOK, UNCHANGED <<style, precinct, typed>>
    PROVE  VoterOK'
  BY DEF VoterOK

LEMMA VotesStay ==
    ASSUME IsVoteOf(style, votes), UNCHANGED <<style, votes>>
    PROVE  IsVoteOf(style, votes)'
  BY DEF IsVoteOf

LEMMA VotesChange ==
    ASSUME MarkInvariant, UNCHANGED style, NEW c \in VoterContests, NEW vote, Fillable(c, vote),
           updateVote(c, vote)
    PROVE  IsVoteOf(style, votes)'
<1>1. votes' = [votes EXCEPT ![c.id] = vote] /\ style' = style
  BY DEF updateVote
<1>2. IsVoteOf(style, [votes EXCEPT ![c.id] = vote])
  BY VoteIsChanged DEF MarkInvariant, VoterContests
<1> QED
  BY <1>1, <1>2 DEF IsVoteOf

LEMMA ChoiceIsTakenBack ==
    ASSUME MarkInvariant, UNCHANGED style, NEW c \in VoterContests, NEW id,
           removeCandidateFromVote(c, id)
    PROVE  IsVoteOf(style, votes)'
<1> DEFINE vote == votes[c.id]
<1>1. Electable(c) /\ Fillable(c, vote)
  BY ContestOfVoter
<1>2. updateVote(c, Without(vote, id))
  BY DEF removeCandidateFromVote, Without
<1> HIDE DEF vote
<1>3. Fillable(c, Without(vote, id))
  BY <1>1, ChoiceIsRemoved
<1> QED
  BY <1>2, <1>3, VotesChange

LEMMA UnselectKeepsMark ==
    ASSUME MarkInvariant, NEW c, NEW id, Unselect(c, id)
    PROVE  MarkInvariant'
<1>1. c \in VoterContests /\ UNCHANGED <<style, precinct, typed>> /\ dialog = NoDialog
  BY DEF Unselect, Contest, VoterContests
<1>2. VoterOK'
  BY <1>1, VoterStays DEF MarkInvariant
<1>3. CASE id[1] = "named"
  <2>1. dialog' = [kind |-> "remove", contest |-> c.id, id |-> id] /\ UNCHANGED votes
    BY <1>3 DEF Unselect
  <2>2. DialogOK'
    <3>1. dialog'.kind = "remove" /\ dialog'.contest = c.id /\ c \in VoterContests'
      BY <1>1, <2>1 DEF VoterContests
    <3> QED
      BY <3>1 DEF DialogOK
  <2> QED
    BY <1>1, <1>2, <2>1, <2>2, VotesStay DEF MarkInvariant
<1>4. CASE id[1] # "named"
  <2>1. removeCandidateFromVote(c, id) /\ UNCHANGED dialog
    BY <1>4 DEF Unselect
  <2>2. DialogOK'
    BY <1>1, <2>1 DEF DialogOK, NoDialog
  <2> QED
    BY <1>1, <1>2, <2>1, <2>2, ChoiceIsTakenBack DEF MarkInvariant
<1> QED
  BY <1>3, <1>4

LEMMA SelectKeepsMark ==
    ASSUME MarkInvariant, NEW c, NEW id, Select(c, id)
    PROVE  MarkInvariant'
<1> DEFINE choice == [id |-> id, name |-> <<>>]
<1>1. c \in VoterContests /\ UNCHANGED <<style, precinct, typed, dialog>> /\ dialog = NoDialog
  BY DEF Select, Contest, VoterContests
<1>2. VoterOK'
  BY <1>1, VoterStays DEF MarkInvariant
<1>3. DialogOK'
  BY <1>1 DEF DialogOK, NoDialog
<1>4. IsChoice(c, choice)
  <2>1. PICK x \in Range(c.candidates) : id = Official(x)
    BY DEF Select, Officials
  <2> QED
    BY <2>1 DEF IsChoice
<1>5. Len(votes[c.id]) < MaxSelectable(c)
  BY <1>1, ContestOfVoter DEF Select, hasReachedMaxSelections
<1>6. \A i \in DOMAIN votes[c.id] : votes[c.id][i].id # choice.id
  BY DEF Select, findCandidateById
<1>7. updateVote(c, Append(votes[c.id], choice))
  BY DEF Select
<1> HIDE DEF choice
<1>8. Fillable(c, Append(votes[c.id], choice))
  BY <1>1, <1>4, <1>5, <1>6, ContestOfVoter, ChoiceIsAdded
<1> QED
  BY <1>1, <1>2, <1>3, <1>7, <1>8, VotesChange DEF MarkInvariant

LEMMA AddWriteInKeepsMark ==
    ASSUME MarkInvariant, addWriteInCandidate
    PROVE  MarkInvariant'
<1> DEFINE name == normalizeCandidateName(typed)
           choice == [id |-> Named(Words(name)), name |-> name]
<1>1. PICK c \in VoterContests :
         dialog.contest = c.id /\ c.allowWriteIns /\ Len(votes[c.id]) < MaxSelectable(c)
  BY DEF addWriteInCandidate, MarkInvariant, DialogOK
<1>2. ContestOf(dialog.contest) = c
  BY <1>1, ContestOfVoter
<1>3. /\ updateVote(c, Append(votes[c.id], choice))
      /\ dialog' = NoDialog /\ typed' = <<>> /\ UNCHANGED <<style, precinct>>
  BY <1>2 DEF addWriteInCandidate
<1>4. name \in Names
  <2>1. typed \in Seq(Keys) /\ Len(typed) <= WRITE_IN_CANDIDATE_MAX_LENGTH /\ Len(typed) \in Nat
    BY DEF MarkInvariant, VoterOK
  <2>2. name \in Seq(Keys) /\ Len(name) <= Len(typed)
    BY <2>1, NormalizedIsName
  <2> HIDE DEF name
  <2>3. Len(name) \in Nat
    BY <2>2
  <2>4. Seq(Keys) \subseteq Seq(Range(WriteInChars))
    BY NamesAssumption DEF NamesAssumption
  <2>5. /\ WRITE_IN_CANDIDATE_MAX_LENGTH \in Nat /\ MAXIMUM_WRITE_IN_LENGTH \in Nat
        /\ WRITE_IN_CANDIDATE_MAX_LENGTH <= MAXIMUM_WRITE_IN_LENGTH
    BY NameLengths
  <2>6. Len(name) <= MAXIMUM_WRITE_IN_LENGTH
    BY <2>1, <2>2, <2>3, <2>5
  <2> QED
    BY <2>2, <2>4, <2>6 DEF Names
<1> HIDE DEF name
<1>5. IsWritten(choice) /\ choice.name = name /\ choice = [id |-> choice.id, name |-> choice.name]
  BY KindsOfId DEF IsWritten
<1> HIDE DEF choice
<1>6. IsChoice(c, choice)
  BY <1>1, <1>4, <1>5, ContestOfVoter DEF IsChoice
<1>7. Fillable(c, Append(votes[c.id], choice))
  BY <1>1, <1>5, <1>6, ContestOfVoter, ChoiceIsAdded
<1>8. IsVoteOf(style, votes)'
  BY <1>3, <1>7, VotesChange
<1>9. VoterOK'
  <2>1. <<>> \in Seq(Keys) /\ Len(<<>>) = 0 /\ 0 <= WRITE_IN_CANDIDATE_MAX_LENGTH
    BY NameLengths
  <2> QED
    BY <1>3, <2>1 DEF MarkInvariant, VoterOK
<1>10. DialogOK'
  BY <1>3 DEF DialogOK, NoDialog
<1> QED
  BY <1>8, <1>9, <1>10 DEF MarkInvariant

\* The actions that leave the votes alone.
LEMMA DialogStepsKeepMark ==
    ASSUME MarkInvariant,
           \/ \E c, id : PressDisabled(c, id)
           \/ \E c : initWriteInCandidate(c)
           \/ closeAttemptedVoteAlert
           \/ clearCandidateIdPendingRemoval
    PROVE  MarkInvariant'
<1>1. UNCHANGED <<style, precinct, typed, votes>>
  BY DEF PressDisabled, initWriteInCandidate, closeAttemptedVoteAlert, clearCandidateIdPendingRemoval
<1>2. VoterOK' /\ IsVoteOf(style, votes)'
  BY <1>1, VoterStays, VotesStay DEF MarkInvariant
<1>3. CASE \E c, id : PressDisabled(c, id)
  <2>1. DialogOK'
    BY <1>3 DEF PressDisabled, DialogOK
  <2> QED
    BY <1>2, <2>1 DEF MarkInvariant
<1>4. CASE closeAttemptedVoteAlert \/ clearCandidateIdPendingRemoval
  <2>1. DialogOK'
    BY <1>4 DEF closeAttemptedVoteAlert, clearCandidateIdPendingRemoval, DialogOK, NoDialog
  <2> QED
    BY <1>2, <2>1 DEF MarkInvariant
<1>5. CASE \E c : initWriteInCandidate(c)
  <2>1. PICK c : initWriteInCandidate(c)
    BY <1>5
  <2>2. c \in VoterContests /\ c.allowWriteIns
    BY <2>1 DEF initWriteInCandidate, Contest, VoterContests
  <2>3. Len(votes[c.id]) < MaxSelectable(c)
    BY <2>1, <2>2, ContestOfVoter DEF initWriteInCandidate, hasReachedMaxSelections
  <2>4. dialog' = [kind |-> "write-in", contest |-> c.id, id |-> Generic]
    BY <2>1 DEF initWriteInCandidate
  <2>5. dialog'.kind = "write-in" /\ dialog'.contest = c.id
    BY <2>4
  <2>6. c \in VoterContests' /\ Len(votes'[c.id]) < MaxSelectable(c)
    BY <1>1, <2>2, <2>3 DEF VoterContests
  <2>7. DialogOK'
    BY <2>2, <2>5, <2>6 DEF DialogOK
  <2> QED
    BY <1>2, <2>7 DEF MarkInvariant
<1> QED
  BY <1>3, <1>4, <1>5

LEMMA RemovalKeepsMark ==
    ASSUME MarkInvariant, confirmRemovePendingWriteInCandidate
    PROVE  MarkInvariant'
<1>1. PICK c \in VoterContests : dialog.contest = c.id
  BY DEF confirmRemovePendingWriteInCandidate, MarkInvariant, DialogOK
<1>2. ContestOf(dialog.contest) = c
  BY <1>1, ContestOfVoter
<1>3. /\ removeCandidateFromVote(c, dialog.id)
      /\ dialog' = NoDialog /\ UNCHANGED <<style, precinct, typed>>
  BY <1>2 DEF confirmRemovePendingWriteInCandidate
<1>4. IsVoteOf(style, votes)'
  BY <1>3, ChoiceIsTakenBack
<1>5. DialogOK'
  BY <1>3 DEF DialogOK, NoDialog
<1> QED
  BY <1>3, <1>4, <1>5, VoterStays DEF MarkInvariant

\* The keyboard.
LEMMA TypingKeepsMark ==
    ASSUME MarkInvariant,
           (\E key \in Keys : onKeyboardInput(key)) \/ onKeyboardBackspace \/ cancelWriteInCandidateModal
    PROVE  MarkInvariant'
<1>1. UNCHANGED <<style, precinct, votes>>
  BY DEF onKeyboardInput, onKeyboardBackspace, cancelWriteInCandidateModal
<1>2. IsVoteOf(style, votes)'
  BY <1>1, VotesStay DEF MarkInvariant
<1>3. dialog' = dialog \/ dialog' = NoDialog
  BY DEF onKeyboardInput, onKeyboardBackspace, cancelWriteInCandidateModal
<1>4. DialogOK'
  <2>1. CASE dialog' = dialog
    BY <1>1, <2>1 DEF MarkInvariant, DialogOK, VoterContests
  <2>2. CASE dialog' = NoDialog
    BY <2>2 DEF DialogOK, NoDialog
  <2> QED
    BY <1>3, <2>1, <2>2
<1>5. WRITE_IN_CANDIDATE_MAX_LENGTH \in Nat
  BY NameLengths
<1>6. typed \in Seq(Keys) /\ Len(typed) <= WRITE_IN_CANDIDATE_MAX_LENGTH /\ Len(typed) \in Nat
  BY DEF MarkInvariant, VoterOK
<1>7. typed' \in Seq(Keys) /\ Len(typed') <= WRITE_IN_CANDIDATE_MAX_LENGTH
  <2>1. CASE \E key \in Keys : onKeyboardInput(key)
    <3>1. PICK key \in Keys : typed' = AfterKey(key)
      BY <2>1 DEF onKeyboardInput
    <3> QED
      BY <3>1, <1>6, TypedIsName
  <2>2. CASE onKeyboardBackspace
    <3>1. CASE typed = <<>>
      BY <2>2, <3>1, <1>6 DEF onKeyboardBackspace
    <3>2. CASE typed # <<>>
      <4>1. typed' = SubSeq(typed, 1, Len(typed) - 1)
        BY <2>2, <3>2 DEF onKeyboardBackspace, Front
      <4>2. Len(typed) \in Nat \ {0}
        BY <1>6, <3>2
      <4>3. SubSeq(typed, 1, Len(typed) - 1) \in Seq(Keys)
            /\ Len(SubSeq(typed, 1, Len(typed) - 1)) = Len(typed) - 1
        <5>1. \A q \in Seq(Keys), m \in Nat :
                 m <= Len(q) => SubSeq(q, 1, m) \in Seq(Keys) /\ Len(SubSeq(q, 1, m)) = m
          OBVIOUS
        <5>2. Len(typed) - 1 \in Nat /\ Len(typed) - 1 <= Len(typed)
          BY <4>2
        <5> QED
          BY <5>1, <5>2, <1>6
      <4> QED
        BY <1>5, <1>6, <4>1, <4>2, <4>3
    <3> QED
      BY <3>1, <3>2
  <2>3. CASE cancelWriteInCandidateModal
    <3>1. typed' = <<>>
      BY <2>3 DEF cancelWriteInCandidateModal
    <3>2. <<>> \in Seq(Keys) /\ Len(<<>>) = 0
      OBVIOUS
    <3> QED
      BY <3>1, <3>2, <1>5
  <2> QED
    BY <2>1, <2>2, <2>3
<1>8. VoterOK'
  BY <1>1, <1>7 DEF MarkInvariant, VoterOK
<1> QED
  BY <1>2, <1>4, <1>8 DEF MarkInvariant

LEMMA MarkKeepsMark == ASSUME MarkInvariant, Mark PROVE MarkInvariant'
<1>1. CASE \E c, id : Unselect(c, id)
  BY <1>1, UnselectKeepsMark
<1>2. CASE \E c, id : Select(c, id)
  BY <1>2, SelectKeepsMark
<1>3. CASE \/ \E c, id : PressDisabled(c, id)
           \/ \E c : initWriteInCandidate(c)
           \/ closeAttemptedVoteAlert
           \/ clearCandidateIdPendingRemoval
  BY <1>3, DialogStepsKeepMark
<1>4. CASE confirmRemovePendingWriteInCandidate
  BY <1>4, RemovalKeepsMark
<1>5. CASE (\E key \in Keys : onKeyboardInput(key)) \/ onKeyboardBackspace \/ cancelWriteInCandidateModal
  BY <1>5, TypingKeepsMark
<1>6. CASE addWriteInCandidate
  BY <1>6, AddWriteInKeepsMark
<1> QED
  BY <1>1, <1>2, <1>3, <1>4, <1>5, <1>6 DEF Mark

----------------------------------------------------------------------------
(* The ballot and what is kept of it.                                      *)

BallotsSpec == BallotsInit /\ [][BallotsNext]_ballotsVars

\* Once the voter is done, the paper and the first record are of the votes.
VotedOK ==
    booth = "voted" =>
        /\ paper = encodeBallot(style, precinct, votes, TRUE, Standard)
        /\ records # <<>>
        /\ records[1] = MachineRecord(style, precinct, votes, "", "terminal", Absentee)

BallotsInvariant ==
    /\ MarkInvariant
    /\ records \in Seq(Range(records))
    /\ VotedOK

LEMMA MarkBegins == ASSUME MarkInit PROVE MarkInvariant
<1>1. PICK s \in Range(Election.ballotStyles) : style = s.id /\ precinct \in Range(s.precincts)
  BY DEF MarkInit
<1>2. precinct \in Range(Election.precincts)
  BY <1>1, ElectionAssumption DEF ElectionAssumption
<1>3. VoterOK
  <2>1. typed = <<>>
    BY DEF MarkInit
  <2>2. <<>> \in Seq(Keys) /\ Len(<<>>) = 0 /\ 0 <= WRITE_IN_CANDIDATE_MAX_LENGTH
    BY NameLengths
  <2> QED
    BY <1>1, <1>2, <2>1, <2>2 DEF VoterOK
<1>4. IsVoteOf(style, votes)
  <2>1. votes = [id \in ContestIds |-> <<>>]
    BY DEF MarkInit, NoVotes
  <2>2. DOMAIN votes = ContestIds /\ \A id \in ContestIds : votes[id] = <<>>
    BY <2>1
  <2>3. votes = [id \in ContestIds |-> votes[id]]
    BY <2>1
  <2>4. ASSUME NEW c \in Range(getContests(getBallotStyle(style)))
        PROVE  Fillable(c, votes[c.id])
    <3>1. c \in Range(Election.contests)
      BY ContestsOfElection
    <3>2. Electable(c) /\ c.id \in ContestIds
      BY <3>1, ElectionIsPrintable DEF ContestIds
    <3>3. votes[c.id] = <<>>
      BY <2>2, <3>2
    <3> QED
      BY <3>2, <3>3, NothingIsFillable
  <2> QED
    BY <2>2, <2>3, <2>4 DEF IsVoteOf
<1>5. DialogOK
  BY NoDialogIsOK DEF MarkInit, NoDialog
<1> QED
  BY <1>3, <1>4, <1>5 DEF MarkInvariant

\* The writer meets none of its errors in what the screens let a voter do.
LEMMA BallotCanBeEncoded ==
    ASSUME MarkInvariant
    PROVE  CanEncode(getBallotStyle(style), votes)
<1> DEFINE contests == getContests(getBallotStyle(style))
           Fits(c) == LET vote == votes[c.id]
                          writeIns == WriteIns(vote)
                          max == maximumWriteIns(c, Len(vote) - Len(writeIns))
                      IN  IF c.type = "yesno" THEN Len(vote) <= 1
                          ELSE c.allowWriteIns /\ max > 0 /\ vote # <<>> =>
                               /\ Len(writeIns) <= max
                               /\ \A i \in DOMAIN writeIns :
                                     /\ Len(writeIns[i].name) <= MAXIMUM_WRITE_IN_LENGTH
                                     /\ Range(writeIns[i].name) \subseteq Range(WriteInChars)
<1>1. validateVotes(getBallotStyle(style), votes)
  BY DEF MarkInvariant, IsVoteOf, validateVotes
<1>2. ASSUME NEW c \in Range(contests) PROVE Fits(c)
  <2> DEFINE vote == votes[c.id]
             writeIns == WriteIns(vote)
             max == maximumWriteIns(c, Len(vote) - Len(writeIns))
  <2>1. Electable(c) /\ Fillable(c, vote) /\ Len(vote) <= MaxSelectable(c)
    BY ContestOfVoter DEF VoterContests
  <2>2. CASE c.type = "yesno"
    BY <2>1, <2>2 DEF MaxSelectable
  <2>3. CASE c.type # "yesno"
    <3> HIDE DEF vote
    <3>1. Len(writeIns) <= max
      BY <2>1, <2>3, WriteInsFit
    <3>2. ASSUME NEW i \in DOMAIN writeIns
          PROVE  /\ Len(writeIns[i].name) <= MAXIMUM_WRITE_IN_LENGTH
                 /\ Range(writeIns[i].name) \subseteq Range(WriteInChars)
      <4> DEFINE T == {k \in 1 .. Len(vote) : IsWritten(vote[k])}
      <4>1. writeIns \in Seq({vote[k] : k \in T})
        BY <2>1, WriteInsAreKept
      <4>2. writeIns[i] \in {vote[k] : k \in T}
        <5> HIDE DEF T, writeIns
        <5> QED
          BY <4>1
      <4>3. PICK k \in T : writeIns[i] = vote[k]
        BY <4>2
      <4>4. vote[k].name \in Names
        <5>1. k \in DOMAIN vote /\ IsWritten(vote[k])
          BY <2>1, <4>3 DEF Fillable
        <5>2. IsChoice(c, vote[k])
          BY <2>1, <5>1 DEF Fillable
        <5> QED
          BY <5>1, <5>2, ChoiceIs
      <4> DEFINE name == writeIns[i].name
      <4>5. name \in Names
        BY <4>3, <4>4
      <4> HIDE DEF name
      <4>6. name \in Seq(Range(WriteInChars)) /\ Len(name) <= MAXIMUM_WRITE_IN_LENGTH
        BY <4>5 DEF Names
      <4>7. Range(name) \subseteq Range(WriteInChars)
        <5>1. \A S : \A q \in Seq(S) : \A j \in DOMAIN q : q[j] \in S
          OBVIOUS
        <5> QED
          BY <4>6, <5>1 DEF Range
      <4> QED
        BY <4>6, <4>7 DEF name
    <3> HIDE DEF writeIns, max
    <3> QED
      BY <2>3, <3>1, <3>2 DEF writeIns, max, vote
  <2> QED
    BY <2>2, <2>3
<1> QED
  BY <1>1, <1>2 DEF CanEncode

LEMMA BallotsBegin == BallotsInit => BallotsInvariant
<1> SUFFICES ASSUME BallotsInit PROVE BallotsInvariant
  OBVIOUS
<1>1. MarkInvariant
  BY MarkBegins DEF BallotsInit
<1>2. records = <<>> /\ booth = "idle"
  BY DEF BallotsInit
<1>3. <<>> \in Seq(Range(<<>>))
  OBVIOUS
<1> QED
  BY <1>1, <1>2, <1>3 DEF BallotsInvariant, VotedOK

LEMMA MarkIsKept ==
    ASSUME MarkInvariant, UNCHANGED markVars
    PROVE  MarkInvariant'
<1>1. UNCHANGED <<style, precinct, votes, dialog, typed>>
  BY DEF markVars
<1>2. VoterOK' /\ IsVoteOf(style, votes)'
  BY <1>1, VoterStays, VotesStay DEF MarkInvariant
<1>3. DialogOK'
  BY <1>1 DEF MarkInvariant, DialogOK, VoterContests
<1> QED
  BY <1>2, <1>3 DEF MarkInvariant

\* A record more leaves the first one where it is.
LEMMA RecordIsAdded ==
    ASSUME NEW s, s \in Seq(Range(s)), NEW r
    PROVE  /\ Append(s, r) \in Seq(Range(Append(s, r)))
           /\ s # <<>> => Append(s, r) # <<>> /\ Append(s, r)[1] = s[1]
<1> DEFINE X == Range(s) \cup {r}
           new == Append(s, r)
<1>1. s \in Seq(X) /\ r \in X
  <2>1. \A Y, Z : Y \subseteq Z => Seq(Y) \subseteq Seq(Z)
    OBVIOUS
  <2>2. Range(s) \subseteq X
    OBVIOUS
  <2> HIDE DEF X
  <2>3. s \in Seq(X)
    BY <2>1, <2>2
  <2> QED
    BY <2>3 DEF X
<1> HIDE DEF X
<1>2. new \in Seq(X) /\ new # <<>>
  BY <1>1
<1>3. s # <<>> => new[1] = s[1]
  BY <1>1
<1> HIDE DEF new
<1>4. new \in Seq(Range(new))
  BY <1>2, ListOfItself
<1> QED
  BY <1>2, <1>3, <1>4 DEF new

LEMMA ScansKeepBallots ==
    ASSUME BallotsInvariant, UNCHANGED <<markVars, booth, paper>>,
           NEW r, records' = Append(records, r)
    PROVE  BallotsInvariant'
<1>1. MarkInvariant'
  BY MarkIsKept DEF BallotsInvariant
<1>2. /\ records' \in Seq(Range(records'))
      /\ records # <<>> => records' # <<>> /\ records'[1] = records[1]
  BY RecordIsAdded DEF BallotsInvariant
<1>3. VotedOK'
  BY <1>2 DEF BallotsInvariant, VotedOK, markVars
<1> QED
  BY <1>1, <1>2, <1>3 DEF BallotsInvariant

LEMMA BallotsStep == BallotsInvariant /\ [BallotsNext]_ballotsVars => BallotsInvariant'
<1> SUFFICES ASSUME BallotsInvariant, [BallotsNext]_ballotsVars PROVE BallotsInvariant'
  OBVIOUS
<1>1. CASE StartMarking
  <2>1. UNCHANGED <<markVars, records>> /\ booth' = "marking"
    BY <1>1 DEF StartMarking
  <2> QED
    BY <2>1, MarkIsKept DEF BallotsInvariant, VotedOK
<1>2. CASE MarkStep
  <2>1. Mark /\ UNCHANGED <<booth, paper, records>> /\ booth = "marking"
    BY <1>2 DEF MarkStep
  <2> QED
    BY <2>1, MarkKeepsMark DEF BallotsInvariant, VotedOK
<1>3. CASE PrintAndSave
  <2> DEFINE r == MachineRecord(style, precinct, votes, "", "terminal", Absentee)
             p == encodeBallot(style, precinct, votes, TRUE, Standard)
  <2>1. CanEncode(getBallotStyle(style), votes)
    BY BallotCanBeEncoded DEF BallotsInvariant
  <2>2. paper' = p /\ records' = <<r>> /\ UNCHANGED markVars
    BY <1>3, <2>1 DEF PrintAndSave
  <2>3. MarkInvariant'
    BY <2>2, MarkIsKept DEF BallotsInvariant
  <2>4. <<r>> \in Seq(Range(<<r>>)) /\ <<r>> # <<>> /\ <<r>>[1] = r
    <3> HIDE DEF r
    <3>1. <<r>> \in Seq({r}) /\ <<r>> # <<>> /\ <<r>>[1] = r
      OBVIOUS
    <3> QED
      BY <3>1, ListOfItself
  <2>5. VotedOK'
    <3>1. paper' = p' /\ records' # <<>> /\ records'[1] = r'
      <4>1. style' = style /\ precinct' = precinct /\ votes' = votes
        BY <2>2 DEF markVars
      <4> QED
        BY <2>2, <2>4, <4>1
    <3> QED
      BY <3>1 DEF VotedOK
  <2>6. records' \in Seq(Range(records'))
    BY <2>2, <2>4
  <2> QED
    BY <2>3, <2>5, <2>6 DEF BallotsInvariant
<1>4. CASE ScanPaper
  <2>1. PICK r : records' = Append(records, r) /\ UNCHANGED <<markVars, booth, paper>>
    BY <1>4 DEF ScanPaper
  <2> QED
    BY <2>1, ScansKeepBallots
<1>5. CASE ScanSheet
  <2>1. PICK r : records' = Append(records, r) /\ UNCHANGED <<markVars, booth, paper>>
    BY <1>5 DEF ScanSheet
  <2> QED
    BY <2>1, ScansKeepBallots
<1>6. CASE UNCHANGED ballotsVars
  <2>1. UNCHANGED <<markVars, booth, paper, records>>
    BY <1>6 DEF ballotsVars
  <2>2. MarkInvariant'
    BY <2>1, MarkIsKept DEF BallotsInvariant
  <2>3. VotedOK' /\ records' \in Seq(Range(records'))
    BY <2>1 DEF BallotsInvariant, VotedOK, markVars
  <2> QED
    BY <2>2, <2>3 DEF BallotsInvariant
<1> QED
  BY <1>1, <1>2, <1>3, <1>4, <1>5, <1>6 DEF BallotsNext

\* The contests of a record are those of the ballot, each with its vote.
LEMMA ContestsOfRecord ==
    ASSUME NEW contests, NEW choices
    PROVE  LET built == buildCVRContestsFromVotes(contests, choices, "machine") IN
           /\ DOMAIN built = DOMAIN contests
           /\ \A i \in DOMAIN contests :
                 built[i] = buildCVRContest(contests[i], choices[contests[i].id], "machine")
  BY DEF buildCVRContestsFromVotes

LEMMA ContestIdsOfRecord ==
    ASSUME NEW contests, NEW choices
    PROVE  LET built == buildCVRContestsFromVotes(contests, choices, "machine") IN
           {built[i].contestId : i \in DOMAIN built} = {c.id : c \in Range(contests)}
<1> DEFINE built == buildCVRContestsFromVotes(contests, choices, "machine")
<1>1. DOMAIN built = DOMAIN contests
  BY ContestsOfRecord
<1>2. \A i \in DOMAIN contests : built[i].contestId = contests[i].id
  <2>1. \A c, vote : buildCVRContest(c, vote, "machine").contestId = c.id
    BY DEF buildCVRContest
  <2> QED
    BY <2>1, ContestsOfRecord
<1> HIDE DEF built
<1>3. {built[i].contestId : i \in DOMAIN built} = {c.id : c \in Range(contests)}
  BY <1>1, <1>2 DEF Range
<1> QED
  BY <1>3 DEF built

LEMMA VotedIsSaid == BallotsInvariant => PaperSaysTheRecord
<1> SUFFICES ASSUME BallotsInvariant, booth = "voted" PROVE PaperSaysTheRecord
  BY DEF PaperSaysTheRecord
<1> DEFINE read == decodeBallot(paper)
           record == records[1]
           printed == getContests(getBallotStyle(style))
           contests == getCurrentSnapshot(record)
<1>1. /\ paper = encodeBallot(style, precinct, votes, TRUE, Standard)
      /\ record = MachineRecord(style, precinct, votes, "", "terminal", Absentee)
  BY DEF BallotsInvariant, VotedOK
<1>2. /\ record.style = style /\ record.precinct = precinct
      /\ contests = buildCVRContestsFromVotes(printed, votes, "machine")
  <2> DEFINE v == votes
             r == MachineRecord(style, precinct, v, "", "terminal", Absentee)
  <2>1. record = r
    BY <1>1
  <2> HIDE DEF r, v, record
  <2>2. IsRecordOf(r, style, precinct, v)
    BY RecordIs DEF r
  <2> QED
    BY <2>1, <2>2 DEF v, IsRecordOf
<1>3. PICK s \in Range(Election.ballotStyles) : style = s.id
  BY DEF BallotsInvariant, MarkInvariant, VoterOK
<1>4. precinct \in Range(Election.precincts)
  BY DEF BallotsInvariant, MarkInvariant, VoterOK
<1>5. ASSUME NEW c \in Range(printed) PROVE Electable(c) /\ Fillable(c, votes[c.id])
  BY ContestOfVoter DEF BallotsInvariant, VoterContests
<1>6. /\ paper # <<>> /\ read.ok /\ read.style = style /\ read.precinct = precinct
      /\ \A c \in Range(printed) : read.votes[c.id] = AsPrinted(c, votes[c.id])
  <2>1. PICK mode \in BOOLEAN : mode = TRUE
    OBVIOUS
  <2>2. PICK type \in 0 .. BallotTypeMaximumValue : type = Standard
    BY DEF Standard, BallotTypeMaximumValue
  <2>3. \A c \in Range(getContests(getBallotStyle(s.id))) : Fillable(c, votes[c.id])
    BY <1>3, <1>5
  <2> DEFINE bits == encodeBallot(s.id, precinct, votes, mode, type)
             back == decodeBallot(bits)
  <2> HIDE DEF read
  <2>4. /\ bits # <<>> /\ back.ok /\ back.style = s.id /\ back.precinct = precinct
        /\ \A c \in Range(getContests(getBallotStyle(s.id))) : back.votes[c.id] = AsPrinted(c, votes[c.id])
    BY <2>3, <1>4, PaperIsRead
  <2>5. paper = bits /\ read = back
    BY <1>1, <1>3, <2>1, <2>2 DEF read
  <2> HIDE DEF bits, back
  <2> QED
    BY <2>4, <2>5, <1>3
<1>7. /\ DOMAIN contests = DOMAIN printed
      /\ {contests[i].contestId : i \in DOMAIN contests} = {c.id : c \in Range(printed)}
  <2> DEFINE v == votes
             built == buildCVRContestsFromVotes(printed, v, "machine")
  <2>1. contests = built
    BY <1>2
  <2> HIDE DEF contests, printed, v
  <2>2. DOMAIN built = DOMAIN printed
    BY ContestsOfRecord
  <2>3. {built[i].contestId : i \in DOMAIN built} = {c.id : c \in Range(printed)}
    BY ContestIdsOfRecord
  <2> HIDE DEF built
  <2> QED
    BY <2>1, <2>2, <2>3
<1>8. ASSUME NEW i \in DOMAIN contests
      PROVE  LET c == contests[i].contestId  selections == contests[i].selections IN
             /\ OfficialsIn(read.votes[c]) = OfficialsIn(votes[c])
             /\ OfficialsIn(selections) = OfficialsIn(votes[c])
             /\ NamesIn(read.votes[c]) = NamesIn(votes[c])
             /\ TextsIn(selections) = NamesIn(votes[c])
             /\ contests[i].overvotes = 0
             /\ \A x \in Range(selections) : x.position >= 0
  <2> DEFINE c == printed[i]
             vote == votes[c.id]
             said == read.votes[c.id]
  <2>1. c \in Range(printed)
    BY <1>7 DEF Range
  <2>2. Electable(c) /\ Fillable(c, vote) /\ said = AsPrinted(c, vote)
    BY <1>5, <1>6, <2>1
  <2>3. contests[i] = buildCVRContest(c, vote, "machine")
    BY <1>2, <1>7, ContestsOfRecord
  <2> HIDE DEF contests, c, vote, said, printed, read
  <2>4. OfficialsIn(said) = OfficialsIn(vote) /\ NamesIn(said) = NamesIn(vote)
    BY <2>2, PaperSaysTheVote
  <2>5. /\ contests[i].contestId = c.id /\ contests[i].overvotes = 0
        /\ OfficialsIn(contests[i].selections) = OfficialsIn(vote)
        /\ TextsIn(contests[i].selections) = NamesIn(vote)
        /\ \A x \in Range(contests[i].selections) : x.position >= 0
    BY <2>2, <2>3, RecordSaysTheVote
  <2> QED
    BY <2>4, <2>5 DEF said, vote
<1> HIDE DEF read, record, contests, printed
<1> QED
  BY <1>2, <1>6, <1>7, <1>8 DEF PaperSaysTheRecord, read, record, contests, printed

\* What a scanner reads of a printed ballot is what the terminal put on record
\* and what the voter chose on the screen: the style and the precinct, the same
\* contests, and in each the same candidates and the same written names in
\* their order, with no overvote (BmdPaperBallot, saveVotes, decodeBallot).
THEOREM PaperIsTheRecord == BallotsSpec => []PaperSaysTheRecord
<1>1. BallotsInit => BallotsInvariant
  BY BallotsBegin
<1>2. BallotsInvariant /\ [BallotsNext]_ballotsVars => BallotsInvariant'
  BY BallotsStep
<1>3. BallotsInvariant => PaperSaysTheRecord
  BY VotedIsSaid
<1> QED
  BY <1>1, <1>2, <1>3, PTL DEF BallotsSpec
=============================================================================
