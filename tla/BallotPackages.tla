--------------------------- MODULE BallotPackages ---------------------------
(***************************************************************************)
(* A machine is configured from the ballot package on a USB drive          *)
(* (libs/backend: ballot_package_io.ts), which an administrator's machine  *)
(* signed (libs/auth: artifact_authenticator.ts).  The folder, the file's  *)
(* signature and the file, which is read twice, are looked up by path one  *)
(* after the other, on whichever drive is in by then.                      *)
(*                                                                         *)
(* A folder is a set of files, each with its signature beside it.  The zip *)
(* of a package is what readBallotPackageFromBuffer finds in it.           *)
(***************************************************************************)
EXTENDS Naturals

CONSTANTS
    Folders,            \* the ballot-packages folders drives may have
    NoFolder,           \* a machine without a drive
    Unreadable,         \* a file that is no ballot package
    NoSignature,
    AuthStatuses,       \* what the caller knows of who is logged in
    MaxTaken            \* bound on drives taken out

\* A folder has one file of a name, and a file the time it was created.
ASSUME FoldersAssumption ==
    /\ NoFolder \notin Folders
    /\ \A files \in Folders : \A f, g \in files :
          f.ctime \in Nat /\ (f.name = g.name => f = g)

VARIABLES
    folder,             \* of the drive that is in
    load,               \* the call of readBallotPackageFromUsb
    taken

packageVars == <<folder, load, taken>>

\* begunWith and stayed are history: the drive the call began with, and
\* whether it was in all the time.
NoLoad ==
    [pc |-> "idle", auth |-> [status |-> "none", role |-> "none", electionHash |-> "none"],
     names |-> {}, name |-> "none", signature |-> NoSignature,
     package |-> Unreadable, result |-> "none", begunWith |-> NoFolder, stayed |-> TRUE]

PackageInit == folder \in Folders \cup {NoFolder} /\ load = NoLoad /\ taken = 0

Over == load.pc \in {"idle", "over"}

GoOn(to) == load' = to /\ UNCHANGED <<folder, taken>>
Answer(result) == GoOn([load EXCEPT !.pc = "over", !.result = result])

\* The files of a name on the drive that is in: one or none.
Here(name) == IF folder = NoFolder THEN {} ELSE {f \in folder : f.name = name}

\* The zip files that are not hidden.
Packages(files) == {f \in files : f.zip /\ ~f.hidden}

\* A slip to detect: sorted the other way round.
LeastRecent(files) == {f \in files : \A g \in files : f.ctime <= g.ctime}

MostRecent(files) == {f \in files : \A g \in files : f.ctime >= g.ctime}

\* mounted: whether the drive as the caller last saw it has a mount point.
StartLoad ==
    /\ Over
    /\ \E auth \in AuthStatuses, mounted \in BOOLEAN :
          LET begun == [NoLoad EXCEPT !.auth = auth, !.begunWith = folder]
              over(result) == [begun EXCEPT !.pc = "over", !.result = result]
          IN  GoOn(IF auth.status # "logged_in" THEN over("auth_required_before_ballot_package_load")
                   ELSE IF auth.role # "election_manager" \/ ~mounted THEN over("threw")
                   ELSE [begun EXCEPT !.pc = "list"])

ListFolder ==
    /\ load.pc = "list"
    /\ LET files == IF folder = NoFolder THEN {} ELSE Packages(folder) IN
       IF files = {} THEN Answer("no_ballot_package_on_usb_drive")
       ELSE GoOn([load EXCEPT !.pc = "stat", !.names = {f.name : f \in files}])

\* lstat of every file that was listed; any of those created last is taken.
StatFiles ==
    /\ load.pc = "stat"
    /\ IF \E name \in load.names : Here(name) = {} THEN Answer("threw")
       ELSE \E f \in MostRecent(UNION {Here(name) : name \in load.names}) :
              GoOn([load EXCEPT !.pc = "signature", !.name = f.name])

\* authenticateArtifactUsingSignatureFile: whatever goes wrong is one error.
ReadSignature ==
    /\ load.pc = "signature"
    /\ \/ /\ \A f \in Here(load.name) : f.signature = NoSignature
          /\ Answer("ballot_package_authentication_error")
       \/ \E f \in Here(load.name) :
             /\ f.signature # NoSignature
             /\ GoOn([load EXCEPT !.pc = "verify", !.signature = f.signature])

\* The signature is of this file, and by a machine that makes packages.
Signs(signature, f) == signature.of = f.package /\ signature.component = "admin"

VerifyPackage ==
    /\ load.pc = "verify"
    /\ IF \E f \in Here(load.name) : Signs(load.signature, f)
       THEN GoOn([load EXCEPT !.pc = "read"])
       ELSE Answer("ballot_package_authentication_error")

\* The file is read again, and belongs to the election of the manager's card.
ReadPackage ==
    /\ load.pc = "read"
    /\ \/ /\ \A f \in Here(load.name) : f.package = Unreadable
          /\ Answer("threw")
       \/ \E f \in Here(load.name) :
             /\ f.package # Unreadable
             /\ IF f.package.electionHash # load.auth.electionHash
                THEN Answer("election_hash_mismatch")
                ELSE GoOn([load EXCEPT !.pc = "over", !.result = "ok", !.package = f.package])

NoteExchange == load' = IF Over THEN load ELSE [load EXCEPT !.stayed = FALSE]

RemoveDrive ==
    /\ folder # NoFolder /\ taken < MaxTaken
    /\ folder' = NoFolder /\ taken' = taken + 1 /\ NoteExchange

InsertDrive == folder = NoFolder /\ folder' \in Folders /\ NoteExchange /\ UNCHANGED taken

PackageNext ==
    \/ StartLoad \/ ListFolder \/ StatFiles \/ ReadSignature \/ VerifyPackage
    \/ ReadPackage \/ RemoveDrive \/ InsertDrive

----------------------------------------------------------------------------
(* Properties.                                                             *)

\* A machine is configured for the election of the manager who is logged in,
\* and, unless drives were exchanged meanwhile, by the newest package of the
\* drive, as the administrator's machine signed it.
PackageIsTheManagers ==
    load.result = "ok" =>
        /\ load.package.electionHash = load.auth.electionHash
        /\ load.stayed =>
              \E f \in Packages(load.begunWith) :
                  /\ f.package = load.package
                  /\ f.signature # NoSignature /\ Signs(f.signature, f)
                  /\ \A g \in Packages(load.begunWith) : g.ctime <= f.ctime
=============================================================================
