---------------------------- MODULE ReportExport ----------------------------
(***************************************************************************)
(* A scanner exports a report of its cast vote records to a USB drive      *)
(* (libs/backend: export.ts, exporter.ts, split.ts), signs it              *)
(* (libs/auth: artifact_authenticator.ts), and another machine reads it.   *)
(* Whoever holds the drive pulls it at any time; what was written since    *)
(* the last sync may then be lost or cut short.  Every drive gets the same *)
(* mount point, so a path names a file of whichever drive is in.           *)
(*                                                                         *)
(* A file is a sequence of blocks; a path is a record of the export that   *)
(* the directory belongs to, the kind of the file, its sheet and side, and *)
(* 0 or the number of a part.  A signature is the tree it was made of: its *)
(* hash tells any two trees apart, and its key is the scanner's.           *)
(***************************************************************************)
EXTENDS Naturals, Sequences, SequencesExt, FiniteSets, Functions

CONSTANTS
    Drives, NoDrive,
    SheetLists,         \* what the scanner's store may hold
    MaxFileSize,        \* MAXIMUM_FAT32_FILE_SIZE, in blocks
    MaxExports, MaxPulls    \* bounds

\* A sheet, with the sides that have write-ins.
Sheets == [id : Nat, type : {"hmpb", "bmd", "invalid"}, writeIns : SUBSET {1, 2}]

ASSUME ExportAssumption ==
    /\ NoDrive \notin Drives
    /\ SheetLists \subseteq Seq(Sheets)
    /\ MaxFileSize \in Nat \ {0}

VARIABLES
    drives,     \* the files of each drive
    plugged,
    dirty,      \* paths of the drive that is in, written since a sync
    pulls,
    machine,    \* the files of the machine's temporary directory
    sheets,     \* the sheets of each export
    job,        \* the running export: where it is, its files, the next part
    results,    \* how each export ended
    stayed      \* whether one drive was in for the whole of each export

exportVars == <<drives, plugged, dirty, pulls, machine, sheets, job, results, stayed>>

Path(n, kind, sheet, side, part) ==
    [export |-> n, kind |-> kind, sheet |-> sheet, side |-> side, part |-> part]
NoFiles == [p \in {} |-> <<>>]
With(files, path, content) == [p \in DOMAIN files \cup {path} |-> IF p = path THEN content ELSE files[p]]
Without(files, paths) == Restrict(files, DOMAIN files \ paths)

NoExport == [pc |-> "idle", n |-> 0, todo |-> <<>>, part |-> 1]

ExportInit ==
    /\ drives = [d \in Drives |-> NoFiles]
    /\ plugged \in Drives /\ dirty = {} /\ pulls = 0
    /\ machine = NoFiles /\ job = NoExport
    /\ sheets = <<>> /\ results = <<>> /\ stayed = <<>>

----------------------------------------------------------------------------
(* The files of a report.                                                  *)

\* getImageFileUri: only pages with write-ins have an image in the report.
ImageOf(n, sheet, side) ==
    IF side \in sheet.writeIns THEN <<Path(n, "image", sheet.id, side, 0)>> ELSE <<>>

\* The record of a sheet, of which only the write-ins are told apart.
CastVoteRecord(n, sheet) ==
    [id |-> sheet.id,
     images |-> IF sheet.type = "hmpb" THEN <<ImageOf(n, sheet, 1), ImageOf(n, sheet, 2)>> ELSE <<>>,
     writeIns |-> [side \in sheet.writeIns |->
        IF sheet.type = "bmd" THEN [text |-> "name", image |-> <<>>]
        ELSE [text |-> "", image |-> ImageOf(n, sheet, side)]]]

\* getCastVoteRecordReportStream: metadata, then one record for each sheet.
ReportContent(n) == <<"metadata">> \o [i \in DOMAIN sheets[n] |-> CastVoteRecord(n, sheets[n][i])]

\* The report, then the image and the layout of each page with write-ins.
PageFiles(n, sheet, side) ==
    IF side \in sheet.writeIns
    THEN <<Path(n, "image", sheet.id, side, 0), Path(n, "layout", sheet.id, side, 0)>> ELSE <<>>
ReportPath(n) == Path(n, "report", 0, 0, 0)
FilesOf(n, list) ==
    <<ReportPath(n)>> \o FlattenSeq([i \in DOMAIN list |->
        IF list[i].type = "hmpb" THEN PageFiles(n, list[i], 1) \o PageFiles(n, list[i], 2) ELSE <<>>])

Content(path) == IF path.kind = "report" THEN ReportContent(path.export) ELSE <<path.kind>>

----------------------------------------------------------------------------
(* Exporting.                                                              *)

StartExport ==
    /\ job = NoExport /\ Len(results) < MaxExports
    /\ \E list \in SheetLists :
          /\ sheets' = Append(sheets, list)
          /\ job' = [pc |-> "machine", n |-> Len(results) + 1,
                     todo |-> FilesOf(Len(results) + 1, list), part |-> 1]
    /\ results' = Append(results, "running")
    /\ stayed' = Append(stayed, plugged # NoDrive)
    /\ UNCHANGED <<drives, plugged, dirty, pulls, machine>>

\* The temporary directory goes, whatever happened.
Finish(result) ==
    /\ results' = [results EXCEPT ![job.n] = result]
    /\ job' = NoExport
    /\ machine' = NoFiles

Goto(pc) == job' = [job EXCEPT !.pc = pc] /\ UNCHANGED <<machine, results>>

\* exportDataToUsbDrive: the file is written to the machine first.  The
\* report's stream throws at a sheet that no record can be made of.
WriteToMachine ==
    /\ job.pc = "machine"
    /\ IF Head(job.todo).kind = "report" /\ \E sheet \in Range(sheets[job.n]) : sheet.type = "invalid"
       THEN Finish("invalid-sheet-found")
       ELSE /\ machine' = With(machine, Head(job.todo), Content(Head(job.todo)))
            /\ job' = [job EXCEPT !.pc = "drive", !.part = 1]
            /\ UNCHANGED results
    /\ UNCHANGED <<drives, plugged, dirty, pulls, sheets, stayed>>

\* getUsbDrives, before every file.
FindDrive ==
    /\ job.pc = "drive"
    /\ IF plugged = NoDrive THEN Finish("missing-usb-drive") ELSE Goto("write")
    /\ UNCHANGED <<drives, plugged, dirty, pulls, sheets, stayed>>

HasDirectory(d, n) == \E p \in DOMAIN drives[d] : p.export = n /\ p.kind # "signature"

PartOf(content, part) ==
    SubSeq(content, (part - 1) * MaxFileSize + 1,
        IF part * MaxFileSize < Len(content) THEN part * MaxFileSize ELSE Len(content))

\* splitToFiles: the next part; the directory is made before the first.
WritePart ==
    /\ job.pc = "write"
    /\ LET content == machine[Head(job.todo)]
           path == [Head(job.todo) EXCEPT !.part = job.part]
       IN  IF plugged = NoDrive \/ (job.part > 1 /\ ~HasDirectory(plugged, job.n))
           THEN Finish("threw") /\ UNCHANGED <<drives, dirty>>
           ELSE /\ drives' = [drives EXCEPT ![plugged] = With(@, path, PartOf(content, job.part))]
                /\ dirty' = dirty \cup {path}
                /\ job' = IF job.part * MaxFileSize < Len(content)
                          THEN [job EXCEPT !.part = @ + 1]
                          ELSE [job EXCEPT !.pc = IF job.part = 1 THEN "rename" ELSE "sync"]
                /\ UNCHANGED <<machine, results>>
    /\ UNCHANGED <<plugged, pulls, sheets, stayed>>

\* A slip to detect: a single part keeps its temporary name.
Renamed(files, part, path) == files

\* A single part becomes the file.
SingleFile(files, part, path) == With(Without(files, {part}), path, files[part])

RenamePart ==
    /\ job.pc = "rename"
    /\ LET path == Head(job.todo)  part == [path EXCEPT !.part = 1] IN
       IF plugged = NoDrive THEN Finish("threw") /\ UNCHANGED <<drives, dirty>>
       ELSE IF part \notin DOMAIN drives[plugged] THEN Finish("threw") /\ UNCHANGED <<drives, dirty>>
       ELSE /\ drives' = [drives EXCEPT ![plugged] = SingleFile(@, part, path)]
            /\ dirty' = (dirty \ {part}) \cup {path}
            /\ Goto("sync")
    /\ UNCHANGED <<plugged, pulls, sheets, stayed>>

\* sync -f on the mount point; then the next file, or the signature.
SyncFile ==
    /\ job.pc = "sync"
    /\ IF plugged = NoDrive THEN Finish("threw") /\ UNCHANGED dirty
       ELSE /\ dirty' = {}
            /\ job' = [job EXCEPT !.todo = Tail(@),
                                  !.pc = IF Len(job.todo) > 1 THEN "machine" ELSE "sign"]
            /\ UNCHANGED <<machine, results>>
    /\ UNCHANGED <<drives, plugged, pulls, sheets, stayed>>

\* constructMessage: all files of the report's directory, by their paths.
Tree(files, n) ==
    {<<p, files[p]>> : p \in {q \in DOMAIN files : q.export = n /\ q.kind # "signature"}}

SignaturePath(n) == Path(n, "signature", 0, 0, 0)

\* A slip to detect: the files on the drive are signed.
SignedOnDrive(n) == Tree(drives[plugged], n)

Signed(n) == Tree(machine, n)

\* writeSignatureFile: beside the report's directory, on the drive that is
\* in by now, if that has the directory of the election's reports.
WriteSignature ==
    /\ job.pc = "sign"
    /\ IF plugged = NoDrive THEN Finish("missing-usb-drive") /\ UNCHANGED <<drives, dirty>>
       ELSE IF DOMAIN drives[plugged] = {} THEN Finish("threw") /\ UNCHANGED <<drives, dirty>>
       ELSE /\ drives' = [drives EXCEPT ![plugged] =
                            With(@, SignaturePath(job.n), <<"signature", Signed(job.n)>>)]
            /\ dirty' = {SignaturePath(job.n)}
            /\ Goto("signSync")
    /\ UNCHANGED <<plugged, pulls, sheets, stayed>>

SyncSignature ==
    /\ job.pc = "signSync"
    /\ Finish(IF plugged = NoDrive THEN "threw" ELSE "ok")
    /\ dirty' = IF plugged = NoDrive THEN dirty ELSE {}
    /\ UNCHANGED <<drives, plugged, pulls, sheets, stayed>>

----------------------------------------------------------------------------
(* The drives.                                                             *)

\* Of what was not synced any file may be lost, and any other cut short.
Pull ==
    /\ plugged # NoDrive /\ pulls < MaxPulls
    /\ \E lost \in SUBSET dirty : \E torn \in SUBSET (dirty \ lost) :
          drives' = [drives EXCEPT ![plugged] =
            [p \in DOMAIN @ \ lost |-> IF p \in torn THEN Front(@[p]) ELSE @[p]]]
    /\ plugged' = NoDrive /\ dirty' = {} /\ pulls' = pulls + 1
    /\ stayed' = IF job = NoExport THEN stayed ELSE [stayed EXCEPT ![job.n] = FALSE]
    /\ UNCHANGED <<machine, sheets, job, results>>

PlugIn ==
    /\ plugged = NoDrive
    /\ plugged' \in Drives
    /\ UNCHANGED <<drives, dirty, pulls, machine, sheets, job, results, stayed>>

ExportNext ==
    \/ StartExport \/ WriteToMachine \/ FindDrive \/ WritePart \/ RenamePart
    \/ SyncFile \/ WriteSignature \/ SyncSignature \/ Pull \/ PlugIn

----------------------------------------------------------------------------
(* The machine that reads a drive.                                         *)

\* authenticateArtifactUsingSignatureFile
Authentic(files, n) ==
    /\ SignaturePath(n) \in DOMAIN files
    /\ files[SignaturePath(n)] = <<"signature", Tree(files, n)>>

\* validateCastVoteRecordReportDirectoryStructure
ValidDirectory(files, n) ==
    /\ ReportPath(n) \in DOMAIN files
    /\ \A p \in DOMAIN files : p.export = n /\ p.kind = "image" /\ p.part = 0 =>
          [p EXCEPT !.kind = "layout"] \in DOMAIN files

\* getCastVoteRecordReportImport: the records of a report.
Imported(files, n) == Tail(files[ReportPath(n)])

\* getWriteInsFromCastVoteRecord: a text, or a side of the ballot's images.
WriteInFound(record, w) ==
    \/ w.text # ""
    \/ w.image # <<>> /\ \E side \in DOMAIN record.images : record.images[side] = w.image

----------------------------------------------------------------------------
(* Properties.                                                             *)

\* A report that authenticates is the whole of what the scanner had: every
\* record, in order, and for every write-in its text, or its page's image
\* and layout, however often drives were pulled, exchanged and used again.
AuthenticIsWhole ==
    \A d \in Drives, n \in DOMAIN sheets : Authentic(drives[d], n) =>
        LET files == drives[d] IN
        /\ ValidDirectory(files, n)
        /\ Imported(files, n) = [i \in DOMAIN sheets[n] |-> CastVoteRecord(n, sheets[n][i])]
        /\ \A record \in Range(Imported(files, n)) : \A w \in Range(record.writeIns) :
              /\ WriteInFound(record, w)
              /\ w.image # <<>> => w.image[1] \in DOMAIN files

\* An export that reports success, to one drive that stayed in, is there and
\* authenticates.  (A report above the maximum file size is exported in
\* parts, and then it never does.)
ExportedIsThere ==
    \A n \in DOMAIN results :
        results[n] = "ok" /\ stayed[n] /\ Len(ReportContent(n)) <= MaxFileSize =>
            \E d \in Drives : Authentic(drives[d], n) /\ ValidDirectory(drives[d], n)
=============================================================================
