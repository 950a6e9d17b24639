------------------------- MODULE ReportExport_proofs -------------------------
(***************************************************************************)
(* What is exchanged in files: the reports that a scanner exports, and the *)
(* elections that are converted to CDF.                                    *)
(*                                                                         *)
(* Reports, for any sheets, drives and sizes of files, however often       *)
(* drives are pulled, exchanged and used again.                            *)
(*                                                                         *)
(* A report that authenticates is whole because its signature was made of  *)
(* the files in the machine's own directory, and that holds all files of   *)
(* the report when it is signed (RunningIsTheLast, MachineHasTheContents); *)
(* a signature on a drive is such a one or was cut short                   *)
(* (SignaturesAreWhole).  An export to a drive that stayed in is there     *)
(* because what it has written so far is what it has copied                *)
(* (WrittenIsThere), and because what a pull may lose is never of an       *)
(* export that is over (UnsyncedIsUnfinished).                             *)
(*                                                                         *)
(* Elections: a file says what the conversion made of the election, in     *)
(* some order and languages (FormOf); so it has no id twice                *)
(* (DefinedIdsApart), all that is looked for is found (FileConverts), and  *)
(* contests and styles are read as they were (ContestIsRead, StyleIsRead). *)
(***************************************************************************)
EXTENDS ReportExport, ElectionDefinitions, FunctionTheorems, SequenceTheorems, WellFoundedInduction, TLAPS

----------------------------------------------------------------------------
(* What the proofs below need of numbers and lists.                        *)

\* Induction, for the sets of numbers that a property holds of.
LEMMA AllNumbers ==
    ASSUME NEW S, 0 \in S, \A n \in Nat : n \in S => n + 1 \in S
    PROVE  \A n \in Nat : n \in S
<1> DEFINE Less == {p \in Nat \X Nat : p[1] < p[2]}
           Others == Nat \ S
<1>1. IsWellFoundedOn(Less, Nat)
  BY NatLessThanWellFounded DEF OpToRel
<1>2. SUFFICES ASSUME Others # {} PROVE FALSE
  OBVIOUS
<1>3. PICK x \in Others : \A y \in Others : <<y, x>> \notin Less
  <2> HIDE DEF Less, Others
  <2> QED
    <3>1. Others \subseteq Nat
      BY DEF Others
    <3> QED
      BY <1>1, <1>2, <3>1, WFMin
<1>4. x \in Nat /\ x # 0 /\ x - 1 \in Nat /\ <<x - 1, x>> \in Less
  BY <1>3
<1>5. x - 1 \in S
  BY <1>3, <1>4
<1> QED
  BY <1>3, <1>4, <1>5

\* A flattened list has the elements of its lists.
LEMMA Flattened ==
    ASSUME NEW X, NEW lists \in Seq(Seq(X))
    PROVE  /\ FlattenSeq(lists) \in Seq(X)
           /\ Range(FlattenSeq(lists)) = UNION {Range(lists[i]) : i \in DOMAIN lists}
<1> DEFINE Joined(f, i) == IF i = 1 THEN lists[i] ELSE f[i - 1] \o lists[i]
           Starts == {n \in Nat : \E f : f = [i \in 1 .. n |-> Joined(f, i)]}
<1>1. \A n \in Nat : n \in Starts
  <2>1. 0 \in Starts
    <3>1. PICK f : f = [i \in 1 .. 0 |-> i]
      OBVIOUS
    <3>2. f = [i \in 1 .. 0 |-> Joined(f, i)]
      BY <3>1
    <3> QED
      BY <3>2
  <2>2. ASSUME NEW n \in Nat, n \in Starts PROVE n + 1 \in Starts
    <3>1. PICK f : f = [i \in 1 .. n |-> Joined(f, i)]
      BY <2>2
    <3>2. PICK g : g = [i \in 1 .. n + 1 |-> Joined(f, i)]
      OBVIOUS
    <3>3. ASSUME NEW i \in 1 .. n PROVE g[i] = f[i]
      <4>1. g[i] = Joined(f, i)
        BY <3>2
      <4>2. f[i] = Joined(f, i)
        BY <3>1
      <4> QED
        BY <4>1, <4>2
    <3>4. ASSUME NEW i \in 1 .. n + 1 PROVE Joined(g, i) = Joined(f, i)
      <4>1. CASE i = 1
        BY <4>1
      <4>2. CASE i # 1
        <5>1. i - 1 \in 1 .. n
          BY <4>2
        <5>2. g[i - 1] = f[i - 1]
          BY <5>1, <3>3
        <5> QED
          BY <5>2
      <4> QED
        BY <4>1, <4>2
    <3>5. g = [i \in 1 .. n + 1 |-> Joined(g, i)]
      <4> HIDE DEF Joined
      <4> QED
        BY <3>2, <3>4
    <3> HIDE DEF Joined
    <3> QED
      BY <3>5
  <2> HIDE DEF Starts
  <2> QED
    BY <2>1, <2>2, AllNumbers
<1>2. CASE Len(lists) = 0
  BY <1>2 DEF FlattenSeq, Range
<1>3. CASE Len(lists) # 0
  <2> DEFINE n == Len(lists)
             flat == CHOOSE f : f = [i \in 1 .. n |-> Joined(f, i)]
  <2>0. n \in Nat /\ n > 0 /\ DOMAIN lists = 1 .. n
    BY <1>3
  <2>1. FlattenSeq(lists) = flat[n]
    BY <1>3 DEF FlattenSeq
  <2>2. flat = [i \in 1 .. n |-> Joined(flat, i)]
    <3>1. \E f : f = [i \in 1 .. n |-> Joined(f, i)]
      BY <1>1, <2>0
    <3> HIDE DEF Joined
    <3> QED
      BY <3>1
  <2> HIDE DEF flat
  <2> DEFINE Good == {k \in Nat : k \in 1 .. n =>
                        /\ flat[k] \in Seq(X)
                        /\ Range(flat[k]) = UNION {Range(lists[i]) : i \in 1 .. k}}
  <2>3. ASSUME NEW k \in Nat, k \in Good PROVE k + 1 \in Good
    <3>1. SUFFICES ASSUME k + 1 \in 1 .. n
                   PROVE  /\ flat[k + 1] \in Seq(X)
                          /\ Range(flat[k + 1]) = UNION {Range(lists[i]) : i \in 1 .. k + 1}
      OBVIOUS
    <3>2. lists[k + 1] \in Seq(X)
      BY <3>1
    <3>3. CASE k = 0
      <4>1. flat[k + 1] = lists[1]
        BY <3>3, <2>2, <3>1
      <4>2. {Range(lists[i]) : i \in 1 .. k + 1} = {Range(lists[1])}
        BY <3>3
      <4> QED
        BY <4>1, <4>2, <3>2, <3>3
    <3>4. CASE k # 0
      <4>1. flat[k + 1] = flat[k] \o lists[k + 1]
        <5>1. flat[k + 1] = Joined(flat, k + 1)
          <6> HIDE DEF Joined
          <6> QED
            BY <2>2, <3>1
        <5>2. k + 1 # 1 /\ (k + 1) - 1 = k
          BY <3>4
        <5> QED
          BY <5>1, <5>2
      <4>2. flat[k] \in Seq(X) /\ Range(flat[k]) = UNION {Range(lists[i]) : i \in 1 .. k}
        BY <3>1, <3>4, <2>3
      <4>3. Range(flat[k + 1]) = Range(flat[k]) \cup Range(lists[k + 1])
        BY <4>1, <4>2, <3>2, RangeConcatenation
      <4>4. 1 .. k + 1 = (1 .. k) \cup {k + 1}
        OBVIOUS
      <4>5. Range(flat[k + 1]) = UNION {Range(lists[i]) : i \in 1 .. k + 1}
        BY <4>2, <4>3, <4>4
      <4>6. flat[k + 1] \in Seq(X)
        BY <4>1, <4>2, <3>2
      <4> QED
        BY <4>5, <4>6
    <3> QED
      BY <3>3, <3>4
  <2>4. \A k \in Nat : k \in Good
    <3>1. 0 \in Good
      OBVIOUS
    <3> HIDE DEF Good
    <3> QED
      BY <3>1, <2>3, AllNumbers
  <2>5. n \in Good /\ n \in 1 .. n
    <3> HIDE DEF Good, n
    <3> QED
      BY <2>4, <2>0
  <2>6. flat[n] \in Seq(X) /\ Range(flat[n]) = UNION {Range(lists[i]) : i \in 1 .. n}
    BY <2>5
  <2> QED
    BY <2>0, <2>1, <2>6
<1> QED
  BY <1>2, <1>3, LenProperties

----------------------------------------------------------------------------
(* The report of the cast vote records: what authenticates is whole, and   *)
(* what was exported is there.                                             *)

ExportSpec == ExportInit /\ [][ExportNext]_exportVars

Paths == [export : Nat, kind : {"report", "image", "layout", "signature"},
          sheet : Nat, side : 0 .. 2, part : Nat]

ReportFiles(n) == Range(FilesOf(n, sheets[n]))

\* What a report that is whole is signed as.
WholeReport(n) == {<<p, Content(p)>> : p \in ReportFiles(n)}

Recordable(n) == \A sheet \in Range(sheets[n]) : sheet.type # "invalid"

ExportPcs == {"idle", "machine", "drive", "write", "rename", "sync", "sign", "signSync"}

Endings == {"running", "ok", "threw", "missing-usb-drive", "invalid-sheet-found"}

ExportJobs == [pc : ExportPcs, n : Nat, todo : Seq(Paths), part : Nat \ {0}]

ExportTypeOK ==
    /\ sheets \in Seq(Seq(Sheets))
    /\ results \in Seq(Endings) /\ stayed \in Seq(BOOLEAN)
    /\ Len(results) = Len(sheets) /\ Len(stayed) = Len(sheets)
    /\ plugged \in Drives \cup {NoDrive}
    /\ DOMAIN drives = Drives
    /\ \A d \in Drives : DOMAIN drives[d] \subseteq Paths
    /\ dirty \subseteq Paths
    /\ job \in ExportJobs

\* A running export is the last one; its files are on the machine or to come.
RunningIsTheLast ==
    IF job.pc = "idle" THEN job = NoExport /\ DOMAIN machine = {}
    ELSE /\ job.n = Len(sheets) /\ job.n > 0 /\ results[job.n] = "running"
         /\ ReportFiles(job.n) = DOMAIN machine \cup Range(job.todo)
         /\ job.pc \in {"sign", "signSync"} <=> job.todo = <<>>
         /\ job.pc \in {"drive", "write", "rename", "sync"} => Head(job.todo) \in DOMAIN machine
         /\ ReportPath(job.n) \in DOMAIN machine => Recordable(job.n)

MachineHasTheContents == \A p \in DOMAIN machine : machine[p] = Content(p)

\* A signature that was not cut short is that of a whole report.
SignaturesAreWhole ==
    \A d \in Drives : \A p \in DOMAIN drives[d] : p.kind = "signature" =>
        \/ drives[d][p] \in {<<>>, <<"signature">>}
        \/ /\ p.export \in DOMAIN sheets /\ Recordable(p.export)
           /\ drives[d][p] = <<"signature", WholeReport(p.export)>>

ExportInvariant == ExportTypeOK /\ RunningIsTheLast /\ MachineHasTheContents /\ SignaturesAreWhole

\* The files of a report: it, and two for each page with write-ins.
LEMMA ReportHasFiles ==
    ASSUME NEW n \in Nat, NEW list \in Seq(Sheets)
    PROVE  /\ FilesOf(n, list) \in Seq(Paths) /\ FilesOf(n, list) # <<>>
           /\ \A p : p \in Range(FilesOf(n, list)) <=>
                 \/ p = ReportPath(n)
                 \/ \E i \in DOMAIN list : \E side \in list[i].writeIns :
                       /\ list[i].type = "hmpb"
                       /\ \/ p = Path(n, "image", list[i].id, side, 0)
                          \/ p = Path(n, "layout", list[i].id, side, 0)
<1> DEFINE Pages(i) == IF list[i].type = "hmpb"
                       THEN PageFiles(n, list[i], 1) \o PageFiles(n, list[i], 2) ELSE <<>>
           pages == [i \in DOMAIN list |-> Pages(i)]
           Of(i, side) == {Path(n, "image", list[i].id, side, 0), Path(n, "layout", list[i].id, side, 0)}
<1>1. ASSUME NEW i \in DOMAIN list
      PROVE  /\ Pages(i) \in Seq(Paths)
             /\ Range(Pages(i)) = UNION {Of(i, side) : side \in
                                    IF list[i].type = "hmpb" THEN list[i].writeIns ELSE {}}
  <2>1. list[i] \in Sheets
    BY ElementOfSeq, LenProperties
  <2>2. list[i].id \in Nat /\ list[i].writeIns \subseteq {1, 2}
    BY <2>1 DEF Sheets
  <2>3. ASSUME NEW side \in {1, 2}
        PROVE  /\ PageFiles(n, list[i], side) \in Seq(Paths)
               /\ Range(PageFiles(n, list[i], side)) =
                     IF side \in list[i].writeIns THEN Of(i, side) ELSE {}
    <3>1. Path(n, "image", list[i].id, side, 0) \in Paths /\ Path(n, "layout", list[i].id, side, 0) \in Paths
      BY <2>2 DEF Paths, Path
    <3>2. CASE side \in list[i].writeIns
      <4>1. PICK a, b : a = Path(n, "image", list[i].id, side, 0) /\ b = Path(n, "layout", list[i].id, side, 0)
        OBVIOUS
      <4>2. PageFiles(n, list[i], side) = <<a, b>>
        BY <3>2, <4>1 DEF PageFiles
      <4>3. a \in Paths /\ b \in Paths
        BY <3>1, <4>1
      <4>4. <<a, b>> \in Seq(Paths) /\ Range(<<a, b>>) = {a, b}
        BY <4>3 DEF Range
      <4> QED
        BY <3>2, <4>1, <4>2, <4>4
    <3>3. CASE side \notin list[i].writeIns
      BY <3>3 DEF PageFiles, Range
    <3> QED
      BY <3>2, <3>3
  <2>4. CASE list[i].type = "hmpb"
    <3>1. Pages(i) \in Seq(Paths)
          /\ Range(Pages(i)) = Range(PageFiles(n, list[i], 1)) \cup Range(PageFiles(n, list[i], 2))
      BY <2>3, <2>4, RangeConcatenation, ConcatProperties
    <3> HIDE DEF Of, Pages
    <3>2. UNION {Of(i, side) : side \in list[i].writeIns}
            = (IF 1 \in list[i].writeIns THEN Of(i, 1) ELSE {}) \cup (IF 2 \in list[i].writeIns THEN Of(i, 2) ELSE {})
      BY <2>2
    <3> QED
      BY <3>1, <3>2, <2>3, <2>4
  <2>5. CASE list[i].type # "hmpb"
    BY <2>5 DEF Range
  <2> QED
    BY <2>4, <2>5
<1>2. pages \in Seq(Seq(Paths)) /\ DOMAIN pages = DOMAIN list
  <2> HIDE DEF Pages
  <2> QED
    BY <1>1, LenProperties
<1>3. /\ FlattenSeq(pages) \in Seq(Paths)
      /\ Range(FlattenSeq(pages)) = UNION {Range(pages[i]) : i \in DOMAIN list}
  <2> HIDE DEF pages
  <2> QED
    BY <1>2, Flattened
<1>4. <<ReportPath(n)>> \in Seq(Paths) /\ Range(<<ReportPath(n)>>) = {ReportPath(n)}
      /\ <<ReportPath(n)>> # <<>>
  BY DEF ReportPath, Path, Paths, Range
<1>5. FilesOf(n, list) = <<ReportPath(n)>> \o FlattenSeq(pages)
  BY DEF FilesOf
<1>6. FilesOf(n, list) \in Seq(Paths) /\ FilesOf(n, list) # <<>>
      /\ Range(FilesOf(n, list)) = {ReportPath(n)} \cup Range(FlattenSeq(pages))
  <2> DEFINE first == <<ReportPath(n)>>
             rest == FlattenSeq(pages)
  <2>1. first \in Seq(Paths) /\ first # <<>> /\ rest \in Seq(Paths) /\ FilesOf(n, list) = first \o rest
    BY <1>3, <1>4, <1>5
  <2>2. Range(first) = {ReportPath(n)}
    BY <1>4
  <2> HIDE DEF first, rest
  <2>3. first \o rest \in Seq(Paths) /\ first \o rest # <<>>
    BY <2>1
  <2>4. Range(first \o rest) = Range(first) \cup Range(rest)
    BY <2>1, RangeConcatenation
  <2> QED
    BY <2>1, <2>2, <2>3, <2>4 DEF rest
<1>7. ASSUME NEW p
      PROVE  p \in Range(FlattenSeq(pages)) <=>
                \E i \in DOMAIN list : \E side \in list[i].writeIns :
                   list[i].type = "hmpb" /\ p \in Of(i, side)
  <2>1. p \in Range(FlattenSeq(pages)) <=> \E i \in DOMAIN list : p \in Range(pages[i])
    BY <1>3
  <2>2. ASSUME NEW i \in DOMAIN list
        PROVE  p \in Range(pages[i]) <=>
                  \E side \in list[i].writeIns : list[i].type = "hmpb" /\ p \in Of(i, side)
    <3>1. Range(pages[i]) = UNION {Of(i, side) : side \in
                                    IF list[i].type = "hmpb" THEN list[i].writeIns ELSE {}}
      <4> HIDE DEF Pages, Of
      <4> QED
        BY <1>1
    <3> HIDE DEF Of
    <3> QED
      BY <3>1
  <2> HIDE DEF pages, Of
  <2> QED
    BY <2>1, <2>2
<1> QED
  BY <1>6, <1>7

LEMMA ReportsOwnFiles ==
    ASSUME ExportTypeOK, NEW n \in DOMAIN sheets
    PROVE  /\ n \in Nat /\ n > 0 /\ n <= Len(sheets) /\ sheets[n] \in Seq(Sheets)
           /\ ReportFiles(n) \subseteq Paths /\ ReportPath(n) \in ReportFiles(n)
           /\ \A p \in ReportFiles(n) : p.export = n /\ p.kind \in {"report", "image", "layout"} /\ p.part = 0
<1>1. n \in Nat /\ n > 0 /\ n <= Len(sheets) /\ sheets[n] \in Seq(Sheets)
  BY LenProperties, ElementOfSeq DEF ExportTypeOK
<1>2. FilesOf(n, sheets[n]) \in Seq(Paths)
  BY <1>1, ReportHasFiles
<1>3. \A p : p \in ReportFiles(n) <=>
                 \/ p = ReportPath(n)
                 \/ \E i \in DOMAIN sheets[n] : \E side \in sheets[n][i].writeIns :
                       /\ sheets[n][i].type = "hmpb"
                       /\ \/ p = Path(n, "image", sheets[n][i].id, side, 0)
                          \/ p = Path(n, "layout", sheets[n][i].id, side, 0)
  BY <1>1, ReportHasFiles DEF ReportFiles
<1>4. ReportFiles(n) \subseteq Paths
  BY <1>2, RangeOfSeq DEF ReportFiles
<1> QED
  BY <1>1, <1>3, <1>4 DEF ReportPath, Path

\* What was to be exported does not change.
LEMMA ReportsStay ==
    ASSUME ExportTypeOK, NEW n \in DOMAIN sheets,
           sheets' = sheets \/ \E list \in Seq(Sheets) : sheets' = Append(sheets, list)
    PROVE  /\ n \in DOMAIN sheets' /\ sheets'[n] = sheets[n]
           /\ ReportFiles(n)' = ReportFiles(n)
           /\ ReportContent(n)' = ReportContent(n)
           /\ \A p \in ReportFiles(n) : Content(p)' = Content(p)
           /\ WholeReport(n)' = WholeReport(n)
           /\ Recordable(n)' <=> Recordable(n)
<1>1. n \in DOMAIN sheets' /\ sheets'[n] = sheets[n]
  BY AppendProperties, LenProperties DEF ExportTypeOK
<1>2. ReportFiles(n)' = ReportFiles(n)
  BY <1>1 DEF ReportFiles
<1>3. ReportContent(n)' = ReportContent(n)
  BY <1>1 DEF ReportContent
<1>4. \A p \in ReportFiles(n) : Content(p)' = Content(p)
  BY <1>3, ReportsOwnFiles DEF Content
<1>5. WholeReport(n)' = WholeReport(n)
  BY <1>2, <1>4 DEF WholeReport
<1>6. Recordable(n)' <=> Recordable(n)
  BY <1>1 DEF Recordable
<1> QED
  BY <1>1, <1>2, <1>3, <1>4, <1>5, <1>6

\* When the machine has all files, its tree is the whole report.
LEMMA MachineIsWhole ==
    ASSUME ExportInvariant, job.pc \in {"sign", "signSync"}
    PROVE  /\ job.n \in DOMAIN sheets /\ Recordable(job.n)
           /\ DOMAIN machine = ReportFiles(job.n)
           /\ Signed(job.n) = WholeReport(job.n)
<1>1. job.n \in DOMAIN sheets /\ job.todo = <<>>
  BY LenProperties DEF ExportInvariant, ExportTypeOK, RunningIsTheLast
<1>2. Range(job.todo) = {}
  BY <1>1 DEF Range
<1>3. DOMAIN machine = ReportFiles(job.n)
  BY <1>2 DEF ExportInvariant, ExportTypeOK, RunningIsTheLast
<1>4. \A p \in DOMAIN machine : p.export = job.n /\ p.kind # "signature"
  BY <1>1, <1>3, ReportsOwnFiles DEF ExportInvariant
<1>5. Signed(job.n) = {<<p, machine[p]>> : p \in DOMAIN machine}
  BY <1>4 DEF Signed, Tree
<1>6. \A p \in DOMAIN machine : machine[p] = Content(p)
  BY DEF ExportInvariant, MachineHasTheContents
<1>7. Recordable(job.n)
  BY <1>1, <1>3, ReportsOwnFiles DEF ExportInvariant, RunningIsTheLast
<1> QED
  BY <1>1, <1>3, <1>5, <1>6, <1>7 DEF WholeReport

\* Writing, losing and cutting short files that are not signatures.
LEMMA SignaturesStay ==
    ASSUME ExportTypeOK, SignaturesAreWhole,
           sheets' = sheets \/ \E list \in Seq(Sheets) : sheets' = Append(sheets, list),
           \A d \in Drives : \A p \in DOMAIN drives'[d] : p.kind = "signature" =>
              /\ p \in DOMAIN drives[d]
              /\ drives'[d][p] = drives[d][p] \/ drives'[d][p] = Front(drives[d][p])
    PROVE  SignaturesAreWhole'
<1> SUFFICES ASSUME NEW d \in Drives, NEW p \in DOMAIN drives'[d], p.kind = "signature"
             PROVE  \/ drives'[d][p] \in {<<>>, <<"signature">>}
                    \/ /\ p.export \in DOMAIN sheets' /\ Recordable(p.export)'
                       /\ drives'[d][p] = <<"signature", WholeReport(p.export)'>>
  BY DEF SignaturesAreWhole
<1>1. \/ drives[d][p] \in {<<>>, <<"signature">>}
      \/ /\ p.export \in DOMAIN sheets /\ Recordable(p.export)
         /\ drives[d][p] = <<"signature", WholeReport(p.export)>>
  BY DEF SignaturesAreWhole
<1>2. Front(<<>>) = <<>> /\ Front(<<"signature">>) = <<>>
  BY DEF Front
<1>3. ASSUME NEW x PROVE Front(<<"signature", x>>) = <<"signature">>
  <2>1. PICK s : s = <<"signature", x>>
    OBVIOUS
  <2>2. Len(s) = 2 /\ s[1] = "signature"
    BY <2>1
  <2>3. Front(s) = SubSeq(s, 1, 1)
    BY <2>2 DEF Front
  <2>4. SubSeq(s, 1, 1) \in Seq({"signature"}) /\ Len(SubSeq(s, 1, 1)) = 1 /\ SubSeq(s, 1, 1)[1] = s[1]
    BY <2>2, SubSeqProperties
  <2> QED
    BY <2>1, <2>2, <2>3, <2>4
<1>4. CASE drives[d][p] \in {<<>>, <<"signature">>}
  BY <1>2, <1>4
<1>5. CASE /\ p.export \in DOMAIN sheets /\ Recordable(p.export)
           /\ drives[d][p] = <<"signature", WholeReport(p.export)>>
  <2>1. PICK x : x = WholeReport(p.export)
    OBVIOUS
  <2>2. /\ p.export \in DOMAIN sheets' /\ Recordable(p.export)' /\ WholeReport(p.export)' = x
    BY <1>5, <2>1, ReportsStay
  <2>3. drives[d][p] = <<"signature", x>> /\ Front(drives[d][p]) = <<"signature">>
    BY <1>3, <1>5, <2>1
  <2> QED
    BY <2>2, <2>3
<1> QED
  BY <1>1, <1>4, <1>5

LEMMA ExportInvariantInit == ExportInit => ExportInvariant
<1> SUFFICES ASSUME ExportInit PROVE ExportInvariant
  OBVIOUS
<1>1. DOMAIN NoFiles = {}
  BY DEF NoFiles
<1>2. \A d \in Drives : DOMAIN drives[d] = {}
  BY <1>1 DEF ExportInit
<1>3. ExportTypeOK
  BY <1>2 DEF ExportTypeOK, ExportInit, NoExport, ExportPcs, ExportJobs
<1> QED
  BY <1>1, <1>2, <1>3 DEF ExportInvariant, ExportInit, RunningIsTheLast, MachineHasTheContents,
     SignaturesAreWhole, NoExport

LEMMA JobGoesTo ==
    ASSUME NEW o \in ExportJobs, NEW pc \in ExportPcs, NEW part \in Nat \ {0}, NEW todo \in Seq(Paths)
    PROVE  LET next == [o EXCEPT !.pc = pc, !.part = part, !.todo = todo] IN
           next \in ExportJobs /\ next.pc = pc /\ next.part = part /\ next.n = o.n /\ next.todo = todo
BY DEF ExportJobs

\* The temporary directory is empty, and the export is over.
LEMMA FinishKeepsExport ==
    ASSUME ExportInvariant, NEW result \in Endings, job.pc # "idle",
           results' = [results EXCEPT ![job.n] = result], job' = NoExport, machine' = NoFiles,
           sheets' = sheets, plugged' = plugged, stayed' = stayed, dirty' \subseteq Paths, DOMAIN drives' = Drives,
           \A d \in Drives : DOMAIN drives'[d] \subseteq Paths, SignaturesAreWhole'
    PROVE  ExportInvariant'
<1>1. job.n \in 1 .. Len(results) /\ results' = [results EXCEPT ![job.n] = result]
  BY DEF ExportInvariant, ExportTypeOK, RunningIsTheLast
<1>2. results' \in Seq(Endings) /\ Len(results') = Len(results)
  BY <1>1, ExceptSeq DEF ExportInvariant, ExportTypeOK
<1>3. job' = NoExport /\ machine' = NoFiles /\ DOMAIN machine' = {}
  BY DEF NoFiles
<1>4. ExportTypeOK'
  <2>1. NoExport \in ExportJobs
    BY DEF NoExport, ExportPcs, ExportJobs
  <2> QED
    BY <1>2, <1>3, <2>1 DEF ExportInvariant, ExportTypeOK
<1> QED
  BY <1>3, <1>4 DEF ExportInvariant, RunningIsTheLast, MachineHasTheContents, NoExport

\* An export that goes on, with the same files done and to do.
LEMMA GoingOnKeepsExport ==
    ASSUME ExportInvariant, job.pc # "idle",
           NEW pc \in ExportPcs \ {"idle"}, NEW part \in Nat \ {0},
           job' = [job EXCEPT !.pc = pc, !.part = part],
           pc \in {"sign", "signSync"} <=> job.pc \in {"sign", "signSync"},
           pc \in {"drive", "write", "rename", "sync"} => job.pc # "machine",
           machine' = machine, results' = results,
           sheets' = sheets, plugged' = plugged, stayed' = stayed,
           dirty' \subseteq Paths, DOMAIN drives' = Drives,
           \A d \in Drives : DOMAIN drives'[d] \subseteq Paths, SignaturesAreWhole'
    PROVE  ExportInvariant'
<1>1. /\ job' \in ExportJobs
      /\ job'.pc = pc /\ job'.n = job.n /\ job'.todo = job.todo
  BY DEF ExportInvariant, ExportTypeOK, ExportJobs
<1>2. ExportTypeOK'
  BY <1>1 DEF ExportInvariant, ExportTypeOK
<1>3. \A n : ReportFiles(n)' = ReportFiles(n) /\ (Recordable(n)' <=> Recordable(n))
  BY DEF ReportFiles, Recordable
<1>4. \A p : Content(p)' = Content(p)
  BY DEF Content, ReportContent
<1>5. RunningIsTheLast'
  <2>1. PICK n : n = job.n
    OBVIOUS
  <2>2. job'.n = n
    BY <1>1, <2>1
  <2>3. /\ n = Len(sheets) /\ n > 0 /\ results[n] = "running"
        /\ ReportFiles(n) = DOMAIN machine \cup Range(job.todo)
        /\ job.pc \in {"sign", "signSync"} <=> job.todo = <<>>
        /\ job.pc \in {"drive", "write", "rename", "sync"} => Head(job.todo) \in DOMAIN machine
        /\ ReportPath(n) \in DOMAIN machine => Recordable(n)
    BY <2>1 DEF ExportInvariant, RunningIsTheLast
  <2>4. pc \in {"drive", "write", "rename", "sync"} => job.pc \in {"drive", "write", "rename", "sync"}
    BY DEF ExportInvariant, ExportTypeOK, ExportPcs, ExportJobs
  <2>5. /\ n = Len(sheets') /\ n > 0 /\ results'[n] = "running"
        /\ ReportFiles(n)' = DOMAIN machine' \cup Range(job'.todo)
        /\ pc \in {"sign", "signSync"} <=> job'.todo = <<>>
        /\ pc \in {"drive", "write", "rename", "sync"} => Head(job'.todo) \in DOMAIN machine'
        /\ ReportPath(n) \in DOMAIN machine' => Recordable(n)'
    BY <1>1, <1>3, <2>3, <2>4
  <2> QED
    BY <1>1, <2>2, <2>5 DEF RunningIsTheLast
<1>6. MachineHasTheContents'
  BY <1>4 DEF ExportInvariant, MachineHasTheContents
<1> QED
  BY <1>2, <1>5, <1>6 DEF ExportInvariant

LEMMA StartExportKeepsExport ==
    ASSUME ExportInvariant, StartExport
    PROVE  ExportInvariant'
<1>1. PICK list \in SheetLists :
        /\ sheets' = Append(sheets, list)
        /\ job' = [pc |-> "machine", n |-> Len(results) + 1,
                   todo |-> FilesOf(Len(results) + 1, list), part |-> 1]
  BY DEF StartExport
<1>2. PICK n : n = Len(results) + 1
  OBVIOUS
<1>3. list \in Seq(Sheets) /\ n \in Nat /\ n > 0 /\ n = Len(sheets) + 1
  BY <1>2, ExportAssumption DEF ExportInvariant, ExportTypeOK
<1>4. FilesOf(n, list) \in Seq(Paths) /\ FilesOf(n, list) # <<>>
  BY <1>3, ReportHasFiles
<1>5. /\ sheets' \in Seq(Seq(Sheets)) /\ Len(sheets') = n /\ sheets'[n] = list
      /\ results' \in Seq(Endings) /\ Len(results') = n /\ results'[n] = "running"
      /\ stayed' \in Seq(BOOLEAN) /\ Len(stayed') = n
  <2>1. results' = Append(results, "running") /\ stayed' = Append(stayed, plugged # NoDrive)
    BY DEF StartExport
  <2>2. sheets \in Seq(Seq(Sheets)) /\ results \in Seq(Endings) /\ stayed \in Seq(BOOLEAN)
        /\ Len(results) = Len(sheets) /\ Len(stayed) = Len(sheets)
    BY DEF ExportInvariant, ExportTypeOK
  <2>3. sheets' \in Seq(Seq(Sheets)) /\ Len(sheets') = n /\ sheets'[n] = list
    BY <1>1, <1>3, <2>2, AppendProperties
  <2>4. results' \in Seq(Endings) /\ Len(results') = n /\ results'[n] = "running"
    BY <1>2, <2>1, <2>2, AppendProperties DEF Endings
  <2>5. PICK here \in BOOLEAN : stayed' = Append(stayed, here)
    BY <2>1
  <2>6. stayed' \in Seq(BOOLEAN) /\ Len(stayed') = n
    BY <1>3, <2>5, <2>2, AppendProperties
  <2> QED
    BY <2>3, <2>4, <2>6
<1>6. /\ job' \in ExportJobs
      /\ job'.pc = "machine" /\ job'.n = n /\ job'.todo = FilesOf(n, list)
  BY <1>1, <1>2, <1>3, <1>4 DEF ExportPcs, ExportJobs
<1>7. ExportTypeOK'
  BY <1>5, <1>6 DEF StartExport, ExportInvariant, ExportTypeOK
<1>8. DOMAIN machine' = {}
  BY DEF StartExport, ExportInvariant, RunningIsTheLast, NoExport
<1>9. ReportFiles(n)' = Range(FilesOf(n, list))
  BY <1>5 DEF ReportFiles
<1>10. RunningIsTheLast'
  BY <1>3, <1>4, <1>5, <1>6, <1>8, <1>9 DEF RunningIsTheLast
<1>11. MachineHasTheContents'
  BY <1>8 DEF MachineHasTheContents
<1>12. SignaturesAreWhole'
  BY <1>1, <1>3, SignaturesStay DEF StartExport, ExportInvariant
<1> QED
  BY <1>7, <1>10, <1>11, <1>12 DEF ExportInvariant

LEMMA WriteToMachineKeepsExport ==
    ASSUME ExportInvariant, WriteToMachine
    PROVE  ExportInvariant'
<1>1. job.pc = "machine" /\ drives' = drives /\ plugged' = plugged /\ dirty' = dirty /\ sheets' = sheets /\ stayed' = stayed
  BY DEF WriteToMachine
<1>2. SignaturesAreWhole' /\ dirty' \subseteq Paths /\ DOMAIN drives' = Drives
      /\ \A d \in Drives : DOMAIN drives'[d] \subseteq Paths
  BY <1>1, SignaturesStay DEF ExportInvariant, ExportTypeOK
<1>3. CASE Finish("invalid-sheet-found")
  BY <1>1, <1>2, <1>3, FinishKeepsExport DEF Finish, Endings
<1>4. CASE /\ ~(Head(job.todo).kind = "report" /\ \E sheet \in Range(sheets[job.n]) : sheet.type = "invalid")
           /\ machine' = With(machine, Head(job.todo), Content(Head(job.todo)))
           /\ job' = [job EXCEPT !.pc = "drive", !.part = 1]
           /\ UNCHANGED results
  <2>1. PICK p : p = Head(job.todo)
    OBVIOUS
  <2>2. p \in Range(job.todo) /\ job.n \in DOMAIN sheets /\ job.todo # <<>>
    BY <1>1, <2>1, HeadTailProperties, RangeEquality DEF ExportInvariant, ExportTypeOK, RunningIsTheLast, ExportJobs
  <2>0. machine' = With(machine, p, Content(p)) /\ job' = [job EXCEPT !.pc = "drive", !.part = 1]
        /\ results' = results
    BY <1>4, <2>1
  <2>3. /\ job' \in ExportJobs
        /\ job'.pc = "drive" /\ job'.n = job.n /\ job'.todo = job.todo
    <3>1. PICK pc, part : pc = "drive" /\ part = 1
      OBVIOUS
    <3>2. pc \in ExportPcs /\ part \in Nat \ {0}
      BY <3>1 DEF ExportPcs
    <3>3. job' = [job EXCEPT !.pc = pc, !.part = part] /\ job \in ExportJobs
      BY <2>0, <3>1 DEF ExportInvariant, ExportTypeOK
    <3> QED
      BY <3>1, <3>2, <3>3 DEF ExportJobs
  <2>4. ExportTypeOK'
    BY <1>1, <1>2, <2>0, <2>3 DEF ExportInvariant, ExportTypeOK
  <2>5. /\ DOMAIN machine' = DOMAIN machine \cup {p} /\ machine'[p] = Content(p)
        /\ \A q \in DOMAIN machine : q # p => machine'[q] = machine[q]
    <3>1. PICK c : c = Content(p)
      OBVIOUS
    <3>2. machine' = With(machine, p, c)
      BY <2>0, <3>1
    <3>3. /\ DOMAIN With(machine, p, c) = DOMAIN machine \cup {p} /\ With(machine, p, c)[p] = c
          /\ \A q \in DOMAIN machine : q # p => With(machine, p, c)[q] = machine[q]
      BY DEF With
    <3> QED
      BY <3>1, <3>2, <3>3
  <2>6. PICK n : n = job.n
    OBVIOUS
  <2>7. ReportPath(job.n) = p => Recordable(job.n)
    BY <1>4, <2>1 DEF ReportPath, Path, Recordable
  <2>8. ReportFiles(n)' = ReportFiles(n) /\ (Recordable(n)' <=> Recordable(n))
    BY <1>1 DEF ReportFiles, Recordable
  <2>9. \A q : Content(q)' = Content(q)
    BY <1>1 DEF Content, ReportContent
  <2>10. /\ n = Len(sheets) /\ n > 0 /\ results[n] = "running"
         /\ ReportFiles(n) = DOMAIN machine \cup Range(job.todo)
         /\ ReportPath(n) \in DOMAIN machine => Recordable(n)
    BY <1>1, <2>6 DEF ExportInvariant, RunningIsTheLast
  <2>11. RunningIsTheLast'
    <3>1. /\ n = Len(sheets') /\ n > 0 /\ results'[n] = "running"
          /\ ReportFiles(n)' = DOMAIN machine' \cup Range(job'.todo)
          /\ job'.todo # <<>> /\ Head(job'.todo) \in DOMAIN machine'
          /\ ReportPath(n) \in DOMAIN machine' => Recordable(n)'
      BY <1>1, <2>0, <2>1, <2>2, <2>3, <2>5, <2>6, <2>7, <2>8, <2>10
    <3>2. job'.n = n
      BY <2>3, <2>6
    <3> QED
      BY <2>3, <3>1, <3>2 DEF RunningIsTheLast
  <2>12. MachineHasTheContents'
    BY <2>5, <2>9 DEF ExportInvariant, MachineHasTheContents
  <2> QED
    BY <1>2, <2>4, <2>11, <2>12 DEF ExportInvariant
<1> QED
  BY <1>1, <1>3, <1>4 DEF WriteToMachine

LEMMA FindDriveKeepsExport ==
    ASSUME ExportInvariant, FindDrive
    PROVE  ExportInvariant'
<1>1. job.pc = "drive" /\ drives' = drives /\ plugged' = plugged /\ dirty' = dirty /\ sheets' = sheets /\ stayed' = stayed
  BY DEF FindDrive
<1>2. SignaturesAreWhole' /\ dirty' \subseteq Paths /\ DOMAIN drives' = Drives
      /\ \A d \in Drives : DOMAIN drives'[d] \subseteq Paths
  BY <1>1, SignaturesStay DEF ExportInvariant, ExportTypeOK
<1>3. CASE Finish("missing-usb-drive")
  BY <1>1, <1>2, <1>3, FinishKeepsExport DEF Finish, Endings
<1>4. CASE Goto("write")
  <2>1. job' = [job EXCEPT !.pc = "write", !.part = job.part] /\ job.part \in Nat \ {0}
    BY <1>4 DEF Goto, ExportInvariant, ExportTypeOK, ExportJobs
  <2> QED
    BY <1>1, <1>2, <1>4, <2>1, GoingOnKeepsExport DEF Goto, ExportPcs
<1> QED
  BY <1>1, <1>3, <1>4 DEF FindDrive

\* A write to the drive that is in leaves the others.
LEMMA OneDriveChanges ==
    ASSUME ExportTypeOK, plugged # NoDrive, NEW files, DOMAIN files \subseteq Paths,
           drives' = [drives EXCEPT ![plugged] = files]
    PROVE  /\ plugged \in Drives /\ DOMAIN drives' = Drives /\ drives'[plugged] = files
           /\ \A d \in Drives : d # plugged => drives'[d] = drives[d]
           /\ \A d \in Drives : DOMAIN drives'[d] \subseteq Paths
BY DEF ExportTypeOK

\* The file that a running export is at.
LEMMA HeadIsOfTheReport ==
    ASSUME ExportInvariant, job.pc \in {"machine", "drive", "write", "rename", "sync"}
    PROVE  /\ job.n \in DOMAIN sheets /\ job.todo # <<>>
           /\ Head(job.todo) \in Range(job.todo) /\ Head(job.todo) \in ReportFiles(job.n)
           /\ Head(job.todo) \in Paths /\ Head(job.todo).export = job.n
           /\ Head(job.todo).kind \in {"report", "image", "layout"} /\ Head(job.todo).part = 0
<1>1. job.n \in DOMAIN sheets /\ job.todo # <<>> /\ job.todo \in Seq(Paths)
  BY DEF ExportInvariant, ExportTypeOK, RunningIsTheLast, ExportJobs
<1>2. Head(job.todo) \in Range(job.todo)
  BY <1>1, HeadTailProperties, RangeEquality
<1>3. Head(job.todo) \in ReportFiles(job.n)
  BY <1>2 DEF ExportInvariant, RunningIsTheLast
<1> QED
  BY <1>1, <1>2, <1>3, ReportsOwnFiles DEF ExportInvariant

LEMMA WritePartKeepsExport ==
    ASSUME ExportInvariant, WritePart
    PROVE  ExportInvariant'
<1> DEFINE path == [Head(job.todo) EXCEPT !.part = job.part]
           piece == PartOf(machine[Head(job.todo)], job.part)
<1>1. job.pc = "write" /\ plugged' = plugged /\ sheets' = sheets /\ stayed' = stayed
  BY DEF WritePart
<1>2. CASE Finish("threw") /\ drives' = drives /\ dirty' = dirty
  <2>1. SignaturesAreWhole' /\ dirty' \subseteq Paths /\ DOMAIN drives' = Drives
        /\ \A d \in Drives : DOMAIN drives'[d] \subseteq Paths
    BY <1>1, <1>2, SignaturesStay DEF ExportInvariant, ExportTypeOK
  <2> QED
    BY <1>1, <1>2, <2>1, FinishKeepsExport DEF Finish, Endings
<1>3. CASE /\ plugged # NoDrive
           /\ drives' = [drives EXCEPT ![plugged] = With(@, path, piece)]
           /\ dirty' = dirty \cup {path}
           /\ \/ job' = [job EXCEPT !.part = @ + 1]
              \/ job' = [job EXCEPT !.pc = "rename"]
              \/ job' = [job EXCEPT !.pc = "sync"]
           /\ UNCHANGED <<machine, results>>
  <2>1. PICK q, c : q = path /\ c = piece
    OBVIOUS
  <2>2. job \in ExportJobs
    BY DEF ExportInvariant, ExportTypeOK
  <2>3. q \in Paths /\ q.kind # "signature"
    <3>1. PICK p, part : p = Head(job.todo) /\ part = job.part
      OBVIOUS
    <3>2. p \in Paths /\ p.kind \in {"report", "image", "layout"} /\ part \in Nat
      BY <1>1, <2>2, <3>1, HeadIsOfTheReport DEF ExportJobs
    <3>3. q = [p EXCEPT !.part = part]
      BY <2>1, <3>1
    <3> QED
      BY <3>2, <3>3 DEF Paths
  <2>4. PICK files : files = With(drives[plugged], q, c)
    OBVIOUS
  <2>5. DOMAIN files = DOMAIN drives[plugged] \cup {q}
        /\ \A p \in DOMAIN drives[plugged] : p # q => files[p] = drives[plugged][p]
    BY <2>4 DEF With
  <2>6. drives' = [drives EXCEPT ![plugged] = files]
    BY <1>3, <2>1, <2>4
  <2>7. DOMAIN files \subseteq Paths
    BY <1>3, <2>3, <2>5 DEF ExportInvariant, ExportTypeOK
  <2>8. /\ plugged \in Drives /\ DOMAIN drives' = Drives /\ drives'[plugged] = files
        /\ \A d \in Drives : d # plugged => drives'[d] = drives[d]
        /\ \A d \in Drives : DOMAIN drives'[d] \subseteq Paths
    BY <1>3, <2>6, <2>7, OneDriveChanges DEF ExportInvariant
  <2>9. SignaturesAreWhole'
    <3>1. ASSUME NEW d \in Drives, NEW p \in DOMAIN drives'[d], p.kind = "signature"
          PROVE  p \in DOMAIN drives[d] /\ drives'[d][p] = drives[d][p]
      BY <2>3, <2>5, <2>8, <3>1
    <3> QED
      BY <1>1, <3>1, SignaturesStay DEF ExportInvariant
  <2>10. dirty' \subseteq Paths
    BY <1>3, <2>1, <2>3 DEF ExportInvariant, ExportTypeOK
  <2>11. \E pc \in {"write", "rename", "sync"}, part \in Nat \ {0} : job' = [job EXCEPT !.pc = pc, !.part = part]
    <3>1. PICK part : part = job.part
      OBVIOUS
    <3>2. part \in Nat \ {0} /\ part + 1 \in Nat \ {0}
      BY <2>2, <3>1 DEF ExportJobs
    <3>3. CASE job' = [job EXCEPT !.part = @ + 1]
      <4>1. job' = [job EXCEPT !.pc = "write", !.part = part + 1]
        BY <1>1, <2>2, <3>1, <3>3 DEF ExportJobs
      <4> QED
        BY <3>2, <4>1
    <3>4. CASE job' = [job EXCEPT !.pc = "rename"]
      <4>1. job' = [job EXCEPT !.pc = "rename", !.part = part]
        BY <2>2, <3>1, <3>4 DEF ExportJobs
      <4> QED
        BY <3>2, <4>1
    <3>5. CASE job' = [job EXCEPT !.pc = "sync"]
      <4>1. job' = [job EXCEPT !.pc = "sync", !.part = part]
        BY <2>2, <3>1, <3>5 DEF ExportJobs
      <4> QED
        BY <3>2, <4>1
    <3> QED
      BY <1>3, <3>3, <3>4, <3>5
  <2> QED
    BY <1>1, <1>3, <2>8, <2>9, <2>10, <2>11, GoingOnKeepsExport DEF ExportPcs
<1> QED
  BY <1>1, <1>2, <1>3 DEF WritePart

LEMMA RenamePartKeepsExport ==
    ASSUME ExportInvariant, RenamePart
    PROVE  ExportInvariant'
<1> DEFINE path == Head(job.todo)
           part == [path EXCEPT !.part = 1]
<1>1. job.pc = "rename" /\ plugged' = plugged /\ sheets' = sheets /\ stayed' = stayed
  BY DEF RenamePart
<1>2. CASE Finish("threw") /\ drives' = drives /\ dirty' = dirty
  <2>1. SignaturesAreWhole' /\ dirty' \subseteq Paths /\ DOMAIN drives' = Drives
        /\ \A d \in Drives : DOMAIN drives'[d] \subseteq Paths
    BY <1>1, <1>2, SignaturesStay DEF ExportInvariant, ExportTypeOK
  <2> QED
    BY <1>1, <1>2, <2>1, FinishKeepsExport DEF Finish, Endings
<1>3. CASE /\ plugged # NoDrive
           /\ drives' = [drives EXCEPT ![plugged] = SingleFile(@, part, path)]
           /\ dirty' = (dirty \ {part}) \cup {path}
           /\ Goto("sync")
  <2>1. PICK q, r : q = path /\ r = part
    OBVIOUS
  <2>2. q \in Paths /\ q.kind # "signature"
    BY <1>1, <2>1, HeadIsOfTheReport
  <2>3. PICK files : files = SingleFile(drives[plugged], r, q)
    OBVIOUS
  <2>4. /\ DOMAIN files = (DOMAIN drives[plugged] \ {r}) \cup {q}
        /\ \A p \in DOMAIN drives[plugged] : p # q /\ p # r => files[p] = drives[plugged][p]
    BY <2>3 DEF SingleFile, With, Without, Restrict
  <2>5. drives' = [drives EXCEPT ![plugged] = files]
    BY <1>3, <2>1, <2>3
  <2>6. DOMAIN files \subseteq Paths
    BY <1>3, <2>2, <2>4 DEF ExportInvariant, ExportTypeOK
  <2>7. /\ plugged \in Drives /\ DOMAIN drives' = Drives /\ drives'[plugged] = files
        /\ \A d \in Drives : d # plugged => drives'[d] = drives[d]
        /\ \A d \in Drives : DOMAIN drives'[d] \subseteq Paths
    BY <1>3, <2>5, <2>6, OneDriveChanges DEF ExportInvariant
  <2>8. SignaturesAreWhole'
    <3>1. ASSUME NEW d \in Drives, NEW p \in DOMAIN drives'[d], p.kind = "signature"
          PROVE  p \in DOMAIN drives[d] /\ drives'[d][p] = drives[d][p]
      BY <2>2, <2>4, <2>7, <3>1
    <3> QED
      BY <1>1, <3>1, SignaturesStay DEF ExportInvariant
  <2>9. dirty' \subseteq Paths
    BY <1>3, <2>1, <2>2 DEF ExportInvariant, ExportTypeOK
  <2>10. job' = [job EXCEPT !.pc = "sync", !.part = job.part] /\ job.part \in Nat \ {0}
    BY <1>3 DEF Goto, ExportInvariant, ExportTypeOK, ExportJobs
  <2>11. machine' = machine /\ results' = results
    BY <1>3 DEF Goto
  <2> QED
    BY <1>1, <2>7, <2>8, <2>9, <2>10, <2>11, GoingOnKeepsExport DEF ExportPcs
<1> QED
  BY <1>1, <1>2, <1>3 DEF RenamePart

LEMMA SyncFileKeepsExport ==
    ASSUME ExportInvariant, SyncFile
    PROVE  ExportInvariant'
<1>1. job.pc = "sync" /\ drives' = drives /\ plugged' = plugged /\ sheets' = sheets /\ stayed' = stayed
  BY DEF SyncFile
<1>2. SignaturesAreWhole' /\ DOMAIN drives' = Drives
      /\ \A d \in Drives : DOMAIN drives'[d] \subseteq Paths
  BY <1>1, SignaturesStay DEF ExportInvariant, ExportTypeOK
<1>3. CASE Finish("threw") /\ dirty' = dirty
  <2>1. dirty' \subseteq Paths
    BY <1>3 DEF ExportInvariant, ExportTypeOK
  <2> QED
    BY <1>1, <1>2, <1>3, <2>1, FinishKeepsExport DEF Finish, Endings
<1>4. CASE /\ dirty' = {}
           /\ job' = [job EXCEPT !.todo = Tail(@),
                                  !.pc = IF Len(job.todo) > 1 THEN "machine" ELSE "sign"]
           /\ UNCHANGED <<machine, results>>
  <2>1. PICK n, todo, rest, pc : n = job.n /\ todo = job.todo /\ rest = Tail(todo)
          /\ pc = IF Len(todo) > 1 THEN "machine" ELSE "sign"
    OBVIOUS
  <2>2. job \in ExportJobs /\ todo \in Seq(Paths) /\ todo # <<>>
    BY <1>1, <2>1, HeadIsOfTheReport DEF ExportInvariant, ExportTypeOK, ExportJobs
  <2>3. rest \in Seq(Paths) /\ Len(rest) = Len(todo) - 1 /\ Range(todo) = Range(rest) \cup {Head(todo)}
    <3>1. rest \in Seq(Paths) /\ Len(rest) = Len(todo) - 1 /\ \A i \in 1 .. Len(rest) : rest[i] = todo[i + 1]
      BY <2>1, <2>2, HeadTailProperties
    <3>2. DOMAIN todo = 1 .. Len(todo) /\ DOMAIN rest = 1 .. Len(rest) /\ Len(todo) \in Nat \ {0}
          /\ Head(todo) = todo[1]
      BY <2>2, <3>1, LenProperties, EmptySeq
    <3>3. ASSUME NEW i \in DOMAIN todo PROVE i = 1 \/ \E j \in DOMAIN rest : rest[j] = todo[i]
      <4>1. i = 1 \/ (i - 1 \in DOMAIN rest /\ rest[i - 1] = todo[(i - 1) + 1])
        BY <3>1, <3>2
      <4> QED
        BY <4>1, <3>2
    <3>4. ASSUME NEW j \in DOMAIN rest PROVE \E i \in DOMAIN todo : rest[j] = todo[i]
      BY <3>1, <3>2
    <3> QED
      BY <3>1, <3>2, <3>3, <3>4 DEF Range
  <2>4. pc \in {"machine", "sign"} /\ (pc = "sign" <=> rest = <<>>)
    <3>1. Len(todo) \in Nat \ {0}
      BY <2>2, EmptySeq
    <3>2. rest = <<>> <=> Len(rest) = 0
      BY <2>3, EmptySeq
    <3> QED
      BY <2>1, <2>3, <3>1, <3>2
  <2>5. /\ job' \in ExportJobs /\ job'.pc = pc /\ job'.n = n /\ job'.todo = rest
    <3>1. job' = [job EXCEPT !.todo = rest, !.pc = pc]
      BY <1>4, <2>1
    <3>2. pc \in ExportPcs
      BY <2>4 DEF ExportPcs
    <3> QED
      BY <2>1, <2>2, <2>3, <3>1, <3>2 DEF ExportJobs
  <2>6. ExportTypeOK'
    BY <1>1, <1>2, <1>4, <2>5 DEF ExportInvariant, ExportTypeOK
  <2>7. ReportFiles(n)' = ReportFiles(n) /\ (Recordable(n)' <=> Recordable(n)) /\ \A p : Content(p)' = Content(p)
    BY <1>1 DEF ReportFiles, Recordable, Content, ReportContent
  <2>8. RunningIsTheLast'
    <3>1. /\ n = Len(sheets) /\ n > 0 /\ results[n] = "running"
          /\ ReportFiles(n) = DOMAIN machine \cup Range(todo)
          /\ Head(todo) \in DOMAIN machine
          /\ ReportPath(n) \in DOMAIN machine => Recordable(n)
      BY <1>1, <2>1 DEF ExportInvariant, RunningIsTheLast
    <3>2. /\ n = Len(sheets') /\ n > 0 /\ results'[n] = "running"
          /\ ReportFiles(n)' = DOMAIN machine' \cup Range(rest)
          /\ ReportPath(n) \in DOMAIN machine' => Recordable(n)'
      BY <1>1, <1>4, <2>3, <2>7, <3>1
    <3> QED
      BY <2>4, <2>5, <3>2 DEF RunningIsTheLast
  <2>9. MachineHasTheContents'
    BY <1>4, <2>7 DEF ExportInvariant, MachineHasTheContents
  <2> QED
    BY <1>2, <2>6, <2>8, <2>9 DEF ExportInvariant
<1> QED
  BY <1>1, <1>3, <1>4 DEF SyncFile

LEMMA WriteSignatureKeepsExport ==
    ASSUME ExportInvariant, WriteSignature
    PROVE  ExportInvariant'
<1>1. job.pc = "sign" /\ plugged' = plugged /\ sheets' = sheets /\ stayed' = stayed
  BY DEF WriteSignature
<1>2. ASSUME NEW result \in Endings, Finish(result), drives' = drives, dirty' = dirty
      PROVE  ExportInvariant'
  <2>1. SignaturesAreWhole' /\ dirty' \subseteq Paths /\ DOMAIN drives' = Drives
        /\ \A d \in Drives : DOMAIN drives'[d] \subseteq Paths
    BY <1>1, <1>2, SignaturesStay DEF ExportInvariant, ExportTypeOK
  <2> QED
    BY <1>1, <1>2, <2>1, FinishKeepsExport DEF Finish
<1>3. CASE /\ plugged # NoDrive
           /\ drives' = [drives EXCEPT ![plugged] =
                            With(@, SignaturePath(job.n), <<"signature", Signed(job.n)>>)]
           /\ dirty' = {SignaturePath(job.n)}
           /\ Goto("signSync")
  <2>1. PICK n, q, c : n = job.n /\ q = SignaturePath(n) /\ c = <<"signature", WholeReport(n)>>
    OBVIOUS
  <2>2. n \in DOMAIN sheets /\ Recordable(n) /\ Signed(n) = WholeReport(n) /\ n \in Nat
    BY <1>1, <2>1, MachineIsWhole, ReportsOwnFiles DEF ExportInvariant
  <2>3. q \in Paths /\ q.kind = "signature" /\ q.export = n
    BY <2>1, <2>2 DEF SignaturePath, Path, Paths
  <2>4. PICK files : files = With(drives[plugged], q, c)
    OBVIOUS
  <2>5. DOMAIN files = DOMAIN drives[plugged] \cup {q} /\ files[q] = c
        /\ \A p \in DOMAIN drives[plugged] : p # q => files[p] = drives[plugged][p]
    BY <2>4 DEF With
  <2>6. drives' = [drives EXCEPT ![plugged] = files]
    BY <1>3, <2>1, <2>2, <2>4
  <2>7. DOMAIN files \subseteq Paths
    BY <1>3, <2>3, <2>5 DEF ExportInvariant, ExportTypeOK
  <2>8. /\ plugged \in Drives /\ DOMAIN drives' = Drives /\ drives'[plugged] = files
        /\ \A d \in Drives : d # plugged => drives'[d] = drives[d]
        /\ \A d \in Drives : DOMAIN drives'[d] \subseteq Paths
    BY <1>3, <2>6, <2>7, OneDriveChanges DEF ExportInvariant
  <2>9. SignaturesAreWhole'
    <3>1. SUFFICES ASSUME NEW d \in Drives, NEW p \in DOMAIN drives'[d], p.kind = "signature"
                   PROVE  \/ drives'[d][p] \in {<<>>, <<"signature">>}
                          \/ /\ p.export \in DOMAIN sheets' /\ Recordable(p.export)'
                             /\ drives'[d][p] = <<"signature", WholeReport(p.export)'>>
      BY DEF SignaturesAreWhole
    <3>2. ASSUME NEW m \in DOMAIN sheets
          PROVE  m \in DOMAIN sheets' /\ (Recordable(m)' <=> Recordable(m)) /\ WholeReport(m)' = WholeReport(m)
      BY <1>1, ReportsStay DEF ExportInvariant
    <3>3. CASE d = plugged /\ p = q
      <4>1. drives'[d][p] = <<"signature", WholeReport(n)>> /\ p.export = n
        BY <2>1, <2>3, <2>5, <2>8, <3>3
      <4> QED
        BY <2>2, <3>2, <4>1
    <3>4. CASE ~(d = plugged /\ p = q)
      <4>1. p \in DOMAIN drives[d] /\ drives'[d][p] = drives[d][p]
        BY <2>5, <2>8, <3>4
      <4>2. \/ drives[d][p] \in {<<>>, <<"signature">>}
            \/ /\ p.export \in DOMAIN sheets /\ Recordable(p.export)
               /\ drives[d][p] = <<"signature", WholeReport(p.export)>>
        BY <3>1, <4>1 DEF ExportInvariant, SignaturesAreWhole
      <4> QED
        BY <3>2, <4>1, <4>2
    <3> QED
      BY <3>3, <3>4
  <2>10. dirty' \subseteq Paths
    BY <1>3, <2>1, <2>3
  <2>11. job' = [job EXCEPT !.pc = "signSync", !.part = job.part] /\ job.part \in Nat \ {0}
         /\ machine' = machine /\ results' = results
    BY <1>3 DEF Goto, ExportInvariant, ExportTypeOK, ExportJobs
  <2> QED
    BY <1>1, <2>8, <2>9, <2>10, <2>11, GoingOnKeepsExport DEF ExportPcs
<1> QED
  BY <1>1, <1>2, <1>3 DEF WriteSignature, Endings

LEMMA SyncSignatureKeepsExport ==
    ASSUME ExportInvariant, SyncSignature
    PROVE  ExportInvariant'
<1>1. /\ job.pc = "signSync" /\ drives' = drives /\ plugged' = plugged /\ sheets' = sheets /\ stayed' = stayed
      /\ dirty' = IF plugged = NoDrive THEN dirty ELSE {}
  BY DEF SyncSignature
<1>2. PICK result \in Endings : Finish(result)
  BY DEF SyncSignature, Endings
<1>3. SignaturesAreWhole' /\ dirty' \subseteq Paths /\ DOMAIN drives' = Drives
      /\ \A d \in Drives : DOMAIN drives'[d] \subseteq Paths
  BY <1>1, SignaturesStay DEF ExportInvariant, ExportTypeOK
<1> QED
  BY <1>1, <1>2, <1>3, FinishKeepsExport DEF Finish

\* The export itself and the machine's files stay as they are.
LEMMA DrivesComeAndGo ==
    ASSUME ExportInvariant, machine' = machine, sheets' = sheets, job' = job, results' = results,
           plugged' \in Drives \cup {NoDrive}, stayed' \in Seq(BOOLEAN), Len(stayed') = Len(stayed),
           dirty' \subseteq dirty, DOMAIN drives' = Drives,
           \A d \in Drives : \A p \in DOMAIN drives'[d] :
              /\ p \in DOMAIN drives[d]
              /\ drives'[d][p] = drives[d][p] \/ drives'[d][p] = Front(drives[d][p])
    PROVE  ExportInvariant'
<1>1. ExportTypeOK'
  BY DEF ExportInvariant, ExportTypeOK
<1>2. RunningIsTheLast'
  BY DEF ExportInvariant, RunningIsTheLast, ReportFiles, Recordable
<1>3. \A p : Content(p)' = Content(p)
  BY DEF Content, ReportContent
<1>4. MachineHasTheContents'
  BY <1>3 DEF ExportInvariant, MachineHasTheContents
<1>5. SignaturesAreWhole'
  BY SignaturesStay DEF ExportInvariant
<1> QED
  BY <1>1, <1>2, <1>4, <1>5 DEF ExportInvariant

\* What is left of a drive that is pulled.
LEMMA PulledDrive ==
    ASSUME ExportInvariant, Pull
    PROVE  /\ plugged \in Drives /\ DOMAIN drives' = Drives
           /\ \A d \in Drives : d # plugged => drives'[d] = drives[d]
           /\ DOMAIN drives'[plugged] \subseteq DOMAIN drives[plugged]
           /\ \A p \in DOMAIN drives[plugged] \ dirty : p \in DOMAIN drives'[plugged]
           /\ \A p \in DOMAIN drives'[plugged] :
                 \/ drives'[plugged][p] = drives[plugged][p]
                 \/ p \in dirty /\ drives'[plugged][p] = Front(drives[plugged][p])
<1>1. PICK lost \in SUBSET dirty, torn \in SUBSET dirty :
        drives' = [drives EXCEPT ![plugged] =
            [p \in DOMAIN @ \ lost |-> IF p \in torn THEN Front(@[p]) ELSE @[p]]]
  BY DEF Pull
<1>2. PICK files : files = [p \in DOMAIN drives[plugged] \ lost |->
                              IF p \in torn THEN Front(drives[plugged][p]) ELSE drives[plugged][p]]
  OBVIOUS
<1>3. drives' = [drives EXCEPT ![plugged] = files]
  BY <1>1, <1>2
<1>4. plugged \in Drives /\ DOMAIN drives = Drives
  BY DEF Pull, ExportInvariant, ExportTypeOK
<1>5. DOMAIN drives' = Drives /\ drives'[plugged] = files
      /\ \A d \in Drives : d # plugged => drives'[d] = drives[d]
  BY <1>3, <1>4
<1>6. DOMAIN files = DOMAIN drives[plugged] \ lost
      /\ \A p \in DOMAIN files : files[p] = IF p \in torn THEN Front(drives[plugged][p]) ELSE drives[plugged][p]
  BY <1>2
<1> QED
  BY <1>4, <1>5, <1>6

LEMMA PullKeepsExport ==
    ASSUME ExportInvariant, Pull
    PROVE  ExportInvariant'
<1>1. machine' = machine /\ sheets' = sheets /\ job' = job /\ results' = results
      /\ plugged' = NoDrive /\ dirty' = {}
  BY DEF Pull
<1>2. stayed' \in Seq(BOOLEAN) /\ Len(stayed') = Len(stayed)
  <2>1. stayed \in Seq(BOOLEAN) /\ (job # NoExport => job.n \in 1 .. Len(stayed))
    BY DEF ExportInvariant, ExportTypeOK, RunningIsTheLast, ExportJobs
  <2>2. stayed' = stayed \/ (job # NoExport /\ stayed' = [stayed EXCEPT ![job.n] = FALSE])
    BY DEF Pull
  <2>3. CASE job # NoExport /\ stayed' = [stayed EXCEPT ![job.n] = FALSE]
    <3>1. PICK n, no : n = job.n /\ no = FALSE
      OBVIOUS
    <3>2. n \in 1 .. Len(stayed) /\ no \in BOOLEAN /\ stayed' = [stayed EXCEPT ![n] = no]
      BY <2>1, <2>3, <3>1
    <3> QED
      BY <2>1, <3>2, ExceptSeq
  <2> QED
    BY <2>1, <2>2, <2>3
<1>3. ASSUME NEW d \in Drives, NEW p \in DOMAIN drives'[d]
      PROVE  /\ p \in DOMAIN drives[d]
             /\ drives'[d][p] = drives[d][p] \/ drives'[d][p] = Front(drives[d][p])
  BY PulledDrive
<1> QED
  BY <1>1, <1>2, <1>3, PulledDrive, DrivesComeAndGo

LEMMA PlugInKeepsExport ==
    ASSUME ExportInvariant, PlugIn
    PROVE  ExportInvariant'
<1>1. /\ machine' = machine /\ sheets' = sheets /\ job' = job /\ results' = results
      /\ plugged' \in Drives /\ stayed' = stayed /\ dirty' = dirty /\ drives' = drives
  BY DEF PlugIn
<1> QED
  BY <1>1, DrivesComeAndGo DEF ExportInvariant, ExportTypeOK

LEMMA ExportNextKeepsExport == ExportInvariant /\ [ExportNext]_exportVars => ExportInvariant'
<1> SUFFICES ASSUME ExportInvariant, [ExportNext]_exportVars PROVE ExportInvariant'
  OBVIOUS
<1>1. CASE UNCHANGED exportVars
  <2>1. /\ machine' = machine /\ sheets' = sheets /\ job' = job /\ results' = results
        /\ plugged' = plugged /\ stayed' = stayed /\ dirty' = dirty /\ drives' = drives
    BY <1>1 DEF exportVars
  <2> QED
    BY <2>1, DrivesComeAndGo DEF ExportInvariant, ExportTypeOK
<1> QED
  BY <1>1, StartExportKeepsExport, WriteToMachineKeepsExport, FindDriveKeepsExport, WritePartKeepsExport,
     RenamePartKeepsExport, SyncFileKeepsExport, WriteSignatureKeepsExport, SyncSignatureKeepsExport,
     PullKeepsExport, PlugInKeepsExport DEF ExportNext

LEMMA ExportInvariantHolds == ExportSpec => []ExportInvariant
BY ExportInvariantInit, ExportNextKeepsExport, PTL DEF ExportSpec

\* A file system of which a report authenticates has all of its files.
LEMMA AuthenticFiles ==
    ASSUME ExportInvariant, NEW d \in Drives, NEW n \in DOMAIN sheets, Authentic(drives[d], n)
    PROVE  /\ Recordable(n)
           /\ \A p : p \in ReportFiles(n) <=>
                 p \in DOMAIN drives[d] /\ p.export = n /\ p.kind # "signature"
           /\ \A p \in ReportFiles(n) : drives[d][p] = Content(p)
<1>1. PICK files : files = drives[d]
  OBVIOUS
<1>2. SignaturePath(n) \in DOMAIN files /\ files[SignaturePath(n)] = <<"signature", Tree(files, n)>>
  BY <1>1 DEF Authentic
<1>3. SignaturePath(n).kind = "signature" /\ SignaturePath(n).export = n
  BY DEF SignaturePath, Path
<1>4. \A x : <<"signature", x>> \notin {<<>>, <<"signature">>}
  OBVIOUS
<1>5. Recordable(n) /\ <<"signature", Tree(files, n)>> = <<"signature", WholeReport(n)>>
  BY <1>1, <1>2, <1>3, <1>4 DEF ExportInvariant, SignaturesAreWhole
<1>6. Tree(files, n) = WholeReport(n)
  BY <1>5
<1>7. ASSUME NEW p \in ReportFiles(n)
      PROVE  /\ p \in DOMAIN files /\ p.export = n /\ p.kind # "signature" /\ files[p] = Content(p)
  <2>1. <<p, Content(p)>> \in Tree(files, n)
    BY <1>6 DEF WholeReport
  <2> QED
    BY <2>1 DEF Tree
<1>8. ASSUME NEW p \in DOMAIN files, p.export = n, p.kind # "signature"
      PROVE  p \in ReportFiles(n)
  <2>1. <<p, files[p]>> \in WholeReport(n)
    BY <1>6, <1>8 DEF Tree
  <2> QED
    BY <2>1 DEF WholeReport
<1> QED
  BY <1>1, <1>5, <1>7, <1>8

LEMMA ImportedIsTheReport ==
    ASSUME ExportInvariant, NEW n \in DOMAIN sheets
    PROVE  Tail(ReportContent(n)) = [i \in DOMAIN sheets[n] |-> CastVoteRecord(n, sheets[n][i])]
<1> DEFINE Made == {CastVoteRecord(n, sheets[n][i]) : i \in DOMAIN sheets[n]} \cup {"metadata"}
<1>1. PICK list : list = [i \in DOMAIN sheets[n] |-> CastVoteRecord(n, sheets[n][i])]
  OBVIOUS
<1>2. sheets[n] \in Seq(Sheets)
  BY ReportsOwnFiles DEF ExportInvariant
<1>3. list \in Seq(Made)
  <2>1. \A i \in DOMAIN list : list[i] \in Made
    BY <1>1
  <2>2. DOMAIN list = 1 .. Len(sheets[n]) /\ Len(sheets[n]) \in Nat
    BY <1>1, <1>2, LenProperties
  <2> HIDE DEF Made
  <2> QED
    BY <1>1, <2>1, <2>2
<1>4. "metadata" \in Made
  OBVIOUS
<1> HIDE DEF Made
<1>5. <<"metadata">> \in Seq(Made) /\ Len(<<"metadata">>) = 1
  BY <1>4
<1>6. PICK first : first = <<"metadata">>
  OBVIOUS
<1>7. /\ first \o list \in Seq(Made) /\ Len(first \o list) = Len(list) + 1
      /\ \A i \in 1 .. Len(list) + 1 : (first \o list)[i] = IF i <= 1 THEN first[i] ELSE list[i - 1]
  BY <1>3, <1>5, <1>6, ConcatProperties
<1>8. first \o list # <<>> /\ Len(list) \in Nat
  BY <1>3, <1>5, <1>6, <1>7, LenProperties
<1>9. /\ Tail(first \o list) \in Seq(Made) /\ Len(Tail(first \o list)) = Len(list)
      /\ \A i \in 1 .. Len(list) : Tail(first \o list)[i] = (first \o list)[i + 1]
  BY <1>7, <1>8, HeadTailProperties
<1>10. Tail(first \o list) = list
  <2>1. ASSUME NEW i \in 1 .. Len(list) PROVE Tail(first \o list)[i] = list[i]
    <3>1. i + 1 \in 1 .. Len(list) + 1 /\ ~(i + 1 <= 1) /\ (i + 1) - 1 = i
      BY <1>8
    <3> QED
      BY <1>7, <1>9, <3>1
  <2> QED
    BY <1>3, <1>9, <2>1, SeqEqual
<1> QED
  BY <1>1, <1>6, <1>10 DEF ReportContent

LEMMA AuthenticReportIsWhole == ExportInvariant => AuthenticIsWhole
<1> SUFFICES ASSUME ExportInvariant, NEW d \in Drives, NEW n \in DOMAIN sheets, Authentic(drives[d], n)
             PROVE  LET files == drives[d] IN
                    /\ ValidDirectory(files, n)
                    /\ Imported(files, n) = [i \in DOMAIN sheets[n] |-> CastVoteRecord(n, sheets[n][i])]
                    /\ \A record \in Range(Imported(files, n)) : \A w \in Range(record.writeIns) :
                          /\ WriteInFound(record, w)
                          /\ w.image # <<>> => w.image[1] \in DOMAIN files
  BY DEF AuthenticIsWhole
<1>1. PICK files : files = drives[d]
  OBVIOUS
<1>2. /\ Recordable(n)
      /\ \A p : p \in ReportFiles(n) <=> p \in DOMAIN files /\ p.export = n /\ p.kind # "signature"
      /\ \A p \in ReportFiles(n) : files[p] = Content(p)
  BY <1>1, AuthenticFiles
<1>3. n \in Nat /\ sheets[n] \in Seq(Sheets) /\ ReportPath(n) \in ReportFiles(n)
  BY ReportsOwnFiles DEF ExportInvariant
<1>4. \A p : p \in ReportFiles(n) <=>
                 \/ p = ReportPath(n)
                 \/ \E i \in DOMAIN sheets[n] : \E side \in sheets[n][i].writeIns :
                       /\ sheets[n][i].type = "hmpb"
                       /\ \/ p = Path(n, "image", sheets[n][i].id, side, 0)
                          \/ p = Path(n, "layout", sheets[n][i].id, side, 0)
  BY <1>3, ReportHasFiles DEF ReportFiles
<1>5. ValidDirectory(files, n)
  <2>1. ASSUME NEW p \in DOMAIN files, p.export = n, p.kind = "image"
        PROVE  [p EXCEPT !.kind = "layout"] \in DOMAIN files
    <3>1. p \in ReportFiles(n) /\ p # ReportPath(n)
      BY <1>2, <2>1 DEF ReportPath, Path
    <3>2. PICK i \in DOMAIN sheets[n] : \E side \in sheets[n][i].writeIns :
             /\ sheets[n][i].type = "hmpb"
             /\ \/ p = Path(n, "image", sheets[n][i].id, side, 0)
                \/ p = Path(n, "layout", sheets[n][i].id, side, 0)
      BY <1>4, <3>1
    <3>3. PICK side \in sheets[n][i].writeIns :
             /\ sheets[n][i].type = "hmpb"
             /\ \/ p = Path(n, "image", sheets[n][i].id, side, 0)
                \/ p = Path(n, "layout", sheets[n][i].id, side, 0)
      BY <3>2
    <3>4. p = Path(n, "image", sheets[n][i].id, side, 0)
      BY <2>1, <3>3 DEF Path
    <3>5. [p EXCEPT !.kind = "layout"] = Path(n, "layout", sheets[n][i].id, side, 0)
      BY <3>4 DEF Path
    <3>6. Path(n, "layout", sheets[n][i].id, side, 0) \in ReportFiles(n)
      BY <1>4, <3>3
    <3> QED
      BY <1>2, <3>5, <3>6
  <2> QED
    BY <1>2, <1>3, <2>1 DEF ValidDirectory
<1>6. Imported(files, n) = [i \in DOMAIN sheets[n] |-> CastVoteRecord(n, sheets[n][i])]
  <2>1. files[ReportPath(n)] = ReportContent(n)
    BY <1>2, <1>3 DEF Content, ReportPath, Path
  <2> QED
    BY <2>1, ImportedIsTheReport DEF Imported
<1>7. ASSUME NEW record \in Range(Imported(files, n)), NEW w \in Range(record.writeIns)
      PROVE  WriteInFound(record, w) /\ (w.image # <<>> => w.image[1] \in DOMAIN files)
  <2>1. PICK i \in DOMAIN sheets[n] : record = CastVoteRecord(n, sheets[n][i])
    BY <1>6 DEF Range
  <2>2. PICK sheet : sheet = sheets[n][i]
    OBVIOUS
  <2>3. sheet \in Sheets /\ sheet.type \in {"hmpb", "bmd"}
    <3>1. sheet \in Sheets /\ sheet \in Range(sheets[n])
      BY <1>3, <2>2, ElementOfSeq, LenProperties DEF Range
    <3> QED
      BY <1>2, <3>1 DEF Sheets, Recordable
  <2>4. PICK side \in sheet.writeIns :
          w = IF sheet.type = "bmd" THEN [text |-> "name", image |-> <<>>]
              ELSE [text |-> "", image |-> ImageOf(n, sheet, side)]
    BY <2>1, <2>2 DEF CastVoteRecord, Range
  <2>5. CASE sheet.type = "bmd"
    BY <2>4, <2>5 DEF WriteInFound
  <2>6. CASE sheet.type = "hmpb"
    <3>1. PICK q : q = Path(n, "image", sheet.id, side, 0)
      OBVIOUS
    <3>2. w.image = <<q>> /\ ImageOf(n, sheet, side) = <<q>>
      BY <2>4, <2>6, <3>1 DEF ImageOf
    <3>3. record.images = <<ImageOf(n, sheet, 1), ImageOf(n, sheet, 2)>>
      BY <2>1, <2>2, <2>6 DEF CastVoteRecord
    <3>4. side \in {1, 2}
      BY <2>3 DEF Sheets
    <3>5. side \in DOMAIN record.images /\ record.images[side] = w.image
      BY <3>2, <3>3, <3>4
    <3>6. WriteInFound(record, w)
      <4>1. w.image # <<>>
        <5>1. <<q>> # <<>>
          OBVIOUS
        <5> QED
          BY <3>2, <5>1
      <4> QED
        BY <3>5, <4>1 DEF WriteInFound
    <3>7. q \in ReportFiles(n)
      BY <1>4, <2>2, <2>6, <3>1
    <3> QED
      BY <1>2, <3>2, <3>6, <3>7
  <2> QED
    BY <2>3, <2>5, <2>6
<1> QED
  BY <1>1, <1>5, <1>6, <1>7

\* A report that authenticates is the whole of what the scanner had: every
\* record, in order, with the text, or the page's image and layout, of every
\* write-in, for any sheets, drives and sizes of files, however often drives are
\* pulled, exchanged and used again.
THEOREM AuthenticReportsAreWhole == ExportSpec => []AuthenticIsWhole
BY ExportInvariantHolds, AuthenticReportIsWhole, PTL

\* What was written so far is on the one drive that was in all the time, when
\* no file is too large for it.
Fits(n) == Len(ReportContent(n)) <= MaxFileSize

WrittenIsThere ==
    job.pc # "idle" /\ stayed[job.n] /\ Fits(job.n) =>
        LET files == drives[plugged]
            head == Head(job.todo)
            temporary == [head EXCEPT !.part = 1]
        IN  /\ plugged # NoDrive
            /\ job.pc \in {"drive", "write", "rename"} => job.part = 1
            /\ \A p \in DOMAIN files : p.export = job.n /\ p.kind # "signature" =>
                  \/ p \in DOMAIN machine /\ files[p] = Content(p)
                  \/ job.pc = "rename" /\ p = temporary /\ files[p] = Content(head)
            /\ \A p \in DOMAIN machine :
                  p \in DOMAIN files \/ (job.pc \in {"drive", "write", "rename"} /\ p = head)
            /\ job.pc = "rename" => temporary \in DOMAIN files
            /\ job.pc = "signSync" =>
                  /\ SignaturePath(job.n) \in DOMAIN files
                  /\ files[SignaturePath(job.n)] = <<"signature", WholeReport(job.n)>>

FilesAreOfExports == \A d \in Drives : \A p \in DOMAIN drives[d] : p.export \in DOMAIN sheets

UnsyncedIsUnfinished == \A p \in dirty : p.export \in DOMAIN sheets /\ results[p.export] # "ok"

FinishedIsThere ==
    \A n \in DOMAIN results : results[n] = "ok" /\ stayed[n] /\ Fits(n) =>
        \E d \in Drives : Authentic(drives[d], n)

ThereInvariant == WrittenIsThere /\ FilesAreOfExports /\ UnsyncedIsUnfinished /\ FinishedIsThere

SameFiles(files, others, n) ==
    /\ \A p \in DOMAIN files : p.export = n => p \in DOMAIN others /\ others[p] = files[p]
    /\ \A p \in DOMAIN others : p.export = n => p \in DOMAIN files

LEMMA AuthenticStays ==
    ASSUME NEW files, NEW others, NEW n, SameFiles(files, others, n), Authentic(files, n)
    PROVE  Authentic(others, n)
<1>1. SignaturePath(n).export = n
  BY DEF SignaturePath, Path
<1>2. SignaturePath(n) \in DOMAIN others /\ others[SignaturePath(n)] = <<"signature", Tree(files, n)>>
  BY <1>1 DEF Authentic, SameFiles
<1>3. {q \in DOMAIN files : q.export = n /\ q.kind # "signature"}
        = {q \in DOMAIN others : q.export = n /\ q.kind # "signature"}
  BY DEF SameFiles
<1>4. \A p \in {q \in DOMAIN files : q.export = n /\ q.kind # "signature"} : others[p] = files[p]
  BY DEF SameFiles
<1>5. Tree(files, n) = Tree(others, n)
  BY <1>3, <1>4 DEF Tree
<1> QED
  BY <1>2, <1>5 DEF Authentic

\* Exports that are over are left alone.
LEMMA FinishedStays ==
    ASSUME ExportInvariant, FinishedIsThere,
           sheets' = sheets \/ \E list \in Seq(Sheets) : sheets' = Append(sheets, list),
           \A n \in DOMAIN results' : results'[n] = "ok" =>
              n \in DOMAIN results /\ results[n] = "ok" /\ (stayed'[n] => stayed[n]),
           \A d \in Drives, n \in DOMAIN results : results[n] = "ok" => SameFiles(drives[d], drives'[d], n)
    PROVE  FinishedIsThere'
<1> SUFFICES ASSUME NEW n \in DOMAIN results', results'[n] = "ok", stayed'[n], Fits(n)'
             PROVE  \E d \in Drives : Authentic(drives'[d], n)
  <2>1. FinishedIsThere' <=> \A n \in DOMAIN results' : results'[n] = "ok" /\ stayed'[n] /\ Fits(n)' =>
                               \E d \in Drives : Authentic(drives'[d], n)
    BY DEF FinishedIsThere, Authentic, Tree
  <2> QED
    BY <2>1
<1>1. n \in DOMAIN results /\ results[n] = "ok" /\ stayed[n]
  OBVIOUS
<1>2. n \in DOMAIN sheets
  BY <1>1, LenProperties DEF ExportInvariant, ExportTypeOK
<1>3. ReportContent(n)' = ReportContent(n)
  BY <1>2, ReportsStay DEF ExportInvariant
<1>4. Fits(n)
  BY <1>3 DEF Fits
<1>5. PICK d \in Drives : Authentic(drives[d], n)
  BY <1>1, <1>4 DEF FinishedIsThere
<1>6. SameFiles(drives[d], drives'[d], n)
  BY <1>1
<1>7. PICK files, others : files = drives[d] /\ others = drives'[d]
  OBVIOUS
<1>8. Authentic(others, n)
  BY <1>5, <1>6, <1>7, AuthenticStays
<1> QED
  BY <1>7, <1>8

LEMMA SameFilesOfItself == \A files, n : SameFiles(files, files, n)
BY DEF SameFiles

\* The contents of a file are a list, and one that fits when the report does.
LEMMA ContentsFit ==
    ASSUME ExportInvariant, NEW n \in DOMAIN sheets, Fits(n), NEW p \in ReportFiles(n)
    PROVE  /\ SubSeq(Content(p), 1, Len(Content(p))) = Content(p)
           /\ Len(Content(p)) \in Nat /\ Len(Content(p)) <= MaxFileSize
<1>1. p.export = n
  BY ReportsOwnFiles DEF ExportInvariant
<1>2. \E S : Content(p) \in Seq(S) /\ Len(Content(p)) <= MaxFileSize
  <2>1. CASE p.kind = "report"
    <3>1. Content(p) = ReportContent(n)
      BY <1>1, <2>1 DEF Content
    <3> DEFINE Made == {CastVoteRecord(n, sheets[n][i]) : i \in DOMAIN sheets[n]} \cup {"metadata"}
    <3>2. PICK list : list = [i \in DOMAIN sheets[n] |-> CastVoteRecord(n, sheets[n][i])]
      OBVIOUS
    <3>3. list \in Seq(Made)
      <4>1. \A i \in DOMAIN list : list[i] \in Made
        BY <3>2
      <4>2. sheets[n] \in Seq(Sheets)
        BY ReportsOwnFiles DEF ExportInvariant
      <4>3. DOMAIN list = 1 .. Len(sheets[n]) /\ Len(sheets[n]) \in Nat
        BY <3>2, <4>2, LenProperties
      <4> HIDE DEF Made
      <4> QED
        BY <3>2, <4>1, <4>3
    <3>4. PICK first : first = <<"metadata">>
      OBVIOUS
    <3>5. first \in Seq(Made)
      BY <3>4
    <3> HIDE DEF Made
    <3>6. first \o list \in Seq(Made)
      BY <3>3, <3>5, ConcatProperties
    <3>7. ReportContent(n) = first \o list
      BY <3>2, <3>4 DEF ReportContent
    <3> QED
      BY <3>1, <3>6, <3>7 DEF Fits
  <2>2. CASE p.kind # "report"
    <3>1. PICK k : k = p.kind
      OBVIOUS
    <3>2. Content(p) = <<k>>
      BY <2>2, <3>1 DEF Content
    <3>3. <<k>> \in Seq({k}) /\ Len(<<k>>) = 1
      OBVIOUS
    <3>4. 1 <= MaxFileSize
      BY ExportAssumption
    <3> QED
      BY <3>2, <3>3, <3>4
  <2> QED
    BY <2>1, <2>2
<1>3. PICK S : Content(p) \in Seq(S) /\ Len(Content(p)) <= MaxFileSize
  BY <1>2
<1> QED
  BY <1>3, SubSeqFull, LenProperties

LEMMA ThereInit == ExportInit => ThereInvariant
<1> SUFFICES ASSUME ExportInit PROVE ThereInvariant
  OBVIOUS
<1>1. \A d \in Drives : DOMAIN drives[d] = {}
  BY DEF ExportInit, NoFiles
<1> QED
  BY <1>1 DEF ExportInit, NoExport, ThereInvariant, WrittenIsThere, FilesAreOfExports,
     UnsyncedIsUnfinished, FinishedIsThere

\* An export that ends without success.
LEMMA FailingKeepsThere ==
    ASSUME ExportInvariant, ThereInvariant, job.pc # "idle", NEW result \in Endings \ {"ok"},
           results' = [results EXCEPT ![job.n] = result], job' = NoExport,
           sheets' = sheets, stayed' = stayed, drives' = drives, dirty' = dirty
    PROVE  ThereInvariant'
<1>1. job.n \in DOMAIN results /\ DOMAIN results' = DOMAIN results /\ results'[job.n] = result
      /\ \A n \in DOMAIN results : n # job.n => results'[n] = results[n]
  BY DEF ExportInvariant, ExportTypeOK, RunningIsTheLast
<1>2. FinishedIsThere'
  <2>1. \A n \in DOMAIN results' : results'[n] = "ok" =>
              n \in DOMAIN results /\ results[n] = "ok" /\ (stayed'[n] => stayed[n])
    BY <1>1
  <2>2. \A d \in Drives, n \in DOMAIN results : results[n] = "ok" => SameFiles(drives[d], drives'[d], n)
    BY SameFilesOfItself
  <2> QED
    BY <2>1, <2>2, FinishedStays DEF ThereInvariant
<1>3. UnsyncedIsUnfinished'
  BY <1>1 DEF ThereInvariant, UnsyncedIsUnfinished
<1>4. FilesAreOfExports'
  BY DEF ThereInvariant, FilesAreOfExports
<1>5. WrittenIsThere'
  BY DEF WrittenIsThere, NoExport
<1> QED
  BY <1>2, <1>3, <1>4, <1>5 DEF ThereInvariant

\* An export that goes on leaves the files of all others alone.
LEMMA RunningKeepsOthers ==
    ASSUME ExportInvariant, ThereInvariant, job.pc # "idle",
           sheets' = sheets, results' = results, stayed' = stayed,
           \A p \in dirty' : p \in dirty \/ p.export = job.n,
           \A d \in Drives : \A p \in DOMAIN drives'[d] :
              p.export = job.n \/ (p \in DOMAIN drives[d] /\ drives'[d][p] = drives[d][p]),
           \A d \in Drives : \A p \in DOMAIN drives[d] : p.export = job.n \/ p \in DOMAIN drives'[d]
    PROVE  FilesAreOfExports' /\ UnsyncedIsUnfinished' /\ FinishedIsThere'
<1>1. job.n \in DOMAIN sheets /\ results[job.n] # "ok"
  BY LenProperties DEF ExportInvariant, ExportTypeOK, RunningIsTheLast
<1>2. FilesAreOfExports'
  BY <1>1 DEF ThereInvariant, FilesAreOfExports
<1>3. UnsyncedIsUnfinished'
  BY <1>1 DEF ThereInvariant, UnsyncedIsUnfinished
<1>4. FinishedIsThere'
  <2>1. \A d \in Drives, n \in DOMAIN results : results[n] = "ok" => SameFiles(drives[d], drives'[d], n)
    BY <1>1 DEF SameFiles
  <2>2. \A n \in DOMAIN results' : results'[n] = "ok" =>
              n \in DOMAIN results /\ results[n] = "ok" /\ (stayed'[n] => stayed[n])
    OBVIOUS
  <2> QED
    BY <2>1, <2>2, FinishedStays DEF ThereInvariant
<1> QED
  BY <1>2, <1>3, <1>4

\* What the files must be, of an export that is at pc with the file head.
Written(n, pc, part, head, files, copied) ==
    /\ pc \in {"drive", "write", "rename"} => part = 1
    /\ \A p \in DOMAIN files : p.export = n /\ p.kind # "signature" =>
          \/ p \in copied /\ files[p] = Content(p)
          \/ pc = "rename" /\ p = [head EXCEPT !.part = 1] /\ files[p] = Content(head)
    /\ \A p \in copied : p \in DOMAIN files \/ (pc \in {"drive", "write", "rename"} /\ p = head)
    /\ pc = "rename" => [head EXCEPT !.part = 1] \in DOMAIN files
    /\ pc = "signSync" =>
          /\ SignaturePath(n) \in DOMAIN files
          /\ files[SignaturePath(n)] = <<"signature", WholeReport(n)>>

LEMMA WrittenSoFar ==
    ASSUME WrittenIsThere, job.pc # "idle", stayed[job.n], Fits(job.n)
    PROVE  /\ plugged # NoDrive
           /\ Written(job.n, job.pc, job.part, Head(job.todo), drives[plugged], DOMAIN machine)
BY DEF WrittenIsThere, Written

LEMMA WrittenNext ==
    ASSUME NEW n, NEW pc, NEW part, NEW head, NEW files, NEW copied,
           job'.n = n, job'.pc = pc, job'.part = part, Head(job'.todo) = head,
           files = drives'[plugged'], copied = DOMAIN machine',
           sheets' = sheets, stayed' = stayed,
           stayed[n] /\ Fits(n) => plugged' # NoDrive /\ Written(n, pc, part, head, files, copied)
    PROVE  WrittenIsThere'
<1>1. \A p : Content(p)' = Content(p)
  BY DEF Content, ReportContent
<1>2. Fits(n)' <=> Fits(n)
  BY DEF Fits, ReportContent
<1>3. WholeReport(n)' = WholeReport(n)
  BY DEF WholeReport, Content, ReportContent, ReportFiles
<1>4. stayed[n] /\ Fits(n) =>
        /\ plugged' # NoDrive
        /\ pc \in {"drive", "write", "rename"} => part = 1
        /\ \A p \in DOMAIN files : p.export = n /\ p.kind # "signature" =>
              \/ p \in copied /\ files[p] = Content(p)'
              \/ pc = "rename" /\ p = [head EXCEPT !.part = 1] /\ files[p] = Content(head)'
        /\ \A p \in copied : p \in DOMAIN files \/ (pc \in {"drive", "write", "rename"} /\ p = head)
        /\ pc = "rename" => [head EXCEPT !.part = 1] \in DOMAIN files
        /\ pc = "signSync" =>
              /\ SignaturePath(n) \in DOMAIN files
              /\ files[SignaturePath(n)] = <<"signature", WholeReport(n)'>>
  BY <1>1, <1>3 DEF Written
<1> QED
  BY <1>2, <1>4 DEF WrittenIsThere

LEMMA StartExportKeepsThere ==
    ASSUME ExportInvariant, ThereInvariant, StartExport
    PROVE  ThereInvariant'
<1>1. PICK list \in SheetLists :
        /\ sheets' = Append(sheets, list)
        /\ job' = [pc |-> "machine", n |-> Len(results) + 1,
                   todo |-> FilesOf(Len(results) + 1, list), part |-> 1]
  BY DEF StartExport
<1>2. PICK n : n = Len(results) + 1
  OBVIOUS
<1>3. list \in Seq(Sheets) /\ n \in Nat /\ n > 0 /\ n = Len(sheets) + 1 /\ n = Len(stayed) + 1
      /\ DOMAIN sheets = 1 .. Len(sheets) /\ DOMAIN results = 1 .. Len(results)
      /\ DOMAIN stayed = 1 .. Len(stayed)
  BY <1>2, ExportAssumption, LenProperties DEF ExportInvariant, ExportTypeOK
<1>4. /\ drives' = drives /\ plugged' = plugged /\ dirty' = dirty /\ machine' = machine
      /\ results' = Append(results, "running") /\ stayed' = Append(stayed, plugged # NoDrive)
  BY DEF StartExport
<1>5. DOMAIN machine' = {}
  BY <1>4 DEF StartExport, ExportInvariant, RunningIsTheLast, NoExport
<1>6. PICK here \in BOOLEAN : here <=> plugged # NoDrive
  OBVIOUS
<1>7. /\ \A m \in DOMAIN sheets : m \in DOMAIN sheets' /\ results'[m] = results[m] /\ stayed'[m] = stayed[m]
      /\ DOMAIN results' = DOMAIN results \cup {n} /\ results'[n] = "running" /\ stayed'[n] = here
  <2>0. stayed' = Append(stayed, here)
    BY <1>4, <1>6
  <2>1. sheets \in Seq(Seq(Sheets)) /\ results \in Seq(Endings) /\ stayed \in Seq(BOOLEAN)
        /\ Len(results) = Len(sheets) /\ Len(stayed) = Len(sheets)
    BY DEF ExportInvariant, ExportTypeOK
  <2>2. \A m \in DOMAIN sheets : m \in DOMAIN sheets'
    BY <1>1, <1>3, <2>1, AppendProperties, LenProperties
  <2>3. (\A m \in DOMAIN sheets : results'[m] = results[m])
        /\ DOMAIN results' = DOMAIN results \cup {n} /\ results'[n] = "running"
    BY <1>3, <1>4, <2>1, AppendProperties, LenProperties DEF Endings
  <2>4. (\A m \in DOMAIN sheets : stayed'[m] = stayed[m]) /\ stayed'[n] = here
    BY <1>3, <2>0, <2>1, AppendProperties
  <2> QED
    BY <2>2, <2>3, <2>4
<1>8. FinishedIsThere'
  <2>1. \A m \in DOMAIN results' : results'[m] = "ok" =>
              m \in DOMAIN results /\ results[m] = "ok" /\ (stayed'[m] => stayed[m])
    BY <1>2, <1>3, <1>7
  <2>2. \A d \in Drives, m \in DOMAIN results : results[m] = "ok" => SameFiles(drives[d], drives'[d], m)
    BY <1>4, SameFilesOfItself
  <2> QED
    BY <1>1, <1>3, <2>1, <2>2, FinishedStays DEF ThereInvariant
<1>9. FilesAreOfExports'
  BY <1>4, <1>7 DEF ThereInvariant, FilesAreOfExports
<1>10. UnsyncedIsUnfinished'
  BY <1>4, <1>7 DEF ThereInvariant, UnsyncedIsUnfinished
<1>11. WrittenIsThere'
  <2>1. job'.pc = "machine" /\ job'.n = n
    BY <1>1, <1>2
  <2>2. stayed'[n] => plugged' \in Drives /\ plugged' # NoDrive
    BY <1>4, <1>6, <1>7 DEF ExportInvariant, ExportTypeOK
  <2>3. plugged' \in Drives => \A p \in DOMAIN drives'[plugged'] : p.export # n
    BY <1>3, <1>4 DEF ThereInvariant, FilesAreOfExports
  <2> QED
    BY <1>5, <2>1, <2>2, <2>3 DEF WrittenIsThere
<1> QED
  BY <1>8, <1>9, <1>10, <1>11 DEF ThereInvariant

LEMMA WriteToMachineKeepsThere ==
    ASSUME ExportInvariant, ThereInvariant, WriteToMachine
    PROVE  ThereInvariant'
<1>1. job.pc = "machine" /\ drives' = drives /\ plugged' = plugged /\ dirty' = dirty
      /\ sheets' = sheets /\ stayed' = stayed
  BY DEF WriteToMachine
<1>2. CASE Finish("invalid-sheet-found")
  BY <1>1, <1>2, FailingKeepsThere DEF Finish, Endings
<1>3. CASE /\ machine' = With(machine, Head(job.todo), Content(Head(job.todo)))
           /\ job' = [job EXCEPT !.pc = "drive", !.part = 1]
           /\ results' = results
  <2>1. PICK n, head, files, copied : n = job.n /\ head = Head(job.todo) /\ files = drives[plugged]
                                      /\ copied = DOMAIN machine
    OBVIOUS
  <2>2. job'.pc = "drive" /\ job'.part = 1 /\ job'.n = n /\ Head(job'.todo) = head
    BY <1>3, <2>1 DEF ExportInvariant, ExportTypeOK, ExportJobs
  <2>3. DOMAIN machine' = copied \cup {head}
    <3>1. PICK c : c = Content(head)
      OBVIOUS
    <3>2. machine' = With(machine, head, c)
      BY <1>3, <2>1, <3>1
    <3> QED
      BY <2>1, <3>2 DEF With
  <2>4. ASSUME stayed[n], Fits(n)
        PROVE  plugged # NoDrive /\ Written(n, "drive", 1, head, files, copied \cup {head})
    <3>1. plugged # NoDrive /\ Written(n, "machine", job.part, head, files, copied)
      BY <1>1, <2>1, <2>4, WrittenSoFar DEF ThereInvariant
    <3> QED
      BY <3>1 DEF Written
  <2>5. WrittenIsThere'
    BY <1>1, <2>1, <2>2, <2>3, <2>4, WrittenNext
  <2> QED
    BY <1>1, <1>3, <2>5, RunningKeepsOthers DEF ThereInvariant
<1> QED
  BY <1>2, <1>3 DEF WriteToMachine

LEMMA FindDriveKeepsThere ==
    ASSUME ExportInvariant, ThereInvariant, FindDrive
    PROVE  ThereInvariant'
<1>1. job.pc = "drive" /\ drives' = drives /\ plugged' = plugged /\ dirty' = dirty
      /\ sheets' = sheets /\ stayed' = stayed
  BY DEF FindDrive
<1>2. CASE Finish("missing-usb-drive")
  BY <1>1, <1>2, FailingKeepsThere DEF Finish, Endings
<1>3. CASE Goto("write")
  <2>1. PICK n, head, files, copied, part :
          n = job.n /\ head = Head(job.todo) /\ files = drives[plugged] /\ copied = DOMAIN machine /\ part = job.part
    OBVIOUS
  <2>2. job'.pc = "write" /\ job'.part = part /\ job'.n = n /\ Head(job'.todo) = head
        /\ machine' = machine /\ results' = results
    BY <1>3, <2>1 DEF Goto, ExportInvariant, ExportTypeOK, ExportJobs
  <2>3. ASSUME stayed[n], Fits(n)
        PROVE  plugged # NoDrive /\ Written(n, "write", part, head, files, copied)
    <3>1. plugged # NoDrive /\ Written(n, "drive", part, head, files, copied)
      BY <1>1, <2>1, <2>3, WrittenSoFar DEF ThereInvariant
    <3> QED
      BY <3>1 DEF Written
  <2>4. WrittenIsThere'
    BY <1>1, <2>1, <2>2, <2>3, WrittenNext
  <2> QED
    BY <1>1, <2>2, <2>4, RunningKeepsOthers DEF ThereInvariant
<1> QED
  BY <1>2, <1>3 DEF FindDrive

LEMMA WritePartKeepsThere ==
    ASSUME ExportInvariant, ThereInvariant, WritePart
    PROVE  ThereInvariant'
<1>1. job.pc = "write" /\ plugged' = plugged /\ sheets' = sheets /\ stayed' = stayed
  BY DEF WritePart
<1>2. CASE Finish("threw") /\ drives' = drives /\ dirty' = dirty
  BY <1>1, <1>2, FailingKeepsThere DEF Finish, Endings
<1>3. CASE /\ plugged # NoDrive
           /\ drives' = [drives EXCEPT ![plugged] =
                            With(@, [Head(job.todo) EXCEPT !.part = job.part],
                                 PartOf(machine[Head(job.todo)], job.part))]
           /\ dirty' = dirty \cup {[Head(job.todo) EXCEPT !.part = job.part]}
           /\ job' = IF job.part * MaxFileSize < Len(machine[Head(job.todo)])
                     THEN [job EXCEPT !.part = @ + 1]
                     ELSE [job EXCEPT !.pc = IF job.part = 1 THEN "rename" ELSE "sync"]
           /\ UNCHANGED <<machine, results>>
  <2>1. PICK n, head, part, content, copied, old :
          /\ n = job.n /\ head = Head(job.todo) /\ part = job.part /\ content = machine[head]
          /\ copied = DOMAIN machine /\ old = drives[plugged]
    OBVIOUS
  <2>2. /\ n \in DOMAIN sheets /\ head \in copied /\ head \in ReportFiles(n) /\ content = Content(head)
        /\ head \in Paths /\ head.export = n /\ head.part = 0 /\ head.kind # "signature"
    <3>1. head \in copied
      BY <1>1, <2>1 DEF ExportInvariant, RunningIsTheLast
    <3> QED
      BY <1>1, <2>1, <3>1, HeadIsOfTheReport DEF ExportInvariant, MachineHasTheContents
  <2>3. job \in ExportJobs /\ part \in Nat \ {0}
    BY <2>1 DEF ExportInvariant, ExportTypeOK, ExportJobs
  <2>4. PICK q, c : q = [head EXCEPT !.part = part] /\ c = PartOf(content, part)
    OBVIOUS
  <2>5. q \in Paths /\ q.export = n /\ q.kind = head.kind /\ q.part = part
    BY <2>2, <2>3, <2>4 DEF Paths
  <2>6. PICK files : files = With(old, q, c)
    OBVIOUS
  <2>7. DOMAIN files = DOMAIN old \cup {q} /\ files[q] = c
        /\ \A p \in DOMAIN old : p # q => files[p] = old[p]
    BY <2>6 DEF With
  <2>8. drives' = [drives EXCEPT ![plugged] = files] /\ dirty' = dirty \cup {q}
    BY <1>3, <2>1, <2>4, <2>6
  <2>9. DOMAIN files \subseteq Paths
    BY <1>3, <2>1, <2>5, <2>7 DEF ExportInvariant, ExportTypeOK
  <2>10. /\ plugged \in Drives /\ DOMAIN drives' = Drives /\ drives'[plugged] = files
         /\ \A d \in Drives : d # plugged => drives'[d] = drives[d]
    BY <1>3, <2>8, <2>9, OneDriveChanges DEF ExportInvariant
  <2>11. FilesAreOfExports' /\ UnsyncedIsUnfinished' /\ FinishedIsThere'
    <3>1. \A d \in Drives : \A p \in DOMAIN drives'[d] :
              p.export = n \/ (p \in DOMAIN drives[d] /\ drives'[d][p] = drives[d][p])
      BY <2>1, <2>5, <2>7, <2>10
    <3>2. \A d \in Drives : \A p \in DOMAIN drives[d] : p.export = n \/ p \in DOMAIN drives'[d]
      BY <2>1, <2>7, <2>10
    <3>3. \A p \in dirty' : p \in dirty \/ p.export = n
      BY <2>5, <2>8
    <3> QED
      BY <1>1, <1>3, <2>1, <3>1, <3>2, <3>3, RunningKeepsOthers
  <2>12. PICK goes, next : goes = job'.pc /\ next = job'.part
    OBVIOUS
  <2>13. job'.n = n /\ Head(job'.todo) = head
    BY <1>3, <2>1, <2>3 DEF ExportJobs
  <2>14. ASSUME stayed[n], Fits(n)
         PROVE  Written(n, goes, next, head, files, copied)
    <3>1. Written(n, "write", part, head, old, copied)
      BY <1>1, <2>1, <2>14, WrittenSoFar DEF ThereInvariant
    <3>2. part = 1
      BY <3>1 DEF Written
    <3>3. SubSeq(content, 1, Len(content)) = content /\ Len(content) \in Nat /\ Len(content) <= MaxFileSize
      BY <2>2, <2>14, ContentsFit
    <3>4. c = content
      <4>1. (1 - 1) * MaxFileSize + 1 = 1 /\ ~(1 * MaxFileSize < Len(content))
        BY <3>3, ExportAssumption
      <4> QED
        BY <2>4, <3>2, <3>3, <4>1 DEF PartOf
    <3>5. goes = "rename" /\ next = 1
      <4>1. ~(1 * MaxFileSize < Len(content))
        BY <3>3, ExportAssumption
      <4>2. job' = [job EXCEPT !.pc = "rename"]
        BY <1>3, <2>1, <3>2, <4>1
      <4> QED
        BY <2>1, <2>3, <2>12, <3>2, <4>2 DEF ExportJobs
    <3>6. q = [head EXCEPT !.part = 1]
      BY <2>4, <3>2
    <3>7. ASSUME NEW p \in DOMAIN files, p.export = n, p.kind # "signature"
          PROVE  (p \in copied /\ files[p] = Content(p)) \/ (p = q /\ files[p] = Content(head))
      BY <2>2, <2>7, <3>1, <3>4, <3>7 DEF Written
    <3>8. \A p \in copied : p \in DOMAIN files \/ p = head
      BY <2>7, <3>1 DEF Written
    <3> QED
      BY <2>7, <3>5, <3>6, <3>7, <3>8 DEF Written
  <2>15. WrittenIsThere'
    BY <1>1, <1>3, <2>1, <2>10, <2>12, <2>13, <2>14, WrittenNext
  <2> QED
    BY <2>11, <2>15 DEF ThereInvariant
<1> QED
  BY <1>1, <1>2, <1>3 DEF WritePart

LEMMA RenamePartKeepsThere ==
    ASSUME ExportInvariant, ThereInvariant, RenamePart
    PROVE  ThereInvariant'
<1>1. job.pc = "rename" /\ plugged' = plugged /\ sheets' = sheets /\ stayed' = stayed
  BY DEF RenamePart
<1>2. CASE Finish("threw") /\ drives' = drives /\ dirty' = dirty
  BY <1>1, <1>2, FailingKeepsThere DEF Finish, Endings
<1>3. CASE /\ plugged # NoDrive
           /\ [Head(job.todo) EXCEPT !.part = 1] \in DOMAIN drives[plugged]
           /\ drives' = [drives EXCEPT ![plugged] =
                            SingleFile(@, [Head(job.todo) EXCEPT !.part = 1], Head(job.todo))]
           /\ dirty' = (dirty \ {[Head(job.todo) EXCEPT !.part = 1]}) \cup {Head(job.todo)}
           /\ Goto("sync")
  <2>1. PICK n, head, part, q, copied, old :
          /\ n = job.n /\ head = Head(job.todo) /\ part = job.part /\ q = [head EXCEPT !.part = 1]
          /\ copied = DOMAIN machine /\ old = drives[plugged]
    OBVIOUS
  <2>2. /\ n \in DOMAIN sheets /\ head \in copied
        /\ head \in Paths /\ head.export = n /\ head.part = 0 /\ head.kind # "signature"
    <3>1. head \in copied
      BY <1>1, <2>1 DEF ExportInvariant, RunningIsTheLast
    <3> QED
      BY <1>1, <2>1, <3>1, HeadIsOfTheReport
  <2>3. q.export = n /\ q.part = 1 /\ q # head
    BY <2>1, <2>2 DEF Paths
  <2>4. PICK files : files = SingleFile(old, q, head)
    OBVIOUS
  <2>5. /\ DOMAIN files = (DOMAIN old \ {q}) \cup {head} /\ files[head] = old[q]
        /\ \A p \in DOMAIN old : p # head /\ p # q => files[p] = old[p]
    BY <2>4 DEF SingleFile, With, Without, Restrict
  <2>6. drives' = [drives EXCEPT ![plugged] = files] /\ dirty' = (dirty \ {q}) \cup {head}
    BY <1>3, <2>1, <2>4
  <2>7. DOMAIN files \subseteq Paths
    BY <1>3, <2>1, <2>2, <2>5 DEF ExportInvariant, ExportTypeOK
  <2>8. /\ plugged \in Drives /\ DOMAIN drives' = Drives /\ drives'[plugged] = files
        /\ \A d \in Drives : d # plugged => drives'[d] = drives[d]
    BY <1>3, <2>6, <2>7, OneDriveChanges DEF ExportInvariant
  <2>9. FilesAreOfExports' /\ UnsyncedIsUnfinished' /\ FinishedIsThere'
    <3>1. \A d \in Drives : \A p \in DOMAIN drives'[d] :
              p.export = n \/ (p \in DOMAIN drives[d] /\ drives'[d][p] = drives[d][p])
      BY <2>1, <2>2, <2>5, <2>8
    <3>2. \A d \in Drives : \A p \in DOMAIN drives[d] : p.export = n \/ p \in DOMAIN drives'[d]
      BY <2>1, <2>3, <2>5, <2>8
    <3>3. \A p \in dirty' : p \in dirty \/ p.export = n
      BY <2>2, <2>6
    <3>4. results' = results
      BY <1>3 DEF Goto
    <3> QED
      BY <1>1, <2>1, <3>1, <3>2, <3>3, <3>4, RunningKeepsOthers
  <2>10. job'.pc = "sync" /\ job'.part = part /\ job'.n = n /\ Head(job'.todo) = head /\ machine' = machine
    BY <1>3, <2>1 DEF Goto, ExportInvariant, ExportTypeOK, ExportJobs
  <2>11. ASSUME stayed[n], Fits(n)
         PROVE  Written(n, "sync", part, head, files, copied)
    <3>1. Written(n, "rename", part, head, old, copied)
      BY <1>1, <2>1, <2>11, WrittenSoFar DEF ThereInvariant
    <3>2. \A p \in copied : p.part = 0
      BY <2>1, ReportsOwnFiles, <1>1, <2>2 DEF ExportInvariant, RunningIsTheLast
    <3>3. q \in DOMAIN old /\ q \notin copied
      <4>1. q \in DOMAIN old
        BY <2>1, <3>1 DEF Written
      <4>2. q \notin copied
        BY <2>3, <3>2
      <4> QED
        BY <4>1, <4>2
    <3>4. old[q] = Content(head)
      <4>1. q.kind # "signature"
        BY <2>1, <2>2 DEF Paths
      <4> QED
        BY <2>3, <3>1, <3>3, <4>1 DEF Written
    <3>5. ASSUME NEW p \in DOMAIN files, p.export = n, p.kind # "signature"
          PROVE  p \in copied /\ files[p] = Content(p)
      BY <2>1, <2>2, <2>5, <3>1, <3>4, <3>5 DEF Written
    <3>6. \A p \in copied : p \in DOMAIN files
      BY <2>5, <3>1, <3>3 DEF Written
    <3> QED
      BY <3>5, <3>6 DEF Written
  <2>12. WrittenIsThere'
    BY <1>1, <1>3, <2>1, <2>8, <2>10, <2>11, WrittenNext
  <2> QED
    BY <2>9, <2>12 DEF ThereInvariant
<1> QED
  BY <1>1, <1>2, <1>3 DEF RenamePart

LEMMA SyncFileKeepsThere ==
    ASSUME ExportInvariant, ThereInvariant, SyncFile
    PROVE  ThereInvariant'
<1>1. job.pc = "sync" /\ drives' = drives /\ plugged' = plugged /\ sheets' = sheets /\ stayed' = stayed
  BY DEF SyncFile
<1>2. CASE Finish("threw") /\ dirty' = dirty
  BY <1>1, <1>2, FailingKeepsThere DEF Finish, Endings
<1>3. CASE /\ dirty' = {}
           /\ job' = [job EXCEPT !.todo = Tail(@),
                                  !.pc = IF Len(job.todo) > 1 THEN "machine" ELSE "sign"]
           /\ UNCHANGED <<machine, results>>
  <2>1. PICK n, head, files, copied, part :
          n = job.n /\ head = Head(job.todo) /\ files = drives[plugged] /\ copied = DOMAIN machine /\ part = job.part
    OBVIOUS
  <2>2. PICK goes, then : goes = job'.pc /\ then = Head(job'.todo)
    OBVIOUS
  <2>3. goes \in {"machine", "sign"} /\ job'.part = part /\ job'.n = n
    BY <1>3, <2>1, <2>2 DEF ExportInvariant, ExportTypeOK, ExportJobs
  <2>4. ASSUME stayed[n], Fits(n)
        PROVE  plugged # NoDrive /\ Written(n, goes, part, then, files, copied)
    <3>1. plugged # NoDrive /\ Written(n, "sync", part, head, files, copied)
      BY <1>1, <2>1, <2>4, WrittenSoFar DEF ThereInvariant
    <3> QED
      BY <2>3, <3>1 DEF Written
  <2>5. files = drives'[plugged'] /\ copied = DOMAIN machine'
    BY <1>1, <1>3, <2>1
  <2>6. WrittenIsThere'
    BY <1>1, <2>2, <2>3, <2>4, <2>5, WrittenNext
  <2> QED
    BY <1>1, <1>3, <2>6, RunningKeepsOthers DEF ThereInvariant
<1> QED
  BY <1>1, <1>2, <1>3 DEF SyncFile

LEMMA WriteSignatureKeepsThere ==
    ASSUME ExportInvariant, ThereInvariant, WriteSignature
    PROVE  ThereInvariant'
<1>1. job.pc = "sign" /\ plugged' = plugged /\ sheets' = sheets /\ stayed' = stayed
  BY DEF WriteSignature
<1>2. ASSUME NEW result \in Endings \ {"ok"}, Finish(result), drives' = drives, dirty' = dirty
      PROVE  ThereInvariant'
  BY <1>1, <1>2, FailingKeepsThere DEF Finish
<1>3. CASE /\ plugged # NoDrive
           /\ drives' = [drives EXCEPT ![plugged] =
                            With(@, SignaturePath(job.n), <<"signature", Signed(job.n)>>)]
           /\ dirty' = {SignaturePath(job.n)}
           /\ Goto("signSync")
  <2>1. PICK n, head, part, copied, old, q, c :
          /\ n = job.n /\ head = Head(job.todo) /\ part = job.part /\ copied = DOMAIN machine
          /\ old = drives[plugged] /\ q = SignaturePath(n) /\ c = <<"signature", WholeReport(n)>>
    OBVIOUS
  <2>2. n \in DOMAIN sheets /\ Signed(n) = WholeReport(n) /\ n \in Nat
    BY <1>1, <2>1, MachineIsWhole, ReportsOwnFiles DEF ExportInvariant
  <2>3. q \in Paths /\ q.kind = "signature" /\ q.export = n
    BY <2>1, <2>2 DEF SignaturePath, Path, Paths
  <2>4. PICK files : files = With(old, q, c)
    OBVIOUS
  <2>5. DOMAIN files = DOMAIN old \cup {q} /\ files[q] = c
        /\ \A p \in DOMAIN old : p # q => files[p] = old[p]
    BY <2>4 DEF With
  <2>6. drives' = [drives EXCEPT ![plugged] = files] /\ dirty' = {q}
    BY <1>3, <2>1, <2>2, <2>4
  <2>7. DOMAIN files \subseteq Paths
    BY <1>3, <2>1, <2>3, <2>5 DEF ExportInvariant, ExportTypeOK
  <2>8. /\ plugged \in Drives /\ DOMAIN drives' = Drives /\ drives'[plugged] = files
        /\ \A d \in Drives : d # plugged => drives'[d] = drives[d]
    BY <1>3, <2>6, <2>7, OneDriveChanges DEF ExportInvariant
  <2>9. job'.pc = "signSync" /\ job'.part = part /\ job'.n = n /\ Head(job'.todo) = head
        /\ machine' = machine /\ results' = results
    BY <1>3, <2>1 DEF Goto, ExportInvariant, ExportTypeOK, ExportJobs
  <2>10. FilesAreOfExports' /\ UnsyncedIsUnfinished' /\ FinishedIsThere'
    <3>1. \A d \in Drives : \A p \in DOMAIN drives'[d] :
              p.export = n \/ (p \in DOMAIN drives[d] /\ drives'[d][p] = drives[d][p])
      BY <2>1, <2>3, <2>5, <2>8
    <3>2. \A d \in Drives : \A p \in DOMAIN drives[d] : p.export = n \/ p \in DOMAIN drives'[d]
      BY <2>1, <2>5, <2>8
    <3>3. \A p \in dirty' : p \in dirty \/ p.export = n
      BY <2>3, <2>6
    <3> QED
      BY <1>1, <2>1, <2>9, <3>1, <3>2, <3>3, RunningKeepsOthers
  <2>11. ASSUME stayed[n], Fits(n)
         PROVE  Written(n, "signSync", part, head, files, copied)
    <3>1. Written(n, "sign", part, head, old, copied)
      BY <1>1, <2>1, <2>11, WrittenSoFar DEF ThereInvariant
    <3>2. ASSUME NEW p \in DOMAIN files, p.export = n, p.kind # "signature"
          PROVE  p \in copied /\ files[p] = Content(p)
      BY <2>3, <2>5, <3>1, <3>2 DEF Written
    <3>3. \A p \in copied : p \in DOMAIN files
      BY <2>5, <3>1 DEF Written
    <3>4. SignaturePath(n) \in DOMAIN files /\ files[SignaturePath(n)] = <<"signature", WholeReport(n)>>
      BY <2>1, <2>5
    <3> QED
      BY <3>2, <3>3, <3>4 DEF Written
  <2>12. files = drives'[plugged'] /\ copied = DOMAIN machine'
    BY <1>1, <2>1, <2>8, <2>9
  <2>13. WrittenIsThere'
    BY <1>1, <1>3, <2>9, <2>11, <2>12, WrittenNext
  <2> QED
    BY <2>10, <2>13 DEF ThereInvariant
<1> QED
  BY <1>1, <1>2, <1>3 DEF WriteSignature, Endings

\* What was written and signed authenticates.
LEMMA WrittenAndSigned ==
    ASSUME ExportInvariant, ThereInvariant, job.pc = "signSync", stayed[job.n], Fits(job.n)
    PROVE  plugged \in Drives /\ Authentic(drives[plugged], job.n)
<1>1. PICK n, files, copied : n = job.n /\ files = drives[plugged] /\ copied = DOMAIN machine
  OBVIOUS
<1>2. plugged # NoDrive /\ Written(n, "signSync", job.part, Head(job.todo), files, copied)
  BY <1>1, WrittenSoFar DEF ThereInvariant
<1>3. n \in DOMAIN sheets /\ copied = ReportFiles(n)
  BY <1>1, MachineIsWhole
<1>4. \A p \in copied : p.export = n /\ p.kind # "signature"
  BY <1>3, ReportsOwnFiles DEF ExportInvariant
<1>5. \A p : p \in copied <=> p \in DOMAIN files /\ p.export = n /\ p.kind # "signature"
  BY <1>2, <1>4 DEF Written
<1>6. \A p \in copied : files[p] = Content(p)
  BY <1>2, <1>5 DEF Written
<1>7. {q \in DOMAIN files : q.export = n /\ q.kind # "signature"} = copied
  BY <1>5
<1>8. Tree(files, n) = {<<p, files[p]>> : p \in copied}
  BY <1>7 DEF Tree
<1>9. Tree(files, n) = WholeReport(n)
  BY <1>3, <1>6, <1>8 DEF WholeReport
<1>10. Authentic(files, n)
  BY <1>2, <1>9 DEF Written, Authentic
<1> QED
  BY <1>1, <1>2, <1>10 DEF ExportInvariant, ExportTypeOK

LEMMA SyncSignatureKeepsThere ==
    ASSUME ExportInvariant, ThereInvariant, SyncSignature
    PROVE  ThereInvariant'
<1>1. /\ job.pc = "signSync" /\ drives' = drives /\ plugged' = plugged /\ sheets' = sheets /\ stayed' = stayed
      /\ dirty' = IF plugged = NoDrive THEN dirty ELSE {}
  BY DEF SyncSignature
<1>2. CASE plugged = NoDrive
  BY <1>1, <1>2, FailingKeepsThere DEF SyncSignature, Finish, Endings
<1>3. CASE plugged # NoDrive
  <2>1. results' = [results EXCEPT ![job.n] = "ok"] /\ job' = NoExport /\ dirty' = {}
    BY <1>1, <1>3 DEF SyncSignature, Finish
  <2>2. PICK n : n = job.n
    OBVIOUS
  <2>3. n \in DOMAIN results /\ DOMAIN results' = DOMAIN results
        /\ \A m \in DOMAIN results : m # n => results'[m] = results[m]
    BY <1>1, <2>1, <2>2 DEF ExportInvariant, ExportTypeOK, RunningIsTheLast
  <2>4. ASSUME NEW m \in DOMAIN results', results'[m] = "ok", stayed'[m], Fits(m)'
        PROVE  \E d \in Drives : Authentic(drives'[d], m)
    <3>1. Fits(m) /\ stayed[m]
      BY <1>1, <2>4 DEF Fits, ReportContent
    <3>2. CASE m = n
      BY <1>1, <2>2, <3>1, <3>2, WrittenAndSigned
    <3>3. CASE m # n
      BY <1>1, <2>3, <2>4, <3>1, <3>3 DEF ThereInvariant, FinishedIsThere
    <3> QED
      BY <3>2, <3>3
  <2>5. FinishedIsThere'
    <3>1. FinishedIsThere' <=> \A m \in DOMAIN results' : results'[m] = "ok" /\ stayed'[m] /\ Fits(m)' =>
                                 \E d \in Drives : Authentic(drives'[d], m)
      BY DEF FinishedIsThere, Authentic, Tree
    <3> QED
      BY <2>4, <3>1
  <2> QED
    BY <1>1, <2>1, <2>5 DEF ThereInvariant, WrittenIsThere, FilesAreOfExports, UnsyncedIsUnfinished, NoExport
<1> QED
  BY <1>2, <1>3

\* The files of finished exports were synced.
LEMMA PullKeepsThere ==
    ASSUME ExportInvariant, ThereInvariant, Pull
    PROVE  ThereInvariant'
<1>1. /\ machine' = machine /\ sheets' = sheets /\ job' = job /\ results' = results
      /\ plugged' = NoDrive /\ dirty' = {}
      /\ stayed' = IF job = NoExport THEN stayed ELSE [stayed EXCEPT ![job.n] = FALSE]
  BY DEF Pull
<1>2. \A d \in Drives : DOMAIN drives'[d] \subseteq DOMAIN drives[d]
  BY PulledDrive
<1>3. ASSUME NEW d \in Drives, NEW n \in DOMAIN results, results[n] = "ok"
      PROVE  SameFiles(drives[d], drives'[d], n)
  <2>1. \A p \in dirty : p.export # n
    BY <1>3 DEF ThereInvariant, UnsyncedIsUnfinished
  <2>2. CASE d # plugged
    BY <2>2, PulledDrive DEF SameFiles
  <2>3. CASE d = plugged
    BY <2>1, <2>3, PulledDrive DEF SameFiles
  <2> QED
    BY <2>2, <2>3
<1>4. \A n \in DOMAIN stayed : stayed'[n] => stayed[n]
  BY <1>1
<1>5. FinishedIsThere'
  <2>1. \A n \in DOMAIN results' : results'[n] = "ok" =>
              n \in DOMAIN results /\ results[n] = "ok" /\ (stayed'[n] => stayed[n])
    BY <1>1, <1>4, LenProperties DEF ExportInvariant, ExportTypeOK
  <2> QED
    BY <1>1, <1>3, <2>1, FinishedStays DEF ThereInvariant
<1>6. FilesAreOfExports'
  BY <1>1, <1>2 DEF ThereInvariant, FilesAreOfExports
<1>7. UnsyncedIsUnfinished'
  BY <1>1 DEF UnsyncedIsUnfinished
<1>8. WrittenIsThere'
  <2>1. CASE job.pc = "idle"
    BY <1>1, <2>1 DEF WrittenIsThere
  <2>2. CASE job.pc # "idle"
    <3>1. job # NoExport /\ job.n \in DOMAIN stayed
      BY <2>2 DEF ExportInvariant, ExportTypeOK, RunningIsTheLast, NoExport
    <3>2. job'.n = job.n /\ ~stayed'[job.n]
      BY <1>1, <3>1
    <3> QED
      BY <1>1, <3>2 DEF WrittenIsThere
  <2> QED
    BY <2>1, <2>2
<1> QED
  BY <1>5, <1>6, <1>7, <1>8 DEF ThereInvariant

LEMMA PlugInKeepsThere ==
    ASSUME ExportInvariant, ThereInvariant, PlugIn
    PROVE  ThereInvariant'
<1>1. /\ plugged = NoDrive /\ machine' = machine /\ sheets' = sheets /\ job' = job /\ results' = results
      /\ stayed' = stayed /\ dirty' = dirty /\ drives' = drives
  BY DEF PlugIn
<1>2. WrittenIsThere'
  <2>1. ~(job.pc # "idle" /\ stayed[job.n] /\ Fits(job.n))
    BY <1>1, WrittenSoFar DEF ThereInvariant
  <2>2. PICK n : n = job.n
    OBVIOUS
  <2>3. Fits(n)' <=> Fits(n)
    BY <1>1 DEF Fits, ReportContent
  <2>4. ~(job'.pc # "idle" /\ stayed'[n] /\ Fits(n)')
    BY <1>1, <2>1, <2>2, <2>3
  <2>5. job'.n = n
    BY <1>1, <2>2
  <2> QED
    BY <2>4, <2>5 DEF WrittenIsThere
<1>3. FinishedIsThere'
  BY <1>1 DEF ThereInvariant, FinishedIsThere, Fits, ReportContent, Authentic, Tree
<1> QED
  BY <1>1, <1>2, <1>3 DEF ThereInvariant, FilesAreOfExports, UnsyncedIsUnfinished

LEMMA ExportNextKeepsThere ==
    ExportInvariant /\ ThereInvariant /\ [ExportNext]_exportVars => ThereInvariant'
<1> SUFFICES ASSUME ExportInvariant, ThereInvariant, [ExportNext]_exportVars PROVE ThereInvariant'
  OBVIOUS
<1>1. CASE UNCHANGED exportVars
  <2>1. /\ machine' = machine /\ sheets' = sheets /\ job' = job /\ results' = results
        /\ plugged' = plugged /\ stayed' = stayed /\ dirty' = dirty /\ drives' = drives
    BY <1>1 DEF exportVars
  <2>2. WrittenIsThere'
    <3>1. CASE job.pc = "idle"
      BY <2>1, <3>1 DEF WrittenIsThere
    <3>2. CASE job.pc # "idle"
      <4>1. PICK n, at, part, head, files, copied :
              /\ n = job.n /\ at = job.pc /\ part = job.part /\ head = Head(job.todo)
              /\ files = drives[plugged] /\ copied = DOMAIN machine
        OBVIOUS
      <4>2. stayed[n] /\ Fits(n) => plugged # NoDrive /\ Written(n, at, part, head, files, copied)
        BY <3>2, <4>1, WrittenSoFar DEF ThereInvariant
      <4> QED
        BY <2>1, <4>1, <4>2, WrittenNext
    <3> QED
      BY <3>1, <3>2
  <2>3. FinishedIsThere'
    BY <2>1, SameFilesOfItself, FinishedStays DEF ThereInvariant
  <2> QED
    BY <2>1, <2>2, <2>3 DEF ThereInvariant, FilesAreOfExports, UnsyncedIsUnfinished
<1> QED
  BY <1>1, StartExportKeepsThere, WriteToMachineKeepsThere, FindDriveKeepsThere, WritePartKeepsThere,
     RenamePartKeepsThere, SyncFileKeepsThere, WriteSignatureKeepsThere, SyncSignatureKeepsThere,
     PullKeepsThere, PlugInKeepsThere DEF ExportNext

LEMMA WhatIsThereIsValid == ExportInvariant /\ ThereInvariant => ExportedIsThere
<1> SUFFICES ASSUME ExportInvariant, ThereInvariant,
                    NEW n \in DOMAIN results, results[n] = "ok", stayed[n], Len(ReportContent(n)) <= MaxFileSize
             PROVE  \E d \in Drives : Authentic(drives[d], n) /\ ValidDirectory(drives[d], n)
  BY DEF ExportedIsThere
<1>1. PICK d \in Drives : Authentic(drives[d], n)
  BY DEF ThereInvariant, FinishedIsThere, Fits
<1>2. n \in DOMAIN sheets
  BY LenProperties DEF ExportInvariant, ExportTypeOK
<1>3. ValidDirectory(drives[d], n)
  BY <1>1, <1>2, AuthenticReportIsWhole DEF AuthenticIsWhole
<1> QED
  BY <1>1, <1>3

\* An export that reports success, to one drive that stayed in, is there and
\* authenticates, when it is not above the maximum file size: whatever was pulled,
\* lost and exported before and after.
THEOREM ExportedReportsAreThere == ExportSpec => []ExportedIsThere
<1>1. ExportInvariant /\ ThereInvariant /\ [ExportNext]_exportVars => ThereInvariant'
  BY ExportNextKeepsThere
<1> QED
  BY <1>1, ExportInvariantHolds, ThereInit, WhatIsThereIsValid, PTL DEF ExportSpec

----------------------------------------------------------------------------
(* Elections that are converted to CDF and parsed again: what a flattened  *)
(* list and a filter have, for FlattenSeq is all that Concat and Those are.*)

\* How FlattenSeq gets to its result.
IsJoin(H, f, n) == H[0] = <<>> /\ \A k \in 0 .. n - 1 : H[k + 1] = H[k] \o f[k + 1]

\* A list of lists can be joined one by one.
LEMMA JoinIsDefined ==
    ASSUME NEW X, NEW n \in Nat, NEW f \in [1 .. n -> Seq(X)]
    PROVE  \E H \in [0 .. n -> Seq(X)] : IsJoin(H, f, n)
<1> DEFINE Join(H, k) == H \in [0 .. k -> Seq(X)] /\ IsJoin(H, f, k)
           S == {k \in Nat : k <= n => \E H : Join(H, k)}
<1>1. 0 \in S
  <2>1. PICK H : H = [k \in 0 .. 0 |-> <<>>]
    OBVIOUS
  <2>2. H \in [0 .. 0 -> Seq(X)] /\ H[0] = <<>>
    BY <2>1
  <2>3. Join(H, 0)
    BY <2>2 DEF IsJoin
  <2> HIDE DEF Join
  <2> QED
    BY <2>3
<1>2. ASSUME NEW k \in Nat, k \in S PROVE k + 1 \in S
  <2>1. SUFFICES ASSUME k + 1 <= n PROVE \E g : Join(g, k + 1)
    <3> HIDE DEF Join
    <3> QED
      OBVIOUS
  <2>2. PICK H : Join(H, k)
    <3> HIDE DEF Join
    <3> QED
      BY <1>2, <2>1
  <2>3. PICK g : g = [j \in 0 .. k + 1 |-> IF j = k + 1 THEN H[k] \o f[k + 1] ELSE H[j]]
    OBVIOUS
  <2>4. \A j \in 0 .. k : g[j] = H[j] /\ H[j] \in Seq(X)
    BY <2>2, <2>3
  <2>5. g[k + 1] = H[k] \o f[k + 1]
    <3>1. k + 1 \in 0 .. k + 1
      OBVIOUS
    <3> QED
      BY <3>1, <2>3
  <2>6. g[k + 1] \in Seq(X)
    <3>1. H[k] \in Seq(X) /\ f[k + 1] \in Seq(X)
      BY <2>1, <2>4
    <3>2. \A a \in Seq(X), b \in Seq(X) : a \o b \in Seq(X)
      OBVIOUS
    <3> QED
      BY <2>5, <3>1, <3>2
  <2>7. g \in [0 .. k + 1 -> Seq(X)]
    <3>1. ASSUME NEW j \in 0 .. k + 1 PROVE g[j] \in Seq(X)
      <4>1. j \in 0 .. k \/ j = k + 1
        OBVIOUS
      <4> QED
        BY <4>1, <2>4, <2>6
    <3>2. g = [j \in 0 .. k + 1 |-> g[j]]
      BY <2>3
    <3> QED
      BY <3>1, <3>2
  <2>8. IsJoin(g, f, k + 1)
    <3>1. g[0] = <<>>
      BY <2>2, <2>4 DEF IsJoin
    <3>2. ASSUME NEW j \in 0 .. k PROVE g[j + 1] = g[j] \o f[j + 1]
      <4>1. CASE j = k
        BY <4>1, <2>4, <2>5
      <4>2. CASE j # k
        <5>1. j \in 0 .. k - 1 /\ j \in 0 .. k /\ j + 1 \in 0 .. k
          BY <4>2
        <5> QED
          BY <5>1, <2>2, <2>4 DEF IsJoin
      <4> QED
        BY <4>1, <4>2
    <3>3. 0 .. (k + 1) - 1 = 0 .. k
      OBVIOUS
    <3> QED
      BY <3>1, <3>2, <3>3 DEF IsJoin
  <2> HIDE DEF Join
  <2>9. Join(g, k + 1)
    BY <2>7, <2>8 DEF Join
  <2> QED
    BY <2>9
<1>3. n \in S
  <2> HIDE DEF S
  <2> QED
    BY <1>1, <1>2, AllNumbers
<1>4. PICK H : Join(H, n)
  <2> HIDE DEF Join
  <2> QED
    BY <1>3
<1> QED
  BY <1>4

\* What FlattenSeq computes.
LEMMA FlattenedSteps ==
    ASSUME NEW X, NEW n \in Nat, NEW f \in [1 .. n -> Seq(X)]
    PROVE  \E H \in [0 .. n -> Seq(X)] : IsJoin(H, f, n) /\ FlattenSeq(f) = H[n]
<1>1. PICK H \in [0 .. n -> Seq(X)] : IsJoin(H, f, n)
  BY JoinIsDefined
<1>2. f \in Seq(Seq(X)) /\ Len(f) = n
  OBVIOUS
<1>3. \A k \in 1 .. n : H[k] = IF k = 1 THEN f[k] ELSE H[k - 1] \o f[k]
  <2>1. SUFFICES ASSUME NEW k \in 1 .. n PROVE H[k] = IF k = 1 THEN f[k] ELSE H[k - 1] \o f[k]
    OBVIOUS
  <2>2. k - 1 \in 0 .. n - 1 /\ (k - 1) + 1 = k
    OBVIOUS
  <2>3. H[k] = H[k - 1] \o f[k]
    BY <2>2, <1>1 DEF IsJoin
  <2>4. CASE k = 1
    <3>1. H[0] = <<>> /\ k - 1 = 0
      BY <2>4, <1>1 DEF IsJoin
    <3>2. f[k] \in Seq(X)
      OBVIOUS
    <3>3. \A a \in Seq(X) : <<>> \o a = a
      OBVIOUS
    <3> QED
      BY <2>3, <2>4, <3>1, <3>2, <3>3
  <2>5. CASE k # 1
    BY <2>3, <2>5
  <2> QED
    BY <2>4, <2>5
<1> DEFINE Step(h, i) == IF i = 1 THEN f[i] ELSE h[i - 1] \o f[i]
           flatten == CHOOSE h : h = [i \in 1 .. n |-> Step(h, i)]
           h0 == [i \in 1 .. n |-> H[i]]
<1>4. h0 = [i \in 1 .. n |-> Step(h0, i)]
  <2>1. ASSUME NEW i \in 1 .. n PROVE H[i] = Step(h0, i)
    <3>1. i # 1 => i - 1 \in 1 .. n
      OBVIOUS
    <3> QED
      BY <1>3, <3>1
  <2> HIDE DEF Step
  <2> QED
    BY <2>1
<1> HIDE DEF h0
<1>5. flatten = [i \in 1 .. n |-> Step(flatten, i)]
  <2> HIDE DEF Step
  <2> QED
    BY <1>4
<1>6. n # 0 => FlattenSeq(f) = flatten[n]
  BY <1>2 DEF FlattenSeq
<1> HIDE DEF flatten
<1> DEFINE S == {k \in Nat : k + 1 <= n => flatten[k + 1] = H[k + 1]}
<1>7. 0 \in S
  BY <1>3, <1>5
<1>8. ASSUME NEW k \in Nat, k \in S PROVE k + 1 \in S
  <2> DEFINE m == k + 2
  <2>1. SUFFICES ASSUME m <= n PROVE flatten[m] = H[m]
    BY k + 1 + 1 = k + 2
  <2>2. m \in 1 .. n /\ m # 1 /\ k + 1 = m - 1 /\ k + 1 <= n
    BY <2>1
  <2>4. flatten[m - 1] = H[m - 1]
    BY <1>8, <2>2
  <2> HIDE DEF m
  <2>3. flatten[m] = flatten[m - 1] \o f[m]
    BY <1>5, <2>2
  <2>5. H[m] = H[m - 1] \o f[m]
    BY <1>3, <2>2
  <2> QED
    BY <2>3, <2>4, <2>5
<1> HIDE DEF S
<1>9. FlattenSeq(f) = H[n]
  <2>1. CASE n = 0
    <3>1. FlattenSeq(f) = f /\ f = <<>> /\ H[n] = <<>>
      BY <2>1, <1>1, <1>2 DEF FlattenSeq, IsJoin
    <3> QED
      BY <3>1
  <2>2. CASE n # 0
    <3>1. n - 1 \in Nat /\ (n - 1) + 1 = n
      BY <2>2
    <3>2. n - 1 \in S
      BY <3>1, <1>7, <1>8, AllNumbers
    <3> QED
      BY <3>1, <3>2, <2>2, <1>6 DEF S
  <2> QED
    BY <2>1, <2>2
<1> QED
  BY <1>1, <1>9

\* The elements of two lists, and of both.
LEMMA JoinedTwo ==
    ASSUME NEW X, NEW p \in Seq(X), NEW q \in Seq(X)
    PROVE  /\ p \o q \in Seq(X) /\ Len(p \o q) = Len(p) + Len(q)
           /\ Len(p) \in Nat /\ Len(q) \in Nat
           /\ \A i \in 1 .. Len(p) : (p \o q)[i] = p[i]
           /\ \A i \in 1 .. Len(q) : (p \o q)[Len(p) + i] = q[i]
           /\ Range(p \o q) = Range(p) \cup Range(q)
<1>1. Range(p \o q) = Range(p) \cup Range(q)
  BY RangeConcatenation
<1> QED
  BY <1>1

IsJoined(s, p, q) ==
    /\ Len(s) = Len(p) + Len(q) /\ Len(p) \in Nat /\ Len(q) \in Nat
    /\ \A i \in 1 .. Len(p) : s[i] = p[i]
    /\ \A i \in 1 .. Len(q) : s[Len(p) + i] = q[i]
    /\ Range(s) = Range(p) \cup Range(q)

LEMMA JoinedAre ==
    ASSUME NEW X, NEW p \in Seq(X), NEW q \in Seq(X)
    PROVE  p \o q \in Seq(X) /\ IsJoined(p \o q, p, q)
  BY JoinedTwo DEF IsJoined

\* Two lists have no element twice when neither has, and they share none.
LEMMA JoinedInjective ==
    ASSUME NEW X, NEW p \in Seq(X), NEW q \in Seq(X)
    PROVE  IsInjective(p \o q) <=>
               IsInjective(p) /\ IsInjective(q) /\ Range(p) \cap Range(q) = {}
<1> DEFINE r == p \o q
<1>1. /\ r \in Seq(X) /\ Len(r) = Len(p) + Len(q) /\ Len(p) \in Nat /\ Len(q) \in Nat
      /\ \A i \in 1 .. Len(p) : r[i] = p[i]
      /\ \A i \in 1 .. Len(q) : r[Len(p) + i] = q[i]
  BY JoinedTwo
<1>2. DOMAIN r = 1 .. Len(r) /\ DOMAIN p = 1 .. Len(p) /\ DOMAIN q = 1 .. Len(q)
  BY <1>1
<1> HIDE DEF r
<1>3. ASSUME IsInjective(r) PROVE IsInjective(p) /\ IsInjective(q) /\ Range(p) \cap Range(q) = {}
  <2>1. IsInjective(p)
    BY <1>1, <1>2, <1>3 DEF IsInjective
  <2>2. ASSUME NEW i \in 1 .. Len(q), NEW j \in 1 .. Len(q), q[i] = q[j] PROVE i = j
    <3>1. Len(p) + i \in 1 .. Len(r) /\ Len(p) + j \in 1 .. Len(r)
      BY <1>1
    <3>2. r[Len(p) + i] = r[Len(p) + j]
      BY <1>1, <2>2
    <3>3. Len(p) + i = Len(p) + j
      BY <3>1, <3>2, <1>2, <1>3 DEF IsInjective
    <3> QED
      BY <3>3, <1>1
  <2>3. ASSUME NEW i \in 1 .. Len(p), NEW j \in 1 .. Len(q), p[i] = q[j] PROVE FALSE
    <3>1. i \in 1 .. Len(r) /\ Len(p) + j \in 1 .. Len(r) /\ i # Len(p) + j
      BY <1>1
    <3>2. r[i] = r[Len(p) + j]
      BY <1>1, <2>3
    <3> QED
      BY <3>1, <3>2, <1>2, <1>3 DEF IsInjective
  <2> QED
    BY <2>1, <2>2, <2>3, <1>2 DEF IsInjective, Range
<1>4. ASSUME IsInjective(p), IsInjective(q), Range(p) \cap Range(q) = {} PROVE IsInjective(r)
  <2>1. SUFFICES ASSUME NEW i \in 1 .. Len(r), NEW j \in 1 .. Len(r), r[i] = r[j] PROVE i = j
    BY <1>2 DEF IsInjective
  <2>2. ASSUME NEW k \in 1 .. Len(r), k > Len(p)
        PROVE  k - Len(p) \in 1 .. Len(q) /\ r[k] = q[k - Len(p)]
    <3>1. k - Len(p) \in 1 .. Len(q) /\ Len(p) + (k - Len(p)) = k
      BY <2>2, <1>1
    <3> QED
      BY <3>1, <1>1
  <2>3. ASSUME NEW k \in 1 .. Len(r), k <= Len(p) PROVE k \in 1 .. Len(p) /\ r[k] = p[k]
    BY <2>3, <1>1
  <2>4. \A k \in 1 .. Len(p), l \in 1 .. Len(q) : p[k] # q[l]
    BY <1>4, <1>2 DEF Range
  <2>5. CASE i <= Len(p) /\ j <= Len(p)
    BY <2>1, <2>3, <2>5, <1>2, <1>4 DEF IsInjective
  <2>6. CASE i > Len(p) /\ j > Len(p)
    <3>1. i - Len(p) = j - Len(p)
      BY <2>1, <2>2, <2>6, <1>2, <1>4 DEF IsInjective
    <3> QED
      BY <3>1, <1>1
  <2>7. CASE i <= Len(p) /\ j > Len(p)
    BY <2>1, <2>2, <2>3, <2>4, <2>7
  <2>8. CASE i > Len(p) /\ j <= Len(p)
    BY <2>1, <2>2, <2>3, <2>4, <2>8
  <2> QED
    BY <2>5, <2>6, <2>7, <2>8, <1>1
<1> QED
  BY <1>3, <1>4 DEF r

\* A flattened list has the elements of its lists.
LEMMA FlattenedHas ==
    ASSUME NEW X, NEW n \in Nat, NEW f \in [1 .. n -> Seq(X)]
    PROVE  /\ FlattenSeq(f) \in Seq(X)
           /\ Range(FlattenSeq(f)) = UNION {Range(f[i]) : i \in 1 .. n}
<1>1. PICK H \in [0 .. n -> Seq(X)] : IsJoin(H, f, n) /\ FlattenSeq(f) = H[n]
  BY FlattenedSteps
<1> DEFINE Of(k) == UNION {Range(f[i]) : i \in 1 .. k}
           S == {k \in Nat : k <= n => Range(H[k]) = Of(k)}
<1>2. 0 \in S
  BY <1>1 DEF IsJoin, Range
<1>3. ASSUME NEW k \in Nat, k \in S PROVE k + 1 \in S
  <2>1. SUFFICES ASSUME k + 1 <= n PROVE Range(H[k + 1]) = Of(k + 1)
    OBVIOUS
  <2>2. H[k] \in Seq(X) /\ f[k + 1] \in Seq(X) /\ H[k + 1] = H[k] \o f[k + 1]
    <3>1. k \in 0 .. n - 1 /\ k \in 0 .. n /\ k + 1 \in 1 .. n
      BY <2>1
    <3> HIDE DEF S
    <3> QED
      BY <3>1, <1>1 DEF IsJoin
  <2>3. Range(H[k + 1]) = Range(H[k]) \cup Range(f[k + 1])
    BY <2>2, RangeConcatenation
  <2>4. Range(H[k]) = Of(k)
    BY <2>1, <1>3
  <2>5. Of(k + 1) = Of(k) \cup Range(f[k + 1])
    <3>1. 1 .. k + 1 = (1 .. k) \cup {k + 1}
      OBVIOUS
    <3> QED
      BY <3>1
  <2> HIDE DEF Of
  <2> QED
    BY <2>3, <2>4, <2>5
<1>4. n \in S
  <2> HIDE DEF S
  <2> QED
    BY <1>2, <1>3, AllNumbers
<1> QED
  BY <1>1, <1>4

\* It has no element twice when none of its lists has, and no two share one.
LEMMA FlattenedInjective ==
    ASSUME NEW X, NEW n \in Nat, NEW f \in [1 .. n -> Seq(X)]
    PROVE  IsInjective(FlattenSeq(f)) <=>
               /\ \A i \in 1 .. n : IsInjective(f[i])
               /\ \A i, j \in 1 .. n : i # j => Range(f[i]) \cap Range(f[j]) = {}
<1>1. PICK H \in [0 .. n -> Seq(X)] : IsJoin(H, f, n) /\ FlattenSeq(f) = H[n]
  BY FlattenedSteps
<1> DEFINE Apart(k) == /\ \A i \in 1 .. k : IsInjective(f[i])
                       /\ \A i, j \in 1 .. k : i # j => Range(f[i]) \cap Range(f[j]) = {}
           Of(k) == UNION {Range(f[i]) : i \in 1 .. k}
           S == {k \in Nat : k <= n => Range(H[k]) = Of(k) /\ (IsInjective(H[k]) <=> Apart(k))}
<1>2. 0 \in S
  BY <1>1 DEF IsJoin, Range, IsInjective
<1>3. ASSUME NEW k \in Nat, k \in S PROVE k + 1 \in S
  <2>1. SUFFICES ASSUME k + 1 <= n
                 PROVE  Range(H[k + 1]) = Of(k + 1) /\ (IsInjective(H[k + 1]) <=> Apart(k + 1))
    <3> HIDE DEF Of, Apart
    <3> QED
      OBVIOUS
  <2>2. H[k] \in Seq(X) /\ f[k + 1] \in Seq(X) /\ H[k + 1] = H[k] \o f[k + 1]
    <3>1. k \in 0 .. n - 1 /\ k \in 0 .. n /\ k + 1 \in 1 .. n
      BY <2>1
    <3> HIDE DEF S
    <3> QED
      BY <3>1, <1>1 DEF IsJoin
  <2>3. Range(H[k + 1]) = Range(H[k]) \cup Range(f[k + 1])
    BY <2>2, RangeConcatenation
  <2>4. Range(H[k]) = Of(k) /\ (IsInjective(H[k]) <=> Apart(k))
    <3> HIDE DEF Of, Apart
    <3> QED
      BY <2>1, <1>3
  <2>5. 1 .. k + 1 = (1 .. k) \cup {k + 1} /\ k + 1 \notin 1 .. k
    OBVIOUS
  <2>6. Of(k + 1) = Of(k) \cup Range(f[k + 1])
    BY <2>5
  <2>7. IsInjective(H[k + 1]) <=>
            IsInjective(H[k]) /\ IsInjective(f[k + 1]) /\ Range(H[k]) \cap Range(f[k + 1]) = {}
    BY <2>2, JoinedInjective
  <2>8. Apart(k + 1) <=> Apart(k) /\ IsInjective(f[k + 1]) /\ Of(k) \cap Range(f[k + 1]) = {}
    <3>1. Of(k) \cap Range(f[k + 1]) = {} <=> \A i \in 1 .. k : Range(f[i]) \cap Range(f[k + 1]) = {}
      OBVIOUS
    <3> HIDE DEF Of
    <3> QED
      BY <3>1, <2>5
  <2> HIDE DEF Of, Apart
  <2> QED
    BY <2>3, <2>4, <2>6, <2>7, <2>8
<1>4. n \in S
  <2> HIDE DEF S
  <2> QED
    BY <1>2, <1>3, AllNumbers
<1> QED
  BY <1>1, <1>4

\* Lists that are mapped one by one are mapped when they are flattened.
Mapped(s, h) == [k \in DOMAIN s |-> h[s[k]]]
EachMapped(f, h) == [i \in DOMAIN f |-> Mapped(f[i], h)]

LEMMA FlattenedMap ==
    ASSUME NEW h, NEW f, f \in Seq(Seq(DOMAIN h))
    PROVE  FlattenSeq(EachMapped(f, h)) = Mapped(FlattenSeq(f), h)
<1> DEFINE X == DOMAIN h  Y == Range(h)  n == Len(f)
<1>a. n \in Nat /\ f \in [1 .. n -> Seq(X)] /\ DOMAIN f = 1 .. n
  OBVIOUS
<1>b. \A x \in X : h[x] \in Y
  BY DEF Range
<1> HIDE DEF X, Y, n
<1> DEFINE Map(s) == [k \in DOMAIN s |-> h[s[k]]]
           g == [i \in 1 .. n |-> Map(f[i])]
<1>0. EachMapped(f, h) = g
  BY <1>a DEF EachMapped, Mapped
<1>1. ASSUME NEW s \in Seq(X) PROVE Map(s) \in Seq(Y) /\ Len(Map(s)) = Len(s)
  BY <1>b
<1>2. ASSUME NEW s \in Seq(X), NEW t \in Seq(X) PROVE Map(s \o t) = Map(s) \o Map(t)
  <2> DEFINE u == s \o t  v == Map(s) \o Map(t)
  <2>1. /\ u \in Seq(X) /\ Len(u) = Len(s) + Len(t) /\ Len(s) \in Nat /\ Len(t) \in Nat
        /\ \A i \in 1 .. Len(s) : u[i] = s[i]
        /\ \A i \in 1 .. Len(t) : u[Len(s) + i] = t[i]
    BY JoinedTwo
  <2>2. /\ v \in Seq(Y) /\ Len(v) = Len(s) + Len(t)
        /\ \A i \in 1 .. Len(s) : v[i] = Map(s)[i]
        /\ \A i \in 1 .. Len(t) : v[Len(s) + i] = Map(t)[i]
    <3>1. Map(s) \in Seq(Y) /\ Len(Map(s)) = Len(s) /\ Map(t) \in Seq(Y) /\ Len(Map(t)) = Len(t)
      BY <1>1
    <3>2. \A a, b \in Seq(Y) : /\ a \o b \in Seq(Y) /\ Len(a \o b) = Len(a) + Len(b)
                               /\ \A i \in 1 .. Len(a) : (a \o b)[i] = a[i]
                               /\ \A i \in 1 .. Len(b) : (a \o b)[Len(a) + i] = b[i]
      BY JoinedTwo
    <3> DEFINE a == Map(s)  b == Map(t)
    <3>3. a \in Seq(Y) /\ Len(a) = Len(s) /\ b \in Seq(Y) /\ Len(b) = Len(t) /\ v = a \o b
      BY <3>1
    <3> HIDE DEF a, b, v
    <3>5. /\ a \o b \in Seq(Y) /\ Len(a \o b) = Len(a) + Len(b)
          /\ \A i \in 1 .. Len(a) : (a \o b)[i] = a[i]
          /\ \A i \in 1 .. Len(b) : (a \o b)[Len(a) + i] = b[i]
      BY <3>2, <3>3, Zenon
    <3>4. /\ v \in Seq(Y) /\ Len(v) = Len(s) + Len(t)
          /\ \A i \in 1 .. Len(s) : v[i] = a[i]
          /\ \A i \in 1 .. Len(t) : v[Len(s) + i] = b[i]
      BY <3>3, <3>5, Zenon
    <3> QED
      BY <3>4 DEF a, b
  <2>3. DOMAIN u = 1 .. Len(u) /\ DOMAIN v = 1 .. Len(v) /\ DOMAIN s = 1 .. Len(s) /\ DOMAIN t = 1 .. Len(t)
    BY <2>1, <2>2
  <2> HIDE DEF u, v
  <2>4. ASSUME NEW i \in 1 .. Len(s) + Len(t) PROVE h[u[i]] = v[i]
    <3>1. CASE i <= Len(s)
      <4>1. i \in 1 .. Len(s) /\ i \in DOMAIN s
        BY <3>1, <2>1, <2>3
      <4> QED
        BY <4>1, <2>1, <2>2
    <3>2. CASE i > Len(s)
      <4>1. i - Len(s) \in 1 .. Len(t) /\ Len(s) + (i - Len(s)) = i
        BY <3>2, <2>1
      <4>2. u[i] = t[i - Len(s)] /\ v[i] = Map(t)[i - Len(s)]
        BY <4>1, <2>1, <2>2
      <4> QED
        BY <4>1, <4>2, <2>3
    <3> QED
      BY <3>1, <3>2, <2>1
  <2>5. v = [i \in 1 .. Len(v) |-> v[i]]
    BY <2>2
  <2> QED
    BY <2>1, <2>2, <2>3, <2>4, <2>5 DEF u, v
<1>3. g \in [1 .. n -> Seq(Y)]
  <2> HIDE DEF Map
  <2> QED
    BY <1>a, <1>1
<1>4. PICK H \in [0 .. n -> Seq(X)] : IsJoin(H, f, n) /\ FlattenSeq(f) = H[n]
  BY <1>a, FlattenedSteps
<1>5. PICK G \in [0 .. n -> Seq(Y)] : IsJoin(G, g, n) /\ FlattenSeq(g) = G[n]
  BY <1>a, <1>3, FlattenedSteps
<1> DEFINE S == {k \in Nat : k <= n => G[k] = Map(H[k])}
<1>6. 0 \in S
  BY <1>4, <1>5 DEF IsJoin
<1>7. ASSUME NEW k \in Nat, k \in S PROVE k + 1 \in S
  <2>1. SUFFICES ASSUME k + 1 <= n PROVE G[k + 1] = Map(H[k + 1])
    OBVIOUS
  <2>2. H[k] \in Seq(X) /\ f[k + 1] \in Seq(X) /\ H[k + 1] = H[k] \o f[k + 1]
    <3>1. k \in 0 .. n - 1 /\ k \in 0 .. n /\ k + 1 \in 1 .. n
      BY <2>1, <1>a
    <3> HIDE DEF S
    <3> QED
      BY <3>1, <1>4, <1>a DEF IsJoin
  <2>3. G[k + 1] = G[k] \o g[k + 1] /\ g[k + 1] = Map(f[k + 1])
    <3>1. k \in 0 .. n - 1 /\ k + 1 \in 1 .. n
      BY <2>1, <1>a
    <3>2. G[k + 1] = G[k] \o g[k + 1]
      <4> HIDE DEF S, g, Map
      <4> QED
        BY <3>1, <1>5, <1>a DEF IsJoin
    <3> QED
      BY <3>1, <3>2
  <2>4. G[k] = Map(H[k])
    BY <2>1, <1>7, <1>a
  <2> HIDE DEF Map, g
  <2> QED
    BY <2>2, <2>3, <2>4, <1>2
<1>8. n \in S
  <2> HIDE DEF S
  <2> QED
    BY <1>a, <1>6, <1>7, AllNumbers
<1> QED
  BY <1>0, <1>4, <1>5, <1>8 DEF Mapped

\* What a filter keeps is found by the places it keeps.
Places(n, K) == FlattenSeq([i \in 1 .. n |-> IF i \in K THEN <<i>> ELSE <<>>])
Kept(s, K) == FlattenSeq([i \in DOMAIN s |-> IF i \in K THEN <<s[i]>> ELSE <<>>])

\* The places kept, each once.
LEMMA PlacesAreKept ==
    ASSUME NEW n \in Nat, NEW K \in SUBSET (1 .. n)
    PROVE  /\ Places(n, K) \in Seq(1 .. n)
           /\ Range(Places(n, K)) = K /\ IsInjective(Places(n, K))
<1> DEFINE f == [i \in 1 .. n |-> IF i \in K THEN <<i>> ELSE <<>>]
           N == 1 .. n
<1>1. f \in [1 .. n -> Seq(N)]
  <2>1. \A i \in N : <<i>> \in Seq(N) /\ <<>> \in Seq(N)
    <3> HIDE DEF N
    <3> QED
      OBVIOUS
  <2> QED
    BY <2>1
<1>2. \A i \in 1 .. n : Range(f[i]) = IF i \in K THEN {i} ELSE {}
  BY DEF Range
<1>3. \A i \in 1 .. n : IsInjective(f[i])
  BY DEF IsInjective
<1> HIDE DEF f, N
<1>4. FlattenSeq(f) \in Seq(N) /\ Range(FlattenSeq(f)) = UNION {Range(f[i]) : i \in 1 .. n}
  BY <1>1, FlattenedHas
<1>5. Range(FlattenSeq(f)) = K
  <2>1. ASSUME NEW i \in K PROVE i \in UNION {Range(f[j]) : j \in 1 .. n}
    <3>1. i \in 1 .. n /\ i \in Range(f[i])
      BY <1>2
    <3> QED
      BY <3>1
  <2>2. ASSUME NEW j \in 1 .. n, NEW i \in Range(f[j]) PROVE i \in K
    BY <1>2
  <2> QED
    BY <1>4, <2>1, <2>2
<1>6. IsInjective(FlattenSeq(f))
  <2>1. \A i, j \in 1 .. n : i # j => Range(f[i]) \cap Range(f[j]) = {}
    BY <1>2
  <2> QED
    BY <1>1, <1>3, <2>1, FlattenedInjective
<1> QED
  BY <1>4, <1>5, <1>6 DEF Places, f, N

\* What is kept, read at the places kept.
LEMMA PlacesMakeKept ==
    ASSUME NEW n \in Nat, NEW s, DOMAIN s = 1 .. n, NEW K \in SUBSET (DOMAIN s)
    PROVE  Kept(s, K) = Mapped(Places(n, K), s)
<1> DEFINE N == DOMAIN s
<1> DEFINE f == [i \in 1 .. n |-> IF i \in K THEN <<i>> ELSE <<>>]
           k == [i \in N |-> IF i \in K THEN <<s[i]>> ELSE <<>>]
<1>1. f \in Seq(Seq(N))
  <2>1. \A i \in 1 .. n : i \in N
    OBVIOUS
  <2> HIDE DEF N
  <2>2. \A i \in 1 .. n : f[i] \in Seq(N)
    BY <2>1
  <2> QED
    BY <2>2
<1>2. EachMapped(f, s) = k
  <2>1. ASSUME NEW i \in N PROVE Mapped(f[i], s) = IF i \in K THEN <<s[i]>> ELSE <<>>
    <3>1. CASE i \in K
      <4>1. f[i] = <<i>> /\ DOMAIN f[i] = {1} /\ f[i][1] = i
        BY <3>1
      <4>2. <<s[i]>> = [j \in {1} |-> s[i]]
        OBVIOUS
      <4> HIDE DEF f
      <4> QED
        BY <4>1, <4>2, <3>1 DEF Mapped
    <3>2. CASE i \notin K
      <4>1. f[i] = <<>> /\ DOMAIN f[i] = {}
        BY <3>2
      <4>2. <<>> = [j \in {} |-> s[f[i][j]]]
        OBVIOUS
      <4> HIDE DEF f
      <4> QED
        BY <4>1, <4>2, <3>2 DEF Mapped
    <3> QED
      BY <3>1, <3>2
  <2>2. DOMAIN f = N
    OBVIOUS
  <2> HIDE DEF f
  <2> QED
    BY <2>1, <2>2 DEF EachMapped
<1>3. Kept(s, K) = FlattenSeq(k)
  BY DEF Kept
<1>4. Places(n, K) = FlattenSeq(f)
  BY DEF Places
<1> HIDE DEF f, k
<1>5. FlattenSeq(EachMapped(f, s)) = Mapped(FlattenSeq(f), s)
  BY <1>1, FlattenedMap
<1> QED
  BY <1>2, <1>3, <1>4, <1>5

LEMMA KeptIsMade ==
    ASSUME NEW X, NEW s \in Seq(X), NEW K \in SUBSET (DOMAIN s)
    PROVE  Kept(s, K) = [j \in DOMAIN Places(Len(s), K) |-> s[Places(Len(s), K)[j]]]
<1>1. Len(s) \in Nat /\ DOMAIN s = 1 .. Len(s) /\ s \in [DOMAIN s -> X]
  OBVIOUS
<1> QED
  <2>1. Kept(s, K) = Mapped(Places(Len(s), K), s)
    BY <1>1, PlacesMakeKept
  <2> QED
    BY <2>1 DEF Mapped

\* The elements that are kept.
LEMMA KeptHas ==
    ASSUME NEW X, NEW s \in Seq(X), NEW K \in SUBSET (DOMAIN s)
    PROVE  /\ Kept(s, K) \in Seq(X) /\ Range(Kept(s, K)) = {s[i] : i \in K}
           /\ Kept(s, K) = <<>> <=> K = {}
<1> DEFINE p == Places(Len(s), K)
<1>1. DOMAIN s = 1 .. Len(s) /\ Len(s) \in Nat
  OBVIOUS
<1>2. p \in Seq(1 .. Len(s)) /\ Range(p) = K
  BY <1>1, PlacesAreKept
<1>3. Kept(s, K) = [j \in DOMAIN p |-> s[p[j]]]
  BY KeptIsMade
<1> HIDE DEF p
<1>4. DOMAIN p = 1 .. Len(p) /\ Len(p) \in Nat /\ \A j \in DOMAIN p : p[j] \in DOMAIN s
  BY <1>1, <1>2
<1>5. Kept(s, K) \in Seq(X)
  BY <1>3, <1>4
<1>6. Range(Kept(s, K)) = {s[i] : i \in K}
  BY <1>2, <1>3 DEF Range
<1>7. \A r \in Seq(X) : r = <<>> <=> Range(r) = {}
  <2>1. SUFFICES ASSUME NEW r \in Seq(X), r # <<>> PROVE Range(r) # {}
    BY DEF Range
  <2>2. 1 \in DOMAIN r
    BY <2>1
  <2> QED
    BY <2>2 DEF Range
<1> QED
  BY <1>5, <1>6, <1>7

\* Ids that were the only ones stay so.
LEMMA KeptIds ==
    ASSUME NEW X, NEW s \in Seq(X), NEW K \in SUBSET (DOMAIN s)
    PROVE  /\ Range(Ids(Kept(s, K))) \subseteq Range(Ids(s))
           /\ IsInjective(Ids(s)) => IsInjective(Ids(Kept(s, K)))
<1> DEFINE p == Places(Len(s), K)
<1>1. DOMAIN s = 1 .. Len(s) /\ Len(s) \in Nat
  OBVIOUS
<1>2. p \in Seq(1 .. Len(s)) /\ Range(p) = K /\ IsInjective(p)
  BY <1>1, PlacesAreKept
<1>3. Kept(s, K) = [j \in DOMAIN p |-> s[p[j]]]
  BY KeptIsMade
<1> HIDE DEF p
<1>4. \A j \in DOMAIN p : p[j] \in DOMAIN s
  BY <1>1, <1>2
<1>5. Ids(Kept(s, K)) = [j \in DOMAIN p |-> Ids(s)[p[j]]]
  BY <1>3, <1>4 DEF Ids
<1>6. DOMAIN Ids(s) = DOMAIN s
  BY DEF Ids
<1> QED
  BY <1>2, <1>4, <1>5, <1>6 DEF Range, IsInjective

\* Lists of one and of two lists.
LEMMA FlattenedFew ==
    ASSUME NEW X, NEW a \in Seq(X), NEW b \in Seq(X)
    PROVE  FlattenSeq(<<a>>) = a /\ FlattenSeq(<<a, b>>) = a \o b
<1>0. \A c \in Seq(X) : <<>> \o c = c
  OBVIOUS
<1>1. FlattenSeq(<<a>>) = a
  <2> DEFINE f == <<a>>
  <2>1. f \in [1 .. 1 -> Seq(X)] /\ f[1] = a
    OBVIOUS
  <2> HIDE DEF f
  <2>2. PICK H \in [0 .. 1 -> Seq(X)] : IsJoin(H, f, 1) /\ FlattenSeq(f) = H[1]
    BY <2>1, FlattenedSteps
  <2>3. H[0] = <<>> /\ H[0 + 1] = H[0] \o f[0 + 1]
    <3>1. 0 \in 0 .. 1 - 1
      OBVIOUS
    <3> QED
      BY <2>2, <3>1, Zenon DEF IsJoin
  <2> QED
    BY <2>1, <2>2, <2>3, <1>0 DEF f
<1>2. FlattenSeq(<<a, b>>) = a \o b
  <2> DEFINE f == <<a, b>>
  <2>1. f \in [1 .. 2 -> Seq(X)] /\ f[1] = a /\ f[2] = b
    OBVIOUS
  <2> HIDE DEF f
  <2>2. PICK H \in [0 .. 2 -> Seq(X)] : IsJoin(H, f, 2) /\ FlattenSeq(f) = H[2]
    BY <2>1, FlattenedSteps
  <2>3. H[0] = <<>> /\ H[0 + 1] = H[0] \o f[0 + 1] /\ H[1 + 1] = H[1] \o f[1 + 1]
    <3>1. 0 \in 0 .. 2 - 1 /\ 1 \in 0 .. 2 - 1
      OBVIOUS
    <3> QED
      BY <2>2, <3>1, Zenon DEF IsJoin
  <2>5. 0 + 1 = 1 /\ 1 + 1 = 2
    OBVIOUS
  <2>4. H[1] = a
    BY <2>1, <2>3, <2>5, <1>0
  <2>6. FlattenSeq(f) = a \o b
    BY <2>1, <2>2, <2>3, <2>4, <2>5
  <2> QED
    BY <2>6 DEF f
<1> QED
  BY <1>1, <1>2

\* A filter that keeps the first of two lists.
LEMMA FirstIsKept ==
    ASSUME NEW X, NEW p \in Seq(X), NEW q \in Seq(X)
    PROVE  Kept(p \o q, DOMAIN p) = p
<1> DEFINE s == p \o q
           n == Len(s)
           m == Len(p)
           f == [i \in 1 .. n |-> IF i \in DOMAIN p THEN <<s[i]>> ELSE <<>>]
           Until(k) == IF k <= m THEN k ELSE m
<1>1. /\ s \in Seq(X) /\ n = m + Len(q) /\ m \in Nat /\ Len(q) \in Nat
      /\ \A i \in 1 .. m : s[i] = p[i]
  BY JoinedTwo
<1>2. DOMAIN s = 1 .. n /\ DOMAIN p = 1 .. m /\ n \in Nat /\ m <= n
  BY <1>1
<1> HIDE DEF s, n, m
<1>3. f \in [1 .. n -> Seq(X)]
  BY <1>1, <1>2
<1>4. PICK H \in [0 .. n -> Seq(X)] : IsJoin(H, f, n) /\ FlattenSeq(f) = H[n]
  <2> HIDE DEF f
  <2> QED
    BY <1>2, <1>3, FlattenedSteps
<1> DEFINE S == {k \in Nat : k <= n =>
                    Len(H[k]) = Until(k) /\ \A i \in 1 .. Until(k) : H[k][i] = p[i]}
<1>5. 0 \in S
  <2>1. Until(0) = 0
    BY <1>1
  <2>2. H[0] = <<>>
    BY <1>4 DEF IsJoin
  <2> QED
    BY <2>1, <2>2
<1>6. ASSUME NEW k \in Nat, k \in S PROVE k + 1 \in S
  <2>1. SUFFICES ASSUME k + 1 <= n
                 PROVE  Len(H[k + 1]) = Until(k + 1) /\ \A i \in 1 .. Until(k + 1) : H[k + 1][i] = p[i]
    OBVIOUS
  <2>2. k \in 0 .. n - 1 /\ k \in 0 .. n /\ k + 1 \in 1 .. n
    BY <1>2, <2>1
  <2>3. H[k] \in Seq(X) /\ f[k + 1] \in Seq(X) /\ H[k + 1] = H[k] \o f[k + 1]
    <3> HIDE DEF S, f
    <3> QED
      BY <2>2, <1>3, <1>4 DEF IsJoin
  <2>4. Len(H[k]) = Until(k) /\ \A i \in 1 .. Until(k) : H[k][i] = p[i]
    <3>1. k <= n
      BY <1>2, <2>2
    <3> HIDE DEF Until
    <3> QED
      BY <3>1, <1>6
  <2>5. CASE k + 1 <= m
    <3>1. f[k + 1] = <<p[k + 1]>> /\ p[k + 1] \in X
      BY <2>2, <2>5, <1>1, <1>2
    <3>2. Until(k) = k /\ Until(k + 1) = k + 1
      BY <2>5, <1>1
    <3>3. H[k + 1] = Append(H[k], p[k + 1])
      <4>1. \A u \in Seq(X), x \in X : u \o <<x>> = Append(u, x)
        OBVIOUS
      <4> HIDE DEF f, S, Until
      <4> QED
        BY <3>1, <2>3, <4>1
    <3> HIDE DEF f, S, Until
    <3>4. Len(H[k]) = k /\ \A i \in 1 .. k : H[k][i] = p[i]
      BY <3>2, <2>4
    <3>5. Len(H[k + 1]) = k + 1 /\ \A i \in 1 .. k + 1 : H[k + 1][i] = p[i]
      BY <3>1, <3>3, <3>4, <2>3
    <3> QED
      BY <3>2, <3>5
  <2>6. CASE ~(k + 1 <= m)
    <3>1. f[k + 1] = <<>>
      BY <2>2, <2>6, <1>2
    <3>2. Until(k) = m /\ Until(k + 1) = m
      BY <2>6, <1>1
    <3>3. H[k + 1] = H[k]
      <4>1. \A u \in Seq(X) : u \o <<>> = u
        OBVIOUS
      <4> HIDE DEF f, S, Until
      <4> QED
        BY <3>1, <2>3, <4>1
    <3> HIDE DEF f, S, Until
    <3> QED
      BY <3>2, <3>3, <2>4
  <2> QED
    BY <2>5, <2>6
<1>7. n \in S
  <2> HIDE DEF S
  <2> QED
    BY <1>2, <1>5, <1>6, AllNumbers
<1>8. H[n] = p
  <2>1. Until(n) = m
    BY <1>1, <1>2
  <2>2. Len(H[n]) = m /\ \A i \in 1 .. m : H[n][i] = p[i]
    BY <1>2, <1>7, <2>1
  <2>3. H[n] \in Seq(X)
    BY <1>2
  <2> QED
    BY <2>2, <2>3 DEF m
<1>9. Kept(s, DOMAIN p) = FlattenSeq(f)
  BY <1>2 DEF Kept
<1> QED
  BY <1>4, <1>8, <1>9 DEF s

\* The ids of a list.
LEMMA IdsAreListed ==
    ASSUME NEW X, NEW list \in Seq(X)
    PROVE  /\ DOMAIN Ids(list) = DOMAIN list /\ Len(Ids(list)) = Len(list)
           /\ Range(Ids(list)) = {x.id : x \in Range(list)}
           /\ \A I : (\A x \in X : x.id \in I) => Ids(list) \in Seq(I)
<1>1. \A i \in DOMAIN list : list[i] \in X
  OBVIOUS
<1>2. DOMAIN list = 1 .. Len(list) /\ Len(list) \in Nat
  OBVIOUS
<1> QED
  BY <1>1, <1>2 DEF Ids, Range

LEMMA IdsJoined ==
    ASSUME NEW X, NEW p \in Seq(X), NEW q \in Seq(X)
    PROVE  Ids(p \o q) = Ids(p) \o Ids(q)
<1> DEFINE I == {x.id : x \in X}
           u == Ids(p \o q)  a == Ids(p)  b == Ids(q)
<1>1. /\ p \o q \in Seq(X) /\ Len(p \o q) = Len(p) + Len(q)
      /\ Len(p) \in Nat /\ Len(q) \in Nat
      /\ \A i \in 1 .. Len(p) : (p \o q)[i] = p[i]
      /\ \A i \in 1 .. Len(q) : (p \o q)[Len(p) + i] = q[i]
  BY JoinedTwo
<1>2. \A x \in X : x.id \in I
  OBVIOUS
<1>3. /\ u \in Seq(I) /\ Len(u) = Len(p \o q)
      /\ a \in Seq(I) /\ Len(a) = Len(p) /\ b \in Seq(I) /\ Len(b) = Len(q)
  <2> HIDE DEF I
  <2> QED
    BY <1>1, <1>2, IdsAreListed
<1>4. \A i \in DOMAIN (p \o q) : u[i] = (p \o q)[i].id
  BY DEF Ids
<1>5. (\A i \in DOMAIN p : a[i] = p[i].id) /\ \A i \in DOMAIN q : b[i] = q[i].id
  BY DEF Ids
<1>6. DOMAIN p = 1 .. Len(p) /\ DOMAIN q = 1 .. Len(q) /\ DOMAIN (p \o q) = 1 .. Len(p) + Len(q)
  BY <1>1
<1> HIDE DEF u, a, b, I
<1>7. /\ a \o b \in Seq(I) /\ Len(a \o b) = Len(a) + Len(b)
      /\ \A i \in 1 .. Len(a) : (a \o b)[i] = a[i]
      /\ \A i \in 1 .. Len(b) : (a \o b)[Len(a) + i] = b[i]
  <2>1. \A v, w \in Seq(I) : /\ v \o w \in Seq(I) /\ Len(v \o w) = Len(v) + Len(w)
                             /\ \A i \in 1 .. Len(v) : (v \o w)[i] = v[i]
                             /\ \A i \in 1 .. Len(w) : (v \o w)[Len(v) + i] = w[i]
    BY JoinedTwo
  <2>2. a \in Seq(I) /\ b \in Seq(I)
    BY <1>3
  <2>3. a \o b \in Seq(I) /\ Len(a \o b) = Len(a) + Len(b)
    BY <2>1, <2>2, Zenon
  <2>4. \A i \in 1 .. Len(a) : (a \o b)[i] = a[i]
    BY <2>1, <2>2, Zenon
  <2>5. \A i \in 1 .. Len(b) : (a \o b)[Len(a) + i] = b[i]
    <3>1. ASSUME NEW i \in 1 .. Len(b) PROVE (a \o b)[Len(a) + i] = b[i]
      BY <2>1, <2>2
    <3> QED
      BY <3>1
  <2> QED
    BY <2>3, <2>4, <2>5
<1>8. ASSUME NEW i \in 1 .. Len(p) + Len(q) PROVE u[i] = (a \o b)[i]
  <2>1. CASE i <= Len(p)
    <3>1. i \in 1 .. Len(p)
      BY <2>1, <1>1
    <3> QED
      BY <3>1, <1>1, <1>3, <1>4, <1>5, <1>6, <1>7
  <2>2. CASE i > Len(p)
    <3>1. PICK j \in 1 .. Len(q) : i = Len(p) + j
      <4>1. i - Len(p) \in 1 .. Len(q) /\ i = Len(p) + (i - Len(p))
        BY <2>2, <1>1
      <4> QED
        BY <4>1
    <3>2. u[i] = q[j].id
      BY <3>1, <1>1, <1>4, <1>6
    <3>3. (a \o b)[i] = b[j] /\ b[j] = q[j].id
      BY <3>1, <1>3, <1>5, <1>6, <1>7
    <3> QED
      BY <3>2, <3>3
  <2>3. i <= Len(p) \/ i > Len(p)
    BY <1>1
  <2> QED
    BY <2>1, <2>2, <2>3, Zenon
<1>9. u = a \o b
  <2>1. u \in Seq(I) /\ a \o b \in Seq(I) /\ Len(u) = Len(a \o b) /\ Len(u) = Len(p) + Len(q)
    BY <1>1, <1>3, <1>7
  <2>2. \A i \in 1 .. Len(u) : u[i] = (a \o b)[i]
    BY <2>1, <1>8
  <2> DEFINE w == a \o b
  <2> HIDE DEF w
  <2>3. w \in Seq(I) /\ Len(u) = Len(w) /\ \A i \in 1 .. Len(u) : u[i] = w[i]
    BY <2>1, <2>2 DEF w
  <2>4. u = w
    BY <2>1, <2>3
  <2> QED
    BY <2>4 DEF w
<1> QED
  BY <1>9 DEF u, a, b

Disjoint(S, T) == S \cap T = {}

\* Seven lists of which no two have an element in common, and none has one twice.
SevenAre(s1, s2, s3, s4, s5, s6, s7) ==
    /\ IsInjective(s1) /\ IsInjective(s2) /\ IsInjective(s3) /\ IsInjective(s4)
    /\ IsInjective(s5) /\ IsInjective(s6) /\ IsInjective(s7)
    /\ Disjoint(Range(s2), Range(s1))
    /\ Disjoint(Range(s3), Range(s1) \cup Range(s2))
    /\ Disjoint(Range(s4), Range(s1) \cup Range(s2) \cup Range(s3))
    /\ Disjoint(Range(s5), Range(s1) \cup Range(s2) \cup Range(s3) \cup Range(s4))
    /\ Disjoint(Range(s6), Range(s1) \cup Range(s2) \cup Range(s3) \cup Range(s4) \cup Range(s5))
    /\ Disjoint(Range(s7), Range(s1) \cup Range(s2) \cup Range(s3) \cup Range(s4) \cup Range(s5) \cup Range(s6))
    /\ Range(s1 \o s2 \o s3 \o s4 \o s5 \o s6 \o s7)
           = Range(s1) \cup Range(s2) \cup Range(s3) \cup Range(s4) \cup Range(s5) \cup Range(s6) \cup Range(s7)

LEMMA SevenApart ==
    ASSUME NEW X, NEW s1 \in Seq(X), NEW s2 \in Seq(X), NEW s3 \in Seq(X), NEW s4 \in Seq(X),
           NEW s5 \in Seq(X), NEW s6 \in Seq(X), NEW s7 \in Seq(X),
           IsInjective(s1 \o s2 \o s3 \o s4 \o s5 \o s6 \o s7)
    PROVE  SevenAre(s1, s2, s3, s4, s5, s6, s7)
<1> DEFINE ab == s1 \o s2  abc == ab \o s3  abcd == abc \o s4  abcde == abcd \o s5
           abcdef == abcde \o s6  all == abcdef \o s7
<1>0. IsInjective(all)
  OBVIOUS
<1>1. ab \in Seq(X) /\ Range(ab) = Range(s1) \cup Range(s2)
  BY JoinedTwo
<1>a. IsInjective(ab) => IsInjective(s1) /\ IsInjective(s2) /\ Range(s1) \cap Range(s2) = {}
  BY JoinedInjective
<1> HIDE DEF ab
<1>2. abc \in Seq(X) /\ Range(abc) = Range(ab) \cup Range(s3)
  BY <1>1, JoinedTwo
<1>b. IsInjective(abc) => IsInjective(ab) /\ IsInjective(s3) /\ Range(ab) \cap Range(s3) = {}
  BY <1>1, JoinedInjective
<1> HIDE DEF abc
<1>3. abcd \in Seq(X) /\ Range(abcd) = Range(abc) \cup Range(s4)
  BY <1>2, JoinedTwo
<1>c. IsInjective(abcd) => IsInjective(abc) /\ IsInjective(s4) /\ Range(abc) \cap Range(s4) = {}
  BY <1>2, JoinedInjective
<1> HIDE DEF abcd
<1>4. abcde \in Seq(X) /\ Range(abcde) = Range(abcd) \cup Range(s5)
  BY <1>3, JoinedTwo
<1>d. IsInjective(abcde) => IsInjective(abcd) /\ IsInjective(s5) /\ Range(abcd) \cap Range(s5) = {}
  BY <1>3, JoinedInjective
<1> HIDE DEF abcde
<1>5. abcdef \in Seq(X) /\ Range(abcdef) = Range(abcde) \cup Range(s6)
  BY <1>4, JoinedTwo
<1>e. IsInjective(abcdef) => IsInjective(abcde) /\ IsInjective(s6) /\ Range(abcde) \cap Range(s6) = {}
  BY <1>4, JoinedInjective
<1> HIDE DEF abcdef
<1>6. Range(all) = Range(abcdef) \cup Range(s7)
  BY <1>5, JoinedTwo
<1>f. IsInjective(all) => IsInjective(abcdef) /\ IsInjective(s7) /\ Range(abcdef) \cap Range(s7) = {}
  BY <1>5, JoinedInjective
<1> HIDE DEF all
<1>7. /\ IsInjective(s1) /\ IsInjective(s2) /\ IsInjective(s3) /\ IsInjective(s4)
      /\ IsInjective(s5) /\ IsInjective(s6) /\ IsInjective(s7)
  BY <1>0, <1>a, <1>b, <1>c, <1>d, <1>e, <1>f
<1>8. /\ Range(s2) \cap Range(s1) = {} /\ Range(s3) \cap Range(ab) = {} /\ Range(s4) \cap Range(abc) = {}
      /\ Range(s5) \cap Range(abcd) = {} /\ Range(s6) \cap Range(abcde) = {} /\ Range(s7) \cap Range(abcdef) = {}
  <2>1. /\ Range(s1) \cap Range(s2) = {} /\ Range(ab) \cap Range(s3) = {} /\ Range(abc) \cap Range(s4) = {}
        /\ Range(abcd) \cap Range(s5) = {} /\ Range(abcde) \cap Range(s6) = {} /\ Range(abcdef) \cap Range(s7) = {}
    BY <1>0, <1>a, <1>b, <1>c, <1>d, <1>e, <1>f
  <2>2. \A S, T : S \cap T = {} => T \cap S = {}
    OBVIOUS
  <2> QED
    BY <2>1, <2>2, Zenon
<1>9. all = s1 \o s2 \o s3 \o s4 \o s5 \o s6 \o s7
  BY DEF all, abcdef, abcde, abcd, abc, ab
<1> QED
  BY <1>1, <1>2, <1>3, <1>4, <1>5, <1>6, <1>7, <1>8, <1>9 DEF Disjoint, SevenAre

FiveAre(s1, s2, s3, s4, s5) ==
    /\ IsInjective(s1) /\ IsInjective(s2) /\ IsInjective(s3) /\ IsInjective(s4) /\ IsInjective(s5)
    /\ Disjoint(Range(s1), Range(s2))
    /\ Disjoint(Range(s1) \cup Range(s2), Range(s3))
    /\ Disjoint(Range(s1) \cup Range(s2) \cup Range(s3), Range(s4))
    /\ Disjoint(Range(s1) \cup Range(s2) \cup Range(s3) \cup Range(s4), Range(s5))

LEMMA FiveApart ==
    ASSUME NEW X, NEW s1 \in Seq(X), NEW s2 \in Seq(X), NEW s3 \in Seq(X), NEW s4 \in Seq(X), NEW s5 \in Seq(X)
    PROVE  IsInjective(s1 \o s2 \o s3 \o s4 \o s5) <=> FiveAre(s1, s2, s3, s4, s5)
<1> DEFINE ab == s1 \o s2  abc == ab \o s3  abcd == abc \o s4  all == abcd \o s5
<1>1. ab \in Seq(X) /\ Range(ab) = Range(s1) \cup Range(s2)
  BY JoinedTwo
<1>a. IsInjective(ab) <=> IsInjective(s1) /\ IsInjective(s2) /\ Range(s1) \cap Range(s2) = {}
  BY JoinedInjective
<1> HIDE DEF ab
<1>2. abc \in Seq(X) /\ Range(abc) = Range(ab) \cup Range(s3)
  BY <1>1, JoinedTwo
<1>b. IsInjective(abc) <=> IsInjective(ab) /\ IsInjective(s3) /\ Range(ab) \cap Range(s3) = {}
  BY <1>1, JoinedInjective
<1> HIDE DEF abc
<1>3. abcd \in Seq(X) /\ Range(abcd) = Range(abc) \cup Range(s4)
  BY <1>2, JoinedTwo
<1>c. IsInjective(abcd) <=> IsInjective(abc) /\ IsInjective(s4) /\ Range(abc) \cap Range(s4) = {}
  BY <1>2, JoinedInjective
<1> HIDE DEF abcd
<1>d. IsInjective(all) <=> IsInjective(abcd) /\ IsInjective(s5) /\ Range(abcd) \cap Range(s5) = {}
  BY <1>3, JoinedInjective
<1> HIDE DEF all
<1>4. all = s1 \o s2 \o s3 \o s4 \o s5
  BY DEF all, abcd, abc, ab
<1>5. Range(abc) = Range(s1) \cup Range(s2) \cup Range(s3)
      /\ Range(abcd) = Range(s1) \cup Range(s2) \cup Range(s3) \cup Range(s4)
  BY <1>1, <1>2, <1>3
<1> QED
  BY <1>1, <1>a, <1>b, <1>c, <1>d, <1>4, <1>5 DEF Disjoint, FiveAre

----------------------------------------------------------------------------
(* Elections that were parsed from VXF.                                    *)

ParsedElections == ElectionsWith(PartiesWith(STRING), ParsedCandidates)

UnitIds(e) == Range(Ids(e.districts) \o Ids(e.precincts) \o <<e.county.id>>)

IsParsed(e) ==
    /\ e \in ParsedElections /\ ElectionSchema(e)
    /\ \A units \in SUBSET UnitIds(e) : units # Undefined
    /\ Range(e.state) \subseteq DOMAIN Lower
    /\ \A c \in Range(e.contests) : c.type = "candidate" => 0 .. c.seats - 1 \subseteq DOMAIN Numeral

LEMMA CandidateIsParsed ==
    ASSUME NEW k \in FiledCandidates
    PROVE  WithPartyIds(k) \in ParsedCandidates
  BY DEF FiledCandidates, ParsedCandidates, WithPartyIds, Maybe, Id

LEMMA PartyIsParsed ==
    ASSUME NEW p \in PartiesWith(Maybe(STRING))
    PROVE  WithFullName(p) \in PartiesWith(STRING)
<1>1. p.fullName = Undefined \/ p.fullName \in STRING
  BY DEF PartiesWith, Maybe
<1>2. p.name \in STRING
  BY DEF PartiesWith
<1> QED
  BY <1>1, <1>2 DEF PartiesWith, WithFullName

\* preprocessElection of one contest.
ParsedContest(c) ==
    IF c.type = "candidate" THEN [c EXCEPT !.candidates = Each(c.candidates, WithPartyIds)] ELSE c

LEMMA ContestIsParsed ==
    ASSUME NEW c \in Seats(FiledCandidates) \cup Measures
    PROVE  /\ ParsedContest(c) \in Seats(ParsedCandidates) \cup Measures
           /\ ParsedContest(c).type = c.type
           /\ c.type = "candidate" => ParsedContest(c).seats = c.seats
<1>1. CASE c \in Seats(FiledCandidates)
  <2>1. c.type = "candidate" /\ c.candidates \in Seq(FiledCandidates)
    BY <1>1 DEF Seats
  <2> DEFINE made == Each(c.candidates, WithPartyIds)
  <2>2. made \in Seq(ParsedCandidates)
    <3>1. \A i \in DOMAIN c.candidates : c.candidates[i] \in FiledCandidates
      BY <2>1
    <3>2. \A i \in DOMAIN c.candidates : WithPartyIds(c.candidates[i]) \in ParsedCandidates
      BY <3>1, CandidateIsParsed
    <3>3. DOMAIN c.candidates = 1 .. Len(c.candidates) /\ Len(c.candidates) \in Nat
      BY <2>1
    <3> QED
      BY <3>2, <3>3 DEF Each
  <2>3. ParsedContest(c) = [c EXCEPT !.candidates = made]
    BY <2>1 DEF ParsedContest
  <2> HIDE DEF made
  <2>4. [c EXCEPT !.candidates = made] \in Seats(ParsedCandidates)
    BY <1>1, <2>2 DEF Seats
  <2>5. [c EXCEPT !.candidates = made].type = c.type /\ [c EXCEPT !.candidates = made].seats = c.seats
    BY <1>1 DEF Seats
  <2> QED
    BY <2>3, <2>4, <2>5
<1>2. CASE c \in Measures
  <2>1. c.type = "yesno"
    BY <1>2 DEF Measures
  <2>2. ParsedContest(c) = c
    BY <2>1 DEF ParsedContest
  <2> QED
    BY <1>2, <2>1, <2>2
<1> QED
  BY <1>1, <1>2

\* What was accepted has the types and the references of a sound election.
LEMMA ValueIsParsed ==
    ASSUME NEW value \in Values, safeParseVxfElection(value) # Failed
    PROVE  IsParsed(safeParseVxfElection(value))
<1> DEFINE e == preprocessElection(value)
           Filed == ElectionsWith(PartiesWith(Maybe(STRING)), FiledCandidates)
           parties == Each(value.parties, WithFullName)
           contests == Each(value.contests, ParsedContest)
<1>1. value \in Filed
  BY DefinitionsAssumption DEF DefinitionsAssumption
<1>2. safeParseVxfElection(value) = e /\ ElectionSchema(e)
  BY DEF safeParseVxfElection
<1>3. e = [value EXCEPT !.parties = parties, !.contests = contests]
  BY DEF preprocessElection, Each, ParsedContest
<1>4. value.parties \in Seq(PartiesWith(Maybe(STRING))) /\ value.contests \in Seq(Seats(FiledCandidates) \cup Measures)
  BY <1>1 DEF ElectionsWith
<1>5. parties \in Seq(PartiesWith(STRING))
  <2>1. \A i \in DOMAIN value.parties : value.parties[i] \in PartiesWith(Maybe(STRING))
    BY <1>4
  <2>2. \A i \in DOMAIN value.parties : WithFullName(value.parties[i]) \in PartiesWith(STRING)
    BY <2>1, PartyIsParsed
  <2>3. DOMAIN value.parties = 1 .. Len(value.parties) /\ Len(value.parties) \in Nat
    BY <1>4
  <2> QED
    BY <2>2, <2>3 DEF Each
<1>6. DOMAIN value.contests = 1 .. Len(value.contests) /\ Len(value.contests) \in Nat
  BY <1>4
<1>7. \A i \in DOMAIN value.contests : value.contests[i] \in Seats(FiledCandidates) \cup Measures
  BY <1>4
<1>8. contests \in Seq(Seats(ParsedCandidates) \cup Measures)
  <2>1. \A i \in DOMAIN value.contests : ParsedContest(value.contests[i]) \in Seats(ParsedCandidates) \cup Measures
    BY <1>7, ContestIsParsed
  <2> QED
    BY <1>6, <2>1 DEF Each
<1>9. /\ DOMAIN contests = DOMAIN value.contests
      /\ \A i \in DOMAIN contests : contests[i] = ParsedContest(value.contests[i])
  BY DEF Each
<1> HIDE DEF parties, contests
<1>10. e \in ParsedElections
  BY <1>1, <1>3, <1>5, <1>8 DEF ParsedElections, ElectionsWith
<1>11. /\ e.state = value.state /\ e.county = value.county /\ e.districts = value.districts
       /\ e.precincts = value.precincts /\ e.contests = contests
  BY <1>1, <1>3 DEF ElectionsWith
<1> HIDE DEF e
<1>12. /\ \A units \in SUBSET UnitIds(value) : units # Undefined
       /\ Range(value.state) \subseteq DOMAIN Lower
       /\ \A c \in Range(value.contests) : c.type = "candidate" => 0 .. c.seats - 1 \subseteq DOMAIN Numeral
  BY DefinitionsAssumption DEF DefinitionsAssumption, UnitIds
<1>13. UnitIds(e) = UnitIds(value)
  BY <1>11 DEF UnitIds
<1>14. ASSUME NEW c \in Range(e.contests), c.type = "candidate" PROVE 0 .. c.seats - 1 \subseteq DOMAIN Numeral
  <2>1. PICK i \in DOMAIN contests : c = contests[i]
    BY <1>11 DEF Range
  <2>2. c = ParsedContest(value.contests[i]) /\ value.contests[i] \in Range(value.contests)
    BY <2>1, <1>9 DEF Range
  <2>3. value.contests[i].type = "candidate" /\ c.seats = value.contests[i].seats
    BY <2>1, <2>2, <1>7, <1>9, <1>14, ContestIsParsed
  <2> QED
    BY <2>2, <2>3, <1>12
<1> QED
  BY <1>2, <1>10, <1>11, <1>12, <1>13, <1>14 DEF IsParsed

ParsedContests == Seats(ParsedCandidates) \cup Measures

CandidateIdLists(e) == [i \in DOMAIN e.contests |-> Ids(CandidatesOf(e.contests[i]))]
NamedIdLists(e) == [i \in DOMAIN e.contests |-> NamedOptions(e.contests[i])]

\* The lists of an election that was parsed.
LEMMA ParsedHas ==
    ASSUME NEW e, IsParsed(e)
    PROVE  /\ e.parties \in Seq(PartiesWith(STRING)) /\ e.districts \in Seq(NamedUnits)
           /\ e.precincts \in Seq(NamedUnits) /\ e.contests \in Seq(ParsedContests)
           /\ e.ballotStyles \in Seq(BallotStyles) /\ e.county \in NamedUnits /\ e.state \in Id
  BY DEF IsParsed, ParsedElections, ElectionsWith, ParsedContests

LEMMA ParsedIds ==
    ASSUME NEW e, IsParsed(e)
    PROVE  /\ Ids(e.parties) \in Seq(Id) /\ Ids(e.districts) \in Seq(Id)
           /\ Ids(e.precincts) \in Seq(Id) /\ Ids(e.contests) \in Seq(Id)
           /\ e.county.id \in Id /\ StateId(e.state) \in Id
<1>1. (\A p \in PartiesWith(STRING) : p.id \in Id) /\ \A u \in NamedUnits : u.id \in Id
  BY DEF PartiesWith, NamedUnits
<1>2. \A c \in ParsedContests : c.id \in Id
  BY DEF ParsedContests, Seats, Measures
<1>3. /\ Ids(e.parties) \in Seq(Id) /\ Ids(e.districts) \in Seq(Id)
      /\ Ids(e.precincts) \in Seq(Id) /\ Ids(e.contests) \in Seq(Id)
  <2>1. Ids(e.parties) \in Seq(Id)
    BY <1>1, ParsedHas, IdsAreListed
  <2>2. Ids(e.districts) \in Seq(Id) /\ Ids(e.precincts) \in Seq(Id)
    BY <1>1, ParsedHas, IdsAreListed
  <2>3. Ids(e.contests) \in Seq(Id)
    BY <1>2, ParsedHas, IdsAreListed
  <2> QED
    BY <2>1, <2>2, <2>3
<1>4. StateId(e.state) \in Id
  <2>1. e.state \in Seq(STRING) /\ Range(e.state) \subseteq DOMAIN Lower
    BY ParsedHas DEF IsParsed, Id
  <2>2. \A i \in DOMAIN e.state : Lower[e.state[i]] \in STRING
    BY <2>1, DefinitionsAssumption DEF DefinitionsAssumption, Range
  <2>3. DOMAIN e.state = 1 .. Len(e.state) /\ Len(e.state) \in Nat
    BY <2>1
  <2> QED
    BY <2>2, <2>3 DEF StateId, Each, Id
<1> QED
  BY <1>1, <1>3, <1>4, ParsedHas

LEMMA CandidatesAreListed ==
    ASSUME NEW c \in ParsedContests
    PROVE  CandidatesOf(c) \in Seq(ParsedCandidates) /\ Ids(CandidatesOf(c)) \in Seq(Id)
<1>1. CandidatesOf(c) \in Seq(ParsedCandidates)
  BY DEF ParsedContests, Seats, Measures, CandidatesOf
<1>2. \A k \in ParsedCandidates : k.id \in Id
  BY DEF ParsedCandidates
<1> QED
  BY <1>1, <1>2, IdsAreListed

\* The ids of the options an election names.
LEMMA NamedAreListed ==
    ASSUME NEW c \in ParsedContests
    PROVE  /\ NamedOptions(c) \in Seq(Id)
           /\ c.type = "candidate" => NamedOptions(c) = <<>>
           /\ c.type = "yesno" =>
                /\ c.yesOption # Undefined => c.yesOption.id \in Range(NamedOptions(c))
                /\ c.noOption # Undefined => c.noOption.id \in Range(NamedOptions(c))
                /\ c.yesOption # Undefined /\ c.noOption # Undefined =>
                        NamedOptions(c) = <<c.yesOption.id, c.noOption.id>>
<1>1. CASE c \in Seats(ParsedCandidates)
  BY <1>1 DEF Seats, NamedOptions
<1>2. CASE c \in Measures
  <2>1. c.type = "yesno"
    BY <1>2 DEF Measures
  <2>2. (c.yesOption # Undefined => c.yesOption.id \in Id) /\ (c.noOption # Undefined => c.noOption.id \in Id)
    BY <1>2 DEF Measures, Maybe, MeasureOptions
  <2> DEFINE Named(option) == IF option = Undefined THEN <<>> ELSE <<option.id>>
             a == Named(c.yesOption)  b == Named(c.noOption)
  <2>3. NamedOptions(c) = a \o b
    BY <2>1 DEF NamedOptions
  <2>4. a \in Seq(Id) /\ b \in Seq(Id)
    BY <2>2
  <2>5. /\ c.yesOption # Undefined => c.yesOption.id \in Range(a)
        /\ c.noOption # Undefined => c.noOption.id \in Range(b)
    BY DEF Range
  <2>6. c.yesOption # Undefined /\ c.noOption # Undefined => a \o b = <<c.yesOption.id, c.noOption.id>>
    <3>1. ASSUME NEW x \in Id, NEW y \in Id PROVE <<x>> \o <<y>> = <<x, y>>
      <4> DEFINE u == <<x>> \o <<y>>
      <4>1. <<x>> \in Seq(Id) /\ <<y>> \in Seq(Id) /\ Len(<<x>>) = 1 /\ Len(<<y>>) = 1
        OBVIOUS
      <4>2. u \in Seq(Id) /\ Len(u) = 2 /\ u[1] = x /\ u[1 + 1] = y
        BY <4>1, JoinedTwo
      <4> HIDE DEF u
      <4>3. u = <<x, y>>
        BY <4>2
      <4> QED
        BY <4>3 DEF u
    <3> QED
      BY <2>2, <3>1
  <2> HIDE DEF a, b, Named
  <2>7. a \o b \in Seq(Id) /\ Range(a \o b) = Range(a) \cup Range(b)
    BY <2>4, JoinedTwo
  <2> QED
    BY <2>1, <2>3, <2>5, <2>6, <2>7
<1> QED
  BY <1>1, <1>2 DEF ParsedContests

\* The ids of an election that CDF can express are all different.
OwnIdsApart(e) ==
    LET P == Range(Ids(e.parties))  D == Range(Ids(e.districts))  R == Range(Ids(e.precincts))
        C == Range(Ids(e.contests))
        K == UNION {Range(CandidateIdLists(e)[i]) : i \in DOMAIN e.contests}
        M == UNION {Range(NamedIdLists(e)[i]) : i \in DOMAIN e.contests}
        S == {e.county.id, StateId(e.state)}
    IN  /\ IsInjective(Ids(e.parties)) /\ IsInjective(Ids(e.districts))
        /\ IsInjective(Ids(e.precincts)) /\ IsInjective(Ids(e.contests))
        /\ e.county.id # StateId(e.state)
        /\ \A i \in DOMAIN e.contests :
              IsInjective(CandidateIdLists(e)[i]) /\ IsInjective(NamedIdLists(e)[i])
        /\ \A i, j \in DOMAIN e.contests : i # j =>
              /\ Range(CandidateIdLists(e)[i]) \cap Range(CandidateIdLists(e)[j]) = {}
              /\ Range(NamedIdLists(e)[i]) \cap Range(NamedIdLists(e)[j]) = {}
        /\ Disjoint(D, P) /\ Disjoint(R, P \cup D) /\ Disjoint(C, P \cup D \cup R)
        /\ Disjoint(K, P \cup D \cup R \cup C)
        /\ Disjoint(M, P \cup D \cup R \cup C \cup K)
        /\ Disjoint(S, P \cup D \cup R \cup C \cup K \cup M)
        /\ \A id \in P \cup D \cup R \cup C \cup K \cup M \cup S : "option" \notin Range(id)

LEMMA OwnIdsAreApart ==
    ASSUME NEW e, IsParsed(e), Expressible(e)
    PROVE  OwnIdsApart(e)
<1> DEFINE p == Ids(e.parties)  d == Ids(e.districts)  r == Ids(e.precincts)  c == Ids(e.contests)
           k == CandidateIdLists(e)  m == NamedIdLists(e)
           n == Len(e.contests)
           s == <<e.county.id, StateId(e.state)>>
           all == p \o d \o r \o c \o FlattenSeq(k) \o FlattenSeq(m) \o s
<1>1. IsInjective(all) /\ \A id \in Range(all) : "option" \notin Range(id)
  BY DEF Expressible, Concat, CandidateIdLists, NamedIdLists
<1>2. p \in Seq(Id) /\ d \in Seq(Id) /\ r \in Seq(Id) /\ c \in Seq(Id) /\ s \in Seq(Id)
  BY ParsedIds
<1>3. e.contests \in Seq(ParsedContests) /\ n \in Nat /\ DOMAIN e.contests = 1 .. n
  BY ParsedHas
<1>4. \A i \in DOMAIN e.contests : e.contests[i] \in ParsedContests
  BY <1>3
<1>5. k \in [1 .. n -> Seq(Id)]
  BY <1>3, <1>4, CandidatesAreListed DEF CandidateIdLists
<1>6. m \in [1 .. n -> Seq(Id)]
  BY <1>3, <1>4, NamedAreListed DEF NamedIdLists
<1>7. Range(s) = {e.county.id, StateId(e.state)}
  <2>1. DOMAIN s = {1, 2}
    OBVIOUS
  <2> QED
    BY <2>1 DEF Range
<1>8. IsInjective(s) => e.county.id # StateId(e.state)
  BY DEF IsInjective
<1> HIDE DEF p, d, r, c, k, m, n, s
<1>9. FlattenSeq(k) \in Seq(Id) /\ Range(FlattenSeq(k)) = UNION {Range(k[i]) : i \in 1 .. n}
  BY <1>3, <1>5, FlattenedHas
<1>10. FlattenSeq(m) \in Seq(Id) /\ Range(FlattenSeq(m)) = UNION {Range(m[i]) : i \in 1 .. n}
  BY <1>3, <1>6, FlattenedHas
<1> DEFINE fk == FlattenSeq(k)  fm == FlattenSeq(m)
<1>11. /\ IsInjective(p) /\ IsInjective(d) /\ IsInjective(r) /\ IsInjective(c)
       /\ IsInjective(fk) /\ IsInjective(fm) /\ IsInjective(s)
       /\ Disjoint(Range(d), Range(p))
       /\ Disjoint(Range(r), Range(p) \cup Range(d))
       /\ Disjoint(Range(c), Range(p) \cup Range(d) \cup Range(r))
       /\ Disjoint(Range(fk), Range(p) \cup Range(d) \cup Range(r) \cup Range(c))
       /\ Disjoint(Range(fm), Range(p) \cup Range(d) \cup Range(r) \cup Range(c) \cup Range(fk))
       /\ Disjoint(Range(s), Range(p) \cup Range(d) \cup Range(r) \cup Range(c) \cup Range(fk) \cup Range(fm))
       /\ Range(all) = Range(p) \cup Range(d) \cup Range(r) \cup Range(c) \cup Range(fk) \cup Range(fm) \cup Range(s)
  <2>1. fk \in Seq(Id) /\ fm \in Seq(Id)
    BY <1>9, <1>10
  <2>2. all = p \o d \o r \o c \o fk \o fm \o s
    OBVIOUS
  <2> HIDE DEF fk, fm, all
  <2>3. IsInjective(p \o d \o r \o c \o fk \o fm \o s)
    BY <1>1, <2>2
  <2>4. /\ p \in Seq(Id) /\ d \in Seq(Id) /\ r \in Seq(Id) /\ c \in Seq(Id)
        /\ fk \in Seq(Id) /\ fm \in Seq(Id) /\ s \in Seq(Id)
    BY <1>2, <2>1
  <2>5. SevenAre(p, d, r, c, fk, fm, s)
    BY <2>3, <2>4, SevenApart
  <2> QED
    BY <2>2, <2>5 DEF SevenAre
<1>12. /\ \A i \in 1 .. n : IsInjective(k[i])
       /\ \A i, j \in 1 .. n : i # j => Range(k[i]) \cap Range(k[j]) = {}
  BY <1>3, <1>5, <1>11, FlattenedInjective
<1>13. /\ \A i \in 1 .. n : IsInjective(m[i])
       /\ \A i, j \in 1 .. n : i # j => Range(m[i]) \cap Range(m[j]) = {}
  BY <1>3, <1>6, <1>11, FlattenedInjective
<1> HIDE DEF all
<1>14. OwnIdsApart(e) <=>
          LET P == Range(p)  D == Range(d)  R == Range(r)  C == Range(c)
              K == UNION {Range(k[i]) : i \in DOMAIN e.contests}
              M == UNION {Range(m[i]) : i \in DOMAIN e.contests}
              S == {e.county.id, StateId(e.state)}
          IN  /\ IsInjective(p) /\ IsInjective(d) /\ IsInjective(r) /\ IsInjective(c)
              /\ e.county.id # StateId(e.state)
              /\ \A i \in DOMAIN e.contests : IsInjective(k[i]) /\ IsInjective(m[i])
              /\ \A i, j \in DOMAIN e.contests : i # j =>
                    Range(k[i]) \cap Range(k[j]) = {} /\ Range(m[i]) \cap Range(m[j]) = {}
              /\ Disjoint(D, P) /\ Disjoint(R, P \cup D) /\ Disjoint(C, P \cup D \cup R)
              /\ Disjoint(K, P \cup D \cup R \cup C)
              /\ Disjoint(M, P \cup D \cup R \cup C \cup K)
              /\ Disjoint(S, P \cup D \cup R \cup C \cup K \cup M)
              /\ \A id \in P \cup D \cup R \cup C \cup K \cup M \cup S : "option" \notin Range(id)
  BY DEF OwnIdsApart, p, d, r, c, k, m
<1>15. \A id \in Range(p) \cup Range(d) \cup Range(r) \cup Range(c) \cup Range(fk) \cup Range(fm) \cup Range(s) :
          "option" \notin Range(id)
  BY <1>1, <1>11
<1>16. /\ Range(fk) = UNION {Range(k[i]) : i \in DOMAIN e.contests}
       /\ Range(fm) = UNION {Range(m[i]) : i \in DOMAIN e.contests}
  BY <1>3, <1>9, <1>10
<1> HIDE DEF fk, fm
<1>17. e.county.id # StateId(e.state)
  BY <1>8, <1>11
<1> QED
  BY <1>3, <1>7, <1>11, <1>12, <1>13, <1>14, <1>15, <1>16, <1>17, Zenon

----------------------------------------------------------------------------
(* Parts of the files.                                                     *)

Texts == [Language : {"en", "es"}, Content : STRING \cup Id]

\* A text has a wording in English when one of its languages is.
LEMMA EnglishIs ==
    ASSUME NEW text \in Seq(Texts)
    PROVE  HasEnglish(text) <=> \E i \in DOMAIN text : text[i].Language = "en"
<1> DEFINE K == {i \in DOMAIN text : text[i].Language = "en"}
<1>1. InEnglish(text) = Kept(text, K)
  BY DEF InEnglish, Those, Concat, Kept
<1>2. Kept(text, K) = <<>> <=> K = {}
  <2> HIDE DEF K
  <2>1. K \in SUBSET (DOMAIN text)
    BY DEF K
  <2> QED
    BY <2>1, KeptHas
<1> QED
  BY <1>1, <1>2 DEF HasEnglish

\* A text that the conversion makes is read as it was.
LEMMA TextIsEnglish ==
    ASSUME NEW content
    PROVE  HasEnglish(Text(content)) /\ englishText(Text(content)) = content
<1> DEFINE t == [Language |-> "en", Content |-> content]
           f == [i \in DOMAIN <<t>> |-> IF <<t>>[i].Language = "en" THEN <<<<t>>[i]>> ELSE <<>>]
<1>1. InEnglish(Text(content)) = FlattenSeq(f)
  BY DEF InEnglish, Those, Concat, Text
<1>2. f = <<<<t>>>>
  OBVIOUS
<1> HIDE DEF f
<1>3. t \in {t} /\ <<t>> \in Seq({t}) /\ <<t>>[1] = t /\ <<t>> # <<>> /\ t.Content = content
  OBVIOUS
<1> HIDE DEF t
<1>4. FlattenSeq(<<<<t>>>>) = <<t>>
  BY <1>3, FlattenedFew
<1> QED
  BY <1>1, <1>2, <1>3, <1>4 DEF HasEnglish, englishText

LEMMA OneIs ==
    ASSUME NEW X, NEW x \in X
    PROVE  <<x>> \in Seq(X) /\ Len(<<x>>) = 1 /\ <<x>>[1] = x /\ Range(<<x>>) = {x}
<1>1. <<x>> \in Seq(X) /\ Len(<<x>>) = 1 /\ <<x>>[1] = x
  OBVIOUS
<1>2. DOMAIN <<x>> = {1}
  OBVIOUS
<1> QED
  BY <1>1, <1>2 DEF Range

\* Ids without the word "option" before it, and what is after it.
LEMMA OptionIdSplits ==
    ASSUME NEW u \in Id, NEW v \in Id, NEW w \in Id, NEW x \in Id,
           "option" \notin Range(u), "option" \notin Range(w),
           u \o <<"option">> \o v = w \o <<"option">> \o x
    PROVE  u = w /\ v = x
<1> DEFINE o == <<"option">>
           a == u \o o  b == w \o o
<1>1. o \in Seq(STRING) /\ Len(o) = 1 /\ o[1] = "option"
  <2>1. "option" \in STRING
    BY DefinitionsAssumption DEF DefinitionsAssumption
  <2> QED
    BY <2>1, OneIs
<1>2. u \in Seq(STRING) /\ v \in Seq(STRING) /\ w \in Seq(STRING) /\ x \in Seq(STRING)
  BY DEF Id
<1>3. a \o v = b \o x
  OBVIOUS
<1>4. /\ a \in Seq(STRING) /\ Len(a) = Len(u) + 1 /\ Len(u) \in Nat /\ a[Len(u) + 1] = "option"
      /\ \A i \in 1 .. Len(u) : a[i] = u[i]
  <2>1. 1 \in 1 .. Len(o)
    BY <1>1
  <2> HIDE DEF o
  <2>2. u \o o \in Seq(STRING) /\ IsJoined(u \o o, u, o)
    BY <1>1, <1>2, JoinedAre
  <2> HIDE DEF a
  <2>3. a \in Seq(STRING) /\ IsJoined(a, u, o)
    BY <2>2 DEF a
  <2> QED
    BY <1>1, <2>1, <2>3 DEF IsJoined
<1>5. /\ b \in Seq(STRING) /\ Len(b) = Len(w) + 1 /\ Len(w) \in Nat /\ b[Len(w) + 1] = "option"
      /\ \A i \in 1 .. Len(w) : b[i] = w[i]
  <2>1. 1 \in 1 .. Len(o)
    BY <1>1
  <2> HIDE DEF o
  <2>2. w \o o \in Seq(STRING) /\ IsJoined(w \o o, w, o)
    BY <1>1, <1>2, JoinedAre
  <2> HIDE DEF b
  <2>3. b \in Seq(STRING) /\ IsJoined(b, w, o)
    BY <2>2 DEF b
  <2> QED
    BY <1>1, <2>1, <2>3 DEF IsJoined
<1> HIDE DEF o, a, b
<1> DEFINE p == a \o v  q == b \o x
<1>6. /\ Len(p) = Len(a) + Len(v) /\ Len(v) \in Nat
      /\ \A i \in 1 .. Len(a) : p[i] = a[i]
      /\ \A i \in 1 .. Len(v) : p[Len(a) + i] = v[i]
  <2>1. IsJoined(a \o v, a, v)
    BY <1>2, <1>4, JoinedAre
  <2> HIDE DEF p
  <2>2. IsJoined(p, a, v)
    BY <2>1 DEF p
  <2> QED
    BY <2>2 DEF IsJoined
<1>7. /\ Len(q) = Len(b) + Len(x) /\ Len(x) \in Nat
      /\ \A i \in 1 .. Len(b) : q[i] = b[i]
      /\ \A i \in 1 .. Len(x) : q[Len(b) + i] = x[i]
  <2>1. IsJoined(b \o x, b, x)
    BY <1>2, <1>5, JoinedAre
  <2> HIDE DEF q
  <2>2. IsJoined(q, b, x)
    BY <2>1 DEF q
  <2> QED
    BY <2>2 DEF IsJoined
<1>8. p = q
  BY <1>3
<1> HIDE DEF p, q
<1>9. Len(u) = Len(w)
  <2>1. ASSUME Len(u) < Len(w) PROVE FALSE
    <3> DEFINE i == Len(u) + 1
    <3>1. i \in 1 .. Len(w) /\ i \in 1 .. Len(a) /\ i \in 1 .. Len(b)
      BY <2>1, <1>4, <1>5
    <3>2. w[i] = "option"
      BY <3>1, <1>4, <1>5, <1>6, <1>7, <1>8
    <3>3. i \in DOMAIN w
      BY <3>1, <1>2
    <3> QED
      BY <3>2, <3>3 DEF Range
  <2>2. ASSUME Len(w) < Len(u) PROVE FALSE
    <3> DEFINE i == Len(w) + 1
    <3>1. i \in 1 .. Len(u) /\ i \in 1 .. Len(a) /\ i \in 1 .. Len(b)
      BY <2>2, <1>4, <1>5
    <3>2. u[i] = "option"
      BY <3>1, <1>4, <1>5, <1>6, <1>7, <1>8
    <3>3. i \in DOMAIN u
      BY <3>1, <1>2
    <3> QED
      BY <3>2, <3>3 DEF Range
  <2> QED
    BY <2>1, <2>2, <1>4, <1>5
<1>10. \A s, t \in Seq(STRING) : Len(s) = Len(t) /\ (\A i \in 1 .. Len(s) : s[i] = t[i]) => s = t
  OBVIOUS
<1>11. u = w
  <2>1. \A i \in 1 .. Len(u) : u[i] = w[i]
    <3>1. \A i \in 1 .. Len(u) : i \in 1 .. Len(a) /\ i \in 1 .. Len(b) /\ i \in 1 .. Len(w)
      BY <1>4, <1>5, <1>9
    <3> QED
      BY <3>1, <1>4, <1>5, <1>6, <1>7, <1>8
  <2> QED
    BY <2>1, <1>2, <1>9, <1>10
<1>12. v = x
  <2>1. Len(a) = Len(b) /\ Len(v) = Len(x)
    BY <1>4, <1>5, <1>6, <1>7, <1>8, <1>9
  <2>2. ASSUME NEW i \in 1 .. Len(v) PROVE v[i] = x[i]
    BY <2>1, <1>6, <1>7, <1>8
  <2> QED
    BY <2>1, <2>2, <1>2, <1>10
<1> QED
  BY <1>11, <1>12

\* An id that the conversion makes has the word "option".
LEMMA OptionIdIs ==
    ASSUME NEW c \in ParsedContests, NEW w \in Id
    PROVE  OptionId(c, w) \in Id /\ "option" \in Range(OptionId(c, w))
<1>1. c.id \in Seq(STRING) /\ w \in Seq(STRING)
  BY DEF ParsedContests, Seats, Measures, Id
<1> DEFINE o == <<"option">>  a == c.id \o o
<1>2. o \in Seq(STRING) /\ "option" \in Range(o)
  <2>1. "option" \in STRING
    BY DefinitionsAssumption DEF DefinitionsAssumption
  <2> QED
    BY <2>1, OneIs
<1>3. OptionId(c, w) = a \o w
  BY DEF OptionId
<1> HIDE DEF o
<1>4. a \in Seq(STRING) /\ Range(a) = Range(c.id) \cup Range(o)
  BY <1>1, <1>2, JoinedTwo
<1> HIDE DEF a
<1>5. a \o w \in Seq(STRING) /\ Range(a \o w) = Range(a) \cup Range(w)
  BY <1>1, <1>4, JoinedTwo
<1> QED
  BY <1>2, <1>3, <1>4, <1>5 DEF Id

----------------------------------------------------------------------------
(* What the conversion to CDF makes.                                       *)

CdfCandidates == [id : Id, BallotName : Seq(Texts)]
CdfParties == [id : Id, Name : Seq(Texts), vxBallotLabel : Seq(Texts)]
UnitTypes == {"state", "county", "other", "precinct"}
CdfUnits == [id : Id, Name : Seq(Texts), Type : UnitTypes, ComposingGpUnitIds : Maybe(SUBSET Id)]
CdfStyles == [GpUnitIds : SUBSET Id, ExternalIdentifier : Seq(Id), PartyIds : Maybe(Seq(Id))]
SeatChoices == [id : Id, CandidateIds : Maybe(Seq(Id)), EndorsementPartyIds : Maybe(Seq(Id)), IsWriteIn : BOOLEAN]
MeasureChoices == [id : Id, Selection : Seq(Texts)]
CdfSeats ==
    [type : {"CandidateContest"}, id : Id, ElectionDistrictId : Id, VotesAllowed : Nat,
     ContestOption : Seq(SeatChoices), PrimaryPartyIds : Maybe(Seq(Id))]
CdfMeasures ==
    [type : {"BallotMeasureContest"}, id : Id, ElectionDistrictId : Id, ContestOption : Seq(MeasureChoices)]
CdfFiles ==
    [Candidate : Seq(CdfCandidates), Contest : Seq(CdfSeats \cup CdfMeasures), BallotStyle : Seq(CdfStyles),
     Party : Seq(CdfParties), GpUnit : Seq(CdfUnits)]

LEMMA TextIsTyped ==
    ASSUME NEW content \in STRING \cup Id
    PROVE  Text(content) \in Seq(Texts)
<1>1. [Language |-> "en", Content |-> content] \in Texts
  BY DEF Texts
<1> QED
  BY <1>1, OneIs DEF Text

LEMMA WordsAreTyped ==
    /\ "option" \in STRING /\ "write" \in STRING /\ "in" \in STRING /\ "yes" \in STRING
    /\ "no" \in STRING /\ "Yes" \in STRING /\ "No" \in STRING
  BY DefinitionsAssumption DEF DefinitionsAssumption

LEMMA ThreeIs ==
    ASSUME NEW X, NEW x \in X, NEW y \in X, NEW z \in X
    PROVE  <<x, y, z>> \in Seq(X)
  OBVIOUS

ChoiceOf(c, k) ==
    [id |-> OptionId(c, k.id), CandidateIds |-> <<k.id>>, EndorsementPartyIds |-> k.partyIds, IsWriteIn |-> FALSE]
WriteInsOf(c) == IF c.allowWriteIns THEN c.seats ELSE 0
HasNumerals(c) == 0 .. c.seats - 1 \subseteq DOMAIN Numeral

\* The choices of a contest: its candidates in their order, and then its write-ins.
LEMMA ChoicesAre ==
    ASSUME NEW c \in Seats(ParsedCandidates), HasNumerals(c)
    PROVE  /\ CandidateOptions(c) \in Seq(SeatChoices)
           /\ WriteInsOf(c) \in Nat /\ Len(c.candidates) \in Nat
           /\ Len(CandidateOptions(c)) = Len(c.candidates) + WriteInsOf(c)
           /\ \A j \in 1 .. Len(c.candidates) :
                 /\ c.candidates[j] \in ParsedCandidates
                 /\ CandidateOptions(c)[j] = ChoiceOf(c, c.candidates[j])
           /\ \A j \in 1 .. WriteInsOf(c) :
                 /\ Numeral[j - 1] \in STRING /\ j - 1 \in DOMAIN Numeral
                 /\ CandidateOptions(c)[Len(c.candidates) + j] = WriteInOption(c, j)
           /\ CandidateOptions(c) = [j \in DOMAIN c.candidates |-> ChoiceOf(c, c.candidates[j])] \o WriteInOptions(c)
           /\ [j \in DOMAIN c.candidates |-> ChoiceOf(c, c.candidates[j])] \in Seq(SeatChoices)
           /\ WriteInOptions(c) \in Seq(SeatChoices)
<1> DEFINE n == WriteInsOf(c)  m == Len(c.candidates)
           a == [j \in DOMAIN c.candidates |-> ChoiceOf(c, c.candidates[j])]
           b == WriteInOptions(c)
<1>0. c \in ParsedContests
  BY DEF ParsedContests
<1>1. /\ c.candidates \in Seq(ParsedCandidates) /\ c.seats \in Nat /\ c.allowWriteIns \in BOOLEAN
  BY DEF Seats
<1>2. m \in Nat /\ DOMAIN c.candidates = 1 .. m /\ \A j \in 1 .. m : c.candidates[j] \in ParsedCandidates
  BY <1>1
<1>3. n \in Nat
  BY <1>1 DEF WriteInsOf
<1>4. \A k \in ParsedCandidates : ChoiceOf(c, k) \in SeatChoices
  <2>1. SUFFICES ASSUME NEW k \in ParsedCandidates PROVE ChoiceOf(c, k) \in SeatChoices
    OBVIOUS
  <2>2. k.id \in Id /\ k.partyIds \in Maybe(Seq(Id))
    BY DEF ParsedCandidates
  <2>3. OptionId(c, k.id) \in Id /\ <<k.id>> \in Seq(Id)
    BY <1>0, <2>2, OptionIdIs, OneIs
  <2> QED
    BY <2>2, <2>3 DEF ChoiceOf, SeatChoices, Maybe
<1>5. a \in Seq(SeatChoices) /\ Len(a) = m /\ \A j \in 1 .. m : a[j] = ChoiceOf(c, c.candidates[j])
  BY <1>2, <1>4
<1>6. \A j \in 1 .. n : Numeral[j - 1] \in STRING /\ j - 1 \in DOMAIN Numeral
  <2>1. SUFFICES ASSUME NEW j \in 1 .. n PROVE Numeral[j - 1] \in STRING /\ j - 1 \in DOMAIN Numeral
    OBVIOUS
  <2>2. j - 1 \in 0 .. c.seats - 1
    BY <1>1, <1>3 DEF WriteInsOf
  <2> QED
    BY <2>2, DefinitionsAssumption DEF DefinitionsAssumption, HasNumerals
<1>7. \A j \in 1 .. n : WriteInOption(c, j) \in SeatChoices
  <2>1. SUFFICES ASSUME NEW j \in 1 .. n PROVE WriteInOption(c, j) \in SeatChoices
    OBVIOUS
  <2>2. <<"write", "in", Numeral[j - 1]>> \in Id
    BY <1>6, WordsAreTyped, ThreeIs DEF Id
  <2>3. OptionId(c, <<"write", "in", Numeral[j - 1]>>) \in Id
    BY <1>0, <2>2, OptionIdIs
  <2> QED
    BY <2>3 DEF WriteInOption, SeatChoices, Maybe
<1>8. b \in Seq(SeatChoices) /\ Len(b) = n /\ \A j \in 1 .. n : b[j] = WriteInOption(c, j)
  <2>1. CASE c.allowWriteIns
    <3>1. b = [i \in 1 .. n |-> WriteInOption(c, i)]
      BY <2>1 DEF WriteInOptions, WriteInsOf
    <3> HIDE DEF b, n
    <3> QED
      BY <3>1, <1>3, <1>7
  <2>2. CASE ~c.allowWriteIns
    <3>1. b = <<>> /\ n = 0
      BY <2>2 DEF WriteInOptions, WriteInsOf
    <3> HIDE DEF b, n
    <3> QED
      BY <3>1
  <2> QED
    BY <2>1, <2>2
<1>9. CandidateOptions(c) = a \o b
  BY DEF CandidateOptions, Each, ChoiceOf
<1> HIDE DEF a, b, n, m
<1>10. a \o b \in Seq(SeatChoices) /\ IsJoined(a \o b, a, b)
  BY <1>5, <1>8, JoinedAre
<1> DEFINE o == CandidateOptions(c)
<1>11. o \in Seq(SeatChoices) /\ IsJoined(o, a, b)
  BY <1>9, <1>10
<1> HIDE DEF o
<1>12. /\ Len(o) = m + n
       /\ \A j \in 1 .. m : o[j] = ChoiceOf(c, c.candidates[j])
       /\ \A j \in 1 .. n : o[m + j] = WriteInOption(c, j)
  BY <1>5, <1>8, <1>11 DEF IsJoined
<1> QED
  BY <1>2, <1>3, <1>5, <1>6, <1>8, <1>9, <1>11, <1>12 DEF o, a, b, m, n

LEMMA MeasureChoiceIs ==
    ASSUME NEW c \in ParsedContests, NEW o \in Maybe(MeasureOptions), NEW word \in STRING, NEW label \in STRING
    PROVE  MeasureOption(c, o, word, label) \in MeasureChoices
<1>1. CASE o = Undefined
  <2>1. <<word>> \in Id
    BY OneIs DEF Id
  <2>2. OptionId(c, <<word>>) \in Id /\ Text(label) \in Seq(Texts)
    BY <2>1, OptionIdIs, TextIsTyped
  <2> QED
    BY <1>1, <2>2 DEF MeasureOption, MeasureChoices
<1>2. CASE o # Undefined
  <2>1. o.id \in Id /\ o.label \in STRING
    BY <1>2 DEF Maybe, MeasureOptions
  <2>2. Text(o.label) \in Seq(Texts)
    BY <2>1, TextIsTyped
  <2> QED
    BY <1>2, <2>1, <2>2 DEF MeasureOption, MeasureChoices
<1> QED
  BY <1>1, <1>2

\* The two choices of a measure.
LEMMA MeasureHas ==
    ASSUME NEW c \in Measures
    PROVE  /\ CdfContest(c).ContestOption
                 = <<MeasureOption(c, c.yesOption, "yes", "Yes"), MeasureOption(c, c.noOption, "no", "No")>>
           /\ MeasureOption(c, c.yesOption, "yes", "Yes") \in MeasureChoices
           /\ MeasureOption(c, c.noOption, "no", "No") \in MeasureChoices
           /\ CdfContest(c).ContestOption \in Seq(MeasureChoices)
<1>1. c \in ParsedContests /\ c.type = "yesno" /\ c.yesOption \in Maybe(MeasureOptions) /\ c.noOption \in Maybe(MeasureOptions)
  BY DEF ParsedContests, Measures
<1>2. /\ MeasureOption(c, c.yesOption, "yes", "Yes") \in MeasureChoices
      /\ MeasureOption(c, c.noOption, "no", "No") \in MeasureChoices
  BY <1>1, WordsAreTyped, MeasureChoiceIs
<1>3. CdfContest(c).ContestOption
          = <<MeasureOption(c, c.yesOption, "yes", "Yes"), MeasureOption(c, c.noOption, "no", "No")>>
  BY <1>1 DEF CdfContest
<1>4. \A x, y \in MeasureChoices : <<x, y>> \in Seq(MeasureChoices)
  OBVIOUS
<1> QED
  BY <1>2, <1>3, <1>4

\* A contest of the file.
LEMMA ContestIsFiled ==
    ASSUME NEW c \in ParsedContests, c.type = "candidate" => HasNumerals(c)
    PROVE  /\ CdfContest(c) \in CdfSeats \cup CdfMeasures
           /\ CdfContest(c).id = c.id /\ CdfContest(c).ElectionDistrictId = c.districtId
<1>1. CASE c \in Seats(ParsedCandidates)
  <2>1. /\ c.type = "candidate" /\ c.id \in Id /\ c.districtId \in Id /\ c.seats \in Nat /\ c.partyId \in Maybe(Id)
    BY <1>1 DEF Seats
  <2>2. CandidateOptions(c) \in Seq(SeatChoices)
    BY <1>1, <2>1, ChoicesAre
  <2>3. c.partyId # Undefined => <<c.partyId>> \in Seq(Id)
    <3>1. c.partyId # Undefined => c.partyId \in Id
      BY <2>1 DEF Maybe
    <3> QED
      BY <3>1, OneIs
  <2>4. (IF c.partyId = Undefined THEN Undefined ELSE <<c.partyId>>) \in Maybe(Seq(Id))
    BY <2>3 DEF Maybe
  <2> QED
    BY <2>1, <2>2, <2>4 DEF CdfContest, CdfSeats
<1>2. CASE c \in Measures
  <2>1. c.type = "yesno" /\ c.id \in Id /\ c.districtId \in Id
    BY <1>2 DEF Measures
  <2>2. CdfContest(c).ContestOption \in Seq(MeasureChoices)
    BY <1>2, MeasureHas
  <2> QED
    BY <2>1, <2>2 DEF CdfContest, CdfMeasures
<1> QED
  BY <1>1, <1>2 DEF ParsedContests

ListedCandidate(k) == [id |-> k.id, BallotName |-> Text(k.name)]

\* The file's candidates are those of the contests, in their order.
LEMMA CandidatesAreFiled ==
    ASSUME NEW e, IsParsed(e), NEW listed, listed = convertVxfElectionToCdfBallotDefinition(e).Candidate
    PROVE  /\ listed \in Seq(CdfCandidates) /\ Ids(listed) = FlattenSeq(CandidateIdLists(e))
           /\ \A i \in DOMAIN e.contests : \A k \in Range(CandidatesOf(e.contests[i])) :
                 ListedCandidate(k) \in Range(listed)
           /\ \A x \in Range(listed) : HasEnglish(x.BallotName)
<1> DEFINE n == Len(e.contests)
           Of(i) == CandidatesOf(e.contests[i])
           f == [i \in 1 .. n |-> [j \in DOMAIN Of(i) |-> ListedCandidate(Of(i)[j])]]
           h == [x \in CdfCandidates |-> x.id]
<1>1. e.contests \in Seq(ParsedContests) /\ n \in Nat /\ DOMAIN e.contests = 1 .. n
  BY ParsedHas
<1>2. \A i \in 1 .. n : Of(i) \in Seq(ParsedCandidates)
  <2>1. \A i \in 1 .. n : e.contests[i] \in ParsedContests
    BY <1>1
  <2> QED
    BY <2>1, CandidatesAreListed
<1>3. listed = FlattenSeq(f)
  BY <1>1 DEF convertVxfElectionToCdfBallotDefinition, Concat, Each, ListedCandidate
<1>4. \A k \in ParsedCandidates : ListedCandidate(k) \in CdfCandidates /\ ListedCandidate(k).id = k.id
  <2>1. SUFFICES ASSUME NEW k \in ParsedCandidates
                 PROVE  ListedCandidate(k) \in CdfCandidates /\ ListedCandidate(k).id = k.id
    OBVIOUS
  <2>2. k.id \in Id /\ k.name \in STRING
    BY DEF ParsedCandidates
  <2>3. Text(k.name) \in Seq(Texts)
    BY <2>2, TextIsTyped
  <2> QED
    BY <2>2, <2>3 DEF ListedCandidate, CdfCandidates
<1> HIDE DEF n
<1>5. \A i \in 1 .. n : /\ f[i] \in Seq(CdfCandidates) /\ DOMAIN f[i] = DOMAIN Of(i)
                        /\ \A j \in DOMAIN Of(i) : Of(i)[j] \in ParsedCandidates
  <2>1. SUFFICES ASSUME NEW i \in 1 .. n
                 PROVE  /\ f[i] \in Seq(CdfCandidates) /\ DOMAIN f[i] = DOMAIN Of(i)
                        /\ \A j \in DOMAIN Of(i) : Of(i)[j] \in ParsedCandidates
    OBVIOUS
  <2> DEFINE o == Of(i)
  <2>2. o \in Seq(ParsedCandidates)
    BY <1>2
  <2>3. f[i] = [j \in DOMAIN o |-> ListedCandidate(o[j])]
    OBVIOUS
  <2> HIDE DEF o, f
  <2>4. (\A j \in DOMAIN o : o[j] \in ParsedCandidates) /\ DOMAIN o = 1 .. Len(o) /\ Len(o) \in Nat
    BY <2>2
  <2>5. f[i] \in Seq(CdfCandidates)
    BY <1>4, <2>3, <2>4
  <2> QED
    BY <2>3, <2>4, <2>5 DEF o
<1>6. f \in [1 .. n -> Seq(CdfCandidates)]
  BY <1>5
<1>7. DOMAIN h = CdfCandidates
  OBVIOUS
<1>8. EachMapped(f, h) = CandidateIdLists(e)
  <2>1. ASSUME NEW i \in 1 .. n PROVE Mapped(f[i], h) = Ids(Of(i))
    <3>1. \A j \in DOMAIN Of(i) : f[i][j] \in CdfCandidates /\ f[i][j].id = Of(i)[j].id
      BY <1>4, <1>5
    <3> HIDE DEF f
    <3> QED
      BY <3>1, <1>5 DEF Mapped, Ids
  <2>2. DOMAIN f = 1 .. n
    OBVIOUS
  <2> HIDE DEF f, h
  <2> QED
    BY <2>1, <2>2, <1>1 DEF EachMapped, CandidateIdLists
<1> HIDE DEF f, h
<1>9. /\ listed \in Seq(CdfCandidates)
      /\ Range(listed) = UNION {Range(f[i]) : i \in 1 .. n}
  <2>1. n \in Nat
    BY <1>1
  <2>2. /\ FlattenSeq(f) \in Seq(CdfCandidates)
        /\ Range(FlattenSeq(f)) = UNION {Range(f[i]) : i \in 1 .. n}
    BY <2>1, <1>6, FlattenedHas
  <2> QED
    BY <1>3, <2>2
<1>10. FlattenSeq(EachMapped(f, h)) = Mapped(listed, h)
  <2>1. f \in Seq(Seq(DOMAIN h))
    BY <1>1, <1>6, <1>7
  <2> QED
    BY <2>1, <1>3, FlattenedMap
<1>11. Mapped(listed, h) = Ids(listed)
  <2>1. \A j \in DOMAIN listed : listed[j] \in CdfCandidates
    BY <1>9
  <2> QED
    BY <2>1 DEF Mapped, Ids, h
<1>12. ASSUME NEW i \in DOMAIN e.contests, NEW k \in Range(Of(i)) PROVE ListedCandidate(k) \in Range(f[i])
  <2>1. PICK j \in DOMAIN Of(i) : k = Of(i)[j]
    BY DEF Range
  <2> QED
    BY <2>1, <1>1 DEF Range, f
<1>13. ASSUME NEW x \in Range(listed) PROVE HasEnglish(x.BallotName)
  <2>1. PICK i \in 1 .. n : x \in Range(f[i])
    BY <1>9
  <2>2. PICK j \in DOMAIN f[i] : x = f[i][j]
    BY <2>1 DEF Range
  <2>3. x = ListedCandidate(Of(i)[j])
    BY <2>2 DEF f
  <2>4. x.BallotName = Text(Of(i)[j].name)
    BY <2>3 DEF ListedCandidate
  <2> QED
    BY <2>4, TextIsEnglish
<1> QED
  BY <1>1, <1>8, <1>9, <1>10, <1>11, <1>12, <1>13

\* What a unit is, and that a list has them all, whatever their order and their
\* names in other languages.
WhichUnit(u, e) ==
    \/ u.id = StateId(e.state) /\ u.Type = "state" /\ u.ComposingGpUnitIds = {e.county.id}
    \/ u.id = e.county.id /\ u.Type = "county" /\ u.ComposingGpUnitIds = Range(Ids(e.districts))
    \/ \E d \in Range(e.districts) : u.id = d.id /\ u.Type = "other" /\ u.ComposingGpUnitIds = PrecinctsIn(e, d)
    \/ \E p \in Range(e.precincts) : u.id = p.id /\ u.Type = "precinct" /\ u.ComposingGpUnitIds = Undefined

UnitIdsOf(e) == {StateId(e.state), e.county.id} \cup Range(Ids(e.districts)) \cup Range(Ids(e.precincts))

UnitsOf(us, e) ==
    /\ us \in Seq(CdfUnits)
    /\ \A u \in Range(us) : WhichUnit(u, e) /\ HasEnglish(u.Name)
    /\ \A type \in {"state", "county"} : \E u \in Range(us) : u.Type = type
    /\ \A id \in UnitIdsOf(e) : \E u \in Range(us) : u.id = id
    /\ OwnIdsApart(e) => IsInjective(Ids(us))

\* The conversion lists all units.
LEMMA UnitsAreFiled ==
    ASSUME NEW e, IsParsed(e)
    PROVE  UnitsOf(GpUnits(e), e)
<1> DEFINE Unit(id, name, type, composing) ==
                [id |-> id, Name |-> Text(name), Type |-> type, ComposingGpUnitIds |-> composing]
           s == Unit(StateId(e.state), e.state, "state", {e.county.id})
           c == Unit(e.county.id, e.county.name, "county", Range(Ids(e.districts)))
           ds == [i \in DOMAIN e.districts |-> Unit(e.districts[i].id, e.districts[i].name, "other", PrecinctsIn(e, e.districts[i]))]
           ps == [i \in DOMAIN e.precincts |-> Unit(e.precincts[i].id, e.precincts[i].name, "precinct", Undefined)]
           us == GpUnits(e)
<1>1. us = <<s, c>> \o ds \o ps
  BY DEF GpUnits, Each
<1>2. /\ StateId(e.state) \in Id /\ e.state \in Id /\ e.county.id \in Id /\ e.county.name \in STRING
      /\ Range(Ids(e.districts)) \subseteq Id
      /\ e.districts \in Seq(NamedUnits) /\ e.precincts \in Seq(NamedUnits) /\ e.ballotStyles \in Seq(BallotStyles)
  <2>1. \A list \in Seq(Id) : Range(list) \subseteq Id
    BY DEF Range
  <2> QED
    BY <2>1, ParsedHas, ParsedIds DEF NamedUnits
<1>3. \A d : PrecinctsIn(e, d) \subseteq Id
  <2>1. \A t \in Range(e.ballotStyles) : t.precincts \subseteq Id
    <3>1. \A i \in DOMAIN e.ballotStyles : e.ballotStyles[i] \in BallotStyles
      BY <1>2
    <3>2. \A t \in BallotStyles : t.precincts \subseteq Id
      BY DEF BallotStyles
    <3> QED
      BY <3>1, <3>2 DEF Range
  <2> QED
    BY <2>1 DEF PrecinctsIn
<1>4. ASSUME NEW id \in Id, NEW name \in STRING \cup Id, NEW type \in UnitTypes, NEW composing \in Maybe(SUBSET Id)
      PROVE  Unit(id, name, type, composing) \in CdfUnits /\ HasEnglish(Unit(id, name, type, composing).Name)
  <2>1. Text(name) \in Seq(Texts) /\ HasEnglish(Text(name))
    BY TextIsTyped, TextIsEnglish
  <2> QED
    BY <2>1 DEF CdfUnits
<1>5. s \in CdfUnits /\ HasEnglish(s.Name) /\ WhichUnit(s, e) /\ s.Type = "state" /\ s.id = StateId(e.state)
  <2>1. {e.county.id} \in Maybe(SUBSET Id) /\ "state" \in UnitTypes
    BY <1>2 DEF Maybe, UnitTypes
  <2>2. s \in CdfUnits /\ HasEnglish(s.Name)
    BY <2>1, <1>2, <1>4
  <2> QED
    BY <2>2 DEF WhichUnit
<1>6. c \in CdfUnits /\ HasEnglish(c.Name) /\ WhichUnit(c, e) /\ c.Type = "county" /\ c.id = e.county.id
  <2>1. Range(Ids(e.districts)) \in Maybe(SUBSET Id) /\ "county" \in UnitTypes
    BY <1>2 DEF Maybe, UnitTypes
  <2>2. c \in CdfUnits /\ HasEnglish(c.Name)
    BY <2>1, <1>2, <1>4
  <2> QED
    BY <2>2 DEF WhichUnit
<1>7. ASSUME NEW i \in DOMAIN e.districts
      PROVE  ds[i] \in CdfUnits /\ HasEnglish(ds[i].Name) /\ WhichUnit(ds[i], e) /\ ds[i].id = e.districts[i].id
  <2> DEFINE d == e.districts[i]
  <2>1. d \in NamedUnits /\ d \in Range(e.districts)
    BY <1>2 DEF Range
  <2>2. PrecinctsIn(e, d) \in Maybe(SUBSET Id) /\ "other" \in UnitTypes
    BY <1>3 DEF Maybe, UnitTypes
  <2>3. ds[i] = Unit(d.id, d.name, "other", PrecinctsIn(e, d))
    OBVIOUS
  <2> HIDE DEF d, ds
  <2>4. d.id \in Id /\ d.name \in STRING
    BY <2>1 DEF NamedUnits
  <2>5. ds[i] \in CdfUnits /\ HasEnglish(ds[i].Name)
    BY <2>2, <2>3, <2>4, <1>4
  <2>6. ds[i].id = d.id /\ ds[i].Type = "other" /\ ds[i].ComposingGpUnitIds = PrecinctsIn(e, d)
    BY <2>3
  <2> HIDE DEF Unit
  <2> QED
    BY <2>1, <2>5, <2>6 DEF WhichUnit, d
<1>8. ASSUME NEW i \in DOMAIN e.precincts
      PROVE  ps[i] \in CdfUnits /\ HasEnglish(ps[i].Name) /\ WhichUnit(ps[i], e) /\ ps[i].id = e.precincts[i].id
  <2> DEFINE d == e.precincts[i]
  <2>1. d \in NamedUnits /\ d \in Range(e.precincts)
    BY <1>2 DEF Range
  <2>2. Undefined \in Maybe(SUBSET Id) /\ "precinct" \in UnitTypes
    BY <1>3 DEF Maybe, UnitTypes
  <2>3. ps[i] = Unit(d.id, d.name, "precinct", Undefined)
    OBVIOUS
  <2> HIDE DEF d, ps
  <2>4. d.id \in Id /\ d.name \in STRING
    BY <2>1 DEF NamedUnits
  <2>5. ps[i] \in CdfUnits /\ HasEnglish(ps[i].Name)
    BY <2>2, <2>3, <2>4, <1>4
  <2>6. ps[i].id = d.id /\ ps[i].Type = "precinct" /\ ps[i].ComposingGpUnitIds = Undefined
    BY <2>3
  <2> HIDE DEF Unit
  <2> QED
    BY <2>1, <2>5, <2>6 DEF WhichUnit, d
<1>9. DOMAIN ds = DOMAIN e.districts /\ DOMAIN ps = DOMAIN e.precincts
  OBVIOUS
<1>10. /\ DOMAIN e.districts = 1 .. Len(e.districts) /\ Len(e.districts) \in Nat
       /\ DOMAIN e.precincts = 1 .. Len(e.precincts) /\ Len(e.precincts) \in Nat
  BY <1>2
<1>11. ds = [i \in DOMAIN ds |-> ds[i]] /\ ps = [i \in DOMAIN ps |-> ps[i]]
  OBVIOUS
<1> DEFINE sc == <<s, c>>
<1> HIDE DEF Unit, s, c, ds, ps, us
<1>12. ds \in Seq(CdfUnits) /\ ps \in Seq(CdfUnits)
  BY <1>7, <1>8, <1>9, <1>10, <1>11
<1>13. sc \in Seq(CdfUnits) /\ Range(sc) = {s, c} /\ DOMAIN sc = {1, 2}
  <2>1. sc \in Seq(CdfUnits) /\ DOMAIN sc = {1, 2} /\ sc[1] = s /\ sc[2] = c
    BY <1>5, <1>6
  <2> HIDE DEF sc
  <2> QED
    BY <2>1 DEF Range
<1>14. sc[1] = s /\ sc[2] = c
  OBVIOUS
<1> HIDE DEF sc
<1> DEFINE scd == sc \o ds
<1>15. scd \in Seq(CdfUnits) /\ Range(scd) = Range(sc) \cup Range(ds) /\ Ids(scd) = Ids(sc) \o Ids(ds)
  <2>1. scd \in Seq(CdfUnits) /\ Range(scd) = Range(sc) \cup Range(ds)
    BY <1>12, <1>13, JoinedTwo
  <2>2. Ids(scd) = Ids(sc) \o Ids(ds)
    BY <1>12, <1>13, IdsJoined
  <2> QED
    BY <2>1, <2>2
<1>16. us = scd \o ps
  BY <1>1 DEF sc
<1> HIDE DEF scd
<1>17. us \in Seq(CdfUnits) /\ Range(us) = Range(scd) \cup Range(ps) /\ Ids(us) = Ids(scd) \o Ids(ps)
  <2>1. scd \o ps \in Seq(CdfUnits) /\ Range(scd \o ps) = Range(scd) \cup Range(ps)
    BY <1>12, <1>15, JoinedTwo
  <2>2. Ids(scd \o ps) = Ids(scd) \o Ids(ps)
    BY <1>12, <1>15, IdsJoined
  <2> QED
    BY <2>1, <2>2, <1>16
<1>18. Ids(ds) = Ids(e.districts) /\ Ids(ps) = Ids(e.precincts)
  BY <1>7, <1>8, <1>9 DEF Ids
<1>19. /\ \A u \in Range(ds) : WhichUnit(u, e) /\ HasEnglish(u.Name)
       /\ \A u \in Range(ps) : WhichUnit(u, e) /\ HasEnglish(u.Name)
  BY <1>7, <1>8, <1>9 DEF Range
<1>20. /\ \A id \in Range(Ids(e.districts)) : \E u \in Range(ds) : u.id = id
       /\ \A id \in Range(Ids(e.precincts)) : \E u \in Range(ps) : u.id = id
  <2>1. ASSUME NEW i \in DOMAIN e.districts PROVE ds[i] \in Range(ds) /\ ds[i].id = Ids(e.districts)[i]
    BY <1>7, <1>9 DEF Range, Ids
  <2>2. ASSUME NEW i \in DOMAIN e.precincts PROVE ps[i] \in Range(ps) /\ ps[i].id = Ids(e.precincts)[i]
    BY <1>8, <1>9 DEF Range, Ids
  <2>3. DOMAIN Ids(e.districts) = DOMAIN e.districts /\ DOMAIN Ids(e.precincts) = DOMAIN e.precincts
    BY DEF Ids
  <2> QED
    BY <2>1, <2>2, <2>3 DEF Range
<1>21. ASSUME OwnIdsApart(e) PROVE IsInjective(Ids(us))
  <2>1. /\ Ids(sc) \in Seq(Id) /\ Ids(ds) \in Seq(Id) /\ Ids(ps) \in Seq(Id) /\ Ids(scd) \in Seq(Id)
        /\ Range(Ids(scd)) = Range(Ids(sc)) \cup Range(Ids(ds))
    <3>1. \A u \in CdfUnits : u.id \in Id
      BY DEF CdfUnits
    <3>2. /\ Ids(sc) \in Seq(Id) /\ Ids(ds) \in Seq(Id) /\ Ids(ps) \in Seq(Id) /\ Ids(scd) \in Seq(Id)
      BY <3>1, <1>12, <1>13, <1>15, IdsAreListed
    <3> QED
      BY <3>2, <1>15, JoinedTwo
  <2>2. Ids(sc)[1] = StateId(e.state) /\ Ids(sc)[2] = e.county.id /\ DOMAIN Ids(sc) = {1, 2}
    BY <1>5, <1>6, <1>13, <1>14 DEF Ids
  <2>3. /\ IsInjective(Ids(e.districts)) /\ IsInjective(Ids(e.precincts)) /\ e.county.id # StateId(e.state)
        /\ Disjoint(Range(Ids(e.precincts)), Range(Ids(e.districts)))
        /\ Disjoint({e.county.id, StateId(e.state)}, Range(Ids(e.districts)) \cup Range(Ids(e.precincts)))
    BY <1>21 DEF OwnIdsApart, Disjoint
  <2>4. IsInjective(Ids(sc)) /\ Range(Ids(sc)) = {e.county.id, StateId(e.state)}
    BY <2>2, <2>3 DEF IsInjective, Range
  <2>5. Range(Ids(sc)) \cap Range(Ids(ds)) = {}
    BY <2>3, <2>4, <1>18 DEF Disjoint
  <2>6. IsInjective(Ids(scd))
    <3>1. IsInjective(Ids(sc) \o Ids(ds))
      BY <2>1, <2>3, <2>4, <2>5, <1>18, JoinedInjective
    <3> QED
      BY <3>1, <1>15
  <2>7. Range(Ids(scd)) \cap Range(Ids(ps)) = {}
    BY <2>1, <2>3, <2>4, <1>18 DEF Disjoint
  <2>8. IsInjective(Ids(scd) \o Ids(ps))
    BY <2>1, <2>3, <2>6, <2>7, <1>18, JoinedInjective
  <2> QED
    BY <2>8, <1>17
<1>22. \A u \in Range(us) : WhichUnit(u, e) /\ HasEnglish(u.Name)
  BY <1>5, <1>6, <1>13, <1>15, <1>17, <1>19
<1>23. \A type \in {"state", "county"} : \E u \in Range(us) : u.Type = type
  BY <1>5, <1>6, <1>13, <1>15, <1>17
<1>24. \A id \in UnitIdsOf(e) : \E u \in Range(us) : u.id = id
  BY <1>5, <1>6, <1>13, <1>15, <1>17, <1>20 DEF UnitIdsOf
<1> QED
  BY <1>17, <1>21, <1>22, <1>23, <1>24 DEF UnitsOf, us

\* A file of an election that says what the conversion made, in any order of
\* its units and with their names in more languages.
FormOf(f, e) ==
    LET made == convertVxfElectionToCdfBallotDefinition(e)
    IN  /\ f.Candidate = made.Candidate /\ f.Contest = made.Contest
        /\ f.BallotStyle = made.BallotStyle /\ f.Party = made.Party
        /\ UnitsOf(f.GpUnit, e)

LEMMA EachIsListed ==
    ASSUME NEW n \in Nat, NEW Y, NEW made, DOMAIN made = 1 .. n,
           made = [i \in DOMAIN made |-> made[i]], \A i \in 1 .. n : made[i] \in Y
    PROVE  made \in Seq(Y) /\ Len(made) = n
<1>1. made \in [1 .. n -> Y]
  OBVIOUS
<1> QED
  BY <1>1

\* The conversion makes a file of that form,
LEMMA FileIsMade ==
    ASSUME NEW e, IsParsed(e)
    PROVE  /\ convertVxfElectionToCdfBallotDefinition(e) \in CdfFiles
           /\ FormOf(convertVxfElectionToCdfBallotDefinition(e), e)
<1> DEFINE f == convertVxfElectionToCdfBallotDefinition(e)
           Made(p) == [id |-> p.id, Name |-> Text(p.fullName), vxBallotLabel |-> Text(p.name)]
<1>1. /\ f.Contest = [i \in DOMAIN e.contests |-> CdfContest(e.contests[i])]
      /\ f.BallotStyle = [i \in DOMAIN e.ballotStyles |-> CdfBallotStyle(e.ballotStyles[i])]
      /\ f.Party = [i \in DOMAIN e.parties |-> Made(e.parties[i])]
      /\ f.GpUnit = GpUnits(e)
      /\ f = [Candidate |-> f.Candidate, Contest |-> f.Contest, BallotStyle |-> f.BallotStyle,
              Party |-> f.Party, GpUnit |-> f.GpUnit]
  BY DEF convertVxfElectionToCdfBallotDefinition, Each
<1>2. f.Candidate \in Seq(CdfCandidates)
  BY CandidatesAreFiled
<1> HIDE DEF f
<1>3. f.Contest \in Seq(CdfSeats \cup CdfMeasures)
  <2>1. e.contests \in Seq(ParsedContests)
    BY ParsedHas
  <2>2. DOMAIN e.contests = 1 .. Len(e.contests) /\ Len(e.contests) \in Nat
        /\ \A i \in 1 .. Len(e.contests) : e.contests[i] \in ParsedContests
    BY <2>1
  <2>3. ASSUME NEW i \in 1 .. Len(e.contests) PROVE CdfContest(e.contests[i]) \in CdfSeats \cup CdfMeasures
    <3>1. e.contests[i].type = "candidate" => HasNumerals(e.contests[i])
      BY <2>2 DEF IsParsed, HasNumerals, Range
    <3> QED
      BY <2>2, <3>1, ContestIsFiled
  <2> QED
    BY <1>1, <2>2, <2>3, EachIsListed
<1>4. f.BallotStyle \in Seq(CdfStyles)
  <2>1. e.ballotStyles \in Seq(BallotStyles)
    BY ParsedHas
  <2>2. DOMAIN e.ballotStyles = 1 .. Len(e.ballotStyles) /\ Len(e.ballotStyles) \in Nat
        /\ \A i \in 1 .. Len(e.ballotStyles) : e.ballotStyles[i] \in BallotStyles
    BY <2>1
  <2>3. ASSUME NEW s \in BallotStyles PROVE CdfBallotStyle(s) \in CdfStyles
    <3>1. s.id \in Id /\ s.precincts \in SUBSET Id /\ s.partyId \in Maybe(Id)
      BY DEF BallotStyles
    <3>2. <<s.id>> \in Seq(Id)
      BY <3>1, OneIs
    <3>3. s.partyId # Undefined => <<s.partyId>> \in Seq(Id)
      <4>1. s.partyId # Undefined => s.partyId \in Id
        BY <3>1 DEF Maybe
      <4> QED
        BY <4>1, OneIs
    <3> QED
      BY <3>1, <3>2, <3>3 DEF CdfBallotStyle, CdfStyles, Maybe
  <2>4. \A i \in 1 .. Len(e.ballotStyles) : CdfBallotStyle(e.ballotStyles[i]) \in CdfStyles
    BY <2>2, <2>3
  <2> QED
    BY <1>1, <2>2, <2>4, EachIsListed
<1>5. f.Party \in Seq(CdfParties)
  <2>1. e.parties \in Seq(PartiesWith(STRING))
    BY ParsedHas
  <2>2. DOMAIN e.parties = 1 .. Len(e.parties) /\ Len(e.parties) \in Nat
        /\ \A i \in 1 .. Len(e.parties) : e.parties[i] \in PartiesWith(STRING)
    BY <2>1
  <2>3. ASSUME NEW p \in PartiesWith(STRING) PROVE Made(p) \in CdfParties
    <3>1. p.id \in Id /\ p.name \in STRING /\ p.fullName \in STRING
      BY DEF PartiesWith
    <3>2. Text(p.name) \in Seq(Texts) /\ Text(p.fullName) \in Seq(Texts)
      BY <3>1, TextIsTyped
    <3> QED
      BY <3>1, <3>2 DEF CdfParties
  <2> HIDE DEF Made
  <2>4. \A i \in 1 .. Len(e.parties) : Made(e.parties[i]) \in CdfParties
    BY <2>2, <2>3
  <2> QED
    BY <1>1, <2>2, <2>4, EachIsListed
<1>6. UnitsOf(f.GpUnit, e)
  BY <1>1, UnitsAreFiled
<1>7. f.GpUnit \in Seq(CdfUnits)
  BY <1>6 DEF UnitsOf
<1>8. f \in CdfFiles
  BY <1>1, <1>2, <1>3, <1>4, <1>5, <1>7 DEF CdfFiles
<1> QED
  BY <1>6, <1>8 DEF FormOf, f

LEMMA ReversedUnits ==
    ASSUME NEW e, NEW us, UnitsOf(us, e)
    PROVE  UnitsOf(Reverse(us), e)
<1> DEFINE n == Len(us)  r == Reverse(us)
<1>1. us \in Seq(CdfUnits) /\ n \in Nat /\ DOMAIN us = 1 .. n
  BY DEF UnitsOf
<1>2. DOMAIN r = 1 .. n /\ \A i \in 1 .. n : r[i] = us[(n - i) + 1]
  BY DEF Reverse
<1>3. \A i \in 1 .. n : (n - i) + 1 \in 1 .. n /\ (n - ((n - i) + 1)) + 1 = i
  BY <1>1
<1>4. r = [i \in DOMAIN r |-> r[i]]
  BY DEF Reverse
<1> HIDE DEF r
<1>5. r \in Seq(CdfUnits)
  <2>1. \A i \in 1 .. n : r[i] \in CdfUnits
    BY <1>1, <1>2, <1>3
  <2> HIDE DEF n
  <2> QED
    BY <1>1, <1>2, <1>4, <2>1, EachIsListed
<1>6. Range(r) = Range(us)
  <2>1. \A i \in 1 .. n : r[i] \in Range(us)
    BY <1>1, <1>2, <1>3 DEF Range
  <2>2. ASSUME NEW i \in 1 .. n PROVE us[i] \in Range(r)
    <3>1. r[(n - i) + 1] = us[i] /\ (n - i) + 1 \in DOMAIN r
      BY <1>2, <1>3
    <3> QED
      BY <3>1 DEF Range
  <2> QED
    BY <1>1, <1>2, <2>1, <2>2 DEF Range
<1>7. ASSUME IsInjective(Ids(us)) PROVE IsInjective(Ids(r))
  <2>1. SUFFICES ASSUME NEW i \in 1 .. n, NEW j \in 1 .. n, r[i].id = r[j].id PROVE i = j
    BY <1>2 DEF IsInjective, Ids
  <2>2. us[(n - i) + 1].id = us[(n - j) + 1].id
    BY <1>2, <2>1
  <2>3. (n - i) + 1 = (n - j) + 1
    BY <1>1, <1>3, <1>7, <2>2 DEF IsInjective, Ids
  <2> QED
    BY <1>1, <2>3
<1> QED
  BY <1>5, <1>6, <1>7 DEF UnitsOf, r

\* A name in Spanish before the one in English.
Translated(text) == <<[Language |-> "es", Content |-> text[1].Content]>> \o text

LEMMA TranslationIsEnglish ==
    ASSUME NEW text \in Seq(Texts), HasEnglish(text)
    PROVE  Translated(text) \in Seq(Texts) /\ HasEnglish(Translated(text))
<1> DEFINE t == [Language |-> "es", Content |-> text[1].Content]  a == <<t>>
<1>1. PICK i \in DOMAIN text : text[i].Language = "en"
  BY EnglishIs
<1>2. 1 \in DOMAIN text /\ DOMAIN text = 1 .. Len(text) /\ Len(text) \in Nat
  BY <1>1
<1>3. text[1] \in Texts
  BY <1>2
<1>4. t \in Texts
  BY <1>3 DEF Texts
<1> HIDE DEF t
<1>5. a \in Seq(Texts) /\ Len(a) = 1
  BY <1>4, OneIs
<1>6. Translated(text) = a \o text
  BY DEF Translated, t
<1> HIDE DEF a
<1> DEFINE s == a \o text
<1>7. s \in Seq(Texts) /\ IsJoined(s, a, text)
  BY <1>5, JoinedAre
<1> HIDE DEF s
<1>8. s[1 + i] = text[i] /\ 1 + i \in DOMAIN s
  BY <1>2, <1>5, <1>7 DEF IsJoined
<1>9. HasEnglish(s)
  BY <1>1, <1>7, <1>8, EnglishIs
<1> QED
  BY <1>6, <1>7, <1>9 DEF s

LEMMA TranslatedUnits ==
    ASSUME NEW e, NEW us, UnitsOf(us, e)
    PROVE  UnitsOf(Each(us, LAMBDA u : [u EXCEPT !.Name = Translated(@)]), e)
<1> DEFINE n == Len(us)
           r == [i \in DOMAIN us |-> [us[i] EXCEPT !.Name = Translated(us[i].Name)]]
<1>1. us \in Seq(CdfUnits) /\ n \in Nat /\ DOMAIN us = 1 .. n /\ \A i \in 1 .. n : us[i] \in CdfUnits
  BY DEF UnitsOf
<1>2. Each(us, LAMBDA u : [u EXCEPT !.Name = Translated(@)]) = r
  BY DEF Each
<1>3. ASSUME NEW i \in 1 .. n
      PROVE  /\ r[i] \in CdfUnits /\ r[i].id = us[i].id /\ r[i].Type = us[i].Type
             /\ r[i].ComposingGpUnitIds = us[i].ComposingGpUnitIds /\ HasEnglish(r[i].Name)
  <2>1. us[i] \in CdfUnits /\ HasEnglish(us[i].Name)
    BY <1>1 DEF UnitsOf, Range
  <2>2. us[i].Name \in Seq(Texts)
    BY <2>1 DEF CdfUnits
  <2>3. Translated(us[i].Name) \in Seq(Texts) /\ HasEnglish(Translated(us[i].Name))
    BY <2>1, <2>2, TranslationIsEnglish
  <2>4. r[i] = [us[i] EXCEPT !.Name = Translated(us[i].Name)]
    BY <1>1
  <2> QED
    BY <2>1, <2>3, <2>4 DEF CdfUnits
<1>4. DOMAIN r = 1 .. n /\ r = [i \in DOMAIN r |-> r[i]]
  BY <1>1
<1> HIDE DEF r, n
<1>5. r \in Seq(CdfUnits)
  BY <1>1, <1>3, <1>4, EachIsListed
<1>6. Ids(r) = Ids(us)
  BY <1>1, <1>3, <1>4 DEF Ids
<1>7. \A u \in Range(r) : WhichUnit(u, e) /\ HasEnglish(u.Name)
  <2>1. SUFFICES ASSUME NEW i \in 1 .. n PROVE WhichUnit(r[i], e) /\ HasEnglish(r[i].Name)
    BY <1>4 DEF Range
  <2>2. WhichUnit(us[i], e)
    BY <1>1 DEF UnitsOf, Range
  <2> QED
    BY <2>2, <1>3 DEF WhichUnit
<1>8. ASSUME NEW u \in Range(us) PROVE \E v \in Range(r) : v.id = u.id /\ v.Type = u.Type
  <2>1. PICK i \in 1 .. n : u = us[i]
    BY <1>1 DEF Range
  <2>2. r[i] \in Range(r)
    BY <1>4 DEF Range
  <2> QED
    BY <2>1, <2>2, <1>3
<1>9. \A type \in {"state", "county"} : \E u \in Range(r) : u.Type = type
  BY <1>8 DEF UnitsOf
<1>10. \A id \in UnitIdsOf(e) : \E u \in Range(r) : u.id = id
  BY <1>8 DEF UnitsOf
<1>11. OwnIdsApart(e) => IsInjective(Ids(r))
  BY <1>6 DEF UnitsOf
<1> QED
  BY <1>2, <1>5, <1>7, <1>9, <1>10, <1>11 DEF UnitsOf

\* and what only changes its form leaves it one.
LEMMA RewritingsAreForms ==
    ASSUME NEW e, NEW f \in CdfFiles, FormOf(f, e), NEW g \in Rewritings(f)
    PROVE  g \in CdfFiles /\ FormOf(g, e)
<1>1. UnitsOf(f.GpUnit, e)
  BY DEF FormOf
<1>2. ASSUME NEW us, UnitsOf(us, e), g = [f EXCEPT !.GpUnit = us] PROVE g \in CdfFiles /\ FormOf(g, e)
  <2>1. us \in Seq(CdfUnits)
    BY <1>2 DEF UnitsOf
  <2>2. g \in CdfFiles /\ g.GpUnit = us
    BY <1>2, <2>1 DEF CdfFiles
  <2>3. g.Candidate = f.Candidate /\ g.Contest = f.Contest /\ g.BallotStyle = f.BallotStyle /\ g.Party = f.Party
    BY <1>2 DEF CdfFiles
  <2> QED
    BY <1>2, <2>2, <2>3 DEF FormOf
<1>3. \/ g = [f EXCEPT !.GpUnit = Reverse(f.GpUnit)]
      \/ g = [f EXCEPT !.GpUnit = Each(f.GpUnit, LAMBDA u : [u EXCEPT !.Name = Translated(@)])]
  BY DEF Rewritings, Translated
<1> QED
  BY <1>1, <1>2, <1>3, ReversedUnits, TranslatedUnits

HasMoreUnits(f, g) ==
    \E i \in DOMAIN f.BallotStyle, id \in Range(Ids(f.GpUnit)) : g = [f EXCEPT !.BallotStyle[i].GpUnitIds = @ \cup {id}]
HasMoreIds(f, g) == \E i \in DOMAIN f.BallotStyle : g = [f EXCEPT !.BallotStyle[i].ExternalIdentifier = @ \o @]

LEMMA StyleEditsAre ==
    ASSUME NEW f, NEW g, g \in StyleEdits(f)
    PROVE  HasMoreUnits(f, g) \/ HasMoreIds(f, g)
<1> DEFINE A == {[f EXCEPT !.BallotStyle[i].GpUnitIds = @ \cup {id}] :
                    i \in DOMAIN f.BallotStyle, id \in Range(Ids(f.GpUnit))}
           B == {[f EXCEPT !.BallotStyle[i].ExternalIdentifier = @ \o @] : i \in DOMAIN f.BallotStyle}
<1>1. StyleEdits(f) = A \cup B
  BY DEF StyleEdits
<1>2. g \in A => HasMoreUnits(f, g)
  BY DEF HasMoreUnits
<1>3. g \in B => HasMoreIds(f, g)
  BY DEF HasMoreIds
<1> HIDE DEF A, B
<1> QED
  BY <1>1, <1>2, <1>3

\* Whatever is done to a file, its fields are of their types.
LEMMA EditsAreFiles ==
    ASSUME NEW f \in CdfFiles, NEW g \in UnitEdits(f) \cup StyleEdits(f) \cup ContestEdits(f)
    PROVE  g \in CdfFiles
<1> DEFINE us == f.GpUnit  bs == f.BallotStyle  cs == f.Contest  ids == Range(Ids(us))
           C == CdfSeats \cup CdfMeasures
<1>1. us \in Seq(CdfUnits) /\ bs \in Seq(CdfStyles) /\ cs \in Seq(C)
  BY DEF CdfFiles
<1>2. ids \subseteq Id
  <2>1. \A u \in CdfUnits : u.id \in Id
    BY DEF CdfUnits
  <2>2. Ids(us) \in Seq(Id)
    BY <1>1, <2>1, IdsAreListed
  <2> QED
    BY <2>2 DEF Range
<1>3. ASSUME NEW x \in Seq(CdfUnits), g = [f EXCEPT !.GpUnit = x] PROVE g \in CdfFiles
  BY <1>3 DEF CdfFiles
<1>4. ASSUME NEW x \in Seq(CdfStyles), g = [f EXCEPT !.BallotStyle = x] PROVE g \in CdfFiles
  BY <1>4 DEF CdfFiles
<1>5. ASSUME NEW x \in Seq(C), g = [f EXCEPT !.Contest = x] PROVE g \in CdfFiles
  BY <1>5 DEF CdfFiles
<1>6. ASSUME NEW X, NEW s \in Seq(X), NEW i \in DOMAIN s, NEW x \in X PROVE [s EXCEPT ![i] = x] \in Seq(X)
  OBVIOUS
<1>7. ASSUME NEW i \in DOMAIN us, g = [f EXCEPT !.GpUnit = RemoveAt(us, i)] PROVE g \in CdfFiles
  <2>1. i \in 1 .. Len(us) /\ Len(us) \in Nat
    BY <1>1
  <2>2. SubSeq(us, 1, i - 1) \in Seq(CdfUnits) /\ SubSeq(us, i + 1, Len(us)) \in Seq(CdfUnits)
    BY <1>1, <2>1
  <2>3. RemoveAt(us, i) \in Seq(CdfUnits)
    BY <2>2, JoinedTwo DEF RemoveAt
  <2> QED
    BY <1>3, <1>7, <2>3
<1>8. ASSUME NEW i \in DOMAIN us, NEW id \in ids, g = [f EXCEPT !.GpUnit[i].id = id] PROVE g \in CdfFiles
  <2>1. us[i] \in CdfUnits
    BY <1>1
  <2>2. [us[i] EXCEPT !.id = id] \in CdfUnits
    BY <1>2, <2>1 DEF CdfUnits
  <2>3. [us EXCEPT ![i] = [us[i] EXCEPT !.id = id]] \in Seq(CdfUnits)
    BY <1>1, <1>6, <2>2
  <2> QED
    BY <1>3, <1>8, <2>3
<1>9. ASSUME NEW i \in DOMAIN us, g = [f EXCEPT !.GpUnit[i].ComposingGpUnitIds = Undefined] PROVE g \in CdfFiles
  <2>1. us[i] \in CdfUnits
    BY <1>1
  <2>2. [us[i] EXCEPT !.ComposingGpUnitIds = Undefined] \in CdfUnits
    BY <2>1 DEF CdfUnits, Maybe
  <2>3. [us EXCEPT ![i] = [us[i] EXCEPT !.ComposingGpUnitIds = Undefined]] \in Seq(CdfUnits)
    BY <1>1, <1>6, <2>2
  <2> QED
    BY <1>3, <1>9, <2>3
<1>10. ASSUME NEW i \in DOMAIN us, g = [f EXCEPT !.GpUnit[i].Name[1].Language = "es"] PROVE g \in CdfFiles
  <2> DEFINE name == us[i].Name
             text == [name EXCEPT ![1] = [name[1] EXCEPT !.Language = "es"]]
  <2>1. us[i] \in CdfUnits
    BY <1>1
  <2>2. name \in Seq(Texts)
    BY <2>1 DEF CdfUnits
  <2>3. text \in Seq(Texts)
    <3>1. CASE 1 \in DOMAIN name
      <4>1. name[1] \in Texts
        BY <2>2, <3>1
      <4>2. [name[1] EXCEPT !.Language = "es"] \in Texts
        BY <4>1 DEF Texts
      <4> HIDE DEF name
      <4> QED
        BY <2>2, <3>1, <4>2, <1>6
    <3>2. CASE 1 \notin DOMAIN name
      <4>1. DOMAIN text = DOMAIN name /\ \A k \in DOMAIN name : text[k] = name[k]
        BY <3>2
      <4>2. name = [k \in DOMAIN name |-> name[k]]
        BY <2>2
      <4>3. text = [k \in DOMAIN name |-> text[k]]
        OBVIOUS
      <4> HIDE DEF name, text
      <4>4. text = name
        BY <4>1, <4>2, <4>3
      <4> QED
        BY <2>2, <4>4
    <3> QED
      BY <3>1, <3>2
  <2> HIDE DEF text
  <2>4. [us[i] EXCEPT !.Name = text] \in CdfUnits
    BY <2>1, <2>3 DEF CdfUnits
  <2>5. [us EXCEPT ![i] = [us[i] EXCEPT !.Name = text]] \in Seq(CdfUnits)
    BY <1>1, <1>6, <2>4
  <2>6. g = [f EXCEPT !.GpUnit = [us EXCEPT ![i] = [us[i] EXCEPT !.Name = text]]]
    BY <1>10 DEF text
  <2> QED
    BY <1>3, <2>5, <2>6
<1>11. ASSUME NEW i \in DOMAIN bs, NEW id \in ids, g = [f EXCEPT !.BallotStyle[i].GpUnitIds = @ \cup {id}]
       PROVE  g \in CdfFiles
  <2>1. bs[i] \in CdfStyles
    BY <1>1
  <2>2. bs[i].GpUnitIds \cup {id} \in SUBSET Id
    BY <1>2, <2>1 DEF CdfStyles
  <2>3. [bs[i] EXCEPT !.GpUnitIds = bs[i].GpUnitIds \cup {id}] \in CdfStyles
    BY <2>1, <2>2 DEF CdfStyles
  <2>4. [bs EXCEPT ![i] = [bs[i] EXCEPT !.GpUnitIds = bs[i].GpUnitIds \cup {id}]] \in Seq(CdfStyles)
    BY <1>1, <1>6, <2>3
  <2> QED
    BY <1>4, <1>11, <2>4
<1>12. ASSUME NEW i \in DOMAIN bs, g = [f EXCEPT !.BallotStyle[i].ExternalIdentifier = @ \o @] PROVE g \in CdfFiles
  <2> DEFINE x == bs[i].ExternalIdentifier
  <2>1. bs[i] \in CdfStyles
    BY <1>1
  <2>2. x \in Seq(Id)
    BY <2>1 DEF CdfStyles
  <2> HIDE DEF x
  <2>3. x \o x \in Seq(Id)
    BY <2>2, JoinedTwo
  <2>4. [bs[i] EXCEPT !.ExternalIdentifier = x \o x] \in CdfStyles
    BY <2>1, <2>3 DEF CdfStyles
  <2>5. [bs EXCEPT ![i] = [bs[i] EXCEPT !.ExternalIdentifier = x \o x]] \in Seq(CdfStyles)
    BY <1>1, <1>6, <2>4
  <2>6. g = [f EXCEPT !.BallotStyle = [bs EXCEPT ![i] = [bs[i] EXCEPT !.ExternalIdentifier = x \o x]]]
    BY <1>12 DEF x
  <2> QED
    BY <1>4, <2>5, <2>6
<1>13. ASSUME NEW i \in DOMAIN cs, NEW id \in ids, g = [f EXCEPT !.Contest[i].ElectionDistrictId = id]
       PROVE  g \in CdfFiles
  <2>1. cs[i] \in C
    BY <1>1
  <2>2. [cs[i] EXCEPT !.ElectionDistrictId = id] \in C
    BY <1>2, <2>1 DEF CdfSeats, CdfMeasures
  <2> HIDE DEF C
  <2>3. [cs EXCEPT ![i] = [cs[i] EXCEPT !.ElectionDistrictId = id]] \in Seq(C)
    BY <1>1, <1>6, <2>2
  <2> QED
    BY <1>5, <1>13, <2>3
<1>14. ASSUME NEW i \in DOMAIN cs, NEW c \in Range(cs), g = [f EXCEPT !.Contest[i].id = c.id] PROVE g \in CdfFiles
  <2>1. cs[i] \in C /\ c \in C
    BY <1>1 DEF Range
  <2>2. c.id \in Id
    BY <2>1 DEF CdfSeats, CdfMeasures
  <2>3. [cs[i] EXCEPT !.id = c.id] \in C
    BY <2>1, <2>2 DEF CdfSeats, CdfMeasures
  <2> HIDE DEF C
  <2>4. [cs EXCEPT ![i] = [cs[i] EXCEPT !.id = c.id]] \in Seq(C)
    BY <1>1, <1>6, <2>3
  <2> QED
    BY <1>5, <1>14, <2>4
<1>15. ASSUME g \in UnitEdits(f)
       PROVE  \/ \E i \in DOMAIN us : g = [f EXCEPT !.GpUnit = RemoveAt(us, i)]
              \/ \E i \in DOMAIN us, id \in ids : g = [f EXCEPT !.GpUnit[i].id = id]
              \/ \E i \in DOMAIN us : g = [f EXCEPT !.GpUnit[i].ComposingGpUnitIds = Undefined]
              \/ \E i \in DOMAIN us : g = [f EXCEPT !.GpUnit[i].Name[1].Language = "es"]
  <2> DEFINE A1 == {[f EXCEPT !.GpUnit = RemoveAt(us, i)] : i \in DOMAIN us}
             A2 == {[f EXCEPT !.GpUnit[i].id = id] : i \in DOMAIN us, id \in ids}
             A3 == {[f EXCEPT !.GpUnit[i].ComposingGpUnitIds = Undefined] : i \in DOMAIN us}
             A4 == {[f EXCEPT !.GpUnit[i].Name[1].Language = "es"] : i \in DOMAIN us}
  <2>1. UnitEdits(f) = A1 \cup A2 \cup A3 \cup A4
    BY DEF UnitEdits
  <2>2. g \in A1 => \E i \in DOMAIN us : g = [f EXCEPT !.GpUnit = RemoveAt(us, i)]
    OBVIOUS
  <2>3. g \in A2 => \E i \in DOMAIN us, id \in ids : g = [f EXCEPT !.GpUnit[i].id = id]
    OBVIOUS
  <2>4. g \in A3 => \E i \in DOMAIN us : g = [f EXCEPT !.GpUnit[i].ComposingGpUnitIds = Undefined]
    OBVIOUS
  <2>5. g \in A4 => \E i \in DOMAIN us : g = [f EXCEPT !.GpUnit[i].Name[1].Language = "es"]
    OBVIOUS
  <2> HIDE DEF A1, A2, A3, A4, us, ids
  <2> QED
    BY <1>15, <2>1, <2>2, <2>3, <2>4, <2>5, Zenon
<1>16. g \in StyleEdits(f) => HasMoreUnits(f, g) \/ HasMoreIds(f, g)
  BY StyleEditsAre
<1>17. ASSUME g \in ContestEdits(f)
       PROVE  \/ \E i \in DOMAIN cs, id \in ids : g = [f EXCEPT !.Contest[i].ElectionDistrictId = id]
              \/ \E i \in DOMAIN cs, c \in Range(cs) : g = [f EXCEPT !.Contest[i].id = c.id]
  BY <1>17 DEF ContestEdits
<1>18. CASE g \in UnitEdits(f)
  BY <1>7, <1>8, <1>9, <1>10, <1>15, <1>18, Zenon
<1>19. CASE g \in StyleEdits(f)
  <2>1. HasMoreUnits(f, g) => g \in CdfFiles
    BY <1>11, Zenon DEF HasMoreUnits
  <2>2. HasMoreIds(f, g) => g \in CdfFiles
    BY <1>12, Zenon DEF HasMoreIds
  <2> QED
    BY <1>16, <1>19, <2>1, <2>2
<1>20. CASE g \in ContestEdits(f)
  BY <1>13, <1>14, <1>17, <1>20, Zenon
<1> QED
  BY <1>18, <1>19, <1>20

----------------------------------------------------------------------------
(* A file of an election that CDF can express is read.                     *)

Ready(f, e) == IsParsed(e) /\ Expressible(e) /\ f \in CdfFiles /\ FormOf(f, e)

CdfPartyOf(p) == [id |-> p.id, Name |-> Text(p.fullName), vxBallotLabel |-> Text(p.name)]

\* A contest of the election and the one of its file.
LEMMA ContestIs ==
    ASSUME NEW e, NEW f, Ready(f, e), NEW i \in DOMAIN e.contests
    PROVE  /\ e.contests[i] \in ParsedContests /\ f.Contest[i] = CdfContest(e.contests[i])
           /\ e.contests[i].type = "candidate" => HasNumerals(e.contests[i])
           /\ f.Contest[i].id = e.contests[i].id
           /\ f.Contest[i].ElectionDistrictId = e.contests[i].districtId
<1>1. IsParsed(e) /\ FormOf(f, e)
  BY DEF Ready
<1>2. f.Contest[i] = CdfContest(e.contests[i])
  BY <1>1 DEF FormOf, convertVxfElectionToCdfBallotDefinition, Each
<1>3. e.contests[i] \in ParsedContests /\ e.contests[i] \in Range(e.contests)
  <2>1. e.contests \in Seq(ParsedContests)
    BY <1>1, ParsedHas
  <2> QED
    BY <2>1 DEF Range
<1>4. e.contests[i].type = "candidate" => HasNumerals(e.contests[i])
  BY <1>1, <1>3 DEF IsParsed, HasNumerals
<1> QED
  BY <1>2, <1>3, <1>4, ContestIsFiled

\* The lists of a file of an election.
LEMMA FormHas ==
    ASSUME NEW e, NEW f, Ready(f, e)
    PROVE  /\ OwnIdsApart(e) /\ UnitsOf(f.GpUnit, e)
           /\ f.Contest = [i \in DOMAIN e.contests |-> CdfContest(e.contests[i])]
           /\ f.BallotStyle = [i \in DOMAIN e.ballotStyles |-> CdfBallotStyle(e.ballotStyles[i])]
           /\ f.Party = [i \in DOMAIN e.parties |-> CdfPartyOf(e.parties[i])]
           /\ Ids(f.Contest) = Ids(e.contests) /\ Ids(f.Party) = Ids(e.parties)
<1>1. IsParsed(e) /\ Expressible(e) /\ FormOf(f, e)
  BY DEF Ready
<1>2. /\ f.Contest = [i \in DOMAIN e.contests |-> CdfContest(e.contests[i])]
      /\ f.BallotStyle = [i \in DOMAIN e.ballotStyles |-> CdfBallotStyle(e.ballotStyles[i])]
      /\ f.Party = [i \in DOMAIN e.parties |-> CdfPartyOf(e.parties[i])]
      /\ UnitsOf(f.GpUnit, e)
  BY <1>1 DEF FormOf, convertVxfElectionToCdfBallotDefinition, Each, CdfPartyOf
<1>3. ASSUME NEW i \in DOMAIN e.contests PROVE f.Contest[i].id = e.contests[i].id
  BY ContestIs
<1>4. Ids(f.Contest) = Ids(e.contests)
  <2>1. DOMAIN f.Contest = DOMAIN e.contests
    BY <1>2
  <2> QED
    BY <1>3, <2>1 DEF Ids
<1>5. Ids(f.Party) = Ids(e.parties)
  <2>1. DOMAIN f.Party = DOMAIN e.parties /\ \A i \in DOMAIN e.parties : f.Party[i].id = e.parties[i].id
    BY <1>2 DEF CdfPartyOf
  <2> QED
    BY <2>1 DEF Ids
<1>6. OwnIdsApart(e)
  BY <1>1, OwnIdsAreApart
<1> QED
  BY <1>2, <1>4, <1>5, <1>6

\* A style names districts and precincts of the election.
LEMMA StyleRefers ==
    ASSUME NEW e, IsParsed(e), NEW s \in Range(e.ballotStyles)
    PROVE  /\ s.districts \subseteq Range(Ids(e.districts)) /\ s.precincts \subseteq Range(Ids(e.precincts))
           /\ s \in BallotStyles
<1>1. e.ballotStyles \in Seq(BallotStyles)
  BY ParsedHas
<1> QED
  BY <1>1 DEF IsParsed, ElectionSchema, Range

\* What is said of a unit by its id.
LEMMA UnitIs ==
    ASSUME NEW e, NEW f, Ready(f, e), NEW u \in Range(f.GpUnit)
    PROVE  /\ u.id \in Range(Ids(e.precincts)) => u.Type = "precinct"
           /\ u.id \notin Range(Ids(e.precincts)) => u.ComposingGpUnitIds # Undefined
           /\ u.id \notin Range(Ids(e.precincts)) => \A s \in Range(e.ballotStyles) :
                 u.ComposingGpUnitIds \cap s.precincts # {} <=>
                     \E t \in Range(e.ballotStyles) : u.id \in t.districts /\ t.precincts \cap s.precincts # {}
<1> DEFINE D == Range(Ids(e.districts))  R == Range(Ids(e.precincts))
           Meets(s) == \E t \in Range(e.ballotStyles) : u.id \in t.districts /\ t.precincts \cap s.precincts # {}
<1>1. IsParsed(e) /\ WhichUnit(u, e)
  BY FormHas DEF Ready, UnitsOf
<1>2. /\ \A x \in D : x \notin R
      /\ e.county.id \notin D \cup R /\ StateId(e.state) \notin D \cup R
  <2>1. OwnIdsApart(e)
    BY FormHas
  <2>2. Disjoint(R, Range(Ids(e.parties)) \cup D)
    BY <2>1 DEF OwnIdsApart
  <2>3. /\ e.county.id \notin D \cup R /\ StateId(e.state) \notin D \cup R
    BY <2>1 DEF OwnIdsApart, Disjoint
  <2> QED
    BY <2>2, <2>3 DEF Disjoint
<1>3. \A s \in Range(e.ballotStyles) : s.districts \subseteq D /\ s.precincts \subseteq R
  BY <1>1, StyleRefers
<1>4. /\ (\A x \in Range(e.districts) : x.id \in D) /\ \A x \in Range(e.precincts) : x.id \in R
  BY DEF Ids, Range
<1>5. \A units : units \subseteq D \cup R \cup {e.county.id} => units # Undefined
  <2>1. UnitIds(e) = D \cup R \cup {e.county.id}
    <3> DEFINE d == Ids(e.districts)  r == Ids(e.precincts)  c == <<e.county.id>>
    <3>1. d \in Seq(Id) /\ r \in Seq(Id) /\ c \in Seq(Id) /\ Range(c) = {e.county.id}
      BY <1>1, ParsedIds, OneIs
    <3> HIDE DEF d, r, c
    <3>2. d \o r \in Seq(Id) /\ Range(d \o r) = Range(d) \cup Range(r)
      BY <3>1, JoinedTwo
    <3> DEFINE b == d \o r
    <3> HIDE DEF b
    <3>3. Range(b \o c) = Range(b) \cup Range(c)
      <4>1. b \in Seq(Id)
        BY <3>2 DEF b
      <4>2. IsJoined(b \o c, b, c)
        BY <3>1, <4>1, JoinedAre
      <4> QED
        BY <4>2 DEF IsJoined
    <3> QED
      BY <3>1, <3>2, <3>3 DEF UnitIds, b, c, d, r
  <2> QED
    BY <1>1, <2>1 DEF IsParsed
<1> HIDE DEF D, R
<1>6. CASE u.id = StateId(e.state) /\ u.ComposingGpUnitIds = {e.county.id}
  BY <1>2, <1>3, <1>5, <1>6 DEF D, R
<1>7. CASE u.id = e.county.id /\ u.ComposingGpUnitIds = Range(Ids(e.districts))
  BY <1>2, <1>3, <1>5, <1>7 DEF D, R
<1>8. CASE \E d \in Range(e.districts) : u.id = d.id /\ u.ComposingGpUnitIds = PrecinctsIn(e, d)
  <2>1. PICK d \in Range(e.districts) : u.id = d.id /\ u.ComposingGpUnitIds = PrecinctsIn(e, d)
    BY <1>8
  <2>2. u.id \in D /\ u.id \notin R
    BY <1>2, <1>4, <2>1
  <2>3. \A x : x \in u.ComposingGpUnitIds <=> \E t \in Range(e.ballotStyles) : u.id \in t.districts /\ x \in t.precincts
    BY <2>1 DEF PrecinctsIn
  <2>4. u.ComposingGpUnitIds # Undefined
    <3>1. PrecinctsIn(e, d) \subseteq R
      BY <1>3 DEF PrecinctsIn
    <3> QED
      BY <1>5, <2>1, <3>1
  <2>5. ASSUME NEW s \in Range(e.ballotStyles) PROVE u.ComposingGpUnitIds \cap s.precincts # {} <=> Meets(s)
    BY <2>3
  <2> QED
    BY <2>2, <2>4, <2>5 DEF R
<1>9. CASE \E p \in Range(e.precincts) : u.id = p.id /\ u.Type = "precinct"
  BY <1>4, <1>9 DEF R
<1> QED
  BY <1>1, <1>6, <1>7, <1>8, <1>9 DEF WhichUnit

\* The units that contests name, and that ballot styles do.
LEMMA NamedUnitsAre ==
    ASSUME NEW e, NEW f, Ready(f, e)
    PROVE  /\ Districts(f) \in Seq(CdfUnits) /\ Precincts(f) \in Seq(CdfUnits)
           /\ Range(Districts(f)) = {u \in Range(f.GpUnit) : \E c \in Range(e.contests) : c.districtId = u.id}
           /\ Range(Precincts(f)) = {u \in Range(f.GpUnit) : \E s \in Range(e.ballotStyles) : u.id \in s.precincts}
<1> DEFINE us == f.GpUnit
           K == {i \in DOMAIN us : \E c \in Range(f.Contest) : c.ElectionDistrictId = us[i].id}
           L == {i \in DOMAIN us : \E s \in Range(f.BallotStyle) : us[i].id \in s.GpUnitIds}
<1>1. Districts(f) = Kept(us, K) /\ Precincts(f) = Kept(us, L)
  BY DEF Districts, Precincts, Those, Concat, Kept
<1>2. us \in Seq(CdfUnits)
  BY FormHas DEF UnitsOf
<1>3. \A id : (\E c \in Range(f.Contest) : c.ElectionDistrictId = id) <=> \E c \in Range(e.contests) : c.districtId = id
  <2>1. DOMAIN f.Contest = DOMAIN e.contests
    BY FormHas
  <2>2. ASSUME NEW i \in DOMAIN e.contests PROVE f.Contest[i].ElectionDistrictId = e.contests[i].districtId
    BY ContestIs
  <2> QED
    BY <2>1, <2>2 DEF Range
<1>4. \A id : (\E s \in Range(f.BallotStyle) : id \in s.GpUnitIds) <=> \E s \in Range(e.ballotStyles) : id \in s.precincts
  <2>1. DOMAIN f.BallotStyle = DOMAIN e.ballotStyles
    BY FormHas
  <2>2. ASSUME NEW i \in DOMAIN e.ballotStyles PROVE f.BallotStyle[i].GpUnitIds = e.ballotStyles[i].precincts
    <3>1. f.BallotStyle = [j \in DOMAIN e.ballotStyles |-> CdfBallotStyle(e.ballotStyles[j])]
      BY FormHas
    <3>2. f.BallotStyle[i] = CdfBallotStyle(e.ballotStyles[i])
      BY <3>1
    <3> QED
      BY <3>2 DEF CdfBallotStyle
  <2> QED
    BY <2>1, <2>2 DEF Range
<1>5. /\ Kept(us, K) \in Seq(CdfUnits) /\ Range(Kept(us, K)) = {us[i] : i \in K}
      /\ Kept(us, L) \in Seq(CdfUnits) /\ Range(Kept(us, L)) = {us[i] : i \in L}
  <2>1. K \in SUBSET (DOMAIN us) /\ L \in SUBSET (DOMAIN us)
    OBVIOUS
  <2> HIDE DEF K, L, us
  <2> QED
    BY <1>2, <2>1, KeptHas
<1>6. {us[i] : i \in K} = {u \in Range(us) : \E c \in Range(e.contests) : c.districtId = u.id}
  BY <1>3 DEF Range
<1>7. {us[i] : i \in L} = {u \in Range(us) : \E s \in Range(e.ballotStyles) : u.id \in s.precincts}
  BY <1>4 DEF Range
<1> QED
  BY <1>1, <1>5, <1>6, <1>7

\* The ids of a contest's options: those the conversion makes, from the id of
\* the contest, and those the election names.
IsMade(c, x) == \E w \in Id : x = OptionId(c, w)

OwnIds(c) ==
    /\ "option" \notin Range(c.id)
    /\ \A x \in Range(NamedOptions(c)) : "option" \notin Range(x)
    /\ IsInjective(NamedOptions(c))
    /\ c.type = "candidate" =>
          /\ HasNumerals(c) /\ IsInjective(Ids(c.candidates))
          /\ \A k \in Range(c.candidates) : ~IsWriteInId(k.id)

\* Of one contest, and of words, an id is made once.
LEMMA MadeOnce ==
    ASSUME NEW c \in ParsedContests, NEW d \in ParsedContests, NEW v \in Id, NEW w \in Id,
           "option" \notin Range(c.id), "option" \notin Range(d.id), OptionId(c, v) = OptionId(d, w)
    PROVE  c.id = d.id /\ v = w
<1>1. c.id \in Id /\ d.id \in Id
  BY DEF ParsedContests, Seats, Measures
<1>2. c.id \o <<"option">> \o v = d.id \o <<"option">> \o w
  BY DEF OptionId
<1> QED
  BY <1>1, <1>2, OptionIdSplits

\* No two choices of a contest have the same id,
LEMMA ChoiceIds ==
    ASSUME NEW c \in Seats(ParsedCandidates), OwnIds(c)
    PROVE  /\ IsInjective(Ids(CandidateOptions(c)))
           /\ \A x \in Range(Ids(CandidateOptions(c))) : IsMade(c, x)
<1> DEFINE m == Len(c.candidates)  n == WriteInsOf(c)  o == CandidateOptions(c)
           W(i) == <<"write", "in", Numeral[i - 1]>>
<1>0. c \in ParsedContests /\ c.type = "candidate" /\ HasNumerals(c)
  BY DEF ParsedContests, OwnIds, Seats
<1>1. /\ o \in Seq(SeatChoices) /\ n \in Nat /\ m \in Nat /\ Len(o) = m + n
      /\ \A j \in 1 .. m : c.candidates[j] \in ParsedCandidates /\ o[j] = ChoiceOf(c, c.candidates[j])
      /\ \A j \in 1 .. n : /\ Numeral[j - 1] \in STRING /\ j - 1 \in DOMAIN Numeral
                           /\ o[m + j] = WriteInOption(c, j)
  BY <1>0, ChoicesAre
<1>2. DOMAIN c.candidates = 1 .. m
  <2>1. c.candidates \in Seq(ParsedCandidates)
    BY DEF Seats
  <2> QED
    BY <2>1
<1> HIDE DEF m, n, o
<1>3. DOMAIN o = 1 .. m + n
  BY <1>1
<1>4. ASSUME NEW j \in 1 .. m
      PROVE  /\ c.candidates[j].id \in Id /\ o[j].id = OptionId(c, c.candidates[j].id)
             /\ ~IsWriteInId(c.candidates[j].id)
  <2>1. c.candidates[j] \in ParsedCandidates /\ o[j] = ChoiceOf(c, c.candidates[j]) /\ c.candidates[j] \in Range(c.candidates)
    BY <1>1, <1>2 DEF Range
  <2> QED
    BY <2>1, <1>0 DEF ParsedCandidates, ChoiceOf, OwnIds
<1>5. ASSUME NEW j \in 1 .. n
      PROVE  /\ W(j) \in Id /\ o[m + j].id = OptionId(c, W(j)) /\ IsWriteInId(W(j)) /\ j - 1 \in DOMAIN Numeral
             /\ W(j)[3] = Numeral[j - 1]
  <2>1. W(j) \in Id
    BY <1>1, WordsAreTyped, ThreeIs DEF Id
  <2>2. o[m + j].id = OptionId(c, W(j))
    <3>1. o[m + j] = WriteInOption(c, j)
      BY <1>1
    <3>2. WriteInOption(c, j).id = OptionId(c, W(j))
      BY DEF WriteInOption
    <3> QED
      BY <3>1, <3>2
  <2>3. IsWriteInId(W(j))
    BY DEF IsWriteInId
  <2> QED
    BY <1>1, <2>1, <2>2, <2>3
<1>6. \A v, w \in Id : OptionId(c, v) = OptionId(c, w) => v = w
  BY <1>0, MadeOnce DEF OwnIds
<1>7. ASSUME NEW i \in 1 .. m, NEW j \in 1 .. m, o[i].id = o[j].id PROVE i = j
  <2>1. c.candidates[i].id = c.candidates[j].id
    BY <1>4, <1>6, <1>7
  <2>2. IsInjective(Ids(c.candidates))
    BY <1>0 DEF OwnIds
  <2> QED
    BY <1>2, <2>1, <2>2 DEF IsInjective, Ids
<1>8. ASSUME NEW i \in 1 .. n, NEW j \in 1 .. n, o[m + i].id = o[m + j].id PROVE i = j
  <2>1. W(i) = W(j)
    <3> HIDE DEF W
    <3> QED
      BY <1>5, <1>6, <1>8
  <2>2. Numeral[i - 1] = Numeral[j - 1]
    BY <2>1
  <2>3. i - 1 = j - 1
    BY <1>5, <2>2, DefinitionsAssumption DEF DefinitionsAssumption, IsInjective
  <2> QED
    BY <2>3, <1>1
<1>9. ASSUME NEW i \in 1 .. m, NEW j \in 1 .. n PROVE o[i].id # o[m + j].id
  <2> HIDE DEF W
  <2> QED
    BY <1>4, <1>5, <1>6
<1>10. ASSUME NEW i \in 1 .. m + n, i > m PROVE \E k \in 1 .. n : i = m + k
  <2>1. i - m \in 1 .. n /\ i = m + (i - m)
    BY <1>1, <1>10
  <2> QED
    BY <2>1
<1>11. ASSUME NEW i \in 1 .. m + n, NEW j \in 1 .. m + n, o[i].id = o[j].id PROVE i = j
  <2>1. CASE i <= m /\ j <= m
    BY <2>1, <1>1, <1>7, <1>11
  <2>2. CASE i > m /\ j > m
    <3>1. PICK k \in 1 .. n : i = m + k
      BY <2>2, <1>10
    <3>2. PICK l \in 1 .. n : j = m + l
      BY <2>2, <1>10
    <3> QED
      BY <3>1, <3>2, <1>8, <1>11
  <2>3. CASE i <= m /\ j > m
    <3>1. PICK l \in 1 .. n : j = m + l
      BY <2>3, <1>10
    <3>2. i \in 1 .. m
      BY <2>3, <1>1
    <3> QED
      BY <3>1, <3>2, <1>9, <1>11
  <2>4. CASE i > m /\ j <= m
    <3>1. PICK k \in 1 .. n : i = m + k
      BY <2>4, <1>10
    <3>2. j \in 1 .. m
      BY <2>4, <1>1
    <3> QED
      BY <3>1, <3>2, <1>9, <1>11
  <2> QED
    BY <2>1, <2>2, <2>3, <2>4, <1>1
<1>12. IsInjective(Ids(o))
  BY <1>3, <1>11 DEF IsInjective, Ids
<1>13. ASSUME NEW i \in 1 .. m + n PROVE IsMade(c, o[i].id)
  <2>1. CASE i <= m
    <3>1. i \in 1 .. m
      BY <2>1, <1>1
    <3> QED
      BY <3>1, <1>4 DEF IsMade
  <2>2. CASE i > m
    <3>1. PICK k \in 1 .. n : i = m + k
      BY <2>2, <1>10
    <3> HIDE DEF W
    <3> QED
      BY <3>1, <1>5 DEF IsMade
  <2> QED
    BY <2>1, <2>2, <1>1
<1> QED
  BY <1>3, <1>12, <1>13 DEF Ids, Range, o

\* and neither have those of a measure.
LEMMA MeasureIds ==
    ASSUME NEW c \in Measures, OwnIds(c)
    PROVE  /\ IsInjective(Ids(CdfContest(c).ContestOption))
           /\ \A x \in Range(Ids(CdfContest(c).ContestOption)) : IsMade(c, x) \/ x \in Range(NamedOptions(c))
<1> DEFINE a == MeasureOption(c, c.yesOption, "yes", "Yes")
           b == MeasureOption(c, c.noOption, "no", "No")
           o == CdfContest(c).ContestOption
<1>1. o = <<a, b>>
  BY MeasureHas
<1>2. c \in ParsedContests /\ c.type = "yesno"
  BY DEF ParsedContests, Measures
<1>3. <<"yes">> \in Id /\ <<"no">> \in Id /\ <<"yes">> # <<"no">>
  <2>1. <<"yes">>[1] # <<"no">>[1]
    OBVIOUS
  <2> QED
    BY <2>1, WordsAreTyped, OneIs DEF Id
<1>4. /\ c.yesOption = Undefined => a.id = OptionId(c, <<"yes">>)
      /\ c.yesOption # Undefined => a.id = c.yesOption.id /\ a.id \in Range(NamedOptions(c))
      /\ c.noOption = Undefined => b.id = OptionId(c, <<"no">>)
      /\ c.noOption # Undefined => b.id = c.noOption.id /\ b.id \in Range(NamedOptions(c))
  BY <1>2, NamedAreListed DEF MeasureOption
<1> HIDE DEF a, b, o
<1>5. /\ IsMade(c, a.id) \/ a.id \in Range(NamedOptions(c))
      /\ IsMade(c, b.id) \/ b.id \in Range(NamedOptions(c))
  BY <1>3, <1>4 DEF IsMade
<1>6. a.id # b.id
  <2>1. CASE c.yesOption = Undefined /\ c.noOption = Undefined
    BY <2>1, <1>2, <1>3, <1>4, MadeOnce DEF OwnIds
  <2>2. CASE c.yesOption = Undefined /\ c.noOption # Undefined
    <3>1. "option" \in Range(a.id) /\ "option" \notin Range(b.id)
      BY <2>2, <1>2, <1>3, <1>4, OptionIdIs DEF OwnIds
    <3> QED
      BY <3>1
  <2>3. CASE c.yesOption # Undefined /\ c.noOption = Undefined
    <3>1. "option" \in Range(b.id) /\ "option" \notin Range(a.id)
      BY <2>3, <1>2, <1>3, <1>4, OptionIdIs DEF OwnIds
    <3> QED
      BY <3>1
  <2>4. CASE c.yesOption # Undefined /\ c.noOption # Undefined
    <3>1. NamedOptions(c) = <<a.id, b.id>>
      BY <2>4, <1>2, <1>4, NamedAreListed
    <3>2. IsInjective(<<a.id, b.id>>)
      BY <3>1 DEF OwnIds
    <3>3. DOMAIN <<a.id, b.id>> = {1, 2} /\ <<a.id, b.id>>[1] = a.id /\ <<a.id, b.id>>[2] = b.id
      OBVIOUS
    <3> QED
      BY <3>2, <3>3 DEF IsInjective
  <2> QED
    BY <2>1, <2>2, <2>3, <2>4
<1>7. DOMAIN o = {1, 2} /\ o[1] = a /\ o[2] = b
  BY <1>1
<1>8. DOMAIN Ids(o) = {1, 2} /\ Ids(o)[1] = a.id /\ Ids(o)[2] = b.id
  BY <1>7 DEF Ids
<1> QED
  BY <1>5, <1>6, <1>8 DEF IsInjective, Range, o

OptionIdLists(f) == [i \in DOMAIN f.Contest |-> Ids(f.Contest[i].ContestOption)]

LEMMA ContestOwnsIds ==
    ASSUME NEW e, NEW f, Ready(f, e), NEW i \in DOMAIN e.contests
    PROVE  OwnIds(e.contests[i]) /\ Range(NamedOptions(e.contests[i])) \subseteq Range(NamedIdLists(e)[i])
<1> DEFINE c == e.contests[i]
<1>1. IsParsed(e) /\ Expressible(e) /\ OwnIdsApart(e) /\ c \in Range(e.contests)
  BY FormHas DEF Ready, Range
<1>2. c \in ParsedContests /\ (c.type = "candidate" => HasNumerals(c))
  BY ContestIs
<1>3. NamedIdLists(e)[i] = NamedOptions(c)
  BY DEF NamedIdLists
<1>4. c.id \in Range(Ids(e.contests))
  BY DEF Ids, Range
<1>5. \A id \in Range(Ids(e.contests)) \cup UNION {Range(NamedIdLists(e)[j]) : j \in DOMAIN e.contests} :
          "option" \notin Range(id)
  BY <1>1 DEF OwnIdsApart
<1>6. "option" \notin Range(c.id) /\ \A x \in Range(NamedOptions(c)) : "option" \notin Range(x)
  BY <1>3, <1>4, <1>5
<1>7. IsInjective(NamedOptions(c))
  BY <1>1, <1>3 DEF OwnIdsApart
<1>8. ASSUME c.type = "candidate"
      PROVE  IsInjective(Ids(c.candidates)) /\ \A k \in Range(c.candidates) : ~IsWriteInId(k.id)
  <2>1. CandidateContestSchema(c)
    BY <1>1, <1>8 DEF IsParsed, ElectionSchema
  <2>2. \A k \in Range(c.candidates) : ~k.isWriteIn
    BY <1>1, <1>8 DEF Expressible
  <2> QED
    BY <2>1, <2>2 DEF CandidateContestSchema
<1> QED
  BY <1>2, <1>3, <1>6, <1>7, <1>8 DEF OwnIds

LEMMA OptionIdsAre ==
    ASSUME NEW e, NEW f, Ready(f, e), NEW i \in DOMAIN e.contests
    PROVE  /\ i \in DOMAIN f.Contest /\ OptionIdLists(f)[i] \in Seq(Id) /\ IsInjective(OptionIdLists(f)[i])
           /\ \A x \in Range(OptionIdLists(f)[i]) :
                 IsMade(e.contests[i], x) \/ x \in Range(NamedIdLists(e)[i])
<1> DEFINE c == e.contests[i]  o == f.Contest[i].ContestOption
<1>1. c \in ParsedContests /\ f.Contest[i] = CdfContest(c) /\ (c.type = "candidate" => HasNumerals(c))
  BY ContestIs
<1>2. OwnIds(c) /\ NamedIdLists(e)[i] = NamedOptions(c)
  BY ContestOwnsIds DEF NamedIdLists
<1>3. DOMAIN f.Contest = DOMAIN e.contests
  BY FormHas
<1>4. OptionIdLists(f)[i] = Ids(o)
  BY <1>3 DEF OptionIdLists
<1>5. CASE c \in Seats(ParsedCandidates)
  <2>1. c.type = "candidate"
    BY <1>5 DEF Seats
  <2>2. o = CandidateOptions(c)
    BY <1>1, <2>1 DEF CdfContest
  <2>3. o \in Seq(SeatChoices)
    BY <1>1, <1>5, <2>1, <2>2, ChoicesAre
  <2>4. Ids(o) \in Seq(Id)
    <3>1. \A x \in SeatChoices : x.id \in Id
      BY DEF SeatChoices
    <3> HIDE DEF o
    <3> QED
      BY <2>3, <3>1, IdsAreListed
  <2>5. IsInjective(Ids(o)) /\ \A x \in Range(Ids(o)) : IsMade(c, x)
    BY <1>2, <1>5, <2>2, ChoiceIds
  <2> QED
    BY <1>3, <1>4, <2>4, <2>5
<1>6. CASE c \in Measures
  <2>1. o = CdfContest(c).ContestOption
    BY <1>1
  <2>2. o \in Seq(MeasureChoices)
    BY <1>6, <2>1, MeasureHas
  <2>3. Ids(o) \in Seq(Id)
    <3>1. \A x \in MeasureChoices : x.id \in Id
      BY DEF MeasureChoices
    <3> HIDE DEF o
    <3> QED
      BY <2>2, <3>1, IdsAreListed
  <2>4. IsInjective(Ids(o)) /\ \A x \in Range(Ids(o)) : IsMade(c, x) \/ x \in Range(NamedOptions(c))
    BY <1>2, <1>6, <2>1, MeasureIds
  <2> QED
    BY <1>2, <1>3, <1>4, <2>3, <2>4
<1> QED
  BY <1>1, <1>5, <1>6 DEF ParsedContests

\* No two options have an id in common.
LEMMA OptionIdsApart ==
    ASSUME NEW e, NEW f, Ready(f, e), NEW i \in DOMAIN e.contests, NEW j \in DOMAIN e.contests, i # j
    PROVE  Range(OptionIdLists(f)[i]) \cap Range(OptionIdLists(f)[j]) = {}
<1>1. SUFFICES ASSUME NEW x \in Range(OptionIdLists(f)[i]), x \in Range(OptionIdLists(f)[j]) PROVE FALSE
  OBVIOUS
<1> DEFINE c == e.contests[i]  d == e.contests[j]
<1>2. IsMade(c, x) \/ x \in Range(NamedIdLists(e)[i])
  BY <1>1, OptionIdsAre
<1>3. IsMade(d, x) \/ x \in Range(NamedIdLists(e)[j])
  BY <1>1, OptionIdsAre
<1>4. c \in ParsedContests /\ d \in ParsedContests
  BY ContestIs
<1>5. OwnIds(c) /\ NamedIdLists(e)[i] = NamedOptions(c) /\ OwnIds(d) /\ NamedIdLists(e)[j] = NamedOptions(d)
  BY ContestOwnsIds DEF NamedIdLists
<1>6. (IsMade(c, x) => "option" \in Range(x)) /\ (IsMade(d, x) => "option" \in Range(x))
  BY <1>4, OptionIdIs DEF IsMade
<1>7. OwnIdsApart(e)
  BY FormHas
<1>8. CASE IsMade(c, x) /\ IsMade(d, x)
  <2>1. PICK v \in Id : x = OptionId(c, v)
    BY <1>8 DEF IsMade
  <2>2. PICK w \in Id : x = OptionId(d, w)
    BY <1>8 DEF IsMade
  <2>3. c.id = d.id
    <3>1. "option" \notin Range(c.id) /\ "option" \notin Range(d.id)
      BY <1>5 DEF OwnIds
    <3>2. OptionId(c, v) = OptionId(d, w)
      BY <2>1, <2>2
    <3> HIDE DEF c, d
    <3> QED
      BY <1>4, <3>1, <3>2, MadeOnce
  <2>4. IsInjective(Ids(e.contests))
    BY <1>7 DEF OwnIdsApart
  <2> QED
    BY <2>3, <2>4 DEF IsInjective, Ids
<1>9. CASE x \in Range(NamedIdLists(e)[i]) /\ x \in Range(NamedIdLists(e)[j])
  BY <1>7, <1>9 DEF OwnIdsApart
<1>10. CASE "option" \in Range(x) /\ (x \in Range(NamedIdLists(e)[i]) \/ x \in Range(NamedIdLists(e)[j]))
  BY <1>5, <1>10 DEF OwnIds
<1> QED
  BY <1>2, <1>3, <1>6, <1>8, <1>9, <1>10

\* No two candidates have the same id.
LEMMA CandidateIdsAre ==
    ASSUME NEW e, NEW f, Ready(f, e)
    PROVE  /\ f.Candidate \in Seq(CdfCandidates) /\ Ids(f.Candidate) \in Seq(Id) /\ IsInjective(Ids(f.Candidate))
           /\ Range(Ids(f.Candidate)) = UNION {Range(CandidateIdLists(e)[i]) : i \in DOMAIN e.contests}
           /\ \A i \in DOMAIN e.contests : \A k \in Range(CandidatesOf(e.contests[i])) :
                 ListedCandidate(k) \in Range(f.Candidate)
           /\ \A x \in Range(f.Candidate) : HasEnglish(x.BallotName)
<1> DEFINE n == Len(e.contests)  g == CandidateIdLists(e)  listed == f.Candidate
<1>1. IsParsed(e) /\ FormOf(f, e) /\ OwnIdsApart(e)
  BY FormHas DEF Ready
<1>2. n \in Nat /\ DOMAIN e.contests = 1 .. n
  <2>1. e.contests \in Seq(ParsedContests)
    BY <1>1, ParsedHas
  <2> QED
    BY <2>1
<1>3. listed = convertVxfElectionToCdfBallotDefinition(e).Candidate
  BY <1>1 DEF FormOf
<1> HIDE DEF n, listed
<1>4. /\ listed \in Seq(CdfCandidates) /\ Ids(listed) = FlattenSeq(g)
      /\ \A i \in DOMAIN e.contests : \A k \in Range(CandidatesOf(e.contests[i])) :
            ListedCandidate(k) \in Range(listed)
      /\ \A x \in Range(listed) : HasEnglish(x.BallotName)
  BY <1>1, <1>3, CandidatesAreFiled
<1>5. g \in [1 .. n -> Seq(Id)]
  <2>1. \A i \in 1 .. n : Ids(CandidatesOf(e.contests[i])) \in Seq(Id)
    <3>1. \A i \in 1 .. n : e.contests[i] \in ParsedContests
      BY <1>2, ContestIs
    <3> QED
      BY <3>1, CandidatesAreListed
  <2> QED
    BY <1>2, <2>1 DEF CandidateIdLists
<1>6. (\A i \in 1 .. n : IsInjective(g[i])) /\ \A i, j \in 1 .. n : i # j => Range(g[i]) \cap Range(g[j]) = {}
  BY <1>1, <1>2 DEF OwnIdsApart
<1> HIDE DEF g
<1>7. FlattenSeq(g) \in Seq(Id) /\ Range(FlattenSeq(g)) = UNION {Range(g[i]) : i \in 1 .. n}
  BY <1>2, <1>5, FlattenedHas
<1>8. IsInjective(FlattenSeq(g))
  BY <1>2, <1>5, <1>6, FlattenedInjective
<1> QED
  BY <1>2, <1>4, <1>7, <1>8 DEF g, listed

\* No two places of the file define the same id.
LEMMA DefinedIdsApart ==
    ASSUME NEW e, NEW f, Ready(f, e)
    PROVE  IsInjective(DefinedIds(f))
<1> DEFINE k == Ids(f.Candidate)  c == Ids(f.Contest)  p == Ids(f.Party)  u == Ids(f.GpUnit)
           l == OptionIdLists(f)  o == FlattenSeq(l)  n == Len(e.contests)
           P == Range(Ids(e.parties))  D == Range(Ids(e.districts))  R == Range(Ids(e.precincts))
           C == Range(Ids(e.contests))
           K == UNION {Range(CandidateIdLists(e)[i]) : i \in DOMAIN e.contests}
           M == UNION {Range(NamedIdLists(e)[i]) : i \in DOMAIN e.contests}
           S == {e.county.id, StateId(e.state)}
<1>1. IsParsed(e) /\ FormOf(f, e) /\ OwnIdsApart(e) /\ UnitsOf(f.GpUnit, e)
  BY FormHas DEF Ready
<1>2. n \in Nat /\ DOMAIN e.contests = 1 .. n /\ DOMAIN f.Contest = 1 .. n
  <2>1. e.contests \in Seq(ParsedContests)
    BY <1>1, ParsedHas
  <2>2. DOMAIN f.Contest = DOMAIN e.contests
    BY FormHas
  <2> QED
    BY <2>1, <2>2
<1> HIDE DEF n
<1>3. c = Ids(e.contests) /\ p = Ids(e.parties) /\ c \in Seq(Id) /\ p \in Seq(Id)
  <2>1. c = Ids(e.contests) /\ p = Ids(e.parties)
    BY FormHas
  <2> QED
    BY <1>1, <2>1, ParsedIds
<1>4. k \in Seq(Id) /\ IsInjective(k) /\ Range(k) = K
  BY CandidateIdsAre
<1>5. u \in Seq(Id) /\ IsInjective(u) /\ Range(u) \subseteq S \cup D \cup R
  <2>1. f.GpUnit \in Seq(CdfUnits) /\ IsInjective(u)
    BY <1>1 DEF UnitsOf
  <2>2. \A x \in CdfUnits : x.id \in Id
    BY DEF CdfUnits
  <2>3. u \in Seq(Id) /\ Range(u) = {x.id : x \in Range(f.GpUnit)}
    BY <2>1, <2>2, IdsAreListed
  <2>4. (\A x \in Range(e.districts) : x.id \in D) /\ \A x \in Range(e.precincts) : x.id \in R
    BY DEF Ids, Range
  <2>5. ASSUME NEW x \in Range(f.GpUnit) PROVE x.id \in S \cup D \cup R
    <3>1. WhichUnit(x, e)
      BY <1>1 DEF UnitsOf
    <3> HIDE DEF D, R
    <3> QED
      BY <2>4, <3>1 DEF WhichUnit
  <2> HIDE DEF S, D, R, u
  <2> QED
    BY <2>1, <2>3, <2>5 DEF u
<1>6. l \in [1 .. n -> Seq(Id)] /\ \A i \in 1 .. n : IsInjective(l[i])
  <2>1. \A i \in 1 .. n : l[i] \in Seq(Id) /\ IsInjective(l[i])
    BY <1>2, OptionIdsAre
  <2>2. l = [i \in 1 .. n |-> l[i]]
    BY <1>2 DEF OptionIdLists
  <2> HIDE DEF l
  <2> QED
    BY <2>1, <2>2
<1>7. \A i, j \in 1 .. n : i # j => Range(l[i]) \cap Range(l[j]) = {}
  BY <1>2, OptionIdsApart
<1>8. ASSUME NEW i \in 1 .. n, NEW x \in Range(l[i]) PROVE "option" \in Range(x) \/ x \in M
  <2>1. IsMade(e.contests[i], x) \/ x \in Range(NamedIdLists(e)[i])
    BY <1>2, <1>8, OptionIdsAre
  <2>2. e.contests[i] \in ParsedContests
    BY <1>2, ContestIs
  <2>3. IsMade(e.contests[i], x) => "option" \in Range(x)
    BY <2>2, OptionIdIs DEF IsMade
  <2> QED
    BY <1>2, <2>1, <2>3
<1> HIDE DEF l, k, c, p, u
<1>9. o \in Seq(Id) /\ Range(o) = UNION {Range(l[i]) : i \in 1 .. n}
  BY <1>2, <1>6, FlattenedHas
<1>10. IsInjective(o)
  BY <1>2, <1>6, <1>7, FlattenedInjective
<1>11. DefinedIds(f) = k \o c \o p \o u \o o
  BY DEF DefinedIds, Concat, OptionIdLists, k, c, p, u, l
<1> HIDE DEF o
<1>12. \A x \in Range(o) : "option" \in Range(x) \/ x \in M
  BY <1>8, <1>9
<1>13. /\ IsInjective(Ids(e.parties)) /\ IsInjective(Ids(e.contests))
       /\ Disjoint(C, P \cup D \cup R) /\ Disjoint(K, P \cup D \cup R \cup C)
       /\ Disjoint(M, P \cup D \cup R \cup C \cup K) /\ Disjoint(D, P) /\ Disjoint(R, P \cup D)
       /\ Disjoint(S, P \cup D \cup R \cup C \cup K \cup M)
       /\ \A id \in P \cup D \cup R \cup C \cup K \cup M \cup S : "option" \notin Range(id)
  BY <1>1 DEF OwnIdsApart
<1>14. /\ Range(c) = C /\ Range(p) = P
  BY <1>3
<1> HIDE DEF P, D, R, C, K, M, S
<1>15. /\ Disjoint(K, C) /\ Disjoint(K \cup C, P) /\ Disjoint(K \cup C \cup P, Range(u))
       /\ Disjoint(K \cup C \cup P \cup Range(u), Range(o))
  <2>1. Disjoint(K, C) /\ Disjoint(K \cup C, P)
    BY <1>13 DEF Disjoint
  <2>2. Disjoint(K \cup C \cup P, Range(u))
    BY <1>5, <1>13 DEF Disjoint
  <2>3. Disjoint(K \cup C \cup P \cup Range(u), Range(o))
    <3>1. \A x \in K \cup C \cup P \cup Range(u) : "option" \notin Range(x) /\ x \notin M
      BY <1>5, <1>13 DEF Disjoint
    <3> QED
      BY <1>12, <3>1 DEF Disjoint
  <2> QED
    BY <2>1, <2>2, <2>3
<1>16. FiveAre(k, c, p, u, o)
  BY <1>3, <1>4, <1>5, <1>10, <1>13, <1>14, <1>15 DEF FiveAre
<1>17. IsInjective(k \o c \o p \o u \o o) <=> FiveAre(k, c, p, u, o)
  BY <1>3, <1>4, <1>5, <1>9, FiveApart
<1> QED
  BY <1>11, <1>16, <1>17

LEMMA FirstIsThere ==
    ASSUME NEW X, NEW list \in Seq(X), list # <<>>
    PROVE  list[1] \in Range(list) /\ 1 \in DOMAIN list
<1>1. 1 \in DOMAIN list
  OBVIOUS
<1> QED
  BY <1>1 DEF Range

\* The schema of the file.
LEMMA SchemaHolds ==
    ASSUME NEW e, NEW f, Ready(f, e)
    PROVE  BallotDefinitionSchema(f)
<1>1. IsParsed(e) /\ Expressible(e) /\ UnitsOf(f.GpUnit, e)
  BY FormHas DEF Ready
<1>2. f.GpUnit # <<>>
  <2>1. PICK u \in Range(f.GpUnit) : u.Type = "state"
    BY <1>1 DEF UnitsOf
  <2> QED
    BY <2>1 DEF Range
<1>3. f.Contest # <<>>
  <2>1. e.contests # <<>> /\ e.contests \in Seq(ParsedContests)
    BY <1>1, ParsedHas DEF Expressible
  <2>2. DOMAIN f.Contest = DOMAIN e.contests
    BY FormHas
  <2>3. 1 \in DOMAIN e.contests
    BY <2>1, FirstIsThere
  <2> QED
    BY <2>2, <2>3
<1>4. f.BallotStyle # <<>>
  <2>1. e.ballotStyles # <<>> /\ e.ballotStyles \in Seq(BallotStyles)
    BY <1>1, ParsedHas DEF IsParsed, ElectionSchema
  <2>2. DOMAIN f.BallotStyle = DOMAIN e.ballotStyles
    BY FormHas
  <2>3. 1 \in DOMAIN e.ballotStyles
    BY <2>1, FirstIsThere
  <2> QED
    BY <2>2, <2>3
<1>5. ASSUME NEW x \in Range(f.Contest)
      PROVE  Len(x.ContestOption) >= IF x.type = "CandidateContest" THEN 1 ELSE 2
  <2>1. DOMAIN f.Contest = DOMAIN e.contests
    BY FormHas
  <2>2. PICK i \in DOMAIN e.contests : x = f.Contest[i]
    BY <2>1 DEF Range
  <2> DEFINE c == e.contests[i]
  <2>3. c \in ParsedContests /\ x = CdfContest(c) /\ c \in Range(e.contests)
    BY <2>2, ContestIs DEF Range
  <2>4. c.type = "candidate" => HasNumerals(c)
    BY ContestIs
  <2> HIDE DEF c
  <2>5. CASE c \in Seats(ParsedCandidates)
    <3>1. c.type = "candidate" /\ x.ContestOption = CandidateOptions(c) /\ x.type = "CandidateContest"
      BY <2>3, <2>5 DEF Seats, CdfContest
    <3>2. /\ Len(CandidateOptions(c)) = Len(c.candidates) + WriteInsOf(c)
          /\ WriteInsOf(c) \in Nat /\ Len(c.candidates) \in Nat
      BY <2>4, <2>5, <3>1, ChoicesAre
    <3>3. c.candidates # <<>> \/ c.allowWriteIns
      BY <1>1, <2>3, <3>1 DEF Expressible
    <3>4. c.seats > 0 /\ c.seats \in Nat
      BY <1>1, <2>3, <2>5, <3>1 DEF IsParsed, ElectionSchema, CandidateContestSchema, Seats
    <3>5. c.candidates # <<>> => Len(c.candidates) > 0
      <4>1. c.candidates \in Seq(ParsedCandidates)
        BY <2>5 DEF Seats
      <4> QED
        BY <4>1
    <3>6. c.allowWriteIns => WriteInsOf(c) > 0
      BY <3>4 DEF WriteInsOf
    <3>7. Len(x.ContestOption) >= 1
      BY <3>1, <3>2, <3>3, <3>5, <3>6
    <3> QED
      BY <3>1, <3>7
  <2>6. CASE c \in Measures
    <3>1. x.ContestOption = <<MeasureOption(c, c.yesOption, "yes", "Yes"), MeasureOption(c, c.noOption, "no", "No")>>
      BY <2>3, <2>6, MeasureHas
    <3>2. x.type # "CandidateContest"
      BY <2>3, <2>6 DEF Measures, CdfContest
    <3> QED
      BY <3>1, <3>2
  <2> QED
    BY <2>3, <2>5, <2>6 DEF ParsedContests
<1>6. ASSUME NEW x \in Range(f.BallotStyle) PROVE x.GpUnitIds # {} /\ x.ExternalIdentifier # <<>>
  <2>1. f.BallotStyle = [j \in DOMAIN e.ballotStyles |-> CdfBallotStyle(e.ballotStyles[j])]
    BY FormHas
  <2>2. PICK i \in DOMAIN e.ballotStyles : x = CdfBallotStyle(e.ballotStyles[i])
    BY <2>1 DEF Range
  <2>3. e.ballotStyles[i].precincts # {}
    BY <1>1 DEF Expressible, Range
  <2>4. x.GpUnitIds = e.ballotStyles[i].precincts /\ x.ExternalIdentifier = <<e.ballotStyles[i].id>>
    BY <2>2 DEF CdfBallotStyle
  <2>5. <<e.ballotStyles[i].id>> # <<>>
    OBVIOUS
  <2> QED
    BY <2>3, <2>4, <2>5
<1> QED
  BY <1>2, <1>3, <1>4, <1>5, <1>6 DEF BallotDefinitionSchema

\* The candidate that an option names.
LEMMA CandidateIsFound ==
    ASSUME NEW e, NEW f, Ready(f, e), NEW i \in DOMAIN e.contests,
           NEW k \in Range(CandidatesOf(e.contests[i])), NEW o, o.CandidateIds[1] = k.id
    PROVE  /\ CandidateOf(f, o) # <<>> /\ CandidateOf(f, o)[1] = ListedCandidate(k)
           /\ HasEnglish(CandidateOf(f, o)[1].BallotName)
<1> DEFINE list == f.Candidate
           K == {j \in DOMAIN list : list[j].id = k.id}
<1>1. /\ list \in Seq(CdfCandidates) /\ IsInjective(Ids(list)) /\ ListedCandidate(k) \in Range(list)
      /\ \A x \in Range(list) : HasEnglish(x.BallotName)
  BY CandidateIdsAre
<1>2. CandidateOf(f, o) = Kept(list, K)
  BY DEF CandidateOf, Those, Concat, Kept
<1>3. PICK j \in DOMAIN list : list[j] = ListedCandidate(k)
  BY <1>1 DEF Range
<1>4. j \in K
  BY <1>3 DEF ListedCandidate
<1>5. K \in SUBSET (DOMAIN list)
  OBVIOUS
<1> HIDE DEF K, list
<1>6. Kept(list, K) \in Seq(CdfCandidates) /\ Range(Kept(list, K)) = {list[l] : l \in K} /\ Kept(list, K) # <<>>
  BY <1>1, <1>4, <1>5, KeptHas
<1>7. Kept(list, K)[1] \in Range(Kept(list, K))
  BY <1>6, FirstIsThere
<1>8. PICK l \in K : Kept(list, K)[1] = list[l]
  BY <1>6, <1>7
<1>9. list[l].id = list[j].id /\ l \in DOMAIN list
  BY <1>3, <1>4, <1>8 DEF K
<1>10. l = j
  BY <1>1, <1>9 DEF IsInjective, Ids
<1>11. Kept(list, K)[1] = ListedCandidate(k)
  BY <1>3, <1>8, <1>10
<1> QED
  BY <1>1, <1>2, <1>6, <1>11

\* Nothing the conversion looks for is missing.
LEMMA UnitTypeIsThere ==
    ASSUME NEW e, NEW f, Ready(f, e), NEW type \in {"state", "county"}
    PROVE  OfUnitType(f, type) # <<>> /\ HasEnglish(OfUnitType(f, type)[1].Name)
<1> DEFINE us == f.GpUnit  K == {i \in DOMAIN us : us[i].Type = type}
<1>1. /\ us \in Seq(CdfUnits) /\ (\A u \in Range(us) : HasEnglish(u.Name))
      /\ \E u \in Range(us) : u.Type = type
  BY FormHas DEF UnitsOf
<1>2. OfUnitType(f, type) = Kept(us, K)
  BY DEF OfUnitType, Those, Concat, Kept
<1>3. K # {} /\ K \in SUBSET (DOMAIN us)
  BY <1>1 DEF Range
<1> HIDE DEF K, us
<1>4. Kept(us, K) \in Seq(CdfUnits) /\ Range(Kept(us, K)) = {us[i] : i \in K} /\ Kept(us, K) # <<>>
  BY <1>1, <1>3, KeptHas
<1>5. Kept(us, K)[1] \in Range(Kept(us, K))
  BY <1>4, FirstIsThere
<1>6. Kept(us, K)[1] \in Range(us)
  BY <1>3, <1>4, <1>5 DEF Range
<1> QED
  BY <1>1, <1>2, <1>4, <1>6

\* What it looks for in a contest,
LEMMA ContestConverts ==
    ASSUME NEW e, NEW f, Ready(f, e), NEW x \in Range(f.Contest)
    PROVE  IF x.type = "CandidateContest"
           THEN /\ x.PrimaryPartyIds # Undefined => Len(x.PrimaryPartyIds) = 1
                /\ \A o \in Range(x.ContestOption) : ~o.IsWriteIn =>
                      /\ o.CandidateIds # Undefined
                      /\ CandidateOf(f, o) # <<>> /\ HasEnglish(CandidateOf(f, o)[1].BallotName)
           ELSE \A i \in 1 .. 2 : HasEnglish(x.ContestOption[i].Selection)
<1>1. DOMAIN f.Contest = DOMAIN e.contests
  BY FormHas
<1>2. PICK i \in DOMAIN e.contests : x = f.Contest[i]
  BY <1>1 DEF Range
<1> DEFINE c == e.contests[i]
<1>3. c \in ParsedContests /\ x = CdfContest(c) /\ (c.type = "candidate" => HasNumerals(c))
  BY <1>2, ContestIs
<1>4. CASE c \in Seats(ParsedCandidates)
  <2>1. /\ c.type = "candidate" /\ x.ContestOption = CandidateOptions(c) /\ x.type = "CandidateContest"
        /\ x.PrimaryPartyIds = IF c.partyId = Undefined THEN Undefined ELSE <<c.partyId>>
    BY <1>3, <1>4 DEF Seats, CdfContest
  <2>2. x.PrimaryPartyIds # Undefined => Len(x.PrimaryPartyIds) = 1
    <3>1. Len(<<c.partyId>>) = 1
      OBVIOUS
    <3> QED
      BY <2>1, <3>1
  <2> DEFINE os == CandidateOptions(c)  m == Len(c.candidates)  n == WriteInsOf(c)
  <2>3. /\ os \in Seq(SeatChoices) /\ n \in Nat /\ m \in Nat /\ Len(os) = m + n
        /\ \A j \in 1 .. m : c.candidates[j] \in ParsedCandidates /\ os[j] = ChoiceOf(c, c.candidates[j])
        /\ \A j \in 1 .. n : os[m + j] = WriteInOption(c, j)
    BY <1>3, <1>4, <2>1, ChoicesAre
  <2>4. c.candidates \in Seq(ParsedCandidates)
    BY <1>4 DEF Seats
  <2>5. CandidatesOf(c) = c.candidates
    BY <2>1 DEF CandidatesOf
  <2>6. DOMAIN c.candidates = 1 .. m
    BY <2>4
  <2> HIDE DEF os, m, n
  <2>7. DOMAIN os = 1 .. m + n
    BY <2>3
  <2>8. ASSUME NEW j \in 1 .. m + n, ~os[j].IsWriteIn
        PROVE  /\ os[j].CandidateIds # Undefined
               /\ CandidateOf(f, os[j]) # <<>> /\ HasEnglish(CandidateOf(f, os[j])[1].BallotName)
    <3>1. j \in 1 .. m
      <4>1. SUFFICES ASSUME j > m PROVE FALSE
        BY <2>3
      <4>2. j - m \in 1 .. n /\ j = m + (j - m)
        BY <2>3, <4>1
      <4>3. os[j] = WriteInOption(c, j - m)
        BY <2>3, <4>2
      <4> QED
        BY <2>8, <4>3 DEF WriteInOption
    <3> DEFINE k == c.candidates[j]
    <3>2. os[j] = ChoiceOf(c, k) /\ k \in ParsedCandidates /\ k \in Range(c.candidates)
      BY <2>3, <2>6, <3>1 DEF Range
    <3>3. os[j].CandidateIds = <<k.id>>
      BY <3>2 DEF ChoiceOf
    <3>4. <<k.id>> \in Seq(Id) /\ <<k.id>>[1] = k.id
      <4>1. k.id \in Id
        BY <3>2 DEF ParsedCandidates
      <4> HIDE DEF k
      <4> QED
        BY <4>1, OneIs
    <3>5. <<k.id>> # Undefined
      BY <3>4, DefinitionsAssumption DEF DefinitionsAssumption
    <3>6. k \in Range(CandidatesOf(e.contests[i])) /\ os[j].CandidateIds[1] = k.id
      BY <2>5, <3>2, <3>3, <3>4
    <3> HIDE DEF k
    <3> QED
      BY <3>3, <3>5, <3>6, CandidateIsFound
  <2>9. \A o \in Range(os) : ~o.IsWriteIn =>
            /\ o.CandidateIds # Undefined
            /\ CandidateOf(f, o) # <<>> /\ HasEnglish(CandidateOf(f, o)[1].BallotName)
    BY <2>7, <2>8 DEF Range
  <2> QED
    BY <2>1, <2>2, <2>9 DEF os
<1>5. CASE c \in Measures
  <2> DEFINE a == MeasureOption(c, c.yesOption, "yes", "Yes")  b == MeasureOption(c, c.noOption, "no", "No")
  <2>1. x.ContestOption = <<a, b>>
    BY <1>3, <1>5, MeasureHas
  <2>2. x.type # "CandidateContest"
    BY <1>3, <1>5 DEF Measures, CdfContest
  <2>3. HasEnglish(a.Selection) /\ HasEnglish(b.Selection)
    BY TextIsEnglish DEF MeasureOption
  <2> HIDE DEF a, b
  <2>4. x.ContestOption[1] = a /\ x.ContestOption[2] = b
    BY <2>1
  <2>5. \A j \in 1 .. 2 : j = 1 \/ j = 2
    OBVIOUS
  <2> QED
    BY <2>2, <2>3, <2>4, <2>5
<1> QED
  BY <1>3, <1>4, <1>5 DEF ParsedContests

\* in a ballot style,
LEMMA StyleConverts ==
    ASSUME NEW e, NEW f, Ready(f, e), NEW x \in Range(f.BallotStyle)
    PROVE  /\ x.GpUnitIds \subseteq Range(Ids(Precincts(f)))
           /\ \A d \in Range(Districts(f)) : d.ComposingGpUnitIds # Undefined
           /\ x.PartyIds # Undefined => Len(x.PartyIds) <= 1
           /\ Len(x.ExternalIdentifier) = 1
<1>1. IsParsed(e) /\ Expressible(e) /\ UnitsOf(f.GpUnit, e)
  BY FormHas DEF Ready
<1>2. f.BallotStyle = [j \in DOMAIN e.ballotStyles |-> CdfBallotStyle(e.ballotStyles[j])]
  BY FormHas
<1>3. PICK i \in DOMAIN e.ballotStyles : x = CdfBallotStyle(e.ballotStyles[i])
  BY <1>2 DEF Range
<1> DEFINE s == e.ballotStyles[i]
<1>4. /\ x.GpUnitIds = s.precincts /\ x.ExternalIdentifier = <<s.id>>
      /\ x.PartyIds = IF s.partyId = Undefined THEN Undefined ELSE <<s.partyId>>
  BY <1>3 DEF CdfBallotStyle
<1>5. s \in Range(e.ballotStyles)
  BY DEF Range
<1>6. Len(<<s.id>>) = 1 /\ Len(<<s.partyId>>) = 1
  OBVIOUS
<1>7. /\ Range(Precincts(f)) = {u \in Range(f.GpUnit) : \E t \in Range(e.ballotStyles) : u.id \in t.precincts}
      /\ Range(Districts(f)) = {u \in Range(f.GpUnit) : \E c \in Range(e.contests) : c.districtId = u.id}
  BY NamedUnitsAre
<1> HIDE DEF s
<1>8. ASSUME NEW id \in s.precincts PROVE id \in Range(Ids(Precincts(f)))
  <2>1. id \in Range(Ids(e.precincts))
    BY <1>1, <1>5, StyleRefers
  <2>2. PICK u \in Range(f.GpUnit) : u.id = id
    BY <1>1, <2>1 DEF UnitsOf, UnitIdsOf
  <2>3. u \in Range(Precincts(f))
    BY <1>5, <1>7, <2>2
  <2> QED
    BY <2>2, <2>3 DEF Ids, Range
<1>9. ASSUME NEW d \in Range(Districts(f)) PROVE d.ComposingGpUnitIds # Undefined
  <2>1. d \in Range(f.GpUnit) /\ d.id \notin Range(Ids(e.precincts))
    BY <1>1, <1>7 DEF Expressible
  <2> QED
    BY <2>1, UnitIs
<1> QED
  BY <1>4, <1>6, <1>8, <1>9

\* and in the file.
LEMMA FileConverts ==
    ASSUME NEW e, NEW f, Ready(f, e)
    PROVE  Convertible(f)
<1>1. IsParsed(e) /\ UnitsOf(f.GpUnit, e)
  BY FormHas DEF Ready
<1>2. /\ Range(Precincts(f)) = {u \in Range(f.GpUnit) : \E t \in Range(e.ballotStyles) : u.id \in t.precincts}
      /\ Range(Districts(f)) = {u \in Range(f.GpUnit) : \E c \in Range(e.contests) : c.districtId = u.id}
  BY NamedUnitsAre
<1>3. \A type \in {"state", "county"} :
          OfUnitType(f, type) # <<>> /\ HasEnglish(OfUnitType(f, type)[1].Name)
  BY UnitTypeIsThere
<1>4. ASSUME NEW p \in Range(Precincts(f)) PROVE p.Type = "precinct"
  <2>1. PICK t \in Range(e.ballotStyles) : p.id \in t.precincts
    BY <1>2
  <2>2. p.id \in Range(Ids(e.precincts)) /\ p \in Range(f.GpUnit)
    BY <1>1, <1>2, <2>1, StyleRefers
  <2> QED
    BY <2>2, UnitIs
<1>5. \A u \in Range(Districts(f)) \cup Range(Precincts(f)) : HasEnglish(u.Name)
  BY <1>1, <1>2 DEF UnitsOf
<1>6. ASSUME NEW p \in Range(f.Party) PROVE HasEnglish(p.Name) /\ HasEnglish(p.vxBallotLabel)
  <2>1. f.Party = [i \in DOMAIN e.parties |-> CdfPartyOf(e.parties[i])]
    BY FormHas
  <2>2. PICK i \in DOMAIN e.parties : p = CdfPartyOf(e.parties[i])
    BY <2>1 DEF Range
  <2>3. p.Name = Text(e.parties[i].fullName) /\ p.vxBallotLabel = Text(e.parties[i].name)
    BY <2>2 DEF CdfPartyOf
  <2> QED
    BY <2>3, TextIsEnglish
<1>7. ASSUME NEW x \in Range(f.Contest)
      PROVE  IF x.type = "CandidateContest"
             THEN /\ x.PrimaryPartyIds # Undefined => Len(x.PrimaryPartyIds) = 1
                  /\ \A o \in Range(x.ContestOption) : ~o.IsWriteIn =>
                        /\ o.CandidateIds # Undefined
                        /\ CandidateOf(f, o) # <<>> /\ HasEnglish(CandidateOf(f, o)[1].BallotName)
             ELSE \A i \in 1 .. 2 : HasEnglish(x.ContestOption[i].Selection)
  BY ContestConverts
<1>8. ASSUME NEW x \in Range(f.BallotStyle)
      PROVE  /\ x.GpUnitIds \subseteq Range(Ids(Precincts(f)))
             /\ \A d \in Range(Districts(f)) : d.ComposingGpUnitIds # Undefined
             /\ x.PartyIds # Undefined => Len(x.PartyIds) <= 1
             /\ Len(x.ExternalIdentifier) = 1
  BY StyleConverts
<1> QED
  BY <1>3, <1>4, <1>5, <1>6, <1>7, <1>8, Zenon DEF Convertible

----------------------------------------------------------------------------
(* What is read is what voters saw.                                        *)

LEMMA TwoMore ==
    ASSUME NEW X, NEW u \in Seq(X), NEW x \in X, NEW y \in X
    PROVE  u \o <<x>> \o <<y>> = u \o <<x, y>>
<1> DEFINE a == <<x>>  b == <<y>>  ab == <<x, y>>  l == u \o a \o b  r == u \o ab
<1>1. /\ a \in Seq(X) /\ Len(a) = 1 /\ a[1] = x /\ b \in Seq(X) /\ Len(b) = 1 /\ b[1] = y
  BY OneIs
<1>2. ab \in Seq(X) /\ Len(ab) = 2 /\ ab[1] = x /\ ab[2] = y
  OBVIOUS
<1> HIDE DEF a, b, ab
<1> DEFINE m == u \o a
<1>3. m \in Seq(X) /\ IsJoined(m, u, a)
  BY <1>1, JoinedAre
<1>4. l = m \o b
  OBVIOUS
<1> HIDE DEF m, l, r
<1>5. l \in Seq(X) /\ IsJoined(l, m, b)
  <2>1. m \o b \in Seq(X) /\ IsJoined(m \o b, m, b)
    BY <1>1, <1>3, JoinedAre
  <2> QED
    BY <1>4, <2>1
<1>6. r \in Seq(X) /\ IsJoined(r, u, ab)
  <2>1. u \o ab \in Seq(X) /\ IsJoined(u \o ab, u, ab)
    BY <1>2, JoinedAre
  <2> QED
    BY <2>1 DEF r
<1> DEFINE n == Len(u)
<1>7. n \in Nat
  OBVIOUS
<1> HIDE DEF n
<1>8. /\ Len(m) = n + 1 /\ Len(l) = n + 2 /\ Len(r) = n + 2
  BY <1>1, <1>2, <1>3, <1>5, <1>6 DEF IsJoined, n
<1>9. ASSUME NEW i \in 1 .. n PROVE l[i] = r[i]
  <2>1. i \in 1 .. n + 1
    BY <1>7
  <2>2. r[i] = u[i] /\ m[i] = u[i]
    BY <1>3, <1>6 DEF IsJoined, n
  <2>3. l[i] = m[i]
    BY <1>5, <1>8, <2>1 DEF IsJoined
  <2> QED
    BY <2>2, <2>3
<1>10. l[n + 1] = r[n + 1]
  <2>1. 1 \in 1 .. 1 /\ 1 \in 1 .. 2 /\ n + 1 \in 1 .. n + 1
    BY <1>7
  <2>2. r[n + 1] = x
    BY <1>2, <1>6, <2>1 DEF IsJoined, n
  <2>3. m[n + 1] = x
    BY <1>1, <1>3, <2>1 DEF IsJoined, n
  <2>4. l[n + 1] = m[n + 1]
    BY <1>5, <1>8, <2>1 DEF IsJoined
  <2> QED
    BY <2>2, <2>3, <2>4
<1>11. l[n + 2] = r[n + 2]
  <2>1. 1 \in 1 .. 1 /\ 2 \in 1 .. 2 /\ n + 1 + 1 = n + 2
    BY <1>7
  <2>2. r[n + 2] = y
    BY <1>2, <1>6, <2>1 DEF IsJoined, n
  <2>3. l[(n + 1) + 1] = y
    BY <1>1, <1>5, <1>8, <2>1 DEF IsJoined
  <2> QED
    BY <2>1, <2>2, <2>3
<1>12. ASSUME NEW i \in 1 .. n + 2 PROVE l[i] = r[i]
  <2>1. i \in 1 .. n \/ i = n + 1 \/ i = n + 2
    BY <1>7
  <2> QED
    BY <2>1, <1>9, <1>10, <1>11
<1>13. l = r
  <2>1. \A s, t \in Seq(X) : Len(s) = Len(t) /\ (\A i \in 1 .. Len(s) : s[i] = t[i]) => s = t
    OBVIOUS
  <2> QED
    BY <1>5, <1>6, <1>8, <1>12, <2>1
<1> QED
  BY <1>13 DEF l, r, a, b, ab

ShownOption(c, o, word, label) ==
    IF o = Undefined THEN [id |-> c.id \o <<"option", word>>, label |-> label] ELSE o

\* An option is read with the id and the label that voters saw.
LEMMA OptionIsRead ==
    ASSUME NEW c \in ParsedContests, NEW o \in Maybe(MeasureOptions), NEW word \in STRING, NEW label \in STRING,
           NEW a, a = MeasureOption(c, o, word, label)
    PROVE  /\ [id |-> a.id, label |-> englishText(a.Selection)] = ShownOption(c, o, word, label)
           /\ ShownOption(c, o, word, label) # Undefined
<1>1. CASE o = Undefined
  <2>1. a.id = OptionId(c, <<word>>) /\ a.Selection = Text(label)
    BY <1>1 DEF MeasureOption
  <2>2. englishText(a.Selection) = label
    BY <2>1, TextIsEnglish
  <2>3. c.id \in Seq(STRING)
    BY DEF ParsedContests, Seats, Measures, Id
  <2>4. OptionId(c, <<word>>) = c.id \o <<"option", word>>
    BY <2>3, WordsAreTyped, TwoMore DEF OptionId
  <2>5. [id |-> a.id, label |-> englishText(a.Selection)] = ShownOption(c, o, word, label)
    BY <1>1, <2>1, <2>2, <2>4 DEF ShownOption
  <2>6. a.id \in Id
    <3>1. <<word>> \in Id
      BY OneIs DEF Id
    <3> QED
      BY <2>1, <3>1, OptionIdIs
  <2>7. [id |-> a.id, label |-> label] \in MeasureOptions
    BY <2>6 DEF MeasureOptions
  <2> QED
    BY <2>2, <2>5, <2>7, DefinitionsAssumption DEF DefinitionsAssumption
<1>2. CASE o # Undefined
  <2>1. o \in MeasureOptions
    BY <1>2 DEF Maybe
  <2>2. a.id = o.id /\ a.Selection = Text(o.label)
    BY <1>2 DEF MeasureOption
  <2>3. englishText(a.Selection) = o.label
    BY <2>2, TextIsEnglish
  <2>4. o = [id |-> o.id, label |-> o.label]
    BY <2>1 DEF MeasureOptions
  <2> QED
    BY <1>2, <2>2, <2>3, <2>4 DEF ShownOption
<1> QED
  BY <1>1, <1>2

MeasureOf(t, id, district, y, n) ==
    [type |-> t, id |-> id, districtId |-> district, yesOption |-> y, noOption |-> n]

WithOptions(c, y, n) == [c EXCEPT !.yesOption = y, !.noOption = n]

LEMMA OptionsReplaced ==
    ASSUME NEW t, NEW id, NEW district, NEW y0, NEW n0, NEW y, NEW n, NEW c,
           c = MeasureOf(t, id, district, y0, n0)
    PROVE  WithOptions(c, y, n) = MeasureOf(t, id, district, y, n)
<1> DEFINE b == [c EXCEPT !.yesOption = y]
<1>1. WithOptions(c, y, n) = [b EXCEPT !.noOption = n]
  BY DEF WithOptions
<1>2. b = MeasureOf(t, id, district, y, n0)
  BY DEF MeasureOf
<1> HIDE DEF b
<1>3. [b EXCEPT !.noOption = n] = MeasureOf(t, id, district, y, n)
  BY <1>2 DEF MeasureOf
<1> QED
  BY <1>1, <1>3

\* A measure is read as it was shown.
LEMMA MeasureIsRead ==
    ASSUME NEW f, NEW c \in Measures
    PROVE  /\ Shown(VxfContest(f, CdfContest(c))) = Shown(c)
           /\ VxfContest(f, CdfContest(c)).districtId = c.districtId
<1> DEFINE a == MeasureOption(c, c.yesOption, "yes", "Yes")  b == MeasureOption(c, c.noOption, "no", "No")
           y == ShownOption(c, c.yesOption, "yes", "Yes")  n == ShownOption(c, c.noOption, "no", "No")
           x == CdfContest(c)  v == VxfContest(f, x)
<1>1. /\ c \in ParsedContests /\ c.type = "yesno" /\ c.yesOption \in Maybe(MeasureOptions)
      /\ c.noOption \in Maybe(MeasureOptions)
  BY DEF ParsedContests, Measures
<1>2. /\ x.id = c.id /\ x.ElectionDistrictId = c.districtId /\ x.type # "CandidateContest"
      /\ x.ContestOption[1] = a /\ x.ContestOption[2] = b
  BY <1>1 DEF CdfContest
<1>3. [id |-> a.id, label |-> englishText(a.Selection)] = y /\ y # Undefined
  BY <1>1, WordsAreTyped, OptionIsRead
<1>4. [id |-> b.id, label |-> englishText(b.Selection)] = n /\ n # Undefined
  BY <1>1, WordsAreTyped, OptionIsRead
<1> HIDE DEF a, b, x
<1>5. v = MeasureOf("yesno", c.id, c.districtId, y, n)
  <2> HIDE DEF y, n
  <2> QED
    BY <1>2, <1>3, <1>4 DEF VxfContest, MeasureOf
<1> HIDE DEF v
<1>6. Shown(c) = WithOptions(c, y, n)
  BY <1>1 DEF Shown, ShownOption, WithOptions
<1> HIDE DEF y, n
<1>7. Shown(v) = WithOptions(v, y, n)
  BY <1>3, <1>4, <1>5 DEF Shown, MeasureOf, WithOptions
<1>8. WithOptions(v, y, n) = v
  BY <1>5, OptionsReplaced
<1>9. c = MeasureOf("yesno", c.id, c.districtId, c.yesOption, c.noOption)
  BY DEF Measures, MeasureOf
<1>10. WithOptions(c, y, n) = MeasureOf("yesno", c.id, c.districtId, y, n)
  BY <1>9, OptionsReplaced
<1>11. v.districtId = c.districtId
  BY <1>5 DEF MeasureOf
<1> QED
  BY <1>5, <1>6, <1>7, <1>8, <1>10, <1>11 DEF v, x

LEMMA FirstOfOne ==
    ASSUME NEW p \in Maybe(Id)
    PROVE  First(IF p = Undefined THEN Undefined ELSE <<p>>) = p
<1>1. CASE p = Undefined
  BY <1>1 DEF First
<1>2. CASE p # Undefined
  <2>1. p \in Id
    BY <1>2 DEF Maybe
  <2>2. <<p>> \in Seq(Id) /\ Len(<<p>>) = 1 /\ <<p>>[1] = p
    BY <2>1, OneIs
  <2>3. <<p>> # <<>> /\ <<p>> # Undefined
    BY <2>2, DefinitionsAssumption DEF DefinitionsAssumption
  <2> QED
    BY <1>2, <2>2, <2>3 DEF First
<1> QED
  BY <1>1, <1>2

\* A candidate that an option names is the one it was made for.
ReadCandidate(f, o) ==
    [id |-> CandidateOf(f, o)[1].id, name |-> englishText(CandidateOf(f, o)[1].BallotName),
     isWriteIn |-> FALSE, partyIds |-> o.EndorsementPartyIds]

LEMMA CandidateIsRead ==
    ASSUME NEW e, NEW f, Ready(f, e), NEW i \in DOMAIN e.contests, e.contests[i].type = "candidate",
           NEW k \in Range(e.contests[i].candidates)
    PROVE  ReadCandidate(f, ChoiceOf(e.contests[i], k)) = k
<1> DEFINE c == e.contests[i]  o == ChoiceOf(c, k)
<1>1. c \in ParsedContests /\ Expressible(e) /\ c \in Range(e.contests)
  BY ContestIs DEF Ready, Range
<1>2. c.candidates \in Seq(ParsedCandidates)
  BY <1>1 DEF ParsedContests, Seats, Measures
<1>3. k \in ParsedCandidates
  BY <1>2 DEF Range
<1>4. ~k.isWriteIn
  BY <1>1 DEF Expressible
<1>5. k \in Range(CandidatesOf(c))
  BY DEF CandidatesOf
<1>6. k.id \in Id
  BY <1>3 DEF ParsedCandidates
<1>7. o.CandidateIds[1] = k.id /\ o.EndorsementPartyIds = k.partyIds
  <2>1. <<k.id>>[1] = k.id
    BY <1>6, OneIs
  <2> QED
    BY <2>1 DEF ChoiceOf
<1> HIDE DEF o
<1>8. CandidateOf(f, o)[1] = ListedCandidate(k)
  BY <1>5, <1>7, CandidateIsFound
<1>9. englishText(Text(k.name)) = k.name
  BY TextIsEnglish
<1>10. ReadCandidate(f, o) = [id |-> k.id, name |-> k.name, isWriteIn |-> FALSE, partyIds |-> k.partyIds]
  <2>1. /\ CandidateOf(f, o)[1].id = k.id
        /\ englishText(CandidateOf(f, o)[1].BallotName) = k.name
    BY <1>8, <1>9 DEF ListedCandidate
  <2> QED
    BY <1>7, <2>1 DEF ReadCandidate
<1>11. k = [id |-> k.id, name |-> k.name, isWriteIn |-> FALSE, partyIds |-> k.partyIds]
  BY <1>3, <1>4 DEF ParsedCandidates
<1> QED
  BY <1>10, <1>11 DEF o

\* The candidates of a contest, in their order, and whether it has write-ins.
LEMMA CandidatesAreRead ==
    ASSUME NEW e, NEW f, Ready(f, e), NEW i \in DOMAIN e.contests, NEW c, c = e.contests[i],
           c.type = "candidate", NEW os, os = CandidateOptions(c)
    PROVE  /\ Each(Those(os, LAMBDA o : ~o.IsWriteIn), LAMBDA o : ReadCandidate(f, o)) = c.candidates
           /\ (\E o \in Range(os) : o.IsWriteIn) <=> c.allowWriteIns
<1> DEFINE a == [j \in DOMAIN c.candidates |-> ChoiceOf(c, c.candidates[j])]
           b == WriteInOptions(c)
           m == Len(c.candidates)  n == WriteInsOf(c)
<1>1. c \in Seats(ParsedCandidates) /\ HasNumerals(c) /\ c.seats > 0 /\ c.candidates \in Seq(ParsedCandidates)
  <2>1. c \in ParsedContests /\ HasNumerals(c)
    BY ContestIs
  <2>2. c.seats > 0
    BY DEF Ready, IsParsed, ElectionSchema, CandidateContestSchema, Range
  <2> QED
    BY <2>1, <2>2 DEF ParsedContests, Seats, Measures
<1>2. /\ os \in Seq(SeatChoices) /\ n \in Nat /\ m \in Nat /\ Len(os) = m + n
      /\ \A j \in 1 .. m : os[j] = ChoiceOf(c, c.candidates[j])
      /\ \A j \in 1 .. n : os[m + j] = WriteInOption(c, j)
      /\ os = a \o b /\ a \in Seq(SeatChoices) /\ b \in Seq(SeatChoices)
  BY <1>1, ChoicesAre
<1>3. DOMAIN c.candidates = 1 .. m /\ DOMAIN a = 1 .. m /\ (n > 0 <=> c.allowWriteIns)
  <2>1. DOMAIN c.candidates = 1 .. m
    BY <1>1
  <2>2. DOMAIN a = DOMAIN c.candidates
    OBVIOUS
  <2>3. c.seats \in Nat /\ c.allowWriteIns \in BOOLEAN
    BY <1>1 DEF Seats
  <2>4. n > 0 <=> c.allowWriteIns
    BY <1>1, <2>3 DEF WriteInsOf
  <2> QED
    BY <2>1, <2>2, <2>4
<1>4. \A j \in DOMAIN a : a[j] = ChoiceOf(c, c.candidates[j])
  OBVIOUS
<1> HIDE DEF a, b, m, n
<1>5. DOMAIN os = 1 .. m + n
  BY <1>2
<1>6. ASSUME NEW j \in 1 .. m PROVE ~os[j].IsWriteIn
  <2>1. os[j] = ChoiceOf(c, c.candidates[j])
    BY <1>2
  <2> QED
    BY <2>1 DEF ChoiceOf
<1>7. ASSUME NEW j \in 1 .. n PROVE os[m + j].IsWriteIn /\ m + j \in 1 .. m + n
  <2>1. os[m + j] = WriteInOption(c, j)
    BY <1>2
  <2>2. m + j \in 1 .. m + n
    BY <1>2
  <2> QED
    BY <2>1, <2>2 DEF WriteInOption
<1>8. ASSUME NEW j \in 1 .. m + n, j \notin 1 .. m PROVE os[j].IsWriteIn /\ n > 0
  <2>1. j - m \in 1 .. n /\ j = m + (j - m)
    BY <1>2, <1>8
  <2>2. os[j].IsWriteIn
    BY <2>1, <1>7
  <2>3. n > 0
    BY <2>1, <1>2
  <2> QED
    BY <2>2, <2>3
<1>9. (\E o \in Range(os) : o.IsWriteIn) <=> n > 0
  <2>1. ASSUME NEW o \in Range(os), o.IsWriteIn PROVE n > 0
    BY <1>5, <1>6, <1>8, <2>1 DEF Range
  <2>2. ASSUME n > 0 PROVE \E o \in Range(os) : o.IsWriteIn
    <3>1. 1 \in 1 .. n
      BY <2>2, <1>2
    <3>2. os[m + 1].IsWriteIn /\ m + 1 \in DOMAIN os
      BY <3>1, <1>5, <1>7
    <3> QED
      BY <3>2 DEF Range
  <2> QED
    BY <2>1, <2>2
<1> DEFINE K == {j \in DOMAIN os : ~os[j].IsWriteIn}
<1>10. K = DOMAIN a
  <2>1. \A j \in 1 .. m : j \in 1 .. m + n
    BY <1>2
  <2> QED
    BY <2>1, <1>3, <1>5, <1>6, <1>8
<1>11. Those(os, LAMBDA o : ~o.IsWriteIn) = Kept(os, K)
  BY DEF Those, Concat, Kept
<1>12. Kept(os, DOMAIN a) = a
  BY <1>2, FirstIsKept
<1>13. Those(os, LAMBDA o : ~o.IsWriteIn) = a
  BY <1>10, <1>11, <1>12
<1>14. \A j \in 1 .. m : ReadCandidate(f, a[j]) = c.candidates[j]
  <2>1. ASSUME NEW j \in 1 .. m PROVE ReadCandidate(f, a[j]) = c.candidates[j]
    <3>1. c.candidates[j] \in Range(c.candidates)
      BY <1>3 DEF Range
    <3>2. ReadCandidate(f, ChoiceOf(c, c.candidates[j])) = c.candidates[j]
      BY <3>1, CandidateIsRead
    <3> QED
      BY <3>2, <1>3, <1>4
  <2> QED
    BY <2>1
<1>15. Each(a, LAMBDA o : ReadCandidate(f, o)) = c.candidates
  <2>1. Each(a, LAMBDA o : ReadCandidate(f, o)) = [j \in 1 .. m |-> ReadCandidate(f, a[j])]
    BY <1>3 DEF Each
  <2>2. c.candidates = [j \in 1 .. m |-> c.candidates[j]]
    <3>1. \A s \in Seq(ParsedCandidates) : s = [j \in DOMAIN s |-> s[j]]
      OBVIOUS
    <3> QED
      BY <1>1, <1>3, <3>1
  <2> QED
    BY <2>1, <2>2, <1>14
<1> QED
  BY <1>3, <1>9, <1>13, <1>15

\* A contest of candidates is read as it was.
LEMMA SeatsAreRead ==
    ASSUME NEW e, NEW f, Ready(f, e), NEW i \in DOMAIN e.contests, e.contests[i].type = "candidate"
    PROVE  VxfContest(f, CdfContest(e.contests[i])) = e.contests[i]
<1> DEFINE c == e.contests[i]  x == CdfContest(c)  v == VxfContest(f, x)
           os == CandidateOptions(c)
           some == \E o \in Range(os) : o.IsWriteIn
           read == Each(Those(os, LAMBDA o : ~o.IsWriteIn), LAMBDA o : ReadCandidate(f, o))
<1>1. c \in Seats(ParsedCandidates)
  <2>1. c \in ParsedContests
    BY ContestIs
  <2> QED
    BY <2>1 DEF ParsedContests, Seats, Measures
<1>2. read = c.candidates /\ (some <=> c.allowWriteIns)
  BY CandidatesAreRead
<1>3. /\ x.id = c.id /\ x.ElectionDistrictId = c.districtId /\ x.type = "CandidateContest"
      /\ x.VotesAllowed = c.seats /\ x.ContestOption = os
      /\ x.PrimaryPartyIds = IF c.partyId = Undefined THEN Undefined ELSE <<c.partyId>>
  BY DEF CdfContest
<1>4. First(x.PrimaryPartyIds) = c.partyId
  <2>1. c.partyId \in Maybe(Id)
    BY <1>1 DEF Seats
  <2> QED
    BY <2>1, <1>3, FirstOfOne
<1>5. v = [type |-> "candidate", id |-> x.id, districtId |-> x.ElectionDistrictId, seats |-> x.VotesAllowed,
           partyId |-> First(x.PrimaryPartyIds), allowWriteIns |-> some, candidates |-> read]
  <2> HIDE DEF x, os
  <2> QED
    BY <1>3 DEF VxfContest, Each, ReadCandidate
<1> HIDE DEF x, read, some, v
<1>6. some = c.allowWriteIns
  <2>1. c.allowWriteIns \in BOOLEAN
    BY <1>1 DEF Seats
  <2> QED
    BY <2>1, <1>2 DEF some
<1>7. c = [type |-> "candidate", id |-> c.id, districtId |-> c.districtId, seats |-> c.seats,
           partyId |-> c.partyId, allowWriteIns |-> c.allowWriteIns, candidates |-> c.candidates]
  BY <1>1 DEF Seats
<1>8. v = c
  BY <1>2, <1>3, <1>4, <1>5, <1>6, <1>7
<1> QED
  BY <1>8 DEF v, x

\* Every contest is read as it was shown, of its own district.
LEMMA ContestIsRead ==
    ASSUME NEW e, NEW f, Ready(f, e), NEW i \in DOMAIN e.contests
    PROVE  /\ Shown(VxfContest(f, f.Contest[i])) = Shown(e.contests[i])
           /\ VxfContest(f, f.Contest[i]).districtId = e.contests[i].districtId
<1>1. e.contests[i] \in ParsedContests /\ f.Contest[i] = CdfContest(e.contests[i])
  BY ContestIs
<1>2. CASE e.contests[i].type = "candidate"
  <2>1. VxfContest(f, CdfContest(e.contests[i])) = e.contests[i]
    BY <1>2, SeatsAreRead
  <2> QED
    BY <1>1, <2>1
<1>3. CASE e.contests[i].type # "candidate"
  <2>1. e.contests[i] \in Measures
    BY <1>1, <1>3 DEF ParsedContests, Seats
  <2> QED
    BY <1>1, <2>1, MeasureIsRead
<1> QED
  BY <1>2, <1>3

\* What is read of a file.
ReadUnit(u) == [id |-> u.id, name |-> englishText(u.Name)]
ReadParty(p) == [id |-> p.id, name |-> englishText(p.vxBallotLabel), fullName |-> englishText(p.Name)]

LEMMA ReadHas ==
    ASSUME NEW f, NEW p, p = convertCdfBallotDefinitionToVxfElection(f)
    PROVE  /\ p.contests = [i \in DOMAIN f.Contest |-> VxfContest(f, f.Contest[i])]
           /\ p.ballotStyles = [i \in DOMAIN f.BallotStyle |-> VxfBallotStyle(f, f.BallotStyle[i])]
           /\ p.precincts = [i \in DOMAIN Precincts(f) |-> ReadUnit(Precincts(f)[i])]
           /\ p.parties = [i \in DOMAIN f.Party |-> ReadParty(f.Party[i])]
           /\ p # Failed
<1> DEFINE contests == [i \in DOMAIN f.Contest |-> VxfContest(f, f.Contest[i])]
           styles == [i \in DOMAIN f.BallotStyle |-> VxfBallotStyle(f, f.BallotStyle[i])]
           precincts == [i \in DOMAIN Precincts(f) |-> ReadUnit(Precincts(f)[i])]
           parties == [i \in DOMAIN f.Party |-> ReadParty(f.Party[i])]
           state == englishText(OfUnitType(f, "state")[1].Name)
           county == ReadUnit(OfUnitType(f, "county")[1])
           districts == [i \in DOMAIN Districts(f) |-> ReadUnit(Districts(f)[i])]
<1>1. p = [state |-> state, county |-> county, parties |-> parties, contests |-> contests,
           districts |-> districts, precincts |-> precincts, ballotStyles |-> styles]
  BY DEF convertCdfBallotDefinitionToVxfElection, Each, ReadUnit, ReadParty
<1> HIDE DEF contests, styles, precincts, parties, state, county, districts
<1>2. DOMAIN p = {"state", "county", "parties", "contests", "districts", "precincts", "ballotStyles"}
  BY <1>1
<1>3. DOMAIN Failed = {"ok"}
  BY DEF Failed
<1>4. p # Failed
  BY <1>2, <1>3
<1> QED
  BY <1>1, <1>4 DEF contests, styles, precincts, parties

\* The contests of a ballot are those at the same places of two elections.
LEMMA SamePlaces ==
    ASSUME NEW n \in Nat, NEW s, NEW t, DOMAIN s = 1 .. n, DOMAIN t = 1 .. n, NEW K \in SUBSET (1 .. n),
           \A i \in 1 .. n : Shown(s[i]) = Shown(t[i])
    PROVE  Each(Kept(s, K), Shown) = Each(Kept(t, K), Shown)
<1> DEFINE p == Places(n, K)
<1>1. p \in Seq(1 .. n)
  BY PlacesAreKept
<1>2. Kept(s, K) = Mapped(p, s) /\ Kept(t, K) = Mapped(p, t)
  BY PlacesMakeKept
<1> HIDE DEF p
<1>3. \A j \in DOMAIN p : p[j] \in 1 .. n
  BY <1>1
<1>4. Each(Kept(s, K), Shown) = [j \in DOMAIN p |-> Shown(s[p[j]])]
  BY <1>2 DEF Each, Mapped
<1>5. Each(Kept(t, K), Shown) = [j \in DOMAIN p |-> Shown(t[p[j]])]
  BY <1>2 DEF Each, Mapped
<1> QED
  BY <1>3, <1>4, <1>5

\* A style read again has the contests of its precincts' districts.
LEMMA StyleIsRead ==
    ASSUME NEW e, NEW f, Ready(f, e), NEW i \in DOMAIN e.ballotStyles, NEW s, s = e.ballotStyles[i],
           NEW t, t = VxfBallotStyle(f, f.BallotStyle[i])
    PROVE  /\ t.id = s.id /\ t.precincts = s.precincts /\ t.partyId = s.partyId
           /\ \A c \in Range(e.contests) : c.districtId \in t.districts <=>
                                              c.districtId \in DistrictsOfPrecincts(e, s)
<1>1. IsParsed(e) /\ Expressible(e) /\ UnitsOf(f.GpUnit, e)
  BY FormHas DEF Ready
<1>2. f.BallotStyle[i] = CdfBallotStyle(s)
  <2>1. f.BallotStyle = [j \in DOMAIN e.ballotStyles |-> CdfBallotStyle(e.ballotStyles[j])]
    BY FormHas
  <2> QED
    BY <2>1
<1>3. s \in Range(e.ballotStyles)
  BY DEF Range
<1>4. s \in BallotStyles
  BY <1>1, <1>3, StyleRefers
<1> DEFINE x == CdfBallotStyle(s)  near == {d \in Range(Districts(f)) : d.ComposingGpUnitIds \cap s.precincts # {}}
<1>5. /\ x.GpUnitIds = s.precincts /\ x.ExternalIdentifier = <<s.id>>
      /\ x.PartyIds = IF s.partyId = Undefined THEN Undefined ELSE <<s.partyId>>
  BY DEF CdfBallotStyle
<1>6. /\ t.id = x.ExternalIdentifier[1] /\ t.precincts = x.GpUnitIds /\ t.partyId = First(x.PartyIds)
      /\ t.districts = {d.id : d \in {d \in Range(Districts(f)) : d.ComposingGpUnitIds \cap x.GpUnitIds # {}}}
  BY <1>2 DEF VxfBallotStyle
<1> HIDE DEF x
<1>7. t.id = s.id
  <2>1. s.id \in Id
    BY <1>4 DEF BallotStyles
  <2>2. <<s.id>>[1] = s.id
    BY <2>1, OneIs
  <2> QED
    BY <2>2, <1>5, <1>6
<1>8. t.partyId = s.partyId
  <2>1. s.partyId \in Maybe(Id)
    BY <1>4 DEF BallotStyles
  <2> QED
    BY <2>1, <1>5, <1>6, FirstOfOne
<1>9. t.districts = {d.id : d \in near}
  BY <1>5, <1>6
<1>10. Range(Districts(f)) = {u \in Range(f.GpUnit) : \E c \in Range(e.contests) : c.districtId = u.id}
  BY NamedUnitsAre
<1>11. ASSUME NEW u \in Range(Districts(f))
       PROVE  u.ComposingGpUnitIds \cap s.precincts # {} <=>
                \E r \in Range(e.ballotStyles) : u.id \in r.districts /\ r.precincts \cap s.precincts # {}
  <2>1. u \in Range(f.GpUnit) /\ u.id \notin Range(Ids(e.precincts))
    BY <1>1, <1>10 DEF Expressible
  <2> QED
    BY <1>3, <2>1, UnitIs
<1>12. ASSUME NEW c \in Range(e.contests), c.districtId \in t.districts
       PROVE  c.districtId \in DistrictsOfPrecincts(e, s)
  <2>1. PICK u \in Range(Districts(f)) : u.id = c.districtId /\ u.ComposingGpUnitIds \cap s.precincts # {}
    BY <1>9, <1>12
  <2>2. PICK r \in Range(e.ballotStyles) : u.id \in r.districts /\ r.precincts \cap s.precincts # {}
    BY <1>11, <2>1
  <2> QED
    BY <2>1, <2>2 DEF DistrictsOfPrecincts
<1>13. ASSUME NEW c \in Range(e.contests), c.districtId \in DistrictsOfPrecincts(e, s)
       PROVE  c.districtId \in t.districts
  <2>1. PICK r \in Range(e.ballotStyles) : c.districtId \in r.districts /\ r.precincts \cap s.precincts # {}
    BY <1>13 DEF DistrictsOfPrecincts
  <2>2. c.districtId \in Range(Ids(e.districts))
    BY <1>1, <2>1, StyleRefers
  <2>3. PICK u \in Range(f.GpUnit) : u.id = c.districtId
    BY <1>1, <2>2 DEF UnitsOf, UnitIdsOf
  <2>4. u \in Range(Districts(f))
    BY <1>10, <2>3
  <2>5. u.ComposingGpUnitIds \cap s.precincts # {}
    BY <1>11, <2>1, <2>3, <2>4
  <2> QED
    BY <1>9, <2>3, <2>4, <2>5
<1> QED
  BY <1>5, <1>6, <1>7, <1>8, <1>12, <1>13

\* The ballots of every style are those before.
LEMMA BallotsAreRead ==
    ASSUME NEW e, NEW f, Ready(f, e), NEW p, p = convertCdfBallotDefinitionToVxfElection(f)
    PROVE  SameBallots(e, p)
<1>1. /\ p.contests = [j \in DOMAIN f.Contest |-> VxfContest(f, f.Contest[j])]
      /\ p.ballotStyles = [j \in DOMAIN f.BallotStyle |-> VxfBallotStyle(f, f.BallotStyle[j])]
  BY ReadHas
<1> DEFINE n == Len(e.contests)
<1>2. n \in Nat /\ DOMAIN e.contests = 1 .. n
  <2>1. e.contests \in Seq(ParsedContests)
    BY ParsedHas DEF Ready
  <2> QED
    BY <2>1
<1>3. DOMAIN f.Contest = DOMAIN e.contests /\ DOMAIN f.BallotStyle = DOMAIN e.ballotStyles
  BY FormHas
<1> HIDE DEF n
<1>4. ASSUME NEW j \in 1 .. n
      PROVE  Shown(p.contests[j]) = Shown(e.contests[j]) /\ p.contests[j].districtId = e.contests[j].districtId
  <2>1. p.contests[j] = VxfContest(f, f.Contest[j])
    BY <1>1, <1>2, <1>3
  <2> QED
    BY <1>2, <2>1, ContestIsRead
<1>5. SUFFICES ASSUME NEW i \in DOMAIN e.ballotStyles, NEW s, s = e.ballotStyles[i],
                      NEW t, t = p.ballotStyles[i]
               PROVE  /\ t.id = s.id /\ t.precincts = s.precincts /\ t.partyId = s.partyId
                      /\ Ballot(p, t.districts) = Ballot(e, DistrictsOfPrecincts(e, s))
  BY DEF SameBallots
<1>6. t = VxfBallotStyle(f, f.BallotStyle[i])
  BY <1>1, <1>3, <1>5
<1>7. /\ t.id = s.id /\ t.precincts = s.precincts /\ t.partyId = s.partyId
      /\ \A c \in Range(e.contests) : c.districtId \in t.districts <=>
                                         c.districtId \in DistrictsOfPrecincts(e, s)
  BY <1>5, <1>6, StyleIsRead
<1> DEFINE K == {j \in DOMAIN p.contests : p.contests[j].districtId \in t.districts}
           L == {j \in DOMAIN e.contests : e.contests[j].districtId \in DistrictsOfPrecincts(e, s)}
<1>8. DOMAIN p.contests = 1 .. n
  BY <1>1, <1>2, <1>3
<1>9. K = L /\ L \in SUBSET (1 .. n)
  BY <1>2, <1>4, <1>7, <1>8 DEF Range
<1>10. Ballot(p, t.districts) = Each(Kept(p.contests, K), Shown)
  BY DEF Ballot, Those, Concat, Kept
<1>11. Ballot(e, DistrictsOfPrecincts(e, s)) = Each(Kept(e.contests, L), Shown)
  BY DEF Ballot, Those, Concat, Kept
<1> HIDE DEF K, L
<1>12. Each(Kept(p.contests, L), Shown) = Each(Kept(e.contests, L), Shown)
  BY <1>2, <1>4, <1>8, <1>9, SamePlaces
<1> QED
  BY <1>7, <1>9, <1>10, <1>11, <1>12

----------------------------------------------------------------------------
(* What is accepted, of any file.                                          *)

LEMMA OptionIdsAreIds ==
    ASSUME NEW f \in CdfFiles, NEW i \in DOMAIN f.Contest
    PROVE  OptionIdLists(f)[i] \in Seq(Id)
<1> DEFINE os == f.Contest[i].ContestOption
<1>1. f.Contest[i] \in CdfSeats \cup CdfMeasures
  BY DEF CdfFiles
<1>2. os \in Seq(SeatChoices) \/ os \in Seq(MeasureChoices)
  BY <1>1 DEF CdfSeats, CdfMeasures
<1>3. (\A o \in SeatChoices : o.id \in Id) /\ \A o \in MeasureChoices : o.id \in Id
  BY DEF SeatChoices, MeasureChoices
<1>4. OptionIdLists(f)[i] = Ids(os)
  BY DEF OptionIdLists
<1> HIDE DEF os
<1> QED
  BY <1>2, <1>3, <1>4, IdsAreListed

\* No contest, party or unit of an accepted file shares its id with another.
LEMMA AcceptedIds ==
    ASSUME NEW f \in CdfFiles, IsInjective(DefinedIds(f))
    PROVE  /\ f.GpUnit \in Seq(CdfUnits)
           /\ Ids(f.Contest) \in Seq(Id) /\ Ids(f.Party) \in Seq(Id) /\ Ids(f.GpUnit) \in Seq(Id)
           /\ IsInjective(Ids(f.Contest)) /\ IsInjective(Ids(f.Party)) /\ IsInjective(Ids(f.GpUnit))
           /\ Disjoint(Range(Ids(f.Contest)), Range(Ids(f.Party)))
           /\ Disjoint(Range(Ids(f.Contest)) \cup Range(Ids(f.Party)), Range(Ids(f.GpUnit)))
<1> DEFINE k == Ids(f.Candidate)  c == Ids(f.Contest)  p == Ids(f.Party)  u == Ids(f.GpUnit)
           l == OptionIdLists(f)  o == FlattenSeq(l)  n == Len(f.Contest)
<1>1. /\ f.Candidate \in Seq(CdfCandidates) /\ f.Contest \in Seq(CdfSeats \cup CdfMeasures)
      /\ f.Party \in Seq(CdfParties) /\ f.GpUnit \in Seq(CdfUnits)
  BY DEF CdfFiles
<1>2. /\ (\A x \in CdfCandidates : x.id \in Id) /\ (\A x \in CdfSeats \cup CdfMeasures : x.id \in Id)
      /\ (\A x \in CdfParties : x.id \in Id) /\ (\A x \in CdfUnits : x.id \in Id)
  BY DEF CdfCandidates, CdfSeats, CdfMeasures, CdfParties, CdfUnits
<1>3. k \in Seq(Id) /\ c \in Seq(Id) /\ p \in Seq(Id) /\ u \in Seq(Id)
  BY <1>1, <1>2, IdsAreListed
<1>4. n \in Nat /\ DOMAIN f.Contest = 1 .. n
  BY <1>1
<1> HIDE DEF n
<1>5. l \in [1 .. n -> Seq(Id)]
  <2>1. \A i \in 1 .. n : l[i] \in Seq(Id)
    BY <1>4, OptionIdsAreIds
  <2>2. l = [i \in 1 .. n |-> l[i]]
    BY <1>4 DEF OptionIdLists
  <2> HIDE DEF l
  <2> QED
    BY <2>1, <2>2
<1> HIDE DEF l, k, c, p, u
<1>6. o \in Seq(Id)
  BY <1>4, <1>5, FlattenedHas
<1>7. DefinedIds(f) = k \o c \o p \o u \o o
  BY DEF DefinedIds, Concat, OptionIdLists, k, c, p, u, l
<1> HIDE DEF o
<1>8. FiveAre(k, c, p, u, o)
  BY <1>3, <1>6, <1>7, FiveApart
<1>9. /\ IsInjective(c) /\ IsInjective(p) /\ IsInjective(u)
      /\ Disjoint(Range(c), Range(p)) /\ Disjoint(Range(c) \cup Range(p), Range(u))
  BY <1>8 DEF FiveAre, Disjoint
<1> QED
  BY <1>1, <1>3, <1>9 DEF c, p, u

\* What is read has the ids of the file.
LEMMA ReadIds ==
    ASSUME NEW f, NEW p, p = convertCdfBallotDefinitionToVxfElection(f)
    PROVE  /\ Ids(p.contests) = Ids(f.Contest) /\ Ids(p.parties) = Ids(f.Party)
           /\ Ids(p.precincts) = Ids(Precincts(f))
<1>1. /\ p.contests = [i \in DOMAIN f.Contest |-> VxfContest(f, f.Contest[i])]
      /\ p.precincts = [i \in DOMAIN Precincts(f) |-> ReadUnit(Precincts(f)[i])]
      /\ p.parties = [i \in DOMAIN f.Party |-> ReadParty(f.Party[i])]
  BY ReadHas
<1>2. \A x : VxfContest(f, x).id = x.id
  BY DEF VxfContest
<1>3. (\A x : ReadUnit(x).id = x.id) /\ \A x : ReadParty(x).id = x.id
  BY DEF ReadUnit, ReadParty
<1> QED
  BY <1>1, <1>2, <1>3 DEF Ids

\* What is accepted has unambiguous ids and the precincts of its styles.
LEMMA AcceptedIsSound ==
    ASSUME NEW f \in CdfFiles, IsInjective(DefinedIds(f)), Convertible(f),
           NEW p, p = convertCdfBallotDefinitionToVxfElection(f)
    PROVE  /\ IsInjective(Ids(p.precincts) \o Ids(p.contests) \o Ids(p.parties))
           /\ \A s \in Range(p.ballotStyles) : s.precincts \subseteq Range(Ids(p.precincts))
<1> DEFINE us == f.GpUnit
           K == {i \in DOMAIN us : \E s \in Range(f.BallotStyle) : us[i].id \in s.GpUnitIds}
           a == Ids(p.precincts)  b == Ids(p.contests)  c == Ids(p.parties)
<1>1. /\ us \in Seq(CdfUnits) /\ Ids(us) \in Seq(Id)
      /\ Ids(f.Contest) \in Seq(Id) /\ Ids(f.Party) \in Seq(Id)
      /\ IsInjective(Ids(f.Contest)) /\ IsInjective(Ids(f.Party)) /\ IsInjective(Ids(us))
      /\ Disjoint(Range(Ids(f.Contest)), Range(Ids(f.Party)))
      /\ Disjoint(Range(Ids(f.Contest)) \cup Range(Ids(f.Party)), Range(Ids(us)))
  BY AcceptedIds
<1>2. Precincts(f) = Kept(us, K)
  BY DEF Precincts, Those, Concat, Kept
<1>3. K \in SUBSET (DOMAIN us)
  OBVIOUS
<1>4. a = Ids(Precincts(f)) /\ b = Ids(f.Contest) /\ c = Ids(f.Party)
  BY ReadIds
<1> HIDE DEF K, us, a, b, c
<1>5. a \in Seq(Id) /\ IsInjective(a) /\ Range(a) \subseteq Range(Ids(us))
  <2>1. Kept(us, K) \in Seq(CdfUnits)
    BY <1>1, <1>3, KeptHas
  <2>2. \A x \in CdfUnits : x.id \in Id
    BY DEF CdfUnits
  <2>3. Ids(Kept(us, K)) \in Seq(Id)
    BY <2>1, <2>2, IdsAreListed
  <2>4. Range(Ids(Kept(us, K))) \subseteq Range(Ids(us)) /\ IsInjective(Ids(Kept(us, K)))
    BY <1>1, <1>3, KeptIds
  <2> QED
    BY <1>2, <1>4, <2>3, <2>4
<1>6. b \in Seq(Id) /\ c \in Seq(Id) /\ IsInjective(b) /\ IsInjective(c)
  BY <1>1, <1>4
<1>7. Range(a) \cap Range(b) = {} /\ (Range(a) \cup Range(b)) \cap Range(c) = {}
  BY <1>1, <1>4, <1>5 DEF Disjoint
<1>8. IsInjective(a \o b) /\ a \o b \in Seq(Id) /\ Range(a \o b) = Range(a) \cup Range(b)
  <2>1. IsInjective(a \o b)
    BY <1>5, <1>6, <1>7, JoinedInjective
  <2> QED
    BY <2>1, <1>5, <1>6, JoinedTwo
<1>9. IsInjective(a \o b \o c)
  BY <1>6, <1>7, <1>8, JoinedInjective
<1>10. ASSUME NEW s \in Range(p.ballotStyles) PROVE s.precincts \subseteq Range(a)
  <2>1. p.ballotStyles = [i \in DOMAIN f.BallotStyle |-> VxfBallotStyle(f, f.BallotStyle[i])]
    BY ReadHas
  <2>2. PICK i \in DOMAIN f.BallotStyle : s = VxfBallotStyle(f, f.BallotStyle[i])
    BY <2>1 DEF Range
  <2>3. s.precincts = f.BallotStyle[i].GpUnitIds
    BY <2>2 DEF VxfBallotStyle
  <2>4. f.BallotStyle[i].GpUnitIds \subseteq Range(Ids(Precincts(f)))
    BY DEF Convertible, Range
  <2> QED
    BY <1>4, <2>3, <2>4
<1> QED
  BY <1>9, <1>10 DEF a, b, c

----------------------------------------------------------------------------
(* The invariant.                                                          *)

DefinitionSpec == DefinitionInit /\ [][DefinitionNext]_definitionVars

\* A file that was not changed says what the conversion made of the election.
DefinitionInv ==
    /\ election \in {Undefined, Failed} \/ IsParsed(election)
    /\ cdfFile # Undefined =>
          /\ election \notin {Undefined, Failed} /\ IsParsed(election) /\ cdfFile \in CdfFiles
          /\ edited # "contents" => FormOf(cdfFile, election)
    /\ parsed # Undefined => cdfFile # Undefined /\ parsed = safeParseCdfBallotDefinition(cdfFile)

LEMMA DefinitionInvHolds ==
    DefinitionSpec => []DefinitionInv
<1>1. DefinitionInit => DefinitionInv
  BY DEF DefinitionInit, DefinitionInv
<1>2. DefinitionInv /\ [DefinitionNext]_definitionVars => DefinitionInv'
  <2> SUFFICES ASSUME DefinitionInv, [DefinitionNext]_definitionVars PROVE DefinitionInv'
    OBVIOUS
  <2>1. CASE ParseVxf
    <3>1. PICK value \in Values : election' = safeParseVxfElection(value)
      BY <2>1 DEF ParseVxf
    <3>2. election' = Failed \/ IsParsed(election')
      BY <3>1, ValueIsParsed
    <3>3. cdfFile = Undefined /\ parsed = Undefined /\ cdfFile' = cdfFile /\ parsed' = parsed
      BY <2>1 DEF ParseVxf, DefinitionInv
    <3> QED
      BY <3>2, <3>3 DEF DefinitionInv, IsParsed
  <2>2. CASE ConvertToCdf
    <3>1. /\ election \notin {Undefined, Failed} /\ IsParsed(election) /\ parsed = Undefined
          /\ cdfFile' = convertVxfElectionToCdfBallotDefinition(election)
          /\ election' = election /\ edited' = edited /\ parsed' = parsed
      BY <2>2 DEF ConvertToCdf, DefinitionInv
    <3>2. cdfFile' \in CdfFiles /\ FormOf(cdfFile', election)
      BY <3>1, FileIsMade
    <3> QED
      BY <3>1, <3>2 DEF DefinitionInv
  <2>3. CASE EditFile
    <3>1. /\ election \notin {Undefined, Failed} /\ IsParsed(election) /\ cdfFile \in CdfFiles
          /\ FormOf(cdfFile, election) /\ parsed = Undefined
          /\ election' = election /\ parsed' = parsed
      BY <2>3 DEF EditFile, DefinitionInv
    <3>2. CASE edited' = "form" /\ cdfFile' \in Rewritings(cdfFile)
      <4>1. cdfFile' \in CdfFiles /\ FormOf(cdfFile', election)
        BY <3>1, <3>2, RewritingsAreForms
      <4> QED
        BY <3>1, <4>1 DEF DefinitionInv
    <3>3. CASE edited' = "contents" /\ cdfFile' \in UnitEdits(cdfFile) \cup StyleEdits(cdfFile) \cup ContestEdits(cdfFile)
      <4>1. cdfFile' \in CdfFiles
        BY <3>1, <3>3, EditsAreFiles
      <4> QED
        BY <3>1, <3>3, <4>1 DEF DefinitionInv
    <3> QED
      BY <2>3, <3>2, <3>3 DEF EditFile
  <2>4. CASE ParseCdf
    BY <2>4 DEF ParseCdf, DefinitionInv
  <2>5. CASE UNCHANGED definitionVars
    BY <2>5 DEF definitionVars, DefinitionInv
  <2> QED
    BY <2>1, <2>2, <2>3, <2>4, <2>5 DEF DefinitionNext
<1> QED
  BY <1>1, <1>2, PTL DEF DefinitionSpec

\* An election that CDF can express comes back from its file with the same
\* ballots for every style, in whatever order and languages the file has its
\* units; and what is accepted of a changed file has unambiguous ids, and the
\* precincts of its styles (convert.ts).
THEOREM BallotsSurvive == DefinitionSpec => []BallotsSurviveCdf
<1>1. DefinitionInv => BallotsSurviveCdf
  <2>1. SUFFICES ASSUME DefinitionInv, parsed # Undefined
                 PROVE  /\ edited # "contents" /\ Expressible(election) =>
                              parsed # Failed /\ SameBallots(election, parsed)
                        /\ parsed # Failed =>
                              /\ IsInjective(Ids(parsed.precincts) \o Ids(parsed.contests) \o Ids(parsed.parties))
                              /\ \A s \in Range(parsed.ballotStyles) :
                                    s.precincts \subseteq Range(Ids(parsed.precincts))
    BY DEF BallotsSurviveCdf
  <2> DEFINE f == cdfFile  p == convertCdfBallotDefinitionToVxfElection(f)
  <2>2. /\ IsParsed(election) /\ f \in CdfFiles
        /\ edited # "contents" => FormOf(f, election)
        /\ parsed = safeParseCdfBallotDefinition(f)
    BY <2>1 DEF DefinitionInv
  <2>3. ASSUME edited # "contents", Expressible(election)
        PROVE  parsed # Failed /\ SameBallots(election, parsed)
    <3>1. Ready(f, election)
      BY <2>2, <2>3 DEF Ready
    <3>2. BallotDefinitionSchema(f) /\ IsInjective(DefinedIds(f)) /\ Convertible(f)
      BY <3>1, SchemaHolds, DefinedIdsApart, FileConverts
    <3>3. parsed = p
      BY <2>2, <3>2 DEF safeParseCdfBallotDefinition
    <3> HIDE DEF p
    <3>4. p # Failed
      BY ReadHas DEF p
    <3>5. SameBallots(election, p)
      BY <3>1, BallotsAreRead DEF p
    <3> QED
      BY <3>3, <3>4, <3>5
  <2>4. ASSUME parsed # Failed
        PROVE  /\ IsInjective(Ids(parsed.precincts) \o Ids(parsed.contests) \o Ids(parsed.parties))
               /\ \A s \in Range(parsed.ballotStyles) : s.precincts \subseteq Range(Ids(parsed.precincts))
    <3>1. IsInjective(DefinedIds(f)) /\ Convertible(f) /\ parsed = p
      BY <2>2, <2>4 DEF safeParseCdfBallotDefinition
    <3> HIDE DEF f, p
    <3> QED
      BY <2>2, <3>1, AcceptedIsSound DEF p
  <2> QED
    BY <2>3, <2>4
<1> QED
  BY <1>1, DefinitionInvHolds, PTL
=============================================================================
