---------------------------- MODULE MCLibraries ----------------------------
(* The parts of a terminal that do not meet: each behaviour runs one of     *)
(* them and leaves the others in their first state.                         *)
EXTENDS CardStorage, VotingScreens, DbClient, Ballots, ReportExport, UsbDrive,
    BallotPackages, ElectionDefinitions

CONSTANTS a, b, d1, d2

VARIABLE part

mcVars == <<storageVars, screensVars, dbVars, ballotsVars, exportVars, usbVars, packageVars, definitionVars,
            part>>

MCInit ==
    /\ StorageInit /\ ScreensInit /\ DbInit /\ BallotsInit /\ ExportInit /\ UsbInit
    /\ PackageInit /\ DefinitionInit
    /\ part \in {"storage", "screens", "db", "ballots", "export", "usb", "package", "definition"}
    /\ part = "ballots" \/ <<style, precinct>> = <<"s1", "p1">>
    /\ part = "db" \/ program = 1
    /\ part = "export" \/ plugged = d1
    /\ part = "usb" \/ usb = NoUsb
    /\ part = "package" \/ folder = NoFolder

StorageStep ==
    /\ part = "storage" /\ StorageNext
    /\ UNCHANGED <<part, screensVars, dbVars, ballotsVars, exportVars, usbVars, packageVars, definitionVars>>
ScreensStep ==
    /\ part = "screens" /\ ScreensNext
    /\ UNCHANGED <<part, storageVars, dbVars, ballotsVars, exportVars, usbVars, packageVars, definitionVars>>
DbStep ==
    /\ part = "db" /\ DbNext
    /\ UNCHANGED <<part, storageVars, screensVars, ballotsVars, exportVars, usbVars, packageVars, definitionVars>>
BallotsStep ==
    /\ part = "ballots" /\ BallotsNext
    /\ UNCHANGED <<part, storageVars, screensVars, dbVars, exportVars, usbVars, packageVars, definitionVars>>
ExportStep ==
    /\ part = "export" /\ ExportNext
    /\ UNCHANGED <<part, storageVars, screensVars, dbVars, ballotsVars, usbVars, packageVars, definitionVars>>
UsbStep ==
    /\ part = "usb" /\ UsbNext
    /\ UNCHANGED <<part, storageVars, screensVars, dbVars, ballotsVars, exportVars, packageVars, definitionVars>>
PackageStep ==
    /\ part = "package" /\ PackageNext
    /\ UNCHANGED <<part, storageVars, screensVars, dbVars, ballotsVars, exportVars, usbVars, definitionVars>>

DefinitionStep ==
    /\ part = "definition" /\ DefinitionNext
    /\ UNCHANGED <<part, storageVars, screensVars, dbVars, ballotsVars, exportVars, usbVars, packageVars>>

MCNext ==
    StorageStep \/ ScreensStep \/ DbStep \/ BallotsStep \/ ExportStep \/ UsbStep \/ PackageStep
    \/ DefinitionStep

MCSpec == MCInit /\ [][MCNext]_mcVars /\ ScreensFairness /\ StorageFairness

----------------------------------------------------------------------------
(* The card's bytes are digits of base 8: a short TLV length is below 4, an *)
(* APDU holds 7 bytes, a data object 9, so documents meet every boundary.   *)

Document(n) == [i \in 1 .. n |-> (n + i) % Base]
MCDocuments == {Document(n) : n \in {3, 4, 5, 7, 8, 9, 10, 18, 19, 24, 25}}

MCContests == [v \in Voters |-> IF v = a THEN 1 ELSE 2]

----------------------------------------------------------------------------
(* Two contests of a district, one of them a party's, and a measure: three *)
(* seats, overvotes, undervotes and marks below the threshold.             *)

MCContest(id, type, d, party, seats, names, w) ==
    [id |-> id, type |-> type, districtId |-> d, partyId |-> party, seats |-> seats,
     candidates |-> names, allowWriteIns |-> w]
MCLayout(s, p, back, c) == [style |-> s, precinct |-> p, back |-> back, contest |-> c]
MCElection ==
    [precincts |-> <<"p1", "p2">>,
     ballotStyles |->
        <<[id |-> "s1", precincts |-> <<"p1", "p2">>, districts |-> {"d1", "d2"}, partyId |-> "R"],
          [id |-> "s2", precincts |-> <<"p2">>, districts |-> {"d1"}, partyId |-> "D"]>>,
     contests |->
        <<MCContest("council", "candidate", "d1", "", 2, <<"x", "y">>, TRUE),
          MCContest("judge", "candidate", "d1", "R", 1, <<"z", "w">>, FALSE),
          MCContest("measure", "yesno", "d2", "", 1, <<"yes", "no">>, FALSE)>>,
     gridLayouts |->
        {MCLayout("s1", p, at[1], at[2]) : p \in {"p1", "p2"},
            at \in {<<FALSE, "council">>, <<TRUE, "judge">>, <<TRUE, "measure">>}}
        \cup {MCLayout("s2", "p2", FALSE, "council")},
     hash |-> <<13, 7>>]

MCMark(c, id, score) == [contest |-> c, id |-> id, score |-> score]
MCPage(s, p, n, marks) == [style |-> s, precinct |-> p, number |-> n, marks |-> marks]
MCCouncil(x, y, w0, w1) ==
    <<MCMark("council", Official("x"), x), MCMark("council", Official("y"), y),
      MCMark("council", Indexed(0), w0), MCMark("council", Indexed(1), w1)>>
MCBack(z, w, yes, no) ==
    <<MCMark("judge", Official("z"), z), MCMark("judge", Official("w"), w),
      MCMark("measure", Official("yes"), yes), MCMark("measure", Official("no"), no)>>
MCPages ==
    {MCPage("s1", "p1", 1, MCCouncil(2, 1, 2, 0)), MCPage("s1", "p1", 1, MCCouncil(2, 2, 2, 0)),
     MCPage("s1", "p1", 2, MCBack(2, 0, 2, 2)), MCPage("s1", "p2", 2, MCBack(1, 2, 0, 2)),
     MCPage("s1", "p2", 1, MCCouncil(0, 0, 1, 3)),
     MCPage("s2", "p2", 1, MCCouncil(0, 3, 0, 0)), MCPage("s2", "p2", 2, <<>>)}
MCGroupBys ==
    {{}, {"precinctId"}, {"partyId", "precinctId"}, {"ballotStyleId", "votingMethod"},
     {"batchId"}, {"scannerId", "partyId"}}
MCWriteInChars == <<"B", "A", " ">>

----------------------------------------------------------------------------
(* Sheets with write-ins on either side or both, one that no record can be *)
(* made of, and a report that is longer than a file may be.                *)

MCSheet(n, type, w) == [id |-> n, type |-> type, writeIns |-> w]
MCSheetLists ==
    {<<MCSheet(1, "hmpb", {1, 2})>>, <<MCSheet(1, "bmd", {1}), MCSheet(2, "hmpb", {2})>>,
     <<MCSheet(1, "hmpb", {}), MCSheet(2, "invalid", {})>>,
     <<MCSheet(1, "bmd", {}), MCSheet(2, "hmpb", {}), MCSheet(3, "bmd", {})>>}

----------------------------------------------------------------------------
(* Drives with an older and a newer package, with one of another election   *)
(* or a stranger's under the same name, with a hidden file, and with ones   *)
(* that are cut short, not signed, or signed by a scanner.                  *)

MCPackage(hash, version) == [electionHash |-> hash, version |-> version]
MCSigned(package, component) == [of |-> package, component |-> component]
MCFile(name, ctime, package, signature) ==
    [name |-> name, hidden |-> FALSE, zip |-> TRUE, ctime |-> ctime,
     package |-> package, signature |-> signature]
MCAdmins(name, ctime, package) == MCFile(name, ctime, package, MCSigned(package, "admin"))
MCFolders ==
    LET p1 == MCPackage("e1", 1)  p2 == MCPackage("e1", 2)  q == MCPackage("e2", 1)
    IN  {{},
         {MCAdmins("x", 1, p1), MCAdmins("y", 2, p2)},
         {MCAdmins("x", 3, p1), MCAdmins("y", 2, p2),
          [MCAdmins("z", 4, q) EXCEPT !.hidden = TRUE], [MCAdmins("w", 5, q) EXCEPT !.zip = FALSE]},
         {MCAdmins("x", 1, q)},
         {MCFile("y", 1, q, MCSigned(p2, "admin"))},
         {MCFile("x", 2, Unreadable, MCSigned(p1, "admin")), MCAdmins("y", 1, p2)},
         {MCFile("y", 1, p2, NoSignature)},
         {MCFile("x", 1, p1, MCSigned(p1, "scan"))},
         {MCAdmins("x", 1, Unreadable)}}
MCAuthStatuses ==
    {[status |-> "logged_in", role |-> "election_manager", electionHash |-> hash] : hash \in {"e1", "e2"}}
    \cup {[status |-> "logged_in", role |-> "system_administrator", electionHash |-> "none"],
          [status |-> "logged_out", role |-> "none", electionHash |-> "none"]}

----------------------------------------------------------------------------
(* An election of two parties, and others that differ from it where a       *)
(* schema, the search for duplicate ids or a conversion looks.             *)

MCCandidate(id, partyIds) ==
    [id |-> <<id>>, name |-> id, isWriteIn |-> FALSE, partyIds |-> partyIds, partyId |-> Undefined]
MCWriteIn(n) ==
    [id |-> <<"write", "in", n>>, name |-> "Write-In", isWriteIn |-> TRUE, partyIds |-> Undefined, partyId |-> Undefined]
MCSeats(id, d, seats, party, w, candidates) ==
    [type |-> "candidate", id |-> <<id>>, districtId |-> <<d>>, seats |-> seats, partyId |-> party,
     allowWriteIns |-> w, candidates |-> candidates]
MCMeasure(id, d, yes, no) ==
    [type |-> "yesno", id |-> <<id>>, districtId |-> <<d>>, yesOption |-> yes, noOption |-> no]
MCStyle(id, precincts, districts, party) ==
    [id |-> <<id>>, precincts |-> precincts, districts |-> districts, partyId |-> party]
MCUnit(id) == [id |-> <<id>>, name |-> id]
MCOption(id) == [id |-> <<id>>, label |-> id]

MCDefinition ==
    [state |-> <<"Hamilton", "State">>, county |-> MCUnit("county"),
     parties |-> <<[id |-> <<"R">>, name |-> "R", fullName |-> Undefined],
                   [id |-> <<"D">>, name |-> "D", fullName |-> "D party"]>>,
     districts |-> <<MCUnit("d1"), MCUnit("d2")>>,
     precincts |-> <<MCUnit("p1"), MCUnit("p2")>>,
     contests |->
        <<MCSeats("mayor", "d1", 1, Undefined, TRUE,
                  <<[MCCandidate("x", Undefined) EXCEPT !.partyId = <<"R">>],
                    MCCandidate("y", <<<<"D">>, <<"R">>>>)>>),
          MCSeats("judge", "d2", 2, <<"R">>, FALSE, <<MCCandidate("z", Undefined)>>),
          MCMeasure("measure", "d2", Undefined, Undefined)>>,
     ballotStyles |-> <<MCStyle("s1", {<<"p1">>}, {<<"d1">>, <<"d2">>}, <<"R">>),
                        MCStyle("s2", {<<"p2">>}, {<<"d1">>}, Undefined)>>]

MCValues ==
    LET e == MCDefinition
        mayor(candidates) == [e EXCEPT !.contests[1].candidates = candidates]
    IN  {e,
         [e EXCEPT !.ballotStyles[2].precincts = {<<"p1">>, <<"p2">>}],
         [e EXCEPT !.ballotStyles[2].precincts = {}],
         [e EXCEPT !.ballotStyles[2].precincts = {<<"p3">>}],
         [e EXCEPT !.ballotStyles[2].id = <<"s1">>],
         [e EXCEPT !.districts = Append(@, MCUnit("d3")), !.ballotStyles[2].districts = {<<"d3">>}],
         [e EXCEPT !.districts[1].id = <<"p1">>, !.ballotStyles[1].districts = {<<"d2">>},
                   !.ballotStyles[2].districts = {<<"p1">>}],
         [e EXCEPT !.districts[1].id = <<"hamilton", "state">>, !.ballotStyles[1].districts = {<<"d2">>},
                   !.ballotStyles[2].districts = {<<"d2">>}],
         [e EXCEPT !.contests = <<>>],
         [e EXCEPT !.contests[1].districtId = <<"d9">>],
         [e EXCEPT !.contests[1].districtId = <<"p1">>],
         [e EXCEPT !.contests[1].districtId = <<"county">>],
         [e EXCEPT !.contests[1].id = <<"R">>],
         [e EXCEPT !.contests[1].id = <<"d2">>],
         [e EXCEPT !.contests[2].id = <<"mayor", "option", "x">>],
         [e EXCEPT !.contests[2].seats = 0],
         [e EXCEPT !.contests[2].partyId = <<"G">>],
         [e EXCEPT !.contests[2].candidates = <<>>],
         [e EXCEPT !.contests[3] = MCMeasure("measure", "d2", MCOption("aye"), MCOption("nay"))],
         [e EXCEPT !.contests[3] = MCMeasure("measure", "d2", MCOption("aye"), MCOption("aye"))],
         mayor(<<MCCandidate("z", Undefined)>>),
         mayor(<<MCCandidate("x", Undefined), MCCandidate("x", Undefined)>>),
         mayor(<<MCCandidate("x", Undefined), MCWriteIn("0")>>),
         mayor(<<MCWriteIn("0"), MCWriteIn("1")>>),
         mayor(<<MCWriteIn("a")>>)}

MCLower == [word \in {"Hamilton", "State"} |-> IF word = "State" THEN "state" ELSE "hamilton"]

MCNumeral == [n \in 0 .. 2 |-> ToString(n)]
=============================================================================
