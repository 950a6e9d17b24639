--------------------------- MODULE CastVoteRecords ---------------------------
(***************************************************************************)
(* Cast vote records in the common data format                             *)
(* (libs/backend/src/scan/cast_vote_records, libs/utils): one from the     *)
(* votes of a machine-marked ballot, one from the two pages of a           *)
(* hand-marked sheet.  Records keep what later code reads.                 *)
(***************************************************************************)
EXTENDS Elections

CONSTANT DefiniteMark       \* the threshold of a definite mark

toCdfBallotType(ballotType) == <<"precinct", "absentee", "provisional">>[ballotType + 1]

----------------------------------------------------------------------------
(* Votes of a page of marks: [contest, id, score], written-in lines have   *)
(* indexed ids.                                                            *)

Marked(mark) == mark.score >= DefiniteMark

convertMarksToVotesDict(marks) ==
    [c \in ContestIds |->
        LET made == SelectSeq(marks, LAMBDA mark : mark.contest = c /\ Marked(mark)) IN
        [i \in DOMAIN made |-> [id |-> made[i].id, name |-> <<>>]]]

----------------------------------------------------------------------------
(* Contests of a record.                                                   *)

IsWriteIn(choice) == choice.id[1] \in {"named", "write-in"}

WriteInCount(vote) == Len(Those(vote, IsWriteIn))

\* A machine's write-ins are numbered in the order they were made.
WriteInIndexed(vote) ==
    [i \in DOMAIN vote |->
        IF IsWriteIn(vote[i])
        THEN [vote[i] EXCEPT !.id = Indexed(WriteInCount(SubSeq(vote, 1, i - 1)))]
        ELSE vote[i]]

\* -1 where the code has undefined or throws.
getOptionPosition(c, id) ==
    CASE id[1] = "write-in" -> Len(c.candidates) + id[2]
      [] id \in Officials(c) -> IndexOf(c.candidates, LAMBDA k : Official(k) = id) - 1
      [] OTHER -> 0 - 1

\* The status of the selections: an overvoted contest has none that count,
\* a write-in waits for adjudication.
Allocable(c, vote, choice) ==
    IF Len(vote) > MaxSelectable(c) THEN "no"
    ELSE IF IsWriteIn(choice) THEN "unknown" ELSE "yes"

buildCVRContest(c, vote, mode) ==
    LET seats == MaxSelectable(c)
        indexed == IF mode = "machine" THEN WriteInIndexed(vote) ELSE vote
    IN  [contestId |-> c.id,
         overvotes |-> IF Len(vote) > seats THEN seats ELSE 0,
         undervotes |-> IF Len(vote) < seats THEN seats - Len(vote) ELSE 0,
         writeIns |-> WriteInCount(vote),
         selections |->
            [i \in DOMAIN vote |->
                [id |-> indexed[i].id,
                 position |-> getOptionPosition(c, indexed[i].id),
                 indication |-> TRUE,
                 allocable |-> Allocable(c, vote, vote[i]),
                 text |-> IF mode = "machine" THEN vote[i].name ELSE <<>>]]]

\* A contest without a vote is in the record too, as undervoted.
buildCVRContestsFromVotes(contests, votes, mode) ==
    [i \in DOMAIN contests |-> buildCVRContest(contests[i], votes[contests[i].id], mode)]

\* All marks, with an indication where the mark is definite.
buildOriginalSnapshot(marks) ==
    LET marked == SelectSeq(Election.contests, LAMBDA c : \E i \in DOMAIN marks : marks[i].contest = c.id) IN
    [n \in DOMAIN marked |->
        LET own == SelectSeq(marks, LAMBDA mark : mark.contest = marked[n].id) IN
        [contestId |-> marked[n].id,
         selections |-> [i \in DOMAIN own |->
            [id |-> own[i].id, position |-> getOptionPosition(marked[n], own[i].id),
             indication |-> Marked(own[i])]]]]

----------------------------------------------------------------------------
(* Sheets.                                                                 *)

\* getContestsForBallotPage: by the layout of the ballot style and precinct.
ContestsOfPage(page) ==
    SelectSeq(Election.contests, LAMBDA c :
        [style |-> page.style, precinct |-> page.precinct,
         back |-> page.number % 2 = 0, contest |-> c.id] \in Election.gridLayouts)

\* canonicalizeSheet: the pages in their order, or nothing.
canonicalizeSheet(front, back) ==
    IF front.style # back.style \/ front.precinct # back.precinct THEN <<>>
    ELSE IF front.number + 1 = back.number THEN <<front, back>>
    ELSE IF back.number + 1 = front.number THEN <<back, front>>
    ELSE <<>>

RecordOfBallot(style, precinct, batch, scanner, ballotType, card, current, snapshots) ==
    [style |-> style, party |-> getBallotStyle(style).partyId, precinct |-> precinct,
     batch |-> batch, scanner |-> scanner, ballotType |-> toCdfBallotType(ballotType),
     card |-> card, current |-> current, snapshots |-> snapshots]

\* buildCastVoteRecord of a machine-marked ballot: one snapshot, as marked.
MachineRecord(style, precinct, votes, batch, scanner, ballotType) ==
    RecordOfBallot(style, precinct, batch, scanner, ballotType,
        [type |-> "bmd", sheet |-> 0], "original",
        [original |-> buildCVRContestsFromVotes(getContests(getBallotStyle(style)), votes, "machine")])

\* buildCastVoteRecord of a hand-marked sheet: rules applied, and all marks.
HandRecord(pages, batch, scanner, ballotType) ==
    LET front == pages[1]  back == pages[2]
        Recorded(page) == buildCVRContestsFromVotes(
            ContestsOfPage(page), convertMarksToVotesDict(page.marks), "hand")
    IN  RecordOfBallot(front.style, front.precinct, batch, scanner, ballotType,
            [type |-> "hmpb", sheet |-> back.number \div 2], "modified",
            [modified |-> Recorded(front) \o Recorded(back),
             original |-> buildOriginalSnapshot(front.marks \o back.marks)])

getCurrentSnapshot(record) == record.snapshots[record.current]

\* convertCastVoteRecordVotesToTabulationVotes: ids of the indicated selections.
TabulationVotes(record) ==
    LET contests == getCurrentSnapshot(record) IN
    [c \in {contests[i].contestId : i \in DOMAIN contests} |->
        LET i == CHOOSE i \in DOMAIN contests : contests[i].contestId = c
            chosen == SelectSeq(contests[i].selections, LAMBDA s : s.indication)
        IN  [k \in DOMAIN chosen |-> chosen[k].id]]
=============================================================================
