------------------------------- MODULE Ballots -------------------------------
(***************************************************************************)
(* A ballot from its marking to the results: a voter marks and prints it,  *)
(* the terminal keeps its record, scanners make records of hand-marked     *)
(* sheets and of the printed paper, and the records are tallied.           *)
(***************************************************************************)
EXTENDS MarkFlow, BallotEncoder, Tallies

CONSTANTS
    Pages,          \* the hand-marked pages a scanner may see
    MaxRecords, MaxAfterVoter,  \* bounds on records, without and with a voter's
    GroupBys        \* the groupings a report asks for

\* The keys of the screen are characters of a written name (virtual_keyboard.tsx,
\* WriteInEncoding), and no name is longer than the paper's.
NamesAssumption ==
    /\ Keys \subseteq Range(WriteInChars)
    /\ WRITE_IN_CANDIDATE_MAX_LENGTH \in 1 .. MAXIMUM_WRITE_IN_LENGTH
ASSUME NamesAssumption

VARIABLES
    booth,          \* "idle", "marking", "voted"
    paper,          \* the bits on the printed ballot, <<>> when it cannot be printed
    records         \* cast vote records, in the order they were made

ballotsVars == <<markVars, booth, paper, records>>

BallotsInit ==
    /\ MarkInit
    /\ booth = "idle"
    /\ paper = <<>>
    /\ records = <<>>

\* The bound: the voter of a behaviour comes before its scans, or not at all.
StartMarking ==
    /\ booth = "idle" /\ records = <<>>
    /\ booth' = "marking"
    /\ UNCHANGED <<markVars, paper, records>>

MarkStep == booth = "marking" /\ Mark /\ UNCHANGED <<booth, paper, records>>

\* The ballot is printed (BmdPaperBallot) and then saved (saveVotes).
PrintAndSave ==
    /\ booth = "marking" /\ dialog = NoDialog
    /\ booth' = "voted"
    /\ paper' = IF CanEncode(getBallotStyle(style), votes)
                THEN encodeBallot(style, precinct, votes, TRUE, Standard) ELSE <<>>
    /\ records' = <<MachineRecord(style, precinct, votes, "", "terminal", Absentee)>>
    /\ UNCHANGED markVars

RoomForRecord == Len(records) < IF booth = "voted" THEN MaxAfterVoter ELSE MaxRecords

\* The paper goes through a scanner, either side up.
ScanPaper ==
    /\ paper # <<>> /\ RoomForRecord
    /\ LET read == decodeBallot(paper) IN
       /\ read.ok
       /\ records' = Append(records,
            MachineRecord(read.style, read.precinct, read.votes, "batch", "scanner", read.ballotType))
    /\ UNCHANGED <<markVars, booth, paper>>

ScanSheet ==
    /\ booth # "marking" /\ RoomForRecord
    /\ \E front, back \in Pages :
          LET pages == canonicalizeSheet(front, back) IN
          /\ pages # <<>>
          /\ records' = Append(records, HandRecord(pages, "batch", "scanner", Standard))
    /\ UNCHANGED <<markVars, booth, paper>>

BallotsNext == StartMarking \/ MarkStep \/ PrintAndSave \/ ScanPaper \/ ScanSheet

----------------------------------------------------------------------------
(* Properties.                                                             *)

OfficialsIn(choices) == {choices[i].id : i \in DOMAIN choices} \cap {Official(o) : o \in
    UNION {Range(c.candidates) : c \in Range(Election.contests)}}

NamesIn(choices) == LET writeIns == WriteIns(choices) IN [i \in DOMAIN writeIns |-> writeIns[i].name]

TextsIn(selections) ==
    LET writeIns == Those(selections, LAMBDA s : s.id[1] = "write-in") IN
    [i \in DOMAIN writeIns |-> writeIns[i].text]

\* What a scanner reads from the printed ballot is what the terminal recorded
\* and what the voter chose: the same contests, in each the same candidates
\* and the same written names in the same order, and no overvote.
PaperSaysTheRecord ==
    booth = "voted" =>
        LET read == decodeBallot(paper)
            record == records[1]
            contests == getCurrentSnapshot(record)
        IN  /\ paper # <<>>
            /\ read.ok /\ read.style = record.style /\ read.precinct = record.precinct
            /\ {contests[i].contestId : i \in DOMAIN contests}
                   = {c.id : c \in Range(getContests(getBallotStyle(style)))}
            /\ \A i \in DOMAIN contests :
                  LET c == contests[i].contestId  selections == contests[i].selections IN
                  /\ OfficialsIn(read.votes[c]) = OfficialsIn(votes[c])
                  /\ OfficialsIn(selections) = OfficialsIn(votes[c])
                  /\ NamesIn(read.votes[c]) = NamesIn(votes[c])
                  /\ TextsIn(selections) = NamesIn(votes[c])
                  /\ contests[i].overvotes = 0
                  /\ \A s \in Range(selections) : s.position >= 0

Cast == [i \in DOMAIN records |-> ForTabulation(records[i], i)]

Sum(F(_), s) == FoldLeft(LAMBDA n, x : n + F(x), 0, s)

\* Every vote of every ballot is counted, lost to an overvote, or not cast,
\* and the counts on the records are the counts of the results.
VotesAddUp(total, c) ==
    LET contests == FlattenSeq([i \in DOMAIN records |->
            SelectSeq(getCurrentSnapshot(records[i]), LAMBDA k : k.contestId = c.id)])
        r == total.contestResults[c.id]
    IN  /\ FoldSet(LAMBDA o, n : r.tallies[o] + n, r.overvotes + r.undervotes, Options(c))
               = MaxSelectable(c) * r.ballots
        /\ r.ballots = Len(contests)
        /\ r.overvotes = Sum(LAMBDA k : k.overvotes, contests)
        /\ r.undervotes = Sum(LAMBDA k : k.undervotes, contests)

\* The groups of a report, put together, are the whole, each group is what
\* the older tallies find for it, and its report has every contest voted in.
GroupsAgree(cvrs, total, groupBy) ==
    LET groups == tabulateCastVoteRecords(cvrs, groupBy)
        keys == SetToSeq(DOMAIN groups)
        whole == combineElectionResults([i \in DOMAIN keys |-> groups[keys[i]]])
    IN  /\ mergeWriteInTallies(whole) = mergeWriteInTallies(total)
        /\ \A key \in DOMAIN groups :
              LET group == groups[key].contestResults IN
              /\ {c \in ContestIds : group[c].ballots > 0} \subseteq getRelevantContests(key)
              /\ groupBy \subseteq Categories /\ "" \notin Range(key) =>
                    LET old == filterTalliesByParams(cvrs, key) IN
                    /\ old.contestTallies = group
                    /\ old.numberOfBallotsCounted = getBallotCount(groups[key].cardCounts)

\* A ballot that is counted by hand instead, in the group it is of, changes
\* nothing, whether the hand counts are added to each group or to the whole.
ManualAgrees(cvrs, total, groupBy) ==
    LET groups == tabulateCastVoteRecords(cvrs, groupBy)
        scanned == tabulateCastVoteRecords(Front(cvrs), groupBy)
        byHand == tabulateCastVoteRecords(<<Last(cvrs)>>, groupBy)
        manual == [key \in DOMAIN byHand |->
            combineManualElectionResults(
                <<[ballotCount |-> 1, contestResults |-> byHand[key].contestResults]>>)]
        both == mergeTabulationGroupMaps(scanned,
            [key \in DOMAIN manual |-> convertManualElectionResults(manual[key])])
        merged == [key \in DOMAIN both |-> combineElectionResults(both[key])]
        Same(left, right) ==
            /\ mergeWriteInTallies(left).contestResults = mergeWriteInTallies(right).contestResults
            /\ getBallotCount(left.cardCounts) = getBallotCount(right.cardCounts)
        keys == SetToSeq(DOMAIN merged)
    IN  /\ DOMAIN merged = DOMAIN groups
        /\ \A key \in DOMAIN groups : Same(merged[key], groups[key])
        /\ Same(combineElectionResults([i \in DOMAIN keys |-> merged[keys[i]]]), total)

\* A tally survives its compression, party by party.
CompressionAgrees(cvrs) ==
    LET tallies == calculateTallyForCastVoteRecords(cvrs).contestTallies
        compressed == compressTally(tallies)
    IN  \A party \in getPartyIdsWithContests :
            readCompressedTally(compressed, party) = OfParty(tallies, party)

\* The results of a set of ballots do not depend on the way they are tallied:
\* every vote is accounted for, the records' own counts and the groups of
\* every report sum to the whole, with a ballot counted by hand or not, and the
\* older tallies say the same.
TalliesAgree ==
    records # <<>> =>
        LET cvrs == Cast
            total == tabulateCastVoteRecords(cvrs, {})[<<>>]
        IN  /\ \A c \in Range(Election.contests) : VotesAddUp(total, c)
            /\ CompressionAgrees(cvrs)
            /\ \A groupBy \in GroupBys :
                  GroupsAgree(cvrs, total, groupBy) /\ ManualAgrees(cvrs, total, groupBy)
            /\ getBallotCount(total.cardCounts) = Len(records)
            /\ getSheetCount(total.cardCounts) = Len(records)
=============================================================================
