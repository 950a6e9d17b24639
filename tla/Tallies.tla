------------------------------- MODULE Tallies -------------------------------
(***************************************************************************)
(* The older way to tally (libs/utils/src/votes.ts, tallies.ts and         *)
(* compressed_tallies.ts): sets of records for each category, computed     *)
(* beforehand and intersected for a report, and tallies compressed to      *)
(* lists of numbers.                                                       *)
(***************************************************************************)
EXTENDS Tabulation

Categories == {"precinctId", "scannerId", "partyId", "votingMethod", "batchId"}

\* buildVoteFromCvr: write-ins are one option.
VoteFromCvr(cvr) ==
    [c \in DOMAIN cvr.votes |-> [i \in DOMAIN cvr.votes[c] |-> OptionOf(cvr.votes[c][i])]]

tallyVotesByContest(votes) ==
    [c \in ContestIds |->
        LET contest == ContestOf(c)
            seats == MaxSelectable(contest)
            cast == SelectSeq(votes, LAMBDA v : c \in DOMAIN v)
            selected == [i \in DOMAIN cast |-> cast[i][c]]
            valid == SelectSeq(selected, LAMBDA s : Len(s) <= seats)
            under == SelectSeq(selected, LAMBDA s : Len(s) < seats)
        IN  [ballots |-> Len(selected),
             overvotes |-> seats * (Len(selected) - Len(valid)),
             undervotes |-> FoldLeft(LAMBDA n, s : n + seats - Len(s), 0, under),
             tallies |-> [o \in Options(contest) |->
                FoldLeft(LAMBDA n, s : n + Len(SelectSeq(s, LAMBDA id : id = o)), 0, valid)]]]

calculateTallyForCastVoteRecords(cvrs) ==
    [castVoteRecords |-> Range(cvrs),
     numberOfBallotsCounted |-> Len(cvrs),
     contestTallies |-> tallyVotesByContest([i \in DOMAIN cvrs |-> VoteFromCvr(cvrs[i])])]

getEmptyTally ==
    [castVoteRecords |-> {}, numberOfBallotsCounted |-> 0, contestTallies |-> [c \in {} |-> 0]]

\* computeTallyWithPrecomputedCategories: a tally of every value that occurs
\* and, where the election names the values, of those that do not.
Initial(category) ==
    CASE category = "precinctId" -> Range(Election.precincts)
      [] category = "partyId" -> {s.partyId : s \in Range(Election.ballotStyles)} \ {""}
      [] category = "votingMethod" -> {"precinct", "absentee", "unknown"}
      [] OTHER -> {}

PrecomputedOf(cvrs, category) ==
    [value \in Initial(category) \cup ({cvr.of[category] : cvr \in Range(cvrs)} \ {""}) |->
        calculateTallyForCastVoteRecords(SelectSeq(cvrs, LAMBDA cvr : cvr.of[category] = value))]

TallyOf(cvrs, category, value) ==
    LET tallies == PrecomputedOf(cvrs, category) IN
    IF value \in DOMAIN tallies THEN tallies[value] ELSE getEmptyTally

\* filterTalliesByParams with all parties' contests: filters is a function
\* from some categories to the value asked for.
filterTalliesByParams(cvrs, filters) ==
    LET tallies == {TallyOf(cvrs, category, filters[category]) : category \in DOMAIN filters} IN
    IF DOMAIN filters = {} THEN calculateTallyForCastVoteRecords(cvrs)
    ELSE IF Cardinality(DOMAIN filters) = 1 THEN CHOOSE t \in tallies : TRUE
    ELSE calculateTallyForCastVoteRecords(
            SelectSeq(cvrs, LAMBDA cvr : \A t \in tallies : cvr \in t.castVoteRecords))

----------------------------------------------------------------------------

\* filterContestTalliesByParty: one party's contests, or the nonpartisan ones.
OfParty(contestTallies, party) ==
    [c \in {c \in DOMAIN contestTallies : ContestOf(c).partyId = party} |-> contestTallies[c]]

compressTally(contestTallies) ==
    [i \in DOMAIN Election.contests |->
        LET c == Election.contests[i]
            t == contestTallies[c.id]
            tally(o) == IF o \in DOMAIN t.tallies THEN t.tallies[o] ELSE 0
            counts == <<t.undervotes, t.overvotes, t.ballots>>
            options == [k \in DOMAIN c.candidates |-> tally(Official(c.candidates[k]))]
        IN  IF c.type = "yesno" THEN counts \o options
            ELSE counts \o options \o <<tally(Generic)>>]

\* getContestTalliesForCompressedContest: write-ins are the last number.
ReadContestTally(c, numbers) ==
    [undervotes |-> numbers[1], overvotes |-> numbers[2], ballots |-> numbers[3],
     tallies |-> [o \in Options(c) |->
        IF o = Generic THEN Last(numbers)
        ELSE numbers[3 + IndexOf(c.candidates, LAMBDA k : Official(k) = o)]]]

readCompressedTally(numbers, party) ==
    [c \in {c \in ContestIds : ContestOf(c).partyId = party} |->
        ReadContestTally(ContestOf(c),
            numbers[IndexOf(Election.contests, LAMBDA k : k.id = c)])]
=============================================================================
