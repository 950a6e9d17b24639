----------------------------- MODULE Tabulation -----------------------------
(***************************************************************************)
(* Results of cast vote records (libs/utils/src/tabulation.ts).  A record  *)
(* here is what is tabulated: its attributes, card, and votes[c], the ids  *)
(* chosen in each contest it has.  Results have, for each contest, counts  *)
(* and a tally for each option.                                            *)
(***************************************************************************)
EXTENDS CastVoteRecords, FiniteSetsExt

GROUP_KEY_PART_TYPES ==
    {"ballotStyleId", "batchId", "partyId", "precinctId", "scannerId", "votingMethod"}

\* Records are told apart by their UniqueId, not by their contents.
ForTabulation(record, id) ==
    [id |-> id, votes |-> TabulationVotes(record), card |-> record.card,
     of |-> [ballotStyleId |-> record.style, batchId |-> record.batch,
             partyId |-> getBallotStyle(record.style).partyId,
             precinctId |-> record.precinct, scannerId |-> record.scanner,
             votingMethod |-> record.ballotType]]

----------------------------------------------------------------------------
(* Empty results.                                                          *)

Empty(options) == [ballots |-> 0, overvotes |-> 0, undervotes |-> 0,
                   tallies |-> [o \in options |-> 0]]

getEmptyCardCounts == [bmd |-> 0, hmpb |-> <<>>, manual |-> 0]

getEmptyElectionResults ==
    [cardCounts |-> getEmptyCardCounts,
     contestResults |-> [c \in ContestIds |-> Empty(Options(ContestOf(c)))]]

----------------------------------------------------------------------------
(* Adding one record.                                                      *)

\* A slip to detect: an overvoted contest counts its votes too.
CountedOfOvervoted(c, ids) == ids

\* The votes that count: none of an overvoted contest.
Counted(c, ids) == IF Len(ids) > MaxSelectable(c) THEN <<>> ELSE ids

OptionOf(id) == IF id[1] = "write-in" THEN Generic ELSE id

AddVotes(c, results, ids) ==
    LET seats == MaxSelectable(c)
        counted == Counted(c, ids)
    IN  [ballots |-> results.ballots + 1,
         overvotes |-> results.overvotes + IF Len(ids) > seats THEN seats ELSE 0,
         undervotes |-> results.undervotes + IF Len(ids) < seats THEN seats - Len(ids) ELSE 0,
         tallies |-> [o \in DOMAIN results.tallies |->
            results.tallies[o] + Len(SelectSeq(counted, LAMBDA id : OptionOf(id) = o))]]

At(s, i) == IF i \in DOMAIN s THEN s[i] ELSE 0
AddSheet(hmpb, n, count) ==
    [i \in 1 .. (IF n > Len(hmpb) THEN n ELSE Len(hmpb)) |-> At(hmpb, i) + IF i = n THEN count ELSE 0]

addCastVoteRecordToElectionResult(results, cvr) ==
    [cardCounts |->
        IF cvr.card.type = "bmd" THEN [results.cardCounts EXCEPT !.bmd = @ + 1]
        ELSE [results.cardCounts EXCEPT !.hmpb = AddSheet(@, cvr.card.sheet, 1)],
     contestResults |-> [c \in ContestIds |->
        IF c \in DOMAIN cvr.votes
        THEN AddVotes(ContestOf(c), results.contestResults[c], cvr.votes[c])
        ELSE results.contestResults[c]]]

----------------------------------------------------------------------------
(* Groups.  A group's key names its values: the key's text is not modelled. *)

getGroupKey(cvr, groupBy) == [g \in groupBy |-> cvr.of[g]]

\* tabulateCastVoteRecords; with no grouping there is one group, even of none.
tabulateCastVoteRecords(cvrs, groupBy) ==
    LET keys == IF groupBy = {} THEN {[g \in {} |-> 0]}
                ELSE {getGroupKey(cvr, groupBy) : cvr \in Range(cvrs)}
    IN  [key \in keys |->
            FoldLeft(addCastVoteRecordToElectionResult, getEmptyElectionResults,
                     SelectSeq(cvrs, LAMBDA cvr : getGroupKey(cvr, groupBy) = key))]

getBallotCount(counts) == counts.bmd + At(counts.hmpb, 1) + counts.manual

getSheetCount(counts) == counts.bmd + FoldLeft(+, 0, counts.hmpb)

----------------------------------------------------------------------------
(* Combining results.                                                      *)

\* All official candidates, and the write-ins that one of the two has.
combineContestResults(left, right) ==
    [ballots |-> left.ballots + right.ballots,
     overvotes |-> left.overvotes + right.overvotes,
     undervotes |-> left.undervotes + right.undervotes,
     tallies |-> [o \in DOMAIN left.tallies \cup DOMAIN right.tallies |->
        (IF o \in DOMAIN left.tallies THEN left.tallies[o] ELSE 0)
        + IF o \in DOMAIN right.tallies THEN right.tallies[o] ELSE 0]]

combineCardCounts(left, right) ==
    [bmd |-> left.bmd + right.bmd, manual |-> left.manual + right.manual,
     hmpb |-> [i \in 1 .. (IF Len(left.hmpb) > Len(right.hmpb) THEN Len(left.hmpb) ELSE Len(right.hmpb)) |->
        At(left.hmpb, i) + At(right.hmpb, i)]]

combineElectionContestResults(all) ==
    FoldLeft(LAMBDA sum, results :
                [c \in ContestIds |-> combineContestResults(sum[c], results[c])],
             [c \in ContestIds |-> Empty(Officials(ContestOf(c)))], all)

combineElectionResults(all) ==
    [cardCounts |-> FoldLeft(LAMBDA sum, results : combineCardCounts(sum, results.cardCounts),
                             getEmptyCardCounts, all),
     contestResults |-> combineElectionContestResults([i \in DOMAIN all |-> all[i].contestResults])]

\* Results that were entered by hand have a count of ballots, not of cards.
combineManualElectionResults(all) ==
    [ballotCount |-> FoldLeft(LAMBDA n, results : n + results.ballotCount, 0, all),
     contestResults |-> combineElectionContestResults([i \in DOMAIN all |-> all[i].contestResults])]

convertManualElectionResults(manual) ==
    [cardCounts |-> [getEmptyCardCounts EXCEPT !.manual = manual.ballotCount],
     contestResults |-> manual.contestResults]

\* What the merge function of the caller is given for each group: the results
\* that either map has, one or two.
mergeTabulationGroupMaps(left, right) ==
    [key \in DOMAIN left \cup DOMAIN right |->
        (IF key \in DOMAIN left THEN <<left[key]>> ELSE <<>>)
            \o IF key \in DOMAIN right THEN <<right[key]>> ELSE <<>>]

\* Tallies of named write-ins become one, which is left out when it is zero.
mergeWriteInTallies(results) ==
    [results EXCEPT !.contestResults = [c \in ContestIds |->
        LET tallies == results.contestResults[c].tallies
            writeIns == DOMAIN tallies \ Officials(ContestOf(c))
            total == FoldSet(LAMBDA o, sum : tallies[o] + sum, 0, writeIns)
        IN  [results.contestResults[c] EXCEPT !.tallies =
                [o \in (DOMAIN tallies \ writeIns) \cup (IF total > 0 THEN {Generic} ELSE {}) |->
                    IF o = Generic THEN total ELSE tallies[o]]]]]

----------------------------------------------------------------------------
(* The contests a report of a group has.                                   *)

\* getRelevantContests, of the filter a group's key is.
getRelevantContests(key) ==
    LET asked == DOMAIN key \cap {"ballotStyleId", "partyId", "precinctId"}
        styles == {s \in Range(Election.ballotStyles) :
                      /\ "ballotStyleId" \in asked => s.id = key.ballotStyleId
                      /\ "partyId" \in asked => s.partyId = key.partyId
                      /\ "precinctId" \in asked => key.precinctId \in Range(s.precincts)}
    IN  IF asked = {} THEN ContestIds
        ELSE {c.id : c \in {c \in Range(Election.contests) :
                \E s \in styles : /\ c.districtId \in s.districts
                                  /\ c.partyId \in {"", s.partyId}}}
=============================================================================
