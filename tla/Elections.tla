----------------------------- MODULE Elections -----------------------------
(***************************************************************************)
(* An election as the libraries read it (libs/types): its contests, ballot *)
(* styles and precincts, in the order of the definition.  A yes/no contest *)
(* lists its two options as candidates.  The id of an option is a pair of  *)
(* its kind and the rest of it.                                            *)
(***************************************************************************)
EXTENDS Lists

CONSTANT Election       \* precincts, ballotStyles, contests, gridLayouts, hash

\* What the schemas ask of an election (ContestsSchema, CandidateContestSchema,
\* ElectionSchema): ids are of one contest, and one candidate of a contest, and
\* the precincts of a ballot style are precincts of the election.
ElectionAssumption ==
    /\ Election.precincts \in Seq(Range(Election.precincts))
    /\ Election.ballotStyles \in Seq(Range(Election.ballotStyles))
    /\ Election.contests \in Seq(Range(Election.contests))
    /\ \A i, j \in DOMAIN Election.contests :
          Election.contests[i].id = Election.contests[j].id => i = j
    /\ \A s \in Range(Election.ballotStyles) : Range(s.precincts) \subseteq Range(Election.precincts)
    /\ \A c \in Range(Election.contests) :
          /\ c.candidates \in Seq(Range(c.candidates)) /\ IsInjective(c.candidates)
          /\ IF c.type = "yesno" THEN c.candidates = <<"yes", "no">> /\ ~c.allowWriteIns
             ELSE c.seats \in Nat \ {0}
ASSUME ElectionAssumption

ContestIds == {c.id : c \in Range(Election.contests)}
ContestOf(id) == CHOOSE c \in Range(Election.contests) : c.id = id

getBallotStyle(id) == CHOOSE s \in Range(Election.ballotStyles) : s.id = id

\* The contests on the ballots of a style, in the election's order.
getContests(style) ==
    Those(Election.contests, LAMBDA c :
        /\ c.districtId \in style.districts
        /\ c.partyId \in {"", style.partyId})

getPartyIdsWithContests == {c.partyId : c \in Range(Election.contests)}

MaxSelectable(c) == IF c.type = "yesno" THEN 1 ELSE c.seats

Official(candidate) == <<"candidate", candidate>>
Named(words) == <<"named", words>>          \* write-in-<a name>
Indexed(i) == <<"write-in", i>>             \* write-in-<i>
Generic == <<"generic", 0>>                 \* writeInCandidate.id

Officials(c) == {Official(candidate) : candidate \in Range(c.candidates)}

\* Every option a contest's results can count.
Options(c) == Officials(c) \cup IF c.allowWriteIns THEN {Generic} ELSE {}

IndexOf(s, Test(_)) == CHOOSE i \in DOMAIN s : Test(s[i]) /\ \A j \in 1 .. i - 1 : ~Test(s[j])

\* votes of contests that are not in an election's ballot style are refused.
validateVotes(style, votes) ==
    \A c \in DOMAIN votes : votes[c] # <<>> => \E k \in Range(getContests(style)) : k.id = c
=============================================================================
