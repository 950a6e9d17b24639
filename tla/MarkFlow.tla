------------------------------ MODULE MarkFlow ------------------------------
(***************************************************************************)
(* A voter marks a ballot (libs/mark-flow-ui: contest.tsx,                 *)
(* candidate_contest.tsx, yes_no_contest.tsx).  votes[c] is the list of    *)
(* choices of contest c, empty when the code has none or undefined; a      *)
(* dialog covers everything else on the screen.                            *)
(***************************************************************************)
EXTENDS Elections

CONSTANTS
    Keys,                           \* of the virtual keyboard, " " among them
    WRITE_IN_CANDIDATE_MAX_LENGTH

VARIABLES
    style, precinct,    \* of the voter's registration
    votes,
    dialog,             \* the dialog that is open, and its contest and option
    typed               \* writeInCandidateName

markVars == <<style, precinct, votes, dialog, typed>>

NoDialog == [kind |-> "none", contest |-> "none", id |-> Generic]
NoVotes == [c \in ContestIds |-> <<>>]

MarkInit ==
    /\ \E s \in Range(Election.ballotStyles) :
          style = s.id /\ precinct \in Range(s.precincts)
    /\ votes = NoVotes
    /\ dialog = NoDialog
    /\ typed = <<>>

----------------------------------------------------------------------------
(* Names: a sequence of characters.                                        *)

trimStart(s) ==
    LET letters == {i \in DOMAIN s : s[i] # " "} IN
    IF letters = {} THEN <<>>
    ELSE SubSeq(s, CHOOSE i \in letters : \A j \in letters : i <= j, Len(s))

trim(s) == Reverse(trimStart(Reverse(trimStart(s))))

\* replace(/\s+/g, ' ')
CollapseSpaces(s) ==
    FoldLeft(LAMBDA out, k :
        IF k = " " /\ out # <<>> /\ Last(out) = " " THEN out ELSE Append(out, k), <<>>, s)

normalizeCandidateName(name) == CollapseSpaces(trim(name))

\* camelCase tells names apart by their words.
Words(name) ==
    FoldLeft(LAMBDA words, k :
        IF k = " " THEN Append(words, <<>>)
        ELSE [words EXCEPT ![Len(words)] = Append(@, k)], << <<>> >>, name)

AfterKey(key) ==
    LET name == CollapseSpaces(trimStart(Append(typed, key))) IN
    SubSeq(name, 1, IF Len(name) < WRITE_IN_CANDIDATE_MAX_LENGTH
                    THEN Len(name) ELSE WRITE_IN_CANDIDATE_MAX_LENGTH)

----------------------------------------------------------------------------

Contest(c) == c \in Range(getContests(getBallotStyle(style)))

findCandidateById(vote, id) == \E i \in DOMAIN vote : vote[i].id = id

\* A slip to detect: a contest is full when it is overvoted.
HasReachedMaxLate(c) == Len(votes[c.id]) > MaxSelectable(c)

hasReachedMaxSelections(c) == Len(votes[c.id]) = MaxSelectable(c)

updateVote(c, vote) == votes' = [votes EXCEPT ![c.id] = vote]

removeCandidateFromVote(c, id) ==
    updateVote(c, Those(votes[c.id], LAMBDA choice : choice.id # id))

\* A press on a chosen option takes it back, a write-in after a question.
Unselect(c, id) ==
    /\ Contest(c) /\ dialog = NoDialog
    /\ findCandidateById(votes[c.id], id)
    /\ IF id[1] = "named"
       THEN dialog' = [kind |-> "remove", contest |-> c.id, id |-> id] /\ UNCHANGED votes
       ELSE removeCandidateFromVote(c, id) /\ UNCHANGED dialog
    /\ UNCHANGED <<style, precinct, typed>>

Select(c, id) ==
    /\ Contest(c) /\ dialog = NoDialog
    /\ id \in Officials(c)
    /\ ~findCandidateById(votes[c.id], id) /\ ~hasReachedMaxSelections(c)
    /\ updateVote(c, Append(votes[c.id], [id |-> id, name |-> <<>>]))
    /\ UNCHANGED <<style, precinct, dialog, typed>>

\* handleDisabledClick, handleDisabledAddWriteInClick: an alert, no vote.
PressDisabled(c, id) ==
    /\ Contest(c) /\ dialog = NoDialog
    /\ id \in Options(c)
    /\ ~findCandidateById(votes[c.id], id) /\ hasReachedMaxSelections(c)
    /\ dialog' = [kind |-> "alert", contest |-> c.id, id |-> id]
    /\ UNCHANGED <<style, precinct, votes, typed>>

closeAttemptedVoteAlert ==
    /\ dialog.kind = "alert"
    /\ dialog' = NoDialog
    /\ UNCHANGED <<style, precinct, votes, typed>>

\* All write-ins of one id go: two of the same words share it.
confirmRemovePendingWriteInCandidate ==
    /\ dialog.kind = "remove"
    /\ removeCandidateFromVote(ContestOf(dialog.contest), dialog.id)
    /\ dialog' = NoDialog
    /\ UNCHANGED <<style, precinct, typed>>

clearCandidateIdPendingRemoval ==
    /\ dialog.kind = "remove"
    /\ dialog' = NoDialog
    /\ UNCHANGED <<style, precinct, votes, typed>>

initWriteInCandidate(c) ==
    /\ Contest(c) /\ dialog = NoDialog
    /\ c.allowWriteIns /\ ~hasReachedMaxSelections(c)
    /\ dialog' = [kind |-> "write-in", contest |-> c.id, id |-> Generic]
    /\ UNCHANGED <<style, precinct, votes, typed>>

onKeyboardInput(key) ==
    /\ dialog.kind = "write-in"
    /\ Len(typed) # WRITE_IN_CANDIDATE_MAX_LENGTH       \* keyDisabled
    /\ typed' = AfterKey(key)
    /\ UNCHANGED <<style, precinct, votes, dialog>>

onKeyboardBackspace ==
    /\ dialog.kind = "write-in"
    /\ typed' = IF typed = <<>> THEN typed ELSE Front(typed)
    /\ UNCHANGED <<style, precinct, votes, dialog>>

addWriteInCandidate ==
    LET c == ContestOf(dialog.contest)
        name == normalizeCandidateName(typed)
    IN  /\ dialog.kind = "write-in" /\ name # <<>>
        /\ updateVote(c, Append(votes[c.id], [id |-> Named(Words(name)), name |-> name]))
        /\ dialog' = NoDialog
        /\ typed' = <<>>
        /\ UNCHANGED <<style, precinct>>

cancelWriteInCandidateModal ==
    /\ dialog.kind = "write-in"
    /\ dialog' = NoDialog
    /\ typed' = <<>>
    /\ UNCHANGED <<style, precinct, votes>>

Mark ==
    \/ \E c \in Range(Election.contests) :
          \/ \E choice \in Range(votes[c.id]) : Unselect(c, choice.id)
          \/ \E id \in Options(c) : Select(c, id) \/ PressDisabled(c, id)
          \/ initWriteInCandidate(c)
    \/ closeAttemptedVoteAlert
    \/ confirmRemovePendingWriteInCandidate
    \/ clearCandidateIdPendingRemoval
    \/ \E key \in Keys : onKeyboardInput(key)
    \/ onKeyboardBackspace \/ addWriteInCandidate \/ cancelWriteInCandidateModal
=============================================================================
