--------------------------- MODULE VotingScreens ---------------------------
(***************************************************************************)
(* apps/rave-mark/frontend: the screens of one terminal, react-query's     *)
(* cache under them and the calls they make, with mark-flow-ui's PrintPage *)
(* and the handlers of apps/rave-mark/backend/src/app.ts behind them.      *)
(*                                                                         *)
(* Votes are abstracted to the voters who made them.  The cache outlives a *)
(* voter; component state does not outlive its component.  How a card logs *)
(* its voter in is in InsertedSmartCardAuth; here a voter is in or not.    *)
(* Exchanging two cards and entering a PIN takes longer than the 10 ms     *)
(* poll of watchAuthStatus and than the answer of a query.                 *)
(***************************************************************************)
EXTENDS Integers, FiniteSets

CONSTANTS
    Voters,
    Admins,       \* those the backend takes for administrators
    Registered,   \* those a sync has registered before
    Contests,     \* how many contests each voter's ballot style has
    None,
    MaxLogins,    \* bound on the number of times a voter logs in
    Jobs          \* bound: the numbers of the ballots that are printed

ASSUME ScreensAssumption ==
    /\ None \notin Voters /\ Registered \subseteq Voters /\ Admins \subseteq Voters
    /\ Contests \in [Voters -> Nat]
    /\ MaxLogins \in Nat /\ Jobs \subseteq Nat \ {0}

VARIABLES
    auth,      \* the voter the backend holds for logged in
    logins,
    requests,  \* the voters with a registration request on the terminal
    registrations, \* those with a registration
    ballots,   \* the ballot of each voter: whose votes, and how it was saved
    ui,        \* the mounted components' state and the cache they show
    fetch,     \* the queries in flight
    filing,    \* the call of createVoterRegistration in flight
    jobs       \* each print, its timer and its call of saveVotes

backendVars == <<auth, logins, requests, registrations, ballots>>
screenVars == <<ui, fetch, filing, jobs>>

Queries == {"voterStatus", "election"}

\* cache: an answer is kept as the voter it is about and what it says.
NoScreens ==
    [shown |-> None, cache |-> [q \in Queries |-> None], voterFlow |-> FALSE,
     index |-> -1, votes |-> {}, job |-> 0, broken |-> FALSE]

\* A query that is not in flight, and one that is.
NotAsked == [at |-> "idle", answer |-> None]
Sent == [at |-> "sent", answer |-> None]

NoJob == [stage |-> "none", votes |-> {}, by |-> None, orphan |-> FALSE, sentAs |-> None]

ScreensInit ==
    /\ auth = None /\ logins = 0
    /\ requests = Registered /\ registrations = Registered
    /\ ballots = [v \in Voters |-> None]
    /\ ui = NoScreens
    /\ fetch = [q \in Queries |-> NotAsked]
    /\ filing = "idle"
    /\ jobs = [n \in Jobs |-> NoJob]

----------------------------------------------------------------------------
(* What the backend answers.                                               *)

VoterStatusOf(v) ==
    IF v \in registrations THEN IF ballots[v] # None THEN "voted" ELSE "registered"
    ELSE IF v \in requests THEN "registration_pending" ELSE "unregistered"

\* undefined, which the queries turn into null, for anyone not logged in.
AnswerTo(q) ==
    IF auth = None THEN None
    ELSE IF q = "voterStatus"
    THEN [owner |-> auth, says |-> VoterStatusOf(auth), isRaveAdmin |-> auth \in Admins]
    ELSE IF auth \in registrations
    THEN [owner |-> auth, contests |-> Contests[auth]] ELSE None

----------------------------------------------------------------------------
(* The tree of components.                                                 *)

InVoterFlow(u) ==
    /\ u.shown # None /\ ~u.broken /\ u.cache["voterStatus"] # None
    /\ u.cache["voterStatus"].isRaveAdmin => u.voterFlow

Voting(u) == InVoterFlow(u) /\ u.cache["voterStatus"].says = "registered"

Mounted(u) ==
    {c \in {"LoggedInScreen", "AdminFlowScreen", "VoterFlowScreen", "StartScreen", "MarkScreen"} :
        CASE c = "LoggedInScreen" -> u.shown # None /\ ~u.broken
          [] c = "AdminFlowScreen" -> /\ u.shown # None /\ ~u.broken
                                      /\ u.cache["voterStatus"] # None
                                      /\ u.cache["voterStatus"].isRaveAdmin
          [] c = "VoterFlowScreen" -> InVoterFlow(u)
          [] c = "StartScreen" -> Voting(u) /\ u.index < 0
          [] c = "MarkScreen" -> Voting(u) /\ u.index >= 0}

QueriesOf(components) ==
    {q \in Queries : \/ q = "voterStatus" /\ components \cap {"LoggedInScreen", "VoterFlowScreen"} # {}
                     \/ q = "election" /\ components \cap {"StartScreen", "MarkScreen"} # {}}

\* A slip to detect: the timer goes on.
KeepTimer(gone, js) == js

\* A component that goes away takes its state along, MarkScreen its timer too.
ClearTimer(gone, js) ==
    IF "MarkScreen" \in gone /\ ui.job # 0 /\ js[ui.job].stage = "timer"
    THEN [js EXCEPT ![ui.job].stage = "cleared"] ELSE js

\* A slip to detect: what is cached is taken to be fresh.
TrustCache(new, f) ==
    [q \in Queries |-> IF q \in QueriesOf(new) /\ f[q].at = "idle" /\ ui.cache[q] = None
                       THEN Sent ELSE f[q]]

\* A component that mounts asks again for what it shows, for its queries are
\* stale at once; a query that is in flight already is not sent twice.
Refetch(new, f) ==
    [q \in Queries |-> IF q \in QueriesOf(new) /\ f[q].at = "idle" THEN Sent ELSE f[q]]

\* The components are rendered from u, with queries f and prints js.
Render(u, f, js) ==
    LET gone == Mounted(ui) \ Mounted(u)
        new == Mounted(u) \ Mounted(ui)
    IN /\ ui' = [u EXCEPT
             !.voterFlow = IF "AdminFlowScreen" \in gone THEN FALSE ELSE @,
             !.index = IF "VoterFlowScreen" \in gone THEN -1 ELSE @,
             !.votes = IF "VoterFlowScreen" \in gone THEN {} ELSE @,
             !.job = IF "MarkScreen" \in gone THEN 0 ELSE @]
       /\ fetch' = Refetch(new, f)
       /\ jobs' = ClearTimer(gone, js)

----------------------------------------------------------------------------
(* Authentication and a sync, from outside.                                *)

LogIn(v) ==
    /\ auth = None /\ ui.shown = None /\ logins < MaxLogins /\ filing = "idle"
    /\ \A q \in Queries : fetch[q].at = "idle"
    /\ auth' = v /\ logins' = logins + 1
    /\ UNCHANGED <<requests, registrations, ballots, screenVars>>

LogOut ==
    /\ auth # None
    /\ auth' = None
    /\ UNCHANGED <<logins, requests, registrations, ballots, screenVars>>

SyncRegisters(v) ==
    /\ v \in requests \ registrations
    /\ registrations' = registrations \cup {v}
    /\ UNCHANGED <<auth, logins, requests, ballots, screenVars>>

\* The event stream tells the browser of a new status.
WatchAuthStatus ==
    /\ ui.shown # auth
    /\ Render([ui EXCEPT !.shown = auth], fetch, jobs)
    /\ UNCHANGED <<backendVars, filing>>

----------------------------------------------------------------------------
(* Queries.                                                                *)

HandleQuery(q) ==
    /\ fetch[q].at = "sent"
    /\ fetch' = [fetch EXCEPT ![q] = [at |-> "answered", answer |-> AnswerTo(q)]]
    /\ UNCHANGED <<backendVars, ui, filing, jobs>>

Answered(q) ==
    /\ fetch[q].at = "answered"
    /\ Render([ui EXCEPT !.cache[q] = fetch[q].answer], [fetch EXCEPT ![q] = NotAsked], jobs)
    /\ UNCHANGED <<backendVars, filing>>

\* shouldRetry has given up: the error is thrown where the query is used.
QueryFails(q) ==
    /\ fetch[q].at = "sent"
    /\ Render([ui EXCEPT !.broken = q \in QueriesOf(Mounted(ui)) \/ @],
              [fetch EXCEPT ![q] = NotAsked], jobs)
    /\ UNCHANGED <<backendVars, filing>>

\* What is used is asked for again, be it under way or not.
InvalidateQueries(f) ==
    [q \in Queries |-> IF q \in QueriesOf(Mounted(ui)) THEN Sent ELSE f[q]]

----------------------------------------------------------------------------
(* What a voter does.  People wait until the screen they use has settled.  *)

Idle == \A q \in Queries : fetch[q].at = "idle"

HasElection == ui.cache["election"] # None

Printing == ui.job # 0

Choose(u) ==
    /\ Idle
    /\ Render(u, fetch, jobs)
    /\ UNCHANGED <<backendVars, filing>>

ShowVoterFlow ==
    /\ "AdminFlowScreen" \in Mounted(ui) /\ ~ui.voterFlow
    /\ Choose([ui EXCEPT !.voterFlow = TRUE])

OnStartVoting ==
    /\ "StartScreen" \in Mounted(ui) /\ HasElection
    /\ Choose([ui EXCEPT !.index = 0])

OnContest == "MarkScreen" \in Mounted(ui) /\ HasElection /\ ~Printing
             /\ ui.index < ui.cache["election"].contests

UpdateVote == OnContest /\ Choose([ui EXCEPT !.votes = @ \cup {ui.shown}])

GoPrevious == OnContest /\ Choose([ui EXCEPT !.index = @ - 1])

GoNext == OnContest /\ Choose([ui EXCEPT !.index = @ + 1])

OnReview == "MarkScreen" \in Mounted(ui) /\ HasElection /\ ~Printing
            /\ ui.index = ui.cache["election"].contests

GoToIndex ==
    /\ OnReview
    /\ \E i \in 0 .. ui.cache["election"].contests - 1 : Choose([ui EXCEPT !.index = i])

PrintBallot ==
    /\ OnReview /\ Idle
    /\ \E n \in Jobs :
         /\ jobs[n].stage = "none" /\ \A m \in Jobs : m < n => jobs[m].stage # "none"
         /\ Render([ui EXCEPT !.job = n], fetch,
                   [jobs EXCEPT ![n] = [@ EXCEPT !.stage = "printing", !.votes = ui.votes,
                                                 !.by = ui.shown]])
    /\ UNCHANGED <<backendVars, filing>>

Registering == InVoterFlow(ui) /\ ui.cache["voterStatus"].says = "unregistered"

OnSubmit ==
    /\ Registering
    /\ Idle /\ filing = "idle"
    /\ filing' = "sent"
    /\ UNCHANGED <<backendVars, ui, fetch, jobs>>

----------------------------------------------------------------------------
(* createVoterRegistration.                                                *)

CreateVoterRegistration ==
    /\ filing = "sent"
    /\ IF auth = None THEN filing' = "refused" /\ UNCHANGED requests
       ELSE filing' = "stored" /\ requests' = requests \cup {auth}
    /\ UNCHANGED <<auth, logins, registrations, ballots, ui, fetch, jobs>>

RegistrationAnswered ==
    \/ /\ filing = "stored"
       /\ fetch' = InvalidateQueries(fetch)
       /\ UNCHANGED <<ui, jobs>> /\ filing' = "idle" /\ UNCHANGED backendVars
    \/ /\ filing = "refused"
       /\ Render([ui EXCEPT !.broken = @ \/ Registering], fetch, jobs)
       /\ filing' = "idle" /\ UNCHANGED backendVars

----------------------------------------------------------------------------
(* PrintPage, the timer it leaves to MarkScreen, and saveVotes.            *)

SetJob(n, job) ==
    /\ jobs' = [jobs EXCEPT ![n] = job]
    /\ UNCHANGED <<backendVars, ui, fetch, filing>>

\* The page goes on printing when its screen is gone, and sets the timer then.
PrintStarted(n) ==
    /\ jobs[n].stage = "printing"
    /\ SetJob(n, [jobs[n] EXCEPT !.stage = "timer", !.orphan = ui.job # n])

PrintFails(n) ==
    /\ jobs[n].stage = "printing"
    /\ SetJob(n, [jobs[n] EXCEPT !.stage = "failed"])

SaveVotes(n) ==
    /\ jobs[n].stage = "timer"
    /\ SetJob(n, [jobs[n] EXCEPT !.stage = "sent", !.sentAs = auth])

\* The voter logged in now gets the ballot; a second one breaks the schema.
HandleSaveVotes(n) ==
    /\ jobs[n].stage = "sent"
    /\ IF auth \in registrations /\ ballots[auth] = None
       THEN /\ ballots' = [ballots EXCEPT ![auth] =
                   [votes |-> jobs[n].votes,
                    late |-> jobs[n].orphan \/ jobs[n].sentAs # auth]]
            /\ jobs' = [jobs EXCEPT ![n].stage = "stored"]
       ELSE jobs' = [jobs EXCEPT ![n].stage = "refused"] /\ UNCHANGED ballots
    /\ UNCHANGED <<auth, logins, requests, registrations, ui, fetch, filing>>

\* The backend did not answer and shouldRetry gave up.
SaveVotesFails(n) ==
    /\ jobs[n].stage = "sent"
    /\ SetJob(n, [jobs[n] EXCEPT !.stage = "refused"])

\* A slip to detect: nothing is asked for again.
SavedQuietly(n) ==
    /\ jobs[n].stage = "stored"
    /\ SetJob(n, [jobs[n] EXCEPT !.stage = "done"])

SavedAnswered(n) ==
    /\ jobs[n].stage = "stored"
    /\ jobs' = [jobs EXCEPT ![n].stage = "done"]
    /\ fetch' = InvalidateQueries(fetch)
    /\ UNCHANGED <<backendVars, ui, filing>>

\* The error is thrown in the screen that made the call, if it is there.
RefusedAnswered(n) ==
    /\ jobs[n].stage = "refused"
    /\ Render([ui EXCEPT !.broken = @ \/ ui.job = n], fetch,
              [jobs EXCEPT ![n].stage = "failed"])
    /\ UNCHANGED <<backendVars, filing>>

\* The machine is restarted: what the browser was about to do is lost.
Restart ==
    /\ ui.broken
    /\ ui' = NoScreens /\ filing' = "idle"
    /\ fetch' = [q \in Queries |-> NotAsked]
    /\ jobs' = [n \in Jobs |-> IF jobs[n].stage \in {"printing", "timer", "stored", "refused"}
                               THEN [jobs[n] EXCEPT !.stage = "cleared"] ELSE jobs[n]]
    /\ UNCHANGED backendVars

----------------------------------------------------------------------------
Machine ==
    \/ WatchAuthStatus
    \/ \E q \in Queries : HandleQuery(q) \/ Answered(q) \/ QueryFails(q)
    \/ CreateVoterRegistration \/ RegistrationAnswered
    \/ \E n \in Jobs : \/ PrintStarted(n) \/ PrintFails(n)
                       \/ SaveVotes(n) \/ HandleSaveVotes(n) \/ SaveVotesFails(n)
                       \/ SavedAnswered(n) \/ RefusedAnswered(n)

People ==
    \/ \E v \in Voters : LogIn(v) \/ SyncRegisters(v)
    \/ LogOut \/ ShowVoterFlow \/ OnStartVoting \/ UpdateVote \/ GoPrevious \/ GoNext
    \/ GoToIndex \/ PrintBallot \/ OnSubmit \/ Restart

ScreensNext == Machine \/ People

screensVars == <<backendVars, screenVars>>

\* Everything but people goes on by itself.
ScreensFairness == WF_screensVars(Machine)

----------------------------------------------------------------------------
(* Properties.                                                             *)

\* A saved ballot holds only votes of the voter it is saved for, although the
\* browser sends the votes alone and saveVotes takes the voter from the card of
\* the moment: the exceptions are a print that was still being started when its
\* screen went away, and a call that was under way while the card changed.
VotesAreTheVoters ==
    \A v \in Voters :
        ballots[v] # None => ballots[v].votes \subseteq {v} \/ ballots[v].late

\* With no query under way a voter sees the own status and the own election,
\* although the cache still holds those of the voter before, and the contest
\* that is shown exists.
ScreensAreOfTheCard ==
    Idle /\ ui.shown # None /\ ~ui.broken =>
        /\ ui.cache["voterStatus"] # None => ui.cache["voterStatus"].owner = ui.shown
        /\ Voting(ui) /\ HasElection =>
               /\ ui.cache["election"].owner = ui.shown
               /\ ui.index \in -1 .. ui.cache["election"].contests

\* A voter who printed and stays is told "You're done!", unless a call fails
\* and the error screen is up.
PrintedIsDone ==
    \A n \in Jobs :
        jobs[n].stage = "timer" /\ ~jobs[n].orphan ~>
            \/ ui.broken \/ auth # jobs[n].by \/ ui.shown # jobs[n].by
            \/ InVoterFlow(ui) /\ ui.cache["voterStatus"].says = "voted"
=============================================================================
