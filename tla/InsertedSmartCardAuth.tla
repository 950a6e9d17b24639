----------------------- MODULE InsertedSmartCardAuth -----------------------
(***************************************************************************)
(* Authentication by a card that stays in the reader                       *)
(* (libs/auth/src/inserted_smart_card_auth.ts).                            *)
(***************************************************************************)
EXTENDS SmartCardAuth

CONSTANT
    AnyElection         \* config.allowElectionManagersToAccess...OtherElections

VARIABLE
    cardlessVoterUser   \* is a cardless voter session open

vars == <<cardVars, authVars, cardlessVoterUser>>

LoggedIn(user, sessionExpiresAt) == Status("logged_in", None, user, sessionExpiresAt)

Init ==
    /\ AuthInit
    /\ authStatus = LoggedOut("no_card")
    /\ cardlessVoterUser = FALSE

Current == CurrentOr(LoggedOut("no_card"))

\* Why a card is refused, or "ok".
ValidateCard(details) ==
    IF details = None THEN "invalid_user_on_card"
    ELSE LET user == details.user IN
      IF MachineJurisdiction # None /\ user.jurisdiction # MachineJurisdiction
      THEN "invalid_user_on_card"
      ELSE CASE user.role = "election_manager" ->
                  IF MachineElection # None /\ user.electionHash # MachineElection /\ ~AnyElection
                  THEN "election_manager_wrong_election" ELSE "ok"
             [] user.role = "poll_worker" ->
                  IF MachineElection = None THEN "machine_not_configured"
                  ELSE IF user.electionHash # MachineElection THEN "poll_worker_wrong_election"
                  ELSE IF details.hasPin # PollWorkerPins THEN "invalid_user_on_card"
                  ELSE "ok"
             [] OTHER -> "ok"

NeedsPin(user) == user.role # "poll_worker" \/ PollWorkerPins

\* A card of another user changes nothing while someone is asked or in.
Presented(details) ==
    LET verdict == ValidateCard(details) IN
    CASE verdict # "ok" -> LoggedOut(verdict)
      [] verdict = "ok" /\ Current.status # "logged_out" -> Current
      [] OTHER -> IF NeedsPin(details.user) THEN AskForPin(details)
                  ELSE LoggedIn(details.user, SessionEnd)

\* A slip to detect: a card that is gone leaves its user in.
UserStays(status) ==
    IF status.status = "ready" THEN Presented(status.details) ELSE Current

AfterCardStatus(status) ==
    IF status.status = "ready" THEN Presented(status.details)
    ELSE LoggedOut(IF status.status = "card_error" THEN "card_error" ELSE "no_card")

\* A slip to detect: an answer that comes when nobody is asked any more.
LateAnswer(answer, tries) ==
    IF answer = "correct" THEN LoggedIn(Current.user, SessionEnd) ELSE Current

AfterPinAnswer(answer, tries) ==
    IF Current.status # "checking_pin" \/ answer = "error" THEN Current
    ELSE IF answer = "correct" THEN LoggedIn(Current.user, SessionEnd)
    ELSE AskForPin([user |-> Current.user, tries |-> tries])

----------------------------------------------------------------------------
(* The calls of the API.                                                   *)

\* checkCardReaderAndUpdateAuthStatus
CheckCardReader ==
    /\ authStatus' = AfterCardStatus(cardStatus)
    /\ UNCHANGED <<cardVars, cardlessVoterUser, now, freeFrom>>

\* getAuthStatus, which the frontend asks for again and again.
GetAuthStatus == CheckCardReader /\ UNCHANGED request

\* The beginning of the calls that look at the reader before they act.
Call(c, kind) ==
    /\ request[c].pc = "idle"
    /\ CheckCardReader
    /\ request' = [request EXCEPT ![c] = [pc |-> "then", kind |-> kind]]

CheckPinLocked(c) ==
    /\ Then(c, "checkPin") /\ LockedOut
    /\ Return(c)
    /\ UNCHANGED <<cardVars, authStatus, cardlessVoterUser, now, freeFrom>>

\* checkPin goes to the card whatever the status is, unless it is locked.
CheckPinAsks(c) ==
    /\ Then(c, "checkPin") /\ ~LockedOut
    /\ \E pin \in Pins : CheckPin(c, pin)
    /\ request' = [request EXCEPT ![c].pc = "card"]
    /\ UNCHANGED <<authStatus, cardlessVoterUser, now, freeFrom>>

CheckPinAnswered(c) ==
    /\ request[c].pc = "card"
    /\ Take(c)
    /\ authStatus' = AfterPinAnswer(call[c].answer, call[c].tries)
    /\ Return(c)
    /\ UNCHANGED <<cardlessVoterUser, now, freeFrom>>

\* Screens of a logged in user only have it.
LogOut ==
    /\ authStatus.status = "logged_in"
    /\ authStatus' = LoggedOut("no_card")
    /\ UNCHANGED <<cardVars, cardlessVoterUser, request, now, freeFrom>>

UpdateSessionExpiry(c) ==
    /\ Then(c, "updateSessionExpiry")
    /\ \E sessionExpiresAt \in {now, SessionEnd} :
         authStatus' = IF Current.status = "logged_in"
                       THEN [Current EXCEPT !.until = sessionExpiresAt] ELSE Current
    /\ Return(c)
    /\ UNCHANGED <<cardVars, cardlessVoterUser, now, freeFrom>>

StartCardlessVoterSession(c) ==
    /\ Then(c, "startCardlessVoterSession")
    /\ cardlessVoterUser' = (cardlessVoterUser \/
           (authStatus.status = "logged_in" /\ authStatus.user.role = "poll_worker"))
    /\ Return(c)
    /\ UNCHANGED <<cardVars, authStatus, now, freeFrom>>

EndCardlessVoterSession ==
    /\ cardlessVoterUser' = FALSE
    /\ UNCHANGED <<cardVars, authVars>>

\* The PIN pad is there while a PIN is asked for, and waits for its answer.
ApiCall(c) ==
    \E kind \in {"checkPin", "updateSessionExpiry", "startCardlessVoterSession"} :
        /\ kind = "checkPin" => /\ authStatus.status = "checking_pin"
                                /\ \A d \in Calls : request[d].kind # "checkPin"
        /\ Call(c, kind)

ApiStep(c) ==
    \/ CheckPinLocked(c) \/ CheckPinAsks(c) \/ CheckPinAnswered(c)
    \/ UpdateSessionExpiry(c) \/ StartCardlessVoterSession(c)

Around ==
    /\ \/ PersonAndReader({"checking_pin", "logged_in"}) \/ Tick
       \/ \E c \in Calls : CardWorks(c)
    /\ UNCHANGED cardlessVoterUser

Next ==
    \/ Around \/ GetAuthStatus \/ LogOut \/ EndCardlessVoterSession
    \/ \E c \in Calls : ApiCall(c) \/ ApiStep(c)

Spec == Init /\ [][Next]_vars

\* The reader reports, the driver and the card answer, the frontend polls.
Fairness ==
    LET Same == UNCHANGED <<authVars, cardlessVoterUser>> IN
    /\ WF_vars((CardPresent \/ CardAbsent) /\ Same)
    /\ WF_vars(ReadCardDetails /\ Same)
    /\ WF_vars(GetAuthStatus)
    /\ \A c \in Calls : /\ WF_vars(CardWorks(c) /\ UNCHANGED cardlessVoterUser)
                        /\ WF_vars(ApiStep(c))

FairSpec == Spec /\ Fairness

----------------------------------------------------------------------------
(* Properties.                                                             *)

\* Whoever is asked for a PIN or logged in while a card is in the reader is the
\* user of that card, whatever polls, answers, pulled and exchanged cards come
\* between, as long as the reader is polled before the next card is put in.
AuthUserIsCardUser ==
    authStatus.status # "logged_out" /\ inserted # NoCard
        => chip[inserted].cert.user = authStatus.user

\* "The card needs to be kept in the card reader for the user to remain
\* authenticated": a card pulled out logs its user out, unless a card comes back.
RemovalLogsOut ==
    inserted = NoCard ~> (authStatus.status = "logged_out" \/ inserted # NoCard)

\* What authentication promises: only who was asked for a PIN and gave it, or
\* the user of a card that needs none, gets in.
Journey ==
    INSTANCE AuthJourney WITH
        phase <- CASE authStatus.status = "logged_out" -> "out"
                   [] authStatus.status = "checking_pin" -> "asking"
                   [] authStatus.status = "logged_in" -> "in",
        who <- authStatus.user,
        Walkers <- {u \in CardUsers : ~NeedsPin(u)}

AuthIsAJourney == Journey!Spec
=============================================================================
