------------------------ MODULE DippedSmartCardAuth ------------------------
(***************************************************************************)
(* Authentication by a card that is put in and taken out again, and the    *)
(* programming of cards by a system administrator who is in                *)
(* (libs/auth/src/dipped_smart_card_auth.ts).                              *)
(***************************************************************************)
EXTENDS SmartCardAuth

CONSTANT
    AnyManager          \* config.allowElectionManagersToAccessUnconfiguredMachines

VARIABLE
    changedLate         \* cards still being changed after the session ended (history)

vars == <<cardVars, authVars, changedLate>>

Init ==
    /\ AuthInit
    /\ authStatus = LoggedOut("machine_locked")
    /\ changedLate = {}

Current == CurrentOr(LoggedOut("machine_locked"))

ValidateCard(details) ==
    IF details = None THEN "invalid_user_on_card"
    ELSE LET user == details.user IN
      CASE MachineJurisdiction # None /\ user.jurisdiction # MachineJurisdiction ->
              "invalid_user_on_card"
        [] user.role \notin {"system_administrator", "election_manager"} ->
              "user_role_not_allowed"
        [] user.role = "election_manager" /\ MachineElection = None ->
              IF AnyManager THEN "ok" ELSE "machine_not_configured"
        [] user.role = "election_manager" /\ user.electionHash # MachineElection ->
              "election_manager_wrong_election"
        [] OTHER -> "ok"

\* The user a card in the reader is programmed for, if it counts as programmed.
ProgrammedUser(details) ==
    IF \/ details = None
       \/ details.user.jurisdiction # MachineJurisdiction
       \/ details.user.role = "poll_worker" /\ details.hasPin # PollWorkerPins
    THEN None ELSE details.user

\* cardStatusToProgrammableCard
ProgrammableCard(status) ==
    [status |-> status.status,
     programmedUser |-> IF status.status = "ready" THEN ProgrammedUser(status.details) ELSE None]

\* Only a system administrator is shown the card to program.
In(user, until, status) ==
    [Status("logged_in", None, user, until) EXCEPT
        !.card = IF user.role = "system_administrator" THEN ProgrammableCard(status) ELSE None]

\* A slip to detect: the card has to fail first.
CardFails(status) == status.status = "card_error"

CardGone(status) == status.status = "no_card"

AfterCardStatus(status) ==
    CASE Current.status = "logged_out" ->
            IF status.status # "ready"
            THEN LoggedOut(IF status.status = "card_error" THEN "card_error" ELSE "machine_locked")
            ELSE IF ValidateCard(status.details) # "ok"
            THEN LoggedOut(ValidateCard(status.details))
            ELSE AskForPin(status.details)
      [] Current.status = "checking_pin" ->
            IF CardGone(status) THEN LoggedOut("machine_locked") ELSE Current
      [] Current.status = "remove_card" ->
            IF CardGone(status) THEN In(Current.user, Current.until, status) ELSE Current
      [] Current.status = "logged_in" -> In(Current.user, Current.until, status)

\* A slip to detect: an answer that comes when nobody is asked any more.
LateAnswer(answer, tries) ==
    IF answer = "correct" THEN Status("remove_card", None, Current.user, SessionEnd) ELSE Current

AfterPinAnswer(answer, tries) ==
    IF Current.status # "checking_pin" \/ answer = "error" THEN Current
    ELSE IF answer = "correct" THEN Status("remove_card", None, Current.user, SessionEnd)
    ELSE AskForPin([user |-> Current.user, tries |-> tries])

----------------------------------------------------------------------------
(* The calls of the API.                                                   *)

\* checkCardReaderAndUpdateAuthStatus
CheckCardReader ==
    /\ authStatus' = AfterCardStatus(cardStatus)
    /\ UNCHANGED <<cardVars, now, freeFrom>>

GetAuthStatus == CheckCardReader /\ UNCHANGED request

Call(c, kind) ==
    /\ request[c].pc = "idle"
    /\ CheckCardReader
    /\ request' = [request EXCEPT ![c] = [pc |-> "then", kind |-> kind]]

CheckPinLocked(c) ==
    /\ Then(c, "checkPin") /\ LockedOut
    /\ Return(c)
    /\ UNCHANGED <<cardVars, authStatus, now, freeFrom>>

CheckPinAsks(c) ==
    /\ Then(c, "checkPin") /\ ~LockedOut
    /\ \E pin \in Pins : CheckPin(c, pin)
    /\ request' = [request EXCEPT ![c].pc = "card"]
    /\ UNCHANGED <<authStatus, now, freeFrom>>

CheckPinAnswered(c) ==
    /\ request[c].kind = "checkPin" /\ request[c].pc = "card"
    /\ Take(c)
    /\ authStatus' = AfterPinAnswer(call[c].answer, call[c].tries)
    /\ Return(c)
    /\ UNCHANGED <<now, freeFrom>>

LogOut ==
    /\ authStatus.status = "logged_in"
    /\ authStatus' = LoggedOut("machine_locked")
    /\ UNCHANGED <<cardVars, request, now, freeFrom>>

UpdateSessionExpiry(c) ==
    /\ Then(c, "updateSessionExpiry")
    /\ \E sessionExpiresAt \in {now, SessionEnd} :
         authStatus' = IF Current.status \in {"remove_card", "logged_in"}
                       THEN [Current EXCEPT !.until = sessionExpiresAt] ELSE Current
    /\ Return(c)
    /\ UNCHANGED <<cardVars, now, freeFrom>>

AdministratorIn ==
    authStatus.status = "logged_in" /\ authStatus.user.role = "system_administrator"

\* The status is looked at again only before the card is.
NotAllowed(c) ==
    /\ Then(c, "programCard") \/ Then(c, "unprogramCard")
    /\ ~AdministratorIn
    /\ Return(c)
    /\ UNCHANGED <<cardVars, authStatus, now, freeFrom>>

\* The users the machine's state lets it make cards for; generatePin is any PIN.
NewCards ==
    {[user |-> SystemAdministrator(MachineJurisdiction), hasPin |-> TRUE],
     [user |-> ElectionManager(MachineJurisdiction, MachineElection), hasPin |-> TRUE],
     [user |-> PollWorker(MachineJurisdiction, MachineElection), hasPin |-> PollWorkerPins]}

ProgramCard(c) ==
    /\ Then(c, "programCard")
    /\ AdministratorIn
    /\ MachineJurisdiction # None
    /\ \E new \in NewCards, pin \in Pins :
         /\ new.user.role # "system_administrator" => MachineElection # None
         /\ Program(c, new.user, new.hasPin, pin)
    /\ request' = [request EXCEPT ![c].pc = "card"]
    /\ UNCHANGED <<authStatus, now, freeFrom>>

UnprogramCard(c) ==
    /\ Then(c, "unprogramCard")
    /\ AdministratorIn
    /\ Unprogram(c)
    /\ request' = [request EXCEPT ![c].pc = "card"]
    /\ UNCHANGED <<authStatus, now, freeFrom>>

\* The caller is told the PIN, or that it went wrong.
CardChanged(c) ==
    /\ request[c].kind # "checkPin" /\ request[c].pc = "card"
    /\ Take(c)
    /\ Return(c)
    /\ UNCHANGED <<authStatus, now, freeFrom>>

\* The screens show a PIN pad, or the programming of a card, one at a time, and
\* are slower than the reading of a card that was just put in.
ApiCall(c) ==
    \/ /\ authStatus.status = "checking_pin"
       /\ \A d \in Calls : request[d].kind # "checkPin"
       /\ Call(c, "checkPin")
    \/ Call(c, "updateSessionExpiry")
    \/ /\ authStatus.card # None => authStatus.card.status = "ready"
       /\ authStatus.card # None /\ ~Reading /\ events = <<>>
       /\ \A d \in Calls : request[d].kind \notin {"programCard", "unprogramCard"}
       /\ Call(c, "programCard") \/ Call(c, "unprogramCard")

ApiStep(c) ==
    \/ CheckPinLocked(c) \/ CheckPinAsks(c) \/ CheckPinAnswered(c)
    \/ UpdateSessionExpiry(c)
    \/ NotAllowed(c) \/ ProgramCard(c) \/ UnprogramCard(c) \/ CardChanged(c)

\* Nothing holds a session open while a card is programmed or unprogrammed.
CardChanges(c) ==
    /\ CardWorks(c)
    /\ changedLate' = IF call[c].kind # "checkPin" /\ ~AdministratorIn
                      THEN changedLate \cup {inserted} ELSE changedLate

Around ==
    /\ \/ PersonAndReader({"checking_pin", "remove_card"})
       \/ Tick \/ GetAuthStatus \/ LogOut
    /\ UNCHANGED changedLate

Next ==
    \/ Around
    \/ \E c \in Calls : \/ CardChanges(c)
                        \/ (ApiCall(c) \/ ApiStep(c)) /\ UNCHANGED changedLate

Spec == Init /\ [][Next]_vars

Fairness ==
    /\ WF_vars((CardPresent \/ CardAbsent) /\ UNCHANGED <<authVars, changedLate>>)
    /\ WF_vars(ReadCardDetails /\ UNCHANGED <<authVars, changedLate>>)
    /\ WF_vars(GetAuthStatus /\ UNCHANGED changedLate)
    /\ \A c \in Calls : WF_vars(CardChanges(c)) /\ WF_vars(ApiStep(c) /\ UNCHANGED changedLate)

FairSpec == Spec /\ Fairness

----------------------------------------------------------------------------
(* Properties.                                                             *)

\* While a PIN is asked for, or the card is to be taken out again, the card in
\* the reader is that of the user who is going to be in, unless the card was
\* still being changed when the session that changed it was over.
AuthUserIsCardUser ==
    (/\ authStatus.status \in {"checking_pin", "remove_card"}
     /\ inserted \notin changedLate \cup {NoCard}
     /\ \A c \in Calls : call[c].kind \notin {"program", "unprogram"})
        => chip[inserted].cert.user = authStatus.user

\* With nothing under way the cached status says what reading the card in the
\* slot again would say, after checkPin, program or unprogram too, as long as
\* nobody pulls a card while it is read, and unless the card was still being
\* changed when the session that changed it was over: the end of program forgets
\* a wrong PIN that was tried meanwhile.
SettledStatusIsTrue ==
    Settled /\ reader = "ready" /\ connected /\ inserted \notin changedLate =>
        /\ cardStatus.status = "ready"
        /\ SameDetails(cardStatus.details, Readable(inserted))

\* A card that was programmed takes the PIN that is then told, and no other, and
\* reads as the card of its new user, whatever PINs were tried before it is told;
\* the call that fails may leave a card that takes none.
ToldPinIsTheCards ==
    [][\A c \in Calls : CardChanged(c) /\ call[c].kind = "program" /\ call[c].answer = "done"
                        /\ inserted # NoCard /\ reader = "ready" /\ connected
         => /\ There.pin = call[c].pin /\ There.key = There.cert.key
            /\ SameDetails(Details(call[c].cert.user, call[c].cert.hasPin, There.tries),
                           Readable(inserted))]_vars

\* A card taken out after the right PIN lets its user in, unless the reader
\* fails first or a card comes back.
TakenOutIsIn ==
    authStatus.status = "remove_card" /\ inserted = NoCard
        ~> \/ authStatus.status # "remove_card"
           \/ inserted # NoCard
           \/ cardStatus.status = "unknown_error"

\* What authentication promises, here with the card taken out before entering.
Journey ==
    INSTANCE AuthJourney WITH
        phase <- CASE authStatus.status = "logged_out" -> "out"
                   [] authStatus.status = "checking_pin" -> "asking"
                   [] authStatus.status = "remove_card" -> "proved"
                   [] authStatus.status = "logged_in" -> "in",
        who <- authStatus.user,
        Walkers <- {}

AuthIsAJourney == Journey!Spec
=============================================================================
