-------------------- MODULE InsertedSmartCardAuth_proofs ---------------------
(***************************************************************************)
(* Theorems about authentication by a card that stays in the reader.       *)
(***************************************************************************)
EXTENDS InsertedSmartCardAuth, SmartCardAuth_proofs

Reasons == {"no_card", "card_error", "invalid_user_on_card", "machine_not_configured",
            "election_manager_wrong_election", "poll_worker_wrong_election"}

AuthStatuses ==
    [status : {"logged_out", "checking_pin", "logged_in"}, reason : Reasons \cup {None},
     user : CardUsers \cup {None}, until : Int \cup {None}, card : {None}]

WellFormed(s) ==
    /\ s \in AuthStatuses
    /\ s.status = "logged_out" <=> s.user = None
    /\ s.status = "logged_in" => s.until \in Int

Requests == [pc : {"idle", "then", "card"},
             kind : {"none", "checkPin", "updateSessionExpiry", "startCardlessVoterSession"}]

InsertedTypeOK ==
    /\ CardTypeOK
    /\ WellFormed(authStatus)
    /\ now \in Nat
    /\ freeFrom \in [Cards -> Int]
    /\ request \in [Calls -> Requests]

\* The only calls this authentication makes of a card are checkPin, one at a
\* time, each for a request that waits for it.
OnlyCheckPin ==
    /\ \A c \in Calls :
         /\ request[c].pc = "idle" => request[c].kind = "none"
         /\ request[c].pc # "card" => call[c] = IdleCall
         /\ request[c].pc = "card" =>
              /\ request[c].kind = "checkPin"
              /\ call[c].kind = "checkPin"
              /\ call[c].pc \in {"select", "cert", "verify", "key", "match", "bad", "answered"}
              /\ call[c].pc # "answered" => call[c].answer = None
              /\ call[c].pc = "answered" => call[c].answer \in {"correct", "incorrect", "error"}
    /\ \A c, d \in Calls : request[c].kind = "checkPin" /\ request[d].kind = "checkPin" => c = d

\* What was read, and what the status says, is of the card in the slot.
ReadIsTheCards ==
    /\ \A r \in Reads :
         /\ HasCert(r) => reads[r].cert = There.cert
         /\ reads[r].pc \in {"pin", "key", "done"} => HasNoPin(There.cert)
    /\ cardStatus.status = "ready" /\ cardStatus.details # None /\ inserted # NoCard
         => /\ cardStatus.details.user = There.cert.user
            /\ cardStatus.details.hasPin = There.cert.hasPin

\* Nobody is asked or in between a card's coming and its details, and whoever
\* is asked or in was not refused.
NobodyBeforeDetails ==
    /\ Reading \/ events = <<"present">> => authStatus.status = "logged_out"
    /\ authStatus.status # "logged_out" /\ cardStatus.status = "ready"
         => /\ ValidateCard(cardStatus.details) = "ok"
            /\ cardStatus.details.user = authStatus.user
    /\ authStatus.status = "checking_pin" => NeedsPin(authStatus.user)

WhoseCard == ReadIsTheCards /\ NobodyBeforeDetails /\ AuthUserIsCardUser

InsertedInvariant == InsertedTypeOK /\ ReaderAtRest /\ OnlyCheckPin /\ WhoseCard

\* Only a card that is in and that is asked for a PIN has its PIN checked.
CheckedWhileAsked ==
    \A c \in Calls : request[c].kind = "checkPin" =>
        /\ events # <<"present">> /\ ~Reading
        /\ reader = "ready" => authStatus.status = "checking_pin"

Duration(tries) == LockoutDuration(Allowed, StartingDuration, tries)

\* The counts of wrong PINs: the card's, the cached one, that of an answer on
\* its way, and the times the lockouts end.
CountsAgree ==
    /\ \A k \in Cards : ~HasNoPin(chip[k].cert) /\ chip[k].tries >= Allowed
         => freeFrom[k] <= now \/ freeFrom[k] <= now + Duration(chip[k].tries)
    /\ cardStatus.status = "ready" /\ cardStatus.details # None /\ inserted # NoCard
         /\ ~HasNoPin(There.cert)
         => cardStatus.details.tries = There.tries \/ There.tries = 0
    /\ \A c \in Calls : inserted # NoCard /\ request[c].kind = "checkPin" =>
         /\ call[c].pc \in {"key", "match"} => There.tries = 0
         /\ call[c].answer = "incorrect" => call[c].tries = There.tries

NoneOnItsWay == \A c \in Calls : call[c].answer # "incorrect"

LockoutStands ==
    /\ authStatus.status = "checking_pin" /\ inserted # NoCard => ~HasNoPin(There.cert)
    /\ authStatus.status = "checking_pin" /\ inserted # NoCard /\ NoneOnItsWay
         /\ There.tries >= Allowed
         => \/ now >= freeFrom[inserted]
            \/ authStatus.until \in Int /\ authStatus.until >= freeFrom[inserted]
    /\ \A c \in Calls :
         call[c].pc \in {"select", "cert", "verify"} /\ Reachable /\ There.tries >= Allowed
           => now >= freeFrom[inserted]

LockoutInvariant ==
    /\ InsertedInvariant
    /\ CheckedWhileAsked
    /\ CountsAgree
    /\ LockoutStands

----------------------------------------------------------------------------
(* Types.                                                                  *)

LEMMA LockoutEndType ==
    ASSUME NEW tries \in Nat, NEW n \in Int
    PROVE  /\ LockoutDuration(Allowed, StartingDuration, tries) \in Int
           /\ LockoutEnd(Allowed, StartingDuration, tries, n) \in Int \cup {None}
           /\ tries >= Allowed => LockoutEnd(Allowed, StartingDuration, tries, n)
                                    = n + LockoutDuration(Allowed, StartingDuration, tries)
  BY MachineAssumption DEF LockoutEnd, LockoutDuration

LEMMA LoggedOutWellFormed ==
    ASSUME NEW reason \in Reasons
    PROVE  WellFormed(LoggedOut(reason)) /\ LoggedOut(reason).status = "logged_out"
  BY DEF WellFormed, LoggedOut, Status, AuthStatuses

LEMMA LoggedInWellFormed ==
    ASSUME NEW user \in CardUsers, NEW until \in Int
    PROVE  /\ WellFormed(LoggedIn(user, until))
           /\ LoggedIn(user, until).status = "logged_in" /\ LoggedIn(user, until).user = user
  BY NoneAssumption DEF WellFormed, LoggedIn, Status, AuthStatuses

LEMMA AskForPinWellFormed ==
    ASSUME NEW details, details.user \in CardUsers, details.tries \in Nat, now \in Nat
    PROVE  /\ WellFormed(AskForPin(details))
           /\ AskForPin(details).status = "checking_pin" /\ AskForPin(details).user = details.user
           /\ AskForPin(details).until = LockoutEnd(Allowed, StartingDuration, details.tries, now)
<1>1. LockoutEnd(Allowed, StartingDuration, details.tries, now) \in Int \cup {None}
  BY LockoutEndType
<1> QED
  BY <1>1, NoneAssumption DEF WellFormed, AskForPin, CheckingPin, Status, AuthStatuses

LEMMA CurrentWellFormed ==
    ASSUME WellFormed(authStatus)
    PROVE  /\ WellFormed(Current)
           /\ Current = authStatus \/ Current = LoggedOut("no_card")
           /\ Current.status # "logged_out" => Current = authStatus
           /\ authStatus.status # "logged_in" => Current = authStatus
<1>1. WellFormed(LoggedOut("no_card")) /\ LoggedOut("no_card").status = "logged_out"
  BY LoggedOutWellFormed DEF Reasons
<1> QED
  BY <1>1 DEF Current, CurrentOr

\* What polling makes of a status that says "ready".
LEMMA PresentedCases ==
    ASSUME WellFormed(authStatus), now \in Nat, NEW details \in DetailsRecords \cup {None}
    PROVE  \/ /\ ValidateCard(details) # "ok"
              /\ WellFormed(Presented(details))
              /\ Presented(details).status = "logged_out"
           \/ /\ ValidateCard(details) = "ok" /\ details \in DetailsRecords
              /\ Current.status # "logged_out" /\ Current = authStatus
              /\ Presented(details) = authStatus
           \/ /\ ValidateCard(details) = "ok" /\ details \in DetailsRecords
              /\ authStatus.status # "checking_pin"
              /\ ~NeedsPin(details.user)
              /\ Presented(details) = LoggedIn(details.user, SessionEnd)
           \/ /\ ValidateCard(details) = "ok" /\ details \in DetailsRecords
              /\ authStatus.status # "checking_pin"
              /\ NeedsPin(details.user)
              /\ Presented(details) = AskForPin(details)
<1>1. CASE ValidateCard(details) # "ok"
  <2>1. ValidateCard(details) \in Reasons
    <3>1. CASE details = None
      BY <1>1, <3>1 DEF Reasons, ValidateCard
    <3>2. CASE details # None /\ details.user.role = "election_manager"
      BY <1>1, <3>2 DEF Reasons, ValidateCard
    <3>3. CASE details # None /\ details.user.role = "poll_worker"
      BY <1>1, <3>3 DEF Reasons, ValidateCard
    <3>4. CASE details # None /\ details.user.role \notin {"election_manager", "poll_worker"}
      BY <1>1, <3>4 DEF Reasons, ValidateCard
    <3> QED
      BY <3>1, <3>2, <3>3, <3>4
  <2>2. Presented(details) = LoggedOut(ValidateCard(details))
    BY <1>1 DEF Presented
  <2> QED
    BY <1>1, <2>1, <2>2, LoggedOutWellFormed
<1>2. CASE ValidateCard(details) = "ok"
  <2>1. details # None
    BY <1>2 DEF ValidateCard
  <2>2. CASE Current.status # "logged_out"
    BY <1>2, <2>1, <2>2, CurrentWellFormed DEF Presented
  <2>3. CASE Current.status = "logged_out"
    <3>1. authStatus.status # "checking_pin"
      BY <2>3, CurrentWellFormed
    <3>2. Presented(details) = IF NeedsPin(details.user) THEN AskForPin(details)
                               ELSE LoggedIn(details.user, SessionEnd)
      BY <1>2, <2>3 DEF Presented
    <3> QED
      BY <1>2, <2>1, <3>1, <3>2
  <2> QED
    BY <2>2, <2>3
<1> QED
  BY <1>1, <1>2

LEMMA AfterCardStatusCases ==
    ASSUME CardTypeOK
    PROVE  \/ /\ cardStatus.status # "ready"
              /\ WellFormed(AfterCardStatus(cardStatus))
              /\ AfterCardStatus(cardStatus).status = "logged_out"
           \/ /\ cardStatus.status = "ready"
              /\ cardStatus.details \in DetailsRecords \cup {None}
              /\ AfterCardStatus(cardStatus) = Presented(cardStatus.details)
<1>1. cardStatus.details \in DetailsRecords \cup {None}
  BY DEF CardTypeOK, CardStatuses
<1>2. CASE cardStatus.status = "ready"
  BY <1>1, <1>2 DEF AfterCardStatus
<1>3. CASE cardStatus.status # "ready"
  <2>1. \/ AfterCardStatus(cardStatus) = LoggedOut("card_error")
        \/ AfterCardStatus(cardStatus) = LoggedOut("no_card")
    BY <1>3 DEF AfterCardStatus
  <2> QED
    BY <1>3, <2>1, LoggedOutWellFormed DEF Reasons
<1> QED
  BY <1>2, <1>3

LEMMA SessionEndType ==
    ASSUME now \in Nat
    PROVE  SessionEnd \in Int
  BY MachineAssumption DEF SessionEnd

LEMMA AfterCardStatusWellFormed ==
    ASSUME InsertedTypeOK
    PROVE  WellFormed(AfterCardStatus(cardStatus))
<1>1. CASE cardStatus.status # "ready"
  BY <1>1, AfterCardStatusCases DEF InsertedTypeOK
<1>2. CASE cardStatus.status = "ready"
  <2> DEFINE details == cardStatus.details
  <2>1. details \in DetailsRecords \cup {None} /\ AfterCardStatus(cardStatus) = Presented(details)
    BY <1>2, AfterCardStatusCases DEF InsertedTypeOK
  <2>2. details \in DetailsRecords => details.user \in CardUsers /\ details.tries \in Nat
    BY DEF DetailsRecords
  <2>3. WellFormed(authStatus) /\ now \in Nat /\ SessionEnd \in Int
    BY SessionEndType DEF InsertedTypeOK
  <2> HIDE DEF details
  <2> QED
    BY <2>1, <2>2, <2>3, PresentedCases, LoggedInWellFormed, AskForPinWellFormed
<1> QED
  BY <1>1, <1>2

LEMMA AfterPinAnswerCases ==
    ASSUME InsertedTypeOK, NEW answer, NEW tries \in Nat
    PROVE  \/ /\ authStatus.status # "checking_pin" \/ answer = "error"
              /\ AfterPinAnswer(answer, tries) = Current
           \/ /\ authStatus.status = "checking_pin" /\ answer = "correct"
              /\ AfterPinAnswer(answer, tries) = LoggedIn(authStatus.user, SessionEnd)
              /\ authStatus.user \in CardUsers
           \/ /\ authStatus.status = "checking_pin" /\ answer \notin {"error", "correct"}
              /\ AfterPinAnswer(answer, tries)
                   = AskForPin([user |-> authStatus.user, tries |-> tries])
              /\ authStatus.user \in CardUsers
<1>1. authStatus.status = "checking_pin" => authStatus.user \in CardUsers
  BY DEF InsertedTypeOK, WellFormed, AuthStatuses
<1>2. Current.status = "checking_pin" => authStatus.status = "checking_pin" /\ Current = authStatus
  BY CurrentWellFormed DEF InsertedTypeOK
<1>3. authStatus.status = "checking_pin" => Current = authStatus
  BY CurrentWellFormed DEF InsertedTypeOK
<1> QED
  BY <1>1, <1>2, <1>3 DEF AfterPinAnswer

LEMMA AfterPinAnswerWellFormed ==
    ASSUME InsertedTypeOK, NEW answer, NEW tries \in Nat
    PROVE  WellFormed(AfterPinAnswer(answer, tries))
<1>1. now \in Nat /\ SessionEnd \in Int /\ WellFormed(Current)
  BY SessionEndType, CurrentWellFormed DEF InsertedTypeOK
<1>2. authStatus.user \in CardUsers =>
        WellFormed(AskForPin([user |-> authStatus.user, tries |-> tries]))
  BY <1>1, AskForPinWellFormed
<1> QED
  BY <1>1, <1>2, AfterPinAnswerCases, LoggedInWellFormed

LEMMA CardTypesStay ==
    ASSUME CardTypeOK, UNCHANGED cardVars
    PROVE  CardTypeOK'
  BY DEF CardTypeOK, cardVars, HasCert

LEMMA RequestsStep ==
    ASSUME request \in [Calls -> Requests], [Next]_vars
    PROVE  request' \in [Calls -> Requests]
<1>1. CASE UNCHANGED request
  BY <1>1
<1>2. ASSUME NEW c \in Calls, NEW kind, Call(c, kind),
             kind \in {"checkPin", "updateSessionExpiry", "startCardlessVoterSession"}
      PROVE  request' \in [Calls -> Requests]
  BY <1>2 DEF Call, Requests
<1>3. ASSUME NEW c \in Calls, Return(c) PROVE request' \in [Calls -> Requests]
  BY <1>3 DEF Return, IdleRequest, Requests
<1>4. ASSUME NEW c \in Calls, CheckPinAsks(c) PROVE request' \in [Calls -> Requests]
  BY <1>4 DEF CheckPinAsks, Requests
<1> QED
  BY <1>1, <1>2, <1>3, <1>4
     DEF Next, Around, GetAuthStatus, ApiCall, ApiStep, vars, authVars, PersonAndReader,
         Tick, CardWorks, CheckPinLocked, CheckPinAnswered, UpdateSessionExpiry, LogOut,
         StartCardlessVoterSession, EndCardlessVoterSession

LEMMA InsertedTypesInit == Init => InsertedTypeOK
<1> SUFFICES ASSUME Init PROVE InsertedTypeOK
  OBVIOUS
<1>1. CardTypeOK
  BY CardInitTypes DEF Init, AuthInit
<1>2. WellFormed(authStatus)
  BY LoggedOutWellFormed DEF Init, Reasons
<1>3. now \in Nat /\ freeFrom \in [Cards -> Int] /\ request \in [Calls -> Requests]
  BY DEF Init, AuthInit, IdleRequest, Requests
<1> QED
  BY <1>1, <1>2, <1>3 DEF InsertedTypeOK

LEMMA InsertedTypesStep == InsertedTypeOK /\ [Next]_vars => InsertedTypeOK'
<1> SUFFICES ASSUME InsertedTypeOK, [Next]_vars PROVE InsertedTypeOK'
  OBVIOUS
<1>1. /\ CardTypeOK /\ WellFormed(authStatus) /\ WellFormed(Current)
      /\ now \in Nat /\ freeFrom \in [Cards -> Int]
      /\ request' \in [Calls -> Requests]
  BY CurrentWellFormed, RequestsStep DEF InsertedTypeOK
<1>2. CASE UNCHANGED vars
  BY <1>1, <1>2, CardTypesStay DEF vars, authVars, InsertedTypeOK
<1>3. CASE PersonAndReader({"checking_pin", "logged_in"})
  BY <1>1, <1>3, SurroundingsTypes DEF PersonAndReader, authVars, InsertedTypeOK
<1>4. CASE Tick
  BY <1>1, <1>4, CardTypesStay DEF Tick, InsertedTypeOK
<1>5. ASSUME NEW c \in Calls, CardWorks(c) PROVE InsertedTypeOK'
  <2>1. CardTypeOK'
    BY <1>1, <1>5, CardCallTypes DEF CardWorks
  <2>2. call'[c].tries \in Nat
    BY <2>1 DEF CardTypeOK, CardCalls
  <2>3. now + LockoutDuration(Allowed, StartingDuration, call'[c].tries) \in Int
    <3>1. LockoutDuration(Allowed, StartingDuration, call'[c].tries) \in Int
      BY <1>1, <2>2, LockoutEndType
    <3> QED
      BY <1>1, <3>1
  <2>4. freeFrom' \in [Cards -> Int]
    BY <1>1, <1>5, <2>3 DEF CardWorks
  <2> QED
    BY <1>1, <1>5, <2>1, <2>4 DEF CardWorks, InsertedTypeOK
<1>6. CASE CheckCardReader
  BY <1>1, <1>6, CardTypesStay, AfterCardStatusWellFormed DEF CheckCardReader, InsertedTypeOK
<1>7. ASSUME NEW c \in Calls, CheckPinLocked(c) PROVE InsertedTypeOK'
  BY <1>1, <1>7, CardTypesStay DEF CheckPinLocked, InsertedTypeOK
<1>8. ASSUME NEW c \in Calls, CheckPinAsks(c) PROVE InsertedTypeOK'
  <2>1. CardTypeOK'
    BY <1>1, <1>8, StartTypes DEF CheckPinAsks, CheckPin
  <2> QED
    BY <1>1, <1>8, <2>1 DEF CheckPinAsks, InsertedTypeOK
<1>9. ASSUME NEW c \in Calls, CheckPinAnswered(c) PROVE InsertedTypeOK'
  <2>1. call[c].tries \in Nat
    BY <1>1 DEF CardTypeOK, CardCalls
  <2>2. WellFormed(authStatus')
    BY <1>9, <2>1, AfterPinAnswerWellFormed DEF CheckPinAnswered
  <2> QED
    BY <1>1, <1>9, <2>2, TakeTypes DEF CheckPinAnswered, InsertedTypeOK
<1>10. CASE LogOut
  BY <1>1, <1>10, CardTypesStay, LoggedOutWellFormed DEF LogOut, InsertedTypeOK, Reasons
<1>11. ASSUME NEW c \in Calls, UpdateSessionExpiry(c) PROVE InsertedTypeOK'
  <2>1. PICK until \in Int :
          authStatus' = IF Current.status = "logged_in" THEN [Current EXCEPT !.until = until]
                        ELSE Current
    BY <1>1, <1>11, SessionEndType DEF UpdateSessionExpiry
  <2>2. WellFormed(authStatus')
    BY <1>1, <2>1 DEF WellFormed, AuthStatuses
  <2> QED
    BY <1>1, <1>11, <2>2, CardTypesStay DEF UpdateSessionExpiry, InsertedTypeOK
<1>12. ASSUME NEW c \in Calls, StartCardlessVoterSession(c) PROVE InsertedTypeOK'
  BY <1>1, <1>12, CardTypesStay DEF StartCardlessVoterSession, InsertedTypeOK
<1>13. CASE EndCardlessVoterSession
  BY <1>1, <1>13, CardTypesStay DEF EndCardlessVoterSession, authVars, InsertedTypeOK
<1> QED
  BY <1>2, <1>3, <1>4, <1>5, <1>6, <1>7, <1>8, <1>9, <1>10, <1>11, <1>12, <1>13
     DEF Next, Around, GetAuthStatus, ApiCall, Call, ApiStep

\* The state of the authentication keeps its shape: a status is out exactly when
\* it has no user, one that is in has an end, and what the driver, the cards and
\* the calls hold are certificates, details and PINs that exist.
THEOREM InsertedTypes == Spec => []InsertedTypeOK
<1>1. Init => InsertedTypeOK
  BY InsertedTypesInit
<1>2. InsertedTypeOK /\ [Next]_vars => InsertedTypeOK'
  BY InsertedTypesStep
<1> QED
  BY <1>1, <1>2, PTL DEF Spec

----------------------------------------------------------------------------
(* Refinement of AuthJourney.                                              *)

Phase(s) == CASE s.status = "logged_out" -> "out"
              [] s.status = "checking_pin" -> "asking"
              [] s.status = "logged_in" -> "in"

Walkers == {u \in CardUsers : ~NeedsPin(u)}

\* What a step may do to the status, in the terms of AuthJourney.
JourneyMove(s, t) ==
    \/ Phase(t) = Phase(s) /\ t.user = s.user
    \/ Phase(t) = "out" /\ t.user = None
    \/ Phase(s) \in {"out", "in"} /\ Phase(t) = "asking" /\ t.user # None
    \/ Phase(s) = "asking" /\ Phase(t) = "in" /\ t.user = s.user
    \/ Phase(s) \in {"out", "in"} /\ Phase(t) = "in" /\ t.user \in Walkers

LEMMA LeaveMoves ==
    ASSUME NEW s, NEW t, WellFormed(t), t.status = "logged_out"
    PROVE  JourneyMove(s, t)
  BY DEF JourneyMove, Phase, WellFormed

LEMMA CurrentMoves ==
    ASSUME WellFormed(authStatus), NEW t, t = Current
    PROVE  JourneyMove(authStatus, t)
<1>1. Current = authStatus \/ (WellFormed(Current) /\ Current.status = "logged_out")
  BY CurrentWellFormed, LoggedOutWellFormed DEF Reasons
<1> QED
  BY <1>1, LeaveMoves DEF JourneyMove

LEMMA AfterCardStatusMoves ==
    ASSUME InsertedTypeOK, NEW t, t = AfterCardStatus(cardStatus)
    PROVE  JourneyMove(authStatus, t)
<1> DEFINE details == cardStatus.details
<1>1. CASE cardStatus.status # "ready"
  BY <1>1, AfterCardStatusCases, LeaveMoves DEF InsertedTypeOK
<1>2. CASE cardStatus.status = "ready"
  <2>1. details \in DetailsRecords \cup {None} /\ t = Presented(details)
    BY <1>2, AfterCardStatusCases DEF InsertedTypeOK
  <2>2. details \in DetailsRecords => details.user \in CardUsers /\ details.tries \in Nat
    BY DEF DetailsRecords
  <2>3. /\ WellFormed(authStatus) /\ now \in Nat /\ SessionEnd \in Int
        /\ authStatus.status \in {"logged_out", "checking_pin", "logged_in"}
    BY SessionEndType DEF InsertedTypeOK, WellFormed, AuthStatuses
  <2> HIDE DEF details
  <2>4. CASE WellFormed(Presented(details)) /\ Presented(details).status = "logged_out"
    BY <2>1, <2>4, LeaveMoves
  <2>5. CASE Presented(details) = authStatus
    BY <2>1, <2>5 DEF JourneyMove
  <2>6. CASE /\ details \in DetailsRecords /\ authStatus.status # "checking_pin"
             /\ ~NeedsPin(details.user) /\ Presented(details) = LoggedIn(details.user, SessionEnd)
    <3>1. t.status = "logged_in" /\ t.user = details.user /\ details.user \in Walkers
      BY <2>1, <2>2, <2>3, <2>6, LoggedInWellFormed DEF Walkers
    <3> QED
      BY <2>3, <2>6, <3>1 DEF JourneyMove, Phase
  <2>7. CASE /\ details \in DetailsRecords /\ authStatus.status # "checking_pin"
             /\ Presented(details) = AskForPin(details)
    <3>1. t.status = "checking_pin" /\ t.user = details.user /\ details.user # None
      BY <2>1, <2>2, <2>3, <2>7, AskForPinWellFormed, NoneAssumption
    <3> QED
      BY <2>3, <2>7, <3>1 DEF JourneyMove, Phase
  <2> QED
    BY <2>1, <2>3, <2>4, <2>5, <2>6, <2>7, PresentedCases
<1> QED
  BY <1>1, <1>2

LEMMA AfterPinAnswerMoves ==
    ASSUME InsertedTypeOK, NEW answer, NEW tries \in Nat, NEW t, t = AfterPinAnswer(answer, tries)
    PROVE  JourneyMove(authStatus, t)
<1>1. /\ WellFormed(authStatus) /\ now \in Nat /\ SessionEnd \in Int
  BY SessionEndType DEF InsertedTypeOK
<1>2. CASE t = Current
  BY <1>1, <1>2, CurrentMoves
<1>3. CASE /\ authStatus.status = "checking_pin" /\ authStatus.user \in CardUsers
           /\ t = LoggedIn(authStatus.user, SessionEnd)
  <2>1. t.status = "logged_in" /\ t.user = authStatus.user
    BY <1>1, <1>3, LoggedInWellFormed
  <2> QED
    BY <1>3, <2>1 DEF JourneyMove, Phase
<1>4. CASE /\ authStatus.status = "checking_pin" /\ authStatus.user \in CardUsers
           /\ t = AskForPin([user |-> authStatus.user, tries |-> tries])
  <2>1. t.status = "checking_pin" /\ t.user = authStatus.user
    BY <1>1, <1>4, AskForPinWellFormed
  <2> QED
    BY <1>4, <2>1 DEF JourneyMove, Phase
<1> QED
  BY <1>2, <1>3, <1>4, AfterPinAnswerCases

LEMMA NextMoves == InsertedTypeOK /\ [Next]_vars => JourneyMove(authStatus, authStatus')
<1> SUFFICES ASSUME InsertedTypeOK, [Next]_vars PROVE JourneyMove(authStatus, authStatus')
  OBVIOUS
<1>1. CASE UNCHANGED authStatus
  BY <1>1 DEF JourneyMove
<1>2. CASE CheckCardReader
  BY <1>2, AfterCardStatusMoves DEF CheckCardReader
<1>3. ASSUME NEW c \in Calls, CheckPinAnswered(c) PROVE JourneyMove(authStatus, authStatus')
  <2>1. call[c].tries \in Nat
    BY DEF InsertedTypeOK, CardTypeOK, CardCalls
  <2> QED
    BY <1>3, <2>1, AfterPinAnswerMoves DEF CheckPinAnswered
<1>4. CASE LogOut
  BY <1>4, LoggedOutWellFormed, LeaveMoves DEF LogOut, Reasons
<1>5. ASSUME NEW c \in Calls, UpdateSessionExpiry(c) PROVE JourneyMove(authStatus, authStatus')
  <2>1. WellFormed(authStatus)
    BY DEF InsertedTypeOK
  <2>2. CASE Current.status = "logged_in"
    <3>1. PICK until : authStatus' = [authStatus EXCEPT !.until = until]
      BY <1>5, <2>1, <2>2, CurrentWellFormed DEF UpdateSessionExpiry
    <3>2. authStatus'.status = authStatus.status /\ authStatus'.user = authStatus.user
      BY <2>1, <3>1 DEF WellFormed, AuthStatuses
    <3> QED
      BY <3>2 DEF JourneyMove, Phase
  <2>3. CASE Current.status # "logged_in"
    BY <1>5, <2>1, <2>3, CurrentMoves DEF UpdateSessionExpiry
  <2> QED
    BY <2>2, <2>3
<1> QED
  BY <1>1, <1>2, <1>3, <1>4, <1>5
     DEF Next, Around, GetAuthStatus, ApiCall, Call, ApiStep, vars, authVars, PersonAndReader,
         Tick, CardWorks, CheckPinLocked, CheckPinAsks, StartCardlessVoterSession,
         EndCardlessVoterSession

\* Authentication by an inserted card is a journey of AuthJourney, whatever the
\* cards, the reader, the polls and the calls do, and however hastily cards are
\* exchanged: nobody gets in but who was asked for a PIN and gave it, or the
\* user of a card that needs none.
THEOREM InsertedAuthIsAJourney == Spec => AuthIsAJourney
<1>1. Init => Journey!Init
  BY DEF Init, Journey!Init, LoggedOut, Status
<1>2. InsertedTypeOK /\ [Next]_vars =>
        [Journey!AskPin \/ Journey!Prove \/ Journey!Enter \/ Journey!WalkIn \/ Journey!Leave]_
            <<CASE authStatus.status = "logged_out" -> "out"
                [] authStatus.status = "checking_pin" -> "asking"
                [] authStatus.status = "logged_in" -> "in", authStatus.user>>
  BY NextMoves
     DEF JourneyMove, Phase, Walkers, Journey!AskPin, Journey!Prove, Journey!Enter,
         Journey!WalkIn, Journey!Leave
<1> QED
  BY <1>1, <1>2, InsertedTypes, PTL DEF Spec, AuthIsAJourney, Journey!Spec

----------------------------------------------------------------------------
(* The calls.                                                              *)

LEMMA OnlyCheckPinCalls ==
    ASSUME OnlyCheckPin, NEW c \in Calls, CardCall(c)
    PROVE  /\ request[c].pc = "card" /\ request[c].kind = "checkPin" /\ call[c].kind = "checkPin"
           /\ \/ CallSelect(c) \/ CheckPinCert(c) \/ CheckPinVerify(c) \/ CheckPinKey(c)
              \/ CheckPinDone(c) \/ CallFails(c)
<1>1. call[c].pc \notin {"idle", "answered"}
  BY DEF CardCall, CallSelect, CheckPinCert, CheckPinVerify, CheckPinKey, CheckPinDone, CallReset,
     ProgramPin, ProgramGenerate, ProgramCert, ProgramCa, UnprogramCert, UnprogramCa, UnprogramData,
     CallFails, At
<1>2. request[c].pc = "card"
  BY <1>1 DEF OnlyCheckPin, IdleCall
<1>3. /\ request[c].kind = "checkPin" /\ call[c].kind = "checkPin"
      /\ call[c].pc \in {"select", "cert", "verify", "key", "match", "bad", "answered"}
  BY <1>2 DEF OnlyCheckPin
<1> QED
  BY <1>2, <1>3 DEF CardCall, CallReset, ProgramPin, ProgramGenerate, ProgramCert, ProgramCa,
     UnprogramCert, UnprogramCa, UnprogramData, At

\* One step of the call a request waits for.
CallMove(c, to) ==
    /\ call' = [call EXCEPT ![c] = to]
    /\ to.kind = "checkPin"
    /\ to.pc \in {"select", "cert", "verify", "key", "match", "bad", "answered"}
    /\ to.pc # "answered" => to.answer = None
    /\ to.pc = "answered" => to.answer \in {"correct", "incorrect", "error"}

LEMMA CallMoves ==
    ASSUME CardTypeOK, OnlyCheckPin, NEW c \in Calls, CardCall(c)
    PROVE  \E to : CallMove(c, to)
<1>1. /\ call[c].kind = "checkPin" /\ call[c] \in CardCalls
      /\ request[c].pc = "card"
      /\ \/ CallSelect(c) \/ CheckPinCert(c) \/ CheckPinVerify(c) \/ CheckPinKey(c)
         \/ CheckPinDone(c) \/ CallFails(c)
  BY OnlyCheckPinCalls DEF CardTypeOK
<1>2. call[c].pc # "answered" => call[c].answer = None
  BY <1>1 DEF OnlyCheckPin
<1>3. ASSUME NEW pc \in {"cert", "verify", "key", "match", "bad"}, NEW cert, NEW to,
             \/ to = [call[c] EXCEPT !.pc = pc]
             \/ to = [call[c] EXCEPT !.pc = pc, !.cert = cert],
             call[c].pc # "answered", Step(c, to)
      PROVE  CallMove(c, to)
  BY <1>1, <1>2, <1>3 DEF CallMove, Step, CardCalls
<1>4. ASSUME NEW answer \in {"correct", "incorrect", "error"}, NEW tries, NEW to,
             \/ to = Answer(c, answer)
             \/ to = [Answer(c, answer) EXCEPT !.tries = tries],
             Step(c, to)
      PROVE  CallMove(c, to)
  BY <1>1, <1>4 DEF CallMove, Step, CardCalls, Answer
<1>5. CASE CallSelect(c)
  BY <1>1, <1>3, <1>5 DEF CallSelect
<1>6. CASE CheckPinCert(c)
  BY <1>1, <1>3, <1>6 DEF CheckPinCert, At
<1>7. CASE CheckPinVerify(c)
  BY <1>1, <1>3, <1>4, <1>7 DEF CheckPinVerify, At
<1>8. CASE CheckPinKey(c)
  BY <1>1, <1>3, <1>8 DEF CheckPinKey, At
<1>9. CASE CheckPinDone(c)
  BY <1>4, <1>9 DEF CheckPinDone
<1>10. CASE CallFails(c)
  BY <1>4, <1>10 DEF CallFails
<1> QED
  BY <1>1, <1>5, <1>6, <1>7, <1>8, <1>9, <1>10

LEMMA OnlyCheckPinInit == Init => OnlyCheckPin
<1> SUFFICES ASSUME Init PROVE OnlyCheckPin
  OBVIOUS
<1>1. request = [c \in Calls |-> IdleRequest] /\ call = [c \in Calls |-> IdleCall]
  BY DEF Init, AuthInit, CardInit
<1> QED
  BY <1>1 DEF OnlyCheckPin, IdleRequest

LEMMA OnlyCheckPinStays ==
    ASSUME OnlyCheckPin, UNCHANGED <<call, request>>
    PROVE  OnlyCheckPin'
  BY DEF OnlyCheckPin

LEMMA OnlyCheckPinWorks ==
    ASSUME CardTypeOK, OnlyCheckPin, NEW c \in Calls, CardCall(c), UNCHANGED request
    PROVE  OnlyCheckPin'
<1>1. PICK to : CallMove(c, to)
  BY CallMoves
<1>2. request[c].pc = "card" /\ request[c].kind = "checkPin"
  BY OnlyCheckPinCalls
<1>3. call'[c] = to /\ \A d \in Calls : d # c => call'[d] = call[d]
  BY <1>1 DEF CallMove, CardTypeOK
<1> QED
  BY <1>1, <1>2, <1>3 DEF OnlyCheckPin, CallMove

LEMMA OnlyCheckPinReturns ==
    ASSUME OnlyCheckPin, request \in [Calls -> Requests], NEW c \in Calls, Return(c),
           call'[c] = IdleCall, \A d \in Calls : d # c => call'[d] = call[d]
    PROVE  OnlyCheckPin'
<1>1. /\ request'[c].pc = "idle" /\ request'[c].kind = "none"
      /\ \A d \in Calls : d # c => request'[d] = request[d]
  BY DEF Return, IdleRequest
<1> QED
  BY <1>1 DEF OnlyCheckPin

LEMMA OnlyCheckPinAsks ==
    ASSUME CardTypeOK, OnlyCheckPin, request \in [Calls -> Requests], NEW c \in Calls,
           CheckPinAsks(c)
    PROVE  OnlyCheckPin'
<1>1. PICK pin \in Pins : Start(c, "checkPin", pin, NoCert)
  BY DEF CheckPinAsks, CheckPin
<1>2. /\ call'[c] = Started("checkPin", pin, NoCert)
      /\ \A d \in Calls : d # c => call'[d] = call[d]
  BY <1>1 DEF Start, Step, Started, CardTypeOK
<1>3. call'[c].kind = "checkPin" /\ call'[c].pc = "select" /\ call'[c].answer = None
  BY <1>2, StartedCall
<1>4. /\ request'[c].pc = "card" /\ request'[c].kind = "checkPin" /\ request[c].kind = "checkPin"
      /\ \A d \in Calls : d # c => request'[d] = request[d]
  BY DEF CheckPinAsks, Then, Requests
<1> QED
  BY <1>2, <1>3, <1>4 DEF OnlyCheckPin

LEMMA OnlyCheckPinBegins ==
    ASSUME OnlyCheckPin, request \in [Calls -> Requests], UNCHANGED call,
           NEW c \in Calls, NEW kind \in {"checkPin", "updateSessionExpiry", "startCardlessVoterSession"},
           kind = "checkPin" => \A d \in Calls : request[d].kind # "checkPin",
           request[c].pc = "idle",
           request' = [request EXCEPT ![c] = [pc |-> "then", kind |-> kind]]
    PROVE  OnlyCheckPin'
<1>1. /\ request'[c].pc = "then" /\ request'[c].kind = kind
      /\ \A d \in Calls : d # c => request'[d] = request[d]
  OBVIOUS
<1> QED
  BY <1>1 DEF OnlyCheckPin

----------------------------------------------------------------------------
(* Whose card it is.                                                       *)

LEMMA VerdictStays ==
    ASSUME NEW d, NEW e, d # None, e # None, d.user = e.user, d.hasPin = e.hasPin
    PROVE  ValidateCard(d) = ValidateCard(e)
  BY DEF ValidateCard

\* Steps that leave the certificates, the readings and the status alone.
LEMMA WhoseCardStays ==
    ASSUME InsertedTypeOK, ReaderAtRest, WhoseCard,
           UNCHANGED <<inserted, events, reads, authStatus>>,
           \A k \in Cards : chip'[k].cert = chip[k].cert,
           cardStatus'.status = cardStatus.status,
           (cardStatus'.details = None) <=> (cardStatus.details = None),
           cardStatus.details # None => /\ cardStatus'.details.user = cardStatus.details.user
                                        /\ cardStatus'.details.hasPin = cardStatus.details.hasPin
    PROVE  WhoseCard'
<1>1. inserted # NoCard => There'.cert = There.cert
  BY DEF InsertedTypeOK, CardTypeOK, There
<1>2. \A r \in Reads : HasCert(r) \/ reads[r].pc \in {"pin", "key", "done"} => inserted # NoCard
  BY DEF HasCert, ReaderAtRest, Reading
<1>3. ReadIsTheCards'
  BY <1>1, <1>2 DEF WhoseCard, ReadIsTheCards, HasCert
<1>4. ValidateCard(cardStatus.details) = "ok" => cardStatus.details # None
  BY DEF ValidateCard
<1>5. ValidateCard(cardStatus.details) = "ok" => ValidateCard(cardStatus'.details) = "ok"
  BY <1>4, VerdictStays
<1>6. NobodyBeforeDetails'
  BY <1>4, <1>5 DEF WhoseCard, NobodyBeforeDetails, Reading, ValidateCard, NeedsPin
<1>7. AuthUserIsCardUser'
  BY <1>1 DEF WhoseCard, AuthUserIsCardUser, There
<1> QED
  BY <1>3, <1>6, <1>7 DEF WhoseCard

\* What the calls and polls may make of the status.
StatusMove(t) ==
    \/ t.status = "logged_out"
    \/ /\ authStatus.status # "logged_out" /\ t.user = authStatus.user
       /\ t.status = "checking_pin" => authStatus.status = "checking_pin"
    \/ /\ cardStatus.status = "ready" /\ cardStatus.details # None
       /\ ValidateCard(cardStatus.details) = "ok"
       /\ t.user = cardStatus.details.user
       /\ t.status = "checking_pin" => NeedsPin(t.user)

LEMMA WhoseCardMoves ==
    ASSUME InsertedTypeOK, ReaderAtRest, WhoseCard, StatusMove(authStatus'),
           UNCHANGED <<inserted, chip, events, reads, cardStatus>>
    PROVE  WhoseCard'
<1>1. ReadIsTheCards'
  BY DEF WhoseCard, ReadIsTheCards, HasCert, There
<1>2. cardStatus.status = "ready" => ~Reading /\ events # <<"present">>
  BY DEF ReaderAtRest
<1>3. UNCHANGED <<Reading, There, ValidateCard(cardStatus.details)>>
  BY DEF Reading, There, ValidateCard
<1>4. NobodyBeforeDetails'
  BY <1>2, <1>3 DEF WhoseCard, NobodyBeforeDetails, StatusMove, NeedsPin
<1>5. AuthUserIsCardUser'
  BY DEF WhoseCard, AuthUserIsCardUser, ReadIsTheCards, StatusMove, There
<1> QED
  BY <1>1, <1>4, <1>5 DEF WhoseCard

LEMMA CurrentStatusMoves ==
    ASSUME InsertedTypeOK, NEW t, t = Current
    PROVE  StatusMove(t)
<1>1. Current = authStatus \/ Current.status = "logged_out"
  BY CurrentWellFormed, LoggedOutWellFormed DEF InsertedTypeOK, Reasons
<1> QED
  BY <1>1 DEF StatusMove

LEMMA AfterCardStatusStatusMoves ==
    ASSUME InsertedTypeOK, NEW t, t = AfterCardStatus(cardStatus)
    PROVE  StatusMove(t)
<1> DEFINE details == cardStatus.details
<1>1. CASE cardStatus.status # "ready"
  BY <1>1, AfterCardStatusCases DEF InsertedTypeOK, StatusMove
<1>2. CASE cardStatus.status = "ready"
  <2>1. details \in DetailsRecords \cup {None} /\ t = Presented(details)
    BY <1>2, AfterCardStatusCases DEF InsertedTypeOK
  <2>2. details \in DetailsRecords => details.user \in CardUsers /\ details.tries \in Nat
    BY DEF DetailsRecords
  <2>3. ValidateCard(details) = "ok" => details # None
    BY DEF ValidateCard
  <2>4. /\ WellFormed(authStatus) /\ now \in Nat /\ SessionEnd \in Int
    BY SessionEndType DEF InsertedTypeOK
  <2>5. CASE Presented(details).status = "logged_out"
    BY <2>1, <2>5 DEF StatusMove
  <2>6. CASE Presented(details) = authStatus
    BY <2>1, <2>6 DEF StatusMove
  <2>7. CASE /\ details \in DetailsRecords /\ ValidateCard(details) = "ok"
             /\ Presented(details) = LoggedIn(details.user, SessionEnd)
    <3>1. t.status = "logged_in" /\ t.user = details.user
      BY <2>1, <2>2, <2>4, <2>7, LoggedInWellFormed
    <3> QED
      BY <1>2, <2>3, <2>7, <3>1 DEF StatusMove
  <2>8. CASE /\ details \in DetailsRecords /\ ValidateCard(details) = "ok"
             /\ NeedsPin(details.user) /\ Presented(details) = AskForPin(details)
    <3>1. t.status = "checking_pin" /\ t.user = details.user
      BY <2>1, <2>2, <2>4, <2>8, AskForPinWellFormed
    <3> QED
      BY <1>2, <2>3, <2>8, <3>1 DEF StatusMove
  <2> QED
    BY <2>1, <2>4, <2>5, <2>6, <2>7, <2>8, PresentedCases
<1> QED
  BY <1>1, <1>2

LEMMA AfterPinAnswerStatusMoves ==
    ASSUME InsertedTypeOK, NEW answer, NEW tries \in Nat, NEW t, t = AfterPinAnswer(answer, tries)
    PROVE  StatusMove(t)
<1>1. /\ WellFormed(authStatus) /\ now \in Nat /\ SessionEnd \in Int
  BY SessionEndType DEF InsertedTypeOK
<1>2. CASE t = Current
  BY <1>2, CurrentStatusMoves
<1>3. CASE /\ authStatus.status = "checking_pin" /\ authStatus.user \in CardUsers
           /\ t = LoggedIn(authStatus.user, SessionEnd)
  <2>1. t.status = "logged_in" /\ t.user = authStatus.user
    BY <1>1, <1>3, LoggedInWellFormed
  <2> QED
    BY <1>3, <2>1 DEF StatusMove
<1>4. CASE /\ authStatus.status = "checking_pin" /\ authStatus.user \in CardUsers
           /\ t = AskForPin([user |-> authStatus.user, tries |-> tries])
  <2>1. t.status = "checking_pin" /\ t.user = authStatus.user
    BY <1>1, <1>4, AskForPinWellFormed
  <2> QED
    BY <1>4, <2>1 DEF StatusMove
<1> QED
  BY <1>2, <1>3, <1>4, AfterPinAnswerCases

LEMMA VerifyKeepsCerts ==
    ASSUME CardTypeOK, NEW pin, Verify(pin)
    PROVE  \A k \in Cards : chip'[k].cert = chip[k].cert
<1>1. chip \in [Cards -> Chips]
  BY DEF CardTypeOK
<1>2. \E tries : chip' = [chip EXCEPT ![inserted].tries = tries]
  BY DEF Verify
<1> QED
  BY <1>1, <1>2 DEF Chips

\* One reading goes on: it keeps the certificate it has, or takes the card's.
ReadMove(r, read) ==
    /\ reads[r].pc # "idle" /\ Advance(r, read)
    /\ \A k \in Cards : chip'[k].cert = chip[k].cert
    /\ read.pc # "idle"
    /\ read.pc \in {"ca", "vxkey", "pin", "key", "tries", "done"} =>
         \/ HasCert(r) /\ read.cert = reads[r].cert
         \/ read.cert = There.cert
    /\ read.pc \in {"pin", "key", "done"} =>
         \/ reads[r].pc \in {"pin", "key", "done"}
         \/ HasCert(r) /\ HasNoPin(reads[r].cert)

LEMMA ReadMoves ==
    ASSUME CardTypeOK, ReadCardDetails
    PROVE  \/ \E r \in Reads : \E read : ReadMove(r, read)
           \/ \E r \in Reads :
                /\ reads[r].pc # "idle"
                /\ \/ FinishRead(r, None)
                   \/ \E tries \in {0, There.tries} :
                        /\ HasCert(r)
                        /\ tries = There.tries \/ reads[r].pc = "done"
                        /\ FinishRead(r, Details(reads[r].cert.user, reads[r].cert.hasPin, tries))
<1>1. PICK r \in Reads :
        \/ ReadSelect(r) \/ ReadVxCert(r) \/ ReadAdminCert(r) \/ ReadCaCert(r)
        \/ ReadVxKey(r) \/ ReadDefaultPin(r) \/ ReadAdminKey(r)
        \/ ReadTries(r) \/ ReadDone(r) \/ ReadFails(r)
  BY DEF ReadCardDetails
<1>2. reads[r] \in Readings
  BY DEF CardTypeOK
<1>3. UNCHANGED chip => \A k \in Cards : chip'[k].cert = chip[k].cert
  OBVIOUS
<1>4. CASE ReadSelect(r)
  <2>1. ReadMove(r, [reads[r] EXCEPT !.pc = "vx"])
    BY <1>2, <1>3, <1>4 DEF ReadSelect, ReadMove, Readings
  <2> QED
    BY <2>1
<1>5. CASE ReadVxCert(r)
  <2>1. ReadMove(r, [reads[r] EXCEPT !.pc = "admin", !.vx = inserted])
    BY <1>2, <1>3, <1>5 DEF ReadVxCert, ReadMove, Readings
  <2> QED
    BY <2>1
<1>6. CASE ReadAdminCert(r)
  <2>1. ReadMove(r, [reads[r] EXCEPT !.pc = "ca", !.cert = There.cert])
    BY <1>2, <1>3, <1>6 DEF ReadAdminCert, ReadMove, Readings
  <2> QED
    BY <2>1
<1>7. CASE ReadCaCert(r)
  <2>1. ReadMove(r, [reads[r] EXCEPT !.pc = "vxkey", !.ca = There.ca])
    BY <1>2, <1>3, <1>7 DEF ReadCaCert, ReadMove, Readings, HasCert
  <2> QED
    BY <2>1
<1>8. CASE ReadVxKey(r)
  BY <1>2, <1>3, <1>8 DEF ReadVxKey, ReadMove, Readings, HasCert
<1>9. CASE ReadDefaultPin(r)
  BY <1>2, <1>9, VerifyKeepsCerts DEF ReadDefaultPin, ReadMove, Readings, HasCert
<1>10. CASE ReadAdminKey(r)
  BY <1>2, <1>3, <1>10 DEF ReadAdminKey, ReadMove, Readings, HasCert
<1>11. CASE ReadTries(r)
  BY <1>11 DEF ReadTries, HasCert
<1>12. CASE ReadDone(r)
  BY <1>12 DEF ReadDone, HasCert
<1>13. CASE ReadFails(r)
  BY <1>13 DEF ReadFails
<1> QED
  BY <1>1, <1>4, <1>5, <1>6, <1>7, <1>8, <1>9, <1>10, <1>11, <1>12, <1>13

LEMMA WhoseCardReads ==
    ASSUME InsertedTypeOK, ReaderAtRest, WhoseCard, ReadCardDetails, UNCHANGED authStatus
    PROVE  WhoseCard'
<1>1. /\ CardTypeOK
      /\ Reading => /\ events = <<>> /\ inserted # NoCard /\ cardStatus.status # "ready"
                    /\ authStatus.status = "logged_out"
  BY DEF InsertedTypeOK, ReaderAtRest, WhoseCard, NobodyBeforeDetails
<1>2. ASSUME NEW r \in Reads, NEW read, ReadMove(r, read) PROVE WhoseCard'
  <2>1. Reading /\ inserted \in Cards /\ There'.cert = There.cert
    BY <1>1, <1>2 DEF Reading, ReadMove, Advance, CardTypeOK, There
  <2>2. /\ reads'[r] = read /\ \A q \in Reads : q # r => reads'[q] = reads[q]
        /\ UNCHANGED <<cardStatus, inserted, events>>
    BY <1>1, <1>2 DEF ReadMove, Advance, CardTypeOK
  <2>3. /\ HasCert(r)' => read.cert = There.cert
        /\ read.pc \in {"pin", "key", "done"} => HasNoPin(There.cert)
    BY <1>2, <2>2 DEF ReadMove, WhoseCard, ReadIsTheCards, HasCert
  <2>4. ReadIsTheCards'
    BY <1>1, <2>1, <2>2, <2>3 DEF WhoseCard, ReadIsTheCards, HasCert
  <2>5. Reading' = Reading
    BY <1>2, <2>2 DEF Reading, ReadMove
  <2>6. NobodyBeforeDetails'
    BY <1>1, <2>1, <2>2, <2>5 DEF NobodyBeforeDetails
  <2>7. AuthUserIsCardUser'
    BY <1>1, <2>1 DEF AuthUserIsCardUser
  <2> QED
    BY <2>4, <2>6, <2>7 DEF WhoseCard
<1>3. ASSUME NEW r \in Reads, reads[r].pc # "idle", NEW details, FinishRead(r, details),
             details # None => details.user = There.cert.user /\ details.hasPin = There.cert.hasPin
      PROVE  WhoseCard'
  <2>1. Reading /\ UNCHANGED <<inserted, chip, events>> /\ cardStatus' = Ready(details)
    BY <1>3 DEF Reading, FinishRead
  <2>2. reads'[r].pc = "idle" /\ \A q \in Reads : q # r => reads'[q] = reads[q]
    BY <1>1, <1>3 DEF FinishRead, CardTypeOK, IdleRead
  <2>3. ReadIsTheCards'
    BY <1>3, <2>1, <2>2 DEF WhoseCard, ReadIsTheCards, HasCert, There, Ready
  <2>4. NobodyBeforeDetails'
    BY <1>1, <2>1 DEF NobodyBeforeDetails
  <2>5. AuthUserIsCardUser'
    BY <1>1, <2>1 DEF AuthUserIsCardUser
  <2> QED
    BY <2>3, <2>4, <2>5 DEF WhoseCard
<1>4. ASSUME NEW r \in Reads, HasCert(r), NEW tries PROVE
        LET details == Details(reads[r].cert.user, reads[r].cert.hasPin, tries)
        IN  details.user = There.cert.user /\ details.hasPin = There.cert.hasPin
  BY <1>4 DEF WhoseCard, ReadIsTheCards, Details
<1>5. CASE \E r \in Reads : \E read : ReadMove(r, read)
  BY <1>2, <1>5
<1>6. ASSUME NEW r \in Reads, reads[r].pc # "idle", FinishRead(r, None) PROVE WhoseCard'
  BY <1>3, <1>6
<1>7. ASSUME NEW r \in Reads, reads[r].pc # "idle", HasCert(r), NEW tries,
             FinishRead(r, Details(reads[r].cert.user, reads[r].cert.hasPin, tries))
      PROVE  WhoseCard'
  <2> DEFINE details == Details(reads[r].cert.user, reads[r].cert.hasPin, tries)
  <2>1. details.user = There.cert.user /\ details.hasPin = There.cert.hasPin
    BY <1>4, <1>7
  <2>2. FinishRead(r, details)
    BY <1>7
  <2> HIDE DEF details
  <2> QED
    BY <1>3, <1>7, <2>1, <2>2
<1> QED
  BY <1>1, <1>5, <1>6, <1>7, ReadMoves

LEMMA WhoseCardSurroundings ==
    ASSUME InsertedTypeOK, ReaderAtRest, WhoseCard, ~Hurried,
           PersonAndReader({"checking_pin", "logged_in"})
    PROVE  WhoseCard'
<1>1. /\ CardTypeOK /\ UNCHANGED authStatus
      /\ authStatus.status \in {"logged_out", "checking_pin", "logged_in"}
  BY DEF InsertedTypeOK, WellFormed, AuthStatuses, PersonAndReader, authVars
<1>2. ASSUME NEW k \in Cards, Insert(k) PROVE WhoseCard'
  <2>1. ~Reading /\ UNCHANGED <<reads, cardStatus>> /\ inserted = NoCard /\ inserted' # NoCard
    BY <1>2, CardAssumption DEF Insert
  <2>2. authStatus.status = "logged_out" /\ events = <<>>
    BY <1>1, <1>2, <2>1 DEF PersonAndReader, Insert
  <2>3. cardStatus.status # "ready"
    BY <2>1, <2>2 DEF ReaderAtRest
  <2> QED
    BY <1>1, <2>1, <2>2, <2>3 DEF WhoseCard, ReadIsTheCards, NobodyBeforeDetails,
       AuthUserIsCardUser, Reading, HasCert
<1>3. CASE Remove
  <2>1. ~Reading /\ UNCHANGED <<reads, cardStatus, chip>> /\ inserted' = NoCard
    BY <1>3 DEF Remove
  <2>2. events' # <<"present">>
    <3>1. events = <<>> /\ events' = Append(events, "absent")
      BY <1>3 DEF Remove
    <3> QED
      BY <3>1
  <2>3. UNCHANGED ValidateCard(cardStatus.details)
    BY <2>1 DEF ValidateCard
  <2> QED
    BY <1>1, <2>1, <2>2, <2>3 DEF WhoseCard, ReadIsTheCards, NobodyBeforeDetails,
       AuthUserIsCardUser, Reading, HasCert, NeedsPin
<1>4. CASE CardPresent
  <2>1. /\ events = <<"present">> /\ events' = <<>> /\ ~Reading
        /\ reader # "ready" /\ cardStatus.status # "ready" /\ UNCHANGED <<inserted, chip>>
    BY <1>4 DEF CardPresent, Report, ReaderAtRest
  <2>2. authStatus.status = "logged_out"
    BY <2>1 DEF WhoseCard, NobodyBeforeDetails
  <2>3. cardStatus'.status # "ready"
    BY <1>1, <1>4, <2>1, UpdateReaderAtRest DEF CardPresent, ReaderStates
  <2>4. \A r \in Reads : reads'[r].pc \in {"idle", "select"}
    <3>1. \A r \in Reads : reads[r].pc = "idle"
      BY <2>1 DEF Reading
    <3>2. \/ UNCHANGED reads
          \/ \E r \in Reads : reads' = [reads EXCEPT ![r] = [IdleRead EXCEPT !.pc = "select"]]
      BY <1>4 DEF CardPresent, UpdateReader
    <3>3. [IdleRead EXCEPT !.pc = "select"].pc = "select"
      BY DEF IdleRead
    <3> QED
      BY <1>1, <3>1, <3>2, <3>3 DEF CardTypeOK
  <2> QED
    BY <1>1, <2>1, <2>2, <2>3, <2>4 DEF WhoseCard, ReadIsTheCards, NobodyBeforeDetails,
       AuthUserIsCardUser, HasCert
<1>5. CASE CardAbsent \/ ReaderLost
  <2>1. /\ UNCHANGED <<inserted, chip>>
        /\ events' = <<>> \/ UNCHANGED events
        /\ \E status \in ReaderStates \ {"ready"} : UpdateReader(status)
    BY <1>5 DEF CardAbsent, ReaderLost, Report, ReaderAtRest, ReaderStates
  <2>2. UNCHANGED reads /\ (cardStatus'.status # "ready" \/ UNCHANGED cardStatus)
    BY <1>1, <2>1, UpdateReaderAtRest
  <2>3. UNCHANGED Reading /\ (UNCHANGED cardStatus => UNCHANGED ValidateCard(cardStatus.details))
    BY <2>2 DEF Reading, ValidateCard
  <2> QED
    BY <1>1, <2>1, <2>2, <2>3 DEF WhoseCard, ReadIsTheCards, NobodyBeforeDetails,
       AuthUserIsCardUser, HasCert, There, NeedsPin
<1> QED
  BY <1>1, <1>2, <1>3, <1>4, <1>5, WhoseCardReads DEF PersonAndReader, Surroundings

LEMMA NoteTriesKeepsOwner ==
    ASSUME CardTypeOK, cardStatus' = cardStatus \/ \E tries \in Nat : NoteTries(tries)
    PROVE  /\ cardStatus'.status = cardStatus.status
           /\ (cardStatus'.details = None) <=> (cardStatus.details = None)
           /\ cardStatus.details # None => /\ cardStatus'.details.user = cardStatus.details.user
                                           /\ cardStatus'.details.hasPin = cardStatus.details.hasPin
<1>1. cardStatus \in CardStatuses
  BY DEF CardTypeOK
<1>2. ASSUME NEW tries, NoteTries(tries), ~NoDetails
      PROVE  /\ cardStatus'.status = cardStatus.status
             /\ cardStatus'.details = [cardStatus.details EXCEPT !.tries = tries]
             /\ cardStatus.details \in DetailsRecords
  BY <1>1, <1>2 DEF NoteTries, NoDetails, CardStatuses
<1>3. ASSUME NEW details \in DetailsRecords, NEW tries
      PROVE  /\ [details EXCEPT !.tries = tries].user = details.user
             /\ [details EXCEPT !.tries = tries].hasPin = details.hasPin
             /\ tries \in Nat => [details EXCEPT !.tries = tries] # None
  BY NoneAssumption DEF DetailsRecords
<1>4. ASSUME NEW tries, NoteTries(tries), NoDetails PROVE cardStatus' = cardStatus
  BY <1>4 DEF NoteTries
<1>5. CASE cardStatus' = cardStatus
  BY <1>5
<1>6. ASSUME NEW tries \in Nat, NoteTries(tries), ~NoDetails
      PROVE  /\ cardStatus'.status = cardStatus.status
             /\ cardStatus.details # None /\ cardStatus'.details # None
             /\ cardStatus'.details.user = cardStatus.details.user
             /\ cardStatus'.details.hasPin = cardStatus.details.hasPin
  <2>1. /\ cardStatus'.status = cardStatus.status
        /\ cardStatus'.details = [cardStatus.details EXCEPT !.tries = tries]
        /\ cardStatus.details \in DetailsRecords
    BY <1>2, <1>6
  <2>2. cardStatus.details # None
    BY <1>6 DEF NoDetails
  <2> QED
    BY <1>3, <2>1, <2>2
<1> QED
  BY <1>4, <1>5, <1>6

LEMMA CardWorksMoves ==
    ASSUME InsertedTypeOK, OnlyCheckPin, NEW c \in Calls, CardWorks(c)
    PROVE  /\ CardCall(c) /\ call[c].kind = "checkPin"
           /\ UNCHANGED <<inserted, events, reader, connected, reads, issued, authStatus, request, now>>
           /\ \A k \in Cards : chip'[k].cert = chip[k].cert
           /\ cardStatus' = cardStatus \/ \E tries \in Nat : NoteTries(tries)
<1>1. /\ CardCall(c) /\ UNCHANGED <<authStatus, request, now>>
      /\ call[c].kind = "checkPin" /\ CardTypeOK
      /\ \/ CallSelect(c) \/ CheckPinCert(c) \/ CheckPinVerify(c) \/ CheckPinKey(c)
         \/ CheckPinDone(c) \/ CallFails(c)
  BY OnlyCheckPinCalls DEF CardWorks, InsertedTypeOK
<1>2. UNCHANGED <<inserted, events, reader, connected, reads, issued>>
  BY <1>1 DEF CallSelect, CheckPinCert, CheckPinVerify, CheckPinKey, CheckPinDone, CallFails, Step
<1>3. CASE ~CheckPinVerify(c)
  BY <1>1, <1>2, <1>3
     DEF CallSelect, CheckPinCert, CheckPinKey, CheckPinDone, CallFails
<1>4. CASE CheckPinVerify(c)
  <2>1. There.tries + 1 \in Nat
    BY <1>1, <1>4 DEF CheckPinVerify, CardTypeOK, Commandable, Reachable, There, Chips
  <2>2. \A k \in Cards : chip'[k].cert = chip[k].cert
    BY <1>1, <1>4, VerifyKeepsCerts DEF CheckPinVerify
  <2> QED
    BY <1>1, <1>2, <1>4, <2>1, <2>2 DEF CheckPinVerify
<1> QED
  BY <1>3, <1>4

LEMMA InsertedInvariantInit == Init => InsertedInvariant
<1> SUFFICES ASSUME Init PROVE InsertedInvariant
  OBVIOUS
<1>1. InsertedTypeOK /\ OnlyCheckPin /\ ReaderAtRest
  BY InsertedTypesInit, OnlyCheckPinInit, RestInit DEF Init, AuthInit
<1>2. /\ authStatus.status = "logged_out" /\ inserted = NoCard
      /\ \A r \in Reads : reads[r].pc = "idle"
  BY DEF Init, AuthInit, CardInit, IdleRead, LoggedOut, Status
<1>3. WhoseCard
  BY <1>2 DEF WhoseCard, ReadIsTheCards, NobodyBeforeDetails, AuthUserIsCardUser, HasCert
<1> QED
  BY <1>1, <1>3 DEF InsertedInvariant

LEMMA InsertedInvariantStep ==
    ASSUME ~Hurried, InsertedInvariant, [Next]_vars
    PROVE  InsertedInvariant'
<1>1. /\ InsertedTypeOK /\ ReaderAtRest /\ OnlyCheckPin /\ WhoseCard /\ InsertedTypeOK'
      /\ CardTypeOK /\ request \in [Calls -> Requests]
  BY InsertedTypesStep DEF InsertedInvariant, InsertedTypeOK
<1>2. ASSUME UNCHANGED cardVars, StatusMove(authStatus') PROVE ReaderAtRest' /\ WhoseCard'
  <2>1. UNCHANGED <<inserted, chip, events, reader, connected, reads, cardStatus>>
    BY <1>2 DEF cardVars
  <2> QED
    BY <1>1, <1>2, <2>1, RestStays, WhoseCardMoves
<1>3. StatusMove(authStatus)
  BY DEF StatusMove
<1>4. ASSUME NEW c \in Calls, Return(c), UNCHANGED call PROVE OnlyCheckPin' \/ request[c].pc = "card"
  <2>1. request[c].pc # "card" => call'[c] = IdleCall
    BY <1>1, <1>4 DEF OnlyCheckPin
  <2> QED
    BY <1>1, <1>4, <2>1, OnlyCheckPinReturns
<1>5. CASE UNCHANGED <<cardVars, request, authStatus>>
  BY <1>1, <1>2, <1>3, <1>5, OnlyCheckPinStays DEF InsertedInvariant, cardVars
<1>6. CASE PersonAndReader({"checking_pin", "logged_in"})
  <2>1. ReaderAtRest'
    BY <1>1, <1>6, RestSurroundings DEF PersonAndReader
  <2>2. WhoseCard'
    BY <1>1, <1>6, WhoseCardSurroundings
  <2>3. UNCHANGED <<call, request>>
    BY <1>6 DEF PersonAndReader, authVars, Surroundings, Insert, Remove, CardPresent, CardAbsent,
       ReaderLost, ReadCardDetails, ReadSelect, ReadVxCert, ReadAdminCert, ReadCaCert, ReadVxKey,
       ReadDefaultPin, ReadAdminKey, ReadTries, ReadDone, ReadFails, FinishRead, Advance
  <2> QED
    BY <1>1, <2>1, <2>2, <2>3, OnlyCheckPinStays DEF InsertedInvariant
<1>7. ASSUME NEW c \in Calls, CardWorks(c) PROVE InsertedInvariant'
  <2>1. /\ CardCall(c) /\ call[c].kind = "checkPin"
        /\ UNCHANGED <<inserted, events, reads, authStatus, request>>
        /\ \A k \in Cards : chip'[k].cert = chip[k].cert
        /\ cardStatus' = cardStatus \/ \E tries \in Nat : NoteTries(tries)
    BY <1>1, <1>7, CardWorksMoves
  <2>2. ReaderAtRest' /\ OnlyCheckPin'
    BY <1>1, <2>1, RestCall, OnlyCheckPinWorks
  <2>3. WhoseCard'
    BY <1>1, <2>1, NoteTriesKeepsOwner, WhoseCardStays
  <2> QED
    BY <1>1, <2>2, <2>3 DEF InsertedInvariant
<1>8. ASSUME CheckCardReader,
             \/ UNCHANGED request
             \/ \E c \in Calls, kind \in {"checkPin", "updateSessionExpiry", "startCardlessVoterSession"} :
                  /\ kind = "checkPin" => \A d \in Calls : request[d].kind # "checkPin"
                  /\ request[c].pc = "idle"
                  /\ request' = [request EXCEPT ![c] = [pc |-> "then", kind |-> kind]]
      PROVE  InsertedInvariant'
  <2>1. StatusMove(authStatus') /\ UNCHANGED cardVars /\ UNCHANGED call
    BY <1>1, <1>8, AfterCardStatusStatusMoves DEF CheckCardReader, cardVars
  <2>2. OnlyCheckPin'
    BY <1>1, <1>8, <2>1, OnlyCheckPinStays, OnlyCheckPinBegins
  <2> QED
    BY <1>1, <1>2, <2>1, <2>2 DEF InsertedInvariant
<1>9. ASSUME NEW c \in Calls, CheckPinLocked(c) PROVE InsertedInvariant'
  <2>1. Return(c) /\ UNCHANGED <<cardVars, call, authStatus>> /\ request[c].pc # "card"
    BY <1>9 DEF CheckPinLocked, cardVars, Then
  <2> QED
    BY <1>1, <1>2, <1>3, <1>4, <2>1 DEF InsertedInvariant
<1>10. ASSUME NEW c \in Calls, CheckPinAsks(c) PROVE InsertedInvariant'
  <2>1. OnlyCheckPin'
    BY <1>1, <1>10, OnlyCheckPinAsks
  <2>2. UNCHANGED <<inserted, chip, events, reader, connected, reads, cardStatus, authStatus>>
    BY <1>10 DEF CheckPinAsks, CheckPin, Start, Step
  <2> QED
    BY <1>1, <1>3, <2>1, <2>2, RestStays, WhoseCardMoves DEF InsertedInvariant
<1>11. ASSUME NEW c \in Calls, CheckPinAnswered(c) PROVE InsertedInvariant'
  <2>1. /\ Return(c) /\ UNCHANGED <<inserted, chip, events, reader, connected, reads, cardStatus>>
        /\ call' = [call EXCEPT ![c] = IdleCall]
        /\ authStatus' = AfterPinAnswer(call[c].answer, call[c].tries)
    BY <1>11 DEF CheckPinAnswered, Take, Step
  <2>2. call[c].tries \in Nat
    BY <1>1 DEF CardTypeOK, CardCalls
  <2>3. StatusMove(authStatus')
    BY <1>1, <2>1, <2>2, AfterPinAnswerStatusMoves
  <2>4. call'[c] = IdleCall /\ \A d \in Calls : d # c => call'[d] = call[d]
    BY <1>1, <2>1 DEF CardTypeOK
  <2>5. OnlyCheckPin'
    BY <1>1, <2>1, <2>4, OnlyCheckPinReturns
  <2> QED
    BY <1>1, <2>1, <2>3, <2>5, RestStays, WhoseCardMoves DEF InsertedInvariant
<1>12. CASE LogOut
  <2>1. StatusMove(authStatus')
    BY <1>12, LoggedOutWellFormed DEF LogOut, StatusMove, Reasons
  <2> QED
    BY <1>1, <1>2, <1>12, <2>1, OnlyCheckPinStays DEF LogOut, InsertedInvariant, cardVars
<1>13. ASSUME NEW c \in Calls, UpdateSessionExpiry(c) PROVE InsertedInvariant'
  <2>1. Return(c) /\ UNCHANGED <<cardVars, call>> /\ request[c].pc # "card"
    BY <1>13 DEF UpdateSessionExpiry, cardVars, Then
  <2>2. StatusMove(authStatus')
    <3>1. WellFormed(authStatus)
      BY <1>1 DEF InsertedTypeOK
    <3>2. CASE Current.status = "logged_in"
      <4>1. Current = authStatus
        BY <3>1, <3>2, CurrentWellFormed
      <4>2. PICK until : authStatus' = [authStatus EXCEPT !.until = until]
        BY <1>13, <3>2, <4>1 DEF UpdateSessionExpiry
      <4>3. authStatus'.status = authStatus.status /\ authStatus'.user = authStatus.user
        BY <3>1, <4>2 DEF WellFormed, AuthStatuses
      <4> QED
        BY <3>2, <4>1, <4>3 DEF StatusMove
    <3>3. CASE Current.status # "logged_in"
      BY <1>1, <1>13, <3>3, CurrentStatusMoves DEF UpdateSessionExpiry
    <3> QED
      BY <3>2, <3>3
  <2> QED
    BY <1>1, <1>2, <1>4, <2>1, <2>2 DEF InsertedInvariant
<1>14. ASSUME NEW c \in Calls, StartCardlessVoterSession(c) PROVE InsertedInvariant'
  <2>1. Return(c) /\ UNCHANGED <<cardVars, call, authStatus>> /\ request[c].pc # "card"
    BY <1>14 DEF StartCardlessVoterSession, cardVars, Then
  <2> QED
    BY <1>1, <1>2, <1>3, <1>4, <2>1 DEF InsertedInvariant
<1>15. \/ UNCHANGED <<cardVars, request, authStatus>>
       \/ PersonAndReader({"checking_pin", "logged_in"}) \/ LogOut
       \/ CheckCardReader /\ UNCHANGED request
       \/ \E c \in Calls : \/ CardWorks(c) \/ CheckPinLocked(c) \/ CheckPinAsks(c)
                           \/ CheckPinAnswered(c) \/ UpdateSessionExpiry(c)
                           \/ StartCardlessVoterSession(c) \/ ApiCall(c)
  BY DEF Next, Around, GetAuthStatus, ApiStep, vars, authVars, Tick, EndCardlessVoterSession
<1>16. ASSUME NEW c \in Calls, ApiCall(c) PROVE InsertedInvariant'
  BY <1>8, <1>16 DEF ApiCall, Call
<1> QED
  BY <1>5, <1>6, <1>7, <1>8, <1>9, <1>10, <1>11, <1>12, <1>13, <1>14, <1>15, <1>16

\* Whoever is asked for a PIN or logged in while a card is in the reader is the
\* user of that card, for any cards, calls and readings, when no card is pulled
\* before it is read: InsertedInvariant says how a card's coming, its reading,
\* the cached status and the polls keep each other in step.
THEOREM AskedIsTheCards ==
    ASSUME ~Hurried
    PROVE  Spec => []AuthUserIsCardUser
<1>1. Init => InsertedInvariant
  BY InsertedInvariantInit
<1>2. InsertedInvariant /\ [Next]_vars => InsertedInvariant'
  BY InsertedInvariantStep
<1>3. InsertedInvariant => AuthUserIsCardUser
  BY DEF InsertedInvariant, WhoseCard
<1> QED
  BY <1>1, <1>2, <1>3, PTL DEF Spec

----------------------------------------------------------------------------
(* Lockouts.                                                               *)

\* What a step that leaves the cards alone makes of the status: one that asks
\* for a PIN is the one there was, while no wrong PIN's answer was taken, or is
\* made of the count of the card in the slot.
LockMove ==
    authStatus'.status = "checking_pin" /\ inserted # NoCard =>
        \/ authStatus' = authStatus /\ (NoneOnItsWay' => NoneOnItsWay)
        \/ /\ ~HasNoPin(There.cert)
           /\ \E tries \in Nat :
                /\ authStatus'.until = LockoutEnd(Allowed, StartingDuration, tries, now)
                /\ There.tries >= Allowed => tries = There.tries

LEMMA StandsStay ==
    ASSUME InsertedTypeOK, CountsAgree, LockoutStands, LockMove,
           UNCHANGED <<inserted, chip, reader, connected, now, freeFrom>>,
           \A d \in Calls :
               call'[d].pc \in {"select", "cert", "verify"} =>
                   \/ call[d].pc \in {"select", "cert", "verify"}
                   \/ Reachable /\ There.tries >= Allowed => now >= freeFrom[inserted]
    PROVE  LockoutStands'
<1>1. UNCHANGED <<There, Reachable>>
  BY DEF There, Reachable
<1>2. \A c \in Calls :
         call'[c].pc \in {"select", "cert", "verify"} /\ Reachable' /\ There'.tries >= Allowed
           => now' >= freeFrom'[inserted']
  BY <1>1 DEF LockoutStands
<1>3. CASE authStatus'.status = "checking_pin" /\ inserted # NoCard
  <2>1. CASE authStatus' = authStatus /\ (NoneOnItsWay' => NoneOnItsWay)
    BY <1>1, <1>2, <2>1 DEF LockoutStands
  <2>2. ASSUME ~HasNoPin(There.cert), NEW tries \in Nat,
               authStatus'.until = LockoutEnd(Allowed, StartingDuration, tries, now),
               There.tries >= Allowed => tries = There.tries
        PROVE  LockoutStands'
    <3>1. inserted \in Cards /\ freeFrom[inserted] \in Int /\ now \in Int
      BY <1>3 DEF InsertedTypeOK, CardTypeOK
    <3>2. ASSUME There.tries >= Allowed
          PROVE  \/ now >= freeFrom[inserted]
                 \/ authStatus'.until \in Int /\ authStatus'.until >= freeFrom[inserted]
      <4>1. authStatus'.until = now + Duration(tries) /\ Duration(tries) \in Int
        BY <2>2, <3>1, <3>2, LockoutEndType DEF Duration
      <4>2. freeFrom[inserted] <= now \/ freeFrom[inserted] <= now + Duration(tries)
        BY <2>2, <3>1, <3>2 DEF CountsAgree, There
      <4> QED
        BY <3>1, <4>1, <4>2
    <3> QED
      BY <1>1, <1>2, <1>3, <2>2, <3>2 DEF LockoutStands
  <2> QED
    BY <1>3, <2>1, <2>2 DEF LockMove
<1>4. CASE ~(authStatus'.status = "checking_pin" /\ inserted # NoCard)
  BY <1>2, <1>4 DEF LockoutStands
<1> QED
  BY <1>3, <1>4

LEMMA CountsStay ==
    ASSUME CountsAgree, UNCHANGED <<inserted, chip, cardStatus, now, freeFrom>>,
           \A d \in Calls :
               request'[d].kind = "checkPin" =>
                   \/ request[d].kind = "checkPin" /\ call'[d] = call[d]
                   \/ call'[d].pc \notin {"key", "match"} /\ call'[d].answer # "incorrect"
    PROVE  CountsAgree'
<1>1. UNCHANGED There
  BY DEF There
<1> QED
  BY <1>1 DEF CountsAgree

LEMMA CheckedStays ==
    ASSUME InsertedInvariant, CheckedWhileAsked, UNCHANGED <<events, reader, reads>>,
           \A d \in Calls :
               request'[d].kind = "checkPin" =>
                   request[d].kind = "checkPin" \/ authStatus.status = "checking_pin",
           authStatus.status = "checking_pin" /\ reader = "ready" /\ ~Reading
               => \/ authStatus'.status = "checking_pin"
                  \/ \A d \in Calls : request'[d].kind # "checkPin"
    PROVE  CheckedWhileAsked'
<1>1. UNCHANGED Reading
  BY DEF Reading
<1>2. authStatus.status = "checking_pin" => events # <<"present">> /\ ~Reading
  BY DEF InsertedInvariant, WhoseCard, NobodyBeforeDetails
<1> QED
  BY <1>1, <1>2 DEF CheckedWhileAsked

\* A card whose PIN is asked for stays asked for while the reader has it.
LEMMA AskedStays ==
    ASSUME InsertedInvariant, authStatus.status = "checking_pin", reader = "ready"
    PROVE  AfterCardStatus(cardStatus) = authStatus
<1>1. cardStatus.status = "ready"
  BY DEF InsertedInvariant, ReaderAtRest, WhoseCard, NobodyBeforeDetails
<1>2. ValidateCard(cardStatus.details) = "ok"
  BY <1>1 DEF InsertedInvariant, WhoseCard, NobodyBeforeDetails
<1>3. Current = authStatus
  BY CurrentWellFormed DEF InsertedInvariant, InsertedTypeOK
<1> QED
  BY <1>1, <1>2, <1>3 DEF AfterCardStatus, Presented

LEMMA CurrentLockMoves ==
    ASSUME InsertedTypeOK, authStatus' = Current, NoneOnItsWay' => NoneOnItsWay
    PROVE  LockMove
<1>1. Current.status # "checking_pin" \/ Current = authStatus
  BY CurrentWellFormed DEF InsertedTypeOK
<1> QED
  BY <1>1 DEF LockMove

\* Polling asks for the PIN of a card that has one, with the card's own count.
LEMMA AfterCardStatusLockMoves ==
    ASSUME InsertedInvariant, CountsAgree, authStatus' = AfterCardStatus(cardStatus),
           NoneOnItsWay' => NoneOnItsWay
    PROVE  LockMove
<1> DEFINE details == cardStatus.details
<1>1. /\ InsertedTypeOK /\ CardTypeOK /\ WellFormed(authStatus) /\ now \in Nat
      /\ SessionEnd \in Int
  BY SessionEndType DEF InsertedInvariant, InsertedTypeOK
<1>2. CASE cardStatus.status # "ready"
  BY <1>1, <1>2, AfterCardStatusCases DEF LockMove
<1>3. CASE cardStatus.status = "ready"
  <2>1. details \in DetailsRecords \cup {None} /\ authStatus' = Presented(details)
    BY <1>1, <1>3, AfterCardStatusCases
  <2>2. details \in DetailsRecords => details.user \in CardUsers /\ details.tries \in Nat
                                      /\ details.hasPin \in BOOLEAN
    BY DEF DetailsRecords
  <2>3. CASE Presented(details).status = "logged_out"
    BY <2>1, <2>3 DEF LockMove
  <2>4. CASE Presented(details) = authStatus
    BY <2>1, <2>4 DEF LockMove
  <2>5. CASE /\ details \in DetailsRecords /\ Presented(details) = LoggedIn(details.user, SessionEnd)
    <3>1. authStatus'.status = "logged_in"
      BY <1>1, <2>1, <2>2, <2>5, LoggedInWellFormed
    <3> QED
      BY <3>1 DEF LockMove
  <2>6. CASE /\ details \in DetailsRecords /\ ValidateCard(details) = "ok"
             /\ NeedsPin(details.user) /\ Presented(details) = AskForPin(details)
    <3>1. authStatus'.until = LockoutEnd(Allowed, StartingDuration, details.tries, now)
      BY <1>1, <2>1, <2>2, <2>6, AskForPinWellFormed
    <3>2. ~HasNoPin(details)
      BY <2>2, <2>6 DEF ValidateCard, NeedsPin, HasNoPin
    <3>3. details # None
      BY <2>6, NoneAssumption
    <3>4. inserted # NoCard => ~HasNoPin(There.cert)
      BY <1>3, <3>2, <3>3 DEF InsertedInvariant, WhoseCard, ReadIsTheCards, HasNoPin
    <3>5. inserted # NoCard => There.tries \in Nat
      BY <1>1 DEF CardTypeOK, There, Chips
    <3>6. inserted # NoCard /\ There.tries >= Allowed => details.tries = There.tries
      BY <1>3, <3>3, <3>4, <3>5, MachineAssumption DEF CountsAgree
    <3> QED
      BY <2>2, <2>6, <3>1, <3>4, <3>6 DEF LockMove
  <2> HIDE DEF details
  <2> QED
    BY <1>1, <2>1, <2>3, <2>4, <2>5, <2>6, PresentedCases
<1> QED
  BY <1>2, <1>3

\* Reading a card verifies the default PIN of cards that need none only.
LEMMA ReadingKeepsCounts ==
    ASSUME InsertedInvariant, ReadCardDetails
    PROVE  \A k \in Cards : /\ chip'[k].cert = chip[k].cert
                            /\ ~HasNoPin(chip[k].cert) => chip'[k] = chip[k]
<1>1. PICK r \in Reads :
        \/ ReadSelect(r) \/ ReadVxCert(r) \/ ReadAdminCert(r) \/ ReadCaCert(r)
        \/ ReadVxKey(r) \/ ReadDefaultPin(r) \/ ReadAdminKey(r)
        \/ ReadTries(r) \/ ReadDone(r) \/ ReadFails(r)
  BY DEF ReadCardDetails
<1>2. CASE ReadDefaultPin(r)
  <2>1. chip \in [Cards -> Chips] /\ HasNoPin(There.cert)
    BY <1>2 DEF InsertedInvariant, InsertedTypeOK, CardTypeOK, WhoseCard, ReadIsTheCards,
         ReadDefaultPin
  <2>2. \E tries : chip' = [chip EXCEPT ![inserted].tries = tries]
    BY <1>2 DEF ReadDefaultPin, Verify
  <2>3. \A k \in Cards : k # inserted => chip'[k] = chip[k]
    BY <2>1, <2>2
  <2>4. \A k \in Cards : chip'[k].cert = chip[k].cert
    BY <2>1, <2>2 DEF Chips
  <2> QED
    BY <2>1, <2>3, <2>4 DEF There
<1>3. CASE ~ReadDefaultPin(r)
  <2>1. UNCHANGED chip
    BY <1>1, <1>3 DEF ReadSelect, ReadVxCert, ReadAdminCert, ReadCaCert, ReadVxKey, ReadAdminKey,
       ReadTries, ReadDone, ReadFails, FinishRead
  <2> QED
    BY <2>1
<1> QED
  BY <1>2, <1>3

LEMMA LockoutSurroundings ==
    ASSUME LockoutInvariant, InsertedInvariant', ~Hurried,
           PersonAndReader({"checking_pin", "logged_in"})
    PROVE  CheckedWhileAsked' /\ CountsAgree' /\ LockoutStands'
<1>1. /\ InsertedInvariant /\ CheckedWhileAsked /\ CountsAgree /\ LockoutStands
      /\ InsertedTypeOK /\ CardTypeOK /\ ReaderAtRest /\ OnlyCheckPin /\ WhoseCard
      /\ UNCHANGED <<authStatus, request, now, freeFrom>>
  BY DEF LockoutInvariant, InsertedInvariant, InsertedTypeOK, PersonAndReader, authVars
<1>2. ASSUME \A c \in Calls : request[c].kind # "checkPin", UNCHANGED call,
             authStatus.status = "logged_out"
      PROVE  /\ CheckedWhileAsked' /\ LockoutStands'
             /\ UNCHANGED chip /\ cardStatus'.status # "ready" => CountsAgree'
  <2>1. \A c \in Calls : request'[c].kind # "checkPin" /\ call'[c] = IdleCall
    BY <1>1, <1>2 DEF OnlyCheckPin
  <2>2. LockoutStands'
    BY <1>1, <1>2, <2>1 DEF LockoutStands, IdleCall
  <2> QED
    BY <1>1, <2>1, <2>2 DEF CheckedWhileAsked, CountsAgree
<1>3. ASSUME NEW k \in Cards, Insert(k)
      PROVE  CheckedWhileAsked' /\ CountsAgree' /\ LockoutStands'
  <2>1. /\ inserted = NoCard /\ inserted' # NoCard /\ events = <<>>
        /\ UNCHANGED <<call, chip, cardStatus>>
    BY <1>1, <1>3, CardAssumption DEF Insert
  <2>2. authStatus.status = "logged_out" /\ \A c \in Calls : request[c].kind # "checkPin"
    BY <1>1, <1>3, <2>1
       DEF PersonAndReader, OnlyCheckPin, InsertedTypeOK, WellFormed, AuthStatuses
  <2>3. cardStatus'.status # "ready"
    BY <1>1, <2>1 DEF ReaderAtRest
  <2> QED
    BY <1>2, <2>1, <2>2, <2>3
<1>4. CASE CardPresent
  <2>1. /\ events = <<"present">> /\ authStatus.status = "logged_out" /\ UNCHANGED <<call, chip>>
        /\ cardStatus.status # "ready"
    BY <1>1, <1>4 DEF CardPresent, Report, ReaderAtRest, WhoseCard, NobodyBeforeDetails
  <2>2. \A c \in Calls : request[c].kind # "checkPin"
    BY <1>1, <2>1 DEF CheckedWhileAsked
  <2>3. cardStatus'.status # "ready"
    BY <1>1, <1>4, <2>1, UpdateReaderAtRest DEF CardPresent, ReaderStates
  <2> QED
    BY <1>2, <2>1, <2>2, <2>3
<1>5. CASE ReadCardDetails
  <2>1. Reading /\ UNCHANGED call /\ authStatus.status = "logged_out" /\ UNCHANGED inserted
        /\ inserted \in Cards /\ cardStatus.status # "ready"
    BY <1>1, <1>5 DEF ReadCardDetails, ReadSelect, ReadVxCert, ReadAdminCert, ReadCaCert, ReadVxKey,
       ReadDefaultPin, ReadAdminKey, ReadTries, ReadDone, ReadFails, FinishRead, Advance, Reading,
       WhoseCard, NobodyBeforeDetails, ReaderAtRest, CardTypeOK
  <2>2. \A c \in Calls : request[c].kind # "checkPin"
    BY <1>1, <2>1 DEF CheckedWhileAsked
  <2>3. \A k \in Cards : /\ chip'[k].cert = chip[k].cert
                         /\ ~HasNoPin(chip[k].cert) => chip'[k] = chip[k]
    BY <1>1, <1>5, ReadingKeepsCounts
  <2>4. /\ There'.cert = There.cert
        /\ cardStatus'.status = "ready" /\ cardStatus'.details # None /\ ~HasNoPin(There.cert)
             => cardStatus'.details.tries = There.tries
    <3>1. There'.cert = There.cert
      BY <2>1, <2>3 DEF There
    <3>2. ASSUME NEW r \in Reads, NEW tries, tries = There.tries \/ reads[r].pc = "done",
                 FinishRead(r, Details(reads[r].cert.user, reads[r].cert.hasPin, tries)),
                 ~HasNoPin(There.cert)
          PROVE  cardStatus'.details.tries = There.tries
      <4>1. reads[r].pc # "done"
        BY <1>1, <3>2 DEF WhoseCard, ReadIsTheCards
      <4> QED
        BY <3>2, <4>1 DEF FinishRead, Ready, Details
    <3>3. ASSUME NEW r \in Reads, FinishRead(r, None) PROVE cardStatus'.details = None
      BY <3>3 DEF FinishRead, Ready
    <3>4. ASSUME NEW r \in Reads, NEW read, ReadMove(r, read) PROVE cardStatus'.status # "ready"
      BY <2>1, <3>4 DEF ReadMove, Advance
    <3> QED
      BY <1>1, <1>5, <3>1, <3>2, <3>3, <3>4, ReadMoves
  <2>5. CountsAgree'
    <3>1. \A c \in Calls : request'[c].kind # "checkPin"
      BY <1>1, <2>2
    <3>2. There' = There \/ HasNoPin(There.cert)
      BY <2>1, <2>3 DEF There
    <3> QED
      BY <1>1, <2>1, <2>3, <2>4, <3>1, <3>2 DEF CountsAgree
  <2> QED
    BY <1>2, <2>1, <2>2, <2>5
<1>6. CASE Remove \/ CardAbsent \/ ReaderLost
  <2>1. /\ UNCHANGED <<chip, call>> /\ ~connected'
        /\ inserted' = NoCard \/ (UNCHANGED inserted /\ reader' # "ready")
    BY <1>6 DEF Remove, CardAbsent, ReaderLost, UpdateReader
  <2>2. UNCHANGED reads /\ (UNCHANGED cardStatus \/ cardStatus'.status # "ready")
    BY <1>1, <1>6, UpdateReaderAtRest DEF Remove, CardAbsent, ReaderLost, ReaderStates
  <2>3. UNCHANGED Reading
    BY <2>2 DEF Reading
  <2>4. events' # <<"present">> \/ UNCHANGED events
    <3>1. CASE Remove
      <4>1. events = <<>> /\ events' = Append(events, "absent")
        BY <1>1, <3>1 DEF Remove, PersonAndReader
      <4> QED
        BY <4>1
    <3>2. CASE CardAbsent
      BY <1>1, <3>2 DEF CardAbsent, Report, ReaderAtRest
    <3>3. CASE ReaderLost
      BY <3>3 DEF ReaderLost
    <3> QED
      BY <1>6, <3>1, <3>2, <3>3
  <2>5. CASE Remove
    <3>1. inserted' = NoCard /\ UNCHANGED reader
      BY <2>5 DEF Remove
    <3> QED
      BY <1>1, <2>1, <2>3, <2>4, <3>1
         DEF CheckedWhileAsked, CountsAgree, LockoutStands, Reachable
  <2>6. CASE CardAbsent \/ ReaderLost
    <3>1. reader' # "ready" /\ UNCHANGED inserted
      BY <2>6 DEF CardAbsent, ReaderLost, UpdateReader
    <3>2. UNCHANGED There
      BY <2>1, <3>1 DEF There
    <3>3. CheckedWhileAsked'
      BY <1>1, <2>3, <2>4, <3>1 DEF CheckedWhileAsked
    <3>4. CountsAgree'
      BY <1>1, <2>1, <2>2, <3>1, <3>2 DEF CountsAgree
    <3>5. UNCHANGED NoneOnItsWay
      BY <2>1 DEF NoneOnItsWay
    <3>6. LockoutStands'
      BY <1>1, <2>1, <3>1, <3>2, <3>5 DEF LockoutStands, Reachable
    <3> QED
      BY <3>3, <3>4, <3>6
  <2> QED
    BY <1>6, <2>5, <2>6
<1> QED
  BY <1>3, <1>4, <1>5, <1>6 DEF PersonAndReader, Surroundings

\* What a command of checkPin does to the card and the history.
LEMMA LockoutCardWorks ==
    ASSUME LockoutInvariant, InsertedInvariant', NEW c \in Calls, CardWorks(c)
    PROVE  CheckedWhileAsked' /\ CountsAgree' /\ LockoutStands'
<1>1. /\ InsertedInvariant /\ CheckedWhileAsked /\ CountsAgree /\ LockoutStands
      /\ InsertedTypeOK /\ CardTypeOK /\ OnlyCheckPin /\ OnlyCheckPin'
      /\ call[c] \in CardCalls /\ freeFrom \in [Cards -> Int] /\ chip \in [Cards -> Chips]
  BY DEF LockoutInvariant, InsertedInvariant, InsertedTypeOK, CardTypeOK
<1>2. /\ UNCHANGED <<inserted, events, reader, connected, reads, authStatus, request, now>>
      /\ \A k \in Cards : chip'[k].cert = chip[k].cert
      /\ call[c].kind = "checkPin" /\ call[c].pc \notin {"idle", "answered"}
      /\ request[c].kind = "checkPin" /\ request[c].pc = "card" /\ call[c].answer = None
      /\ \/ CallSelect(c) \/ CheckPinCert(c) \/ CheckPinVerify(c) \/ CheckPinKey(c)
         \/ CheckPinDone(c) \/ CallFails(c)
  <2>1. /\ request[c].pc = "card" /\ request[c].kind = "checkPin"
        /\ \/ CallSelect(c) \/ CheckPinCert(c) \/ CheckPinVerify(c) \/ CheckPinKey(c)
           \/ CheckPinDone(c) \/ CallFails(c)
    BY <1>1, OnlyCheckPinCalls DEF CardWorks
  <2>2. call[c].pc \notin {"idle", "answered"}
    BY <2>1 DEF CallSelect, CheckPinCert, CheckPinVerify, CheckPinKey, CheckPinDone, CallFails,
       At, OnlyCheckPin
  <2>3. call[c].answer = None
    BY <1>1, <2>1, <2>2 DEF OnlyCheckPin
  <2> QED
    BY <1>1, <2>1, <2>2, <2>3, CardWorksMoves
<1>3. \A d \in Calls : d # c => /\ request[d].kind # "checkPin" /\ call[d] = IdleCall
                                /\ call'[d] = call[d]
  <2>1. \A d \in Calls : d # c => request[d].kind # "checkPin" /\ call[d] = IdleCall
    BY <1>1, <1>2 DEF OnlyCheckPin
  <2>2. \E to : call' = [call EXCEPT ![c] = to]
    BY <1>1, CallMoves DEF CardWorks, CallMove
  <2> QED
    BY <1>1, <2>1, <2>2 DEF CardTypeOK
<1>4. CheckedWhileAsked'
  BY <1>1, <1>2 DEF CheckedWhileAsked, Reading
<1>5. Commandable => inserted \in Cards /\ inserted # NoCard /\ ~HasNoPin(There.cert)
  <2> HAVE Commandable
  <2>1. inserted \in Cards /\ inserted # NoCard /\ reader = "ready"
    BY <1>1 DEF Commandable, Reachable, CardTypeOK
  <2>2. authStatus.status = "checking_pin"
    BY <1>1, <1>2, <2>1 DEF CheckedWhileAsked
  <2> QED
    BY <1>1, <2>1, <2>2 DEF LockoutStands
<1>6. ASSUME UNCHANGED <<chip, freeFrom>>,
             cardStatus' = cardStatus \/ (inserted # NoCard => There.tries = 0),
             call'[c].answer # "incorrect",
             call'[c].pc \in {"key", "match"} /\ inserted # NoCard => There.tries = 0,
             call'[c].pc \in {"select", "cert", "verify"}
               => call[c].pc \in {"select", "cert", "verify"}
      PROVE  CountsAgree' /\ LockoutStands'
  <2>1. UNCHANGED <<There, Reachable>>
    BY <1>2, <1>6 DEF There, Reachable
  <2>2. CountsAgree'
    BY <1>1, <1>2, <1>3, <1>6, <2>1 DEF CountsAgree
  <2>3. call[c].answer # "incorrect"
    BY <1>2, CardAssumption DEF Answers
  <2>4. LockMove
    BY <1>2, <1>3, <2>3 DEF LockMove, NoneOnItsWay
  <2>5. LockoutStands'
    BY <1>1, <1>2, <1>3, <1>6, <2>4, StandsStay
  <2> QED
    BY <2>2, <2>5
<1>7. CASE CallSelect(c) \/ CheckPinCert(c) \/ CheckPinKey(c) \/ CallFails(c) \/ CheckPinDone(c)
  <2>1. /\ UNCHANGED chip
        /\ call'[c].answer # "incorrect"
        /\ call'[c].pc \in {"key", "match"} => At(c, "checkPin", "key")
        /\ CheckPinDone(c) => At(c, "checkPin", "match")
        /\ CheckPinDone(c) \/ UNCHANGED cardStatus
        /\ call'[c].pc \in {"select", "cert", "verify"} => call[c].pc \in {"select", "cert", "verify"}
    <3>1. call[c].answer # "incorrect"
      BY <1>2, CardAssumption DEF Answers
    <3>2. ASSUME NEW to, Step(c, to) PROVE call'[c] = to
      BY <1>1, <3>2 DEF Step, CardTypeOK
    <3>3. CASE CallSelect(c)
      BY <1>1, <1>2, <3>1, <3>2, <3>3 DEF CallSelect, CheckPinDone, At, CardCalls
    <3>4. CASE CheckPinCert(c)
      BY <1>1, <1>2, <3>1, <3>2, <3>4 DEF CheckPinCert, CheckPinDone, At, CardCalls
    <3>5. CASE CheckPinKey(c)
      BY <1>1, <1>2, <3>1, <3>2, <3>5 DEF CheckPinKey, CheckPinDone, At, CardCalls
    <3>6. CASE CallFails(c)
      <4>1. call'[c].pc = "answered" /\ call'[c].answer = "error"
        BY <1>1, <3>2, <3>6 DEF CallFails, Answer, CardCalls
      <4> QED
        BY <3>6, <4>1 DEF CallFails, CheckPinDone, At
    <3>7. CASE CheckPinDone(c)
      <4>1. call'[c].pc = "answered" /\ call'[c].answer = "correct"
        BY <1>1, <3>2, <3>7 DEF CheckPinDone, Answer, CardCalls
      <4> QED
        BY <3>7, <4>1 DEF CheckPinDone
    <3> QED
      BY <1>7, <3>3, <3>4, <3>5, <3>6, <3>7
  <2>2. UNCHANGED freeFrom
    BY <2>1 DEF CardWorks
  <2>3. At(c, "checkPin", "key") \/ At(c, "checkPin", "match") => (inserted # NoCard => There.tries = 0)
    BY <1>1, <1>2 DEF At, CountsAgree
  <2> QED
    BY <1>4, <1>6, <2>1, <2>2, <2>3
<1>8. CASE CheckPinVerify(c)
  <2>1. Commandable /\ inserted \in Cards /\ ~HasNoPin(There.cert)
    BY <1>5, <1>8 DEF CheckPinVerify
  <2>2. There.tries \in Nat
    BY <1>1, <2>1 DEF There, Chips
  <2>3. CASE call[c].pin = There.pin
    <3>1. call'[c].pc = "key" /\ call'[c].answer = None
      BY <1>1, <1>2, <1>8, <2>3 DEF CheckPinVerify, Step, CardTypeOK, CardCalls
    <3>2. UNCHANGED <<freeFrom, cardStatus>>
      BY <1>8, <2>3, <3>1, CardAssumption DEF CardWorks, CheckPinVerify, Answers
    <3>3. chip' = [chip EXCEPT ![inserted].tries = 0]
      BY <1>8, <2>3 DEF CheckPinVerify, Verify
    <3>4. There'.tries = 0 /\ \A k \in Cards : k # inserted => chip'[k] = chip[k]
      BY <1>1, <1>2, <2>1, <3>3 DEF There, Chips
    <3>5. There'.cert = There.cert
      BY <1>2, <2>1 DEF There
    <3>6. CountsAgree'
      <4>1. call'[c].answer # "incorrect"
        BY <3>1, CardAssumption DEF Answers
      <4>2. \A k \in Cards : ~HasNoPin(chip'[k].cert) /\ chip'[k].tries >= Allowed
              => freeFrom'[k] <= now' \/ freeFrom'[k] <= now' + Duration(chip'[k].tries)
        <5> SUFFICES ASSUME NEW k \in Cards, ~HasNoPin(chip'[k].cert), chip'[k].tries >= Allowed
                     PROVE  freeFrom'[k] <= now' \/ freeFrom'[k] <= now' + Duration(chip'[k].tries)
          OBVIOUS
        <5>1. k # inserted
          BY <1>2, <3>4, MachineAssumption DEF There
        <5> QED
          BY <1>1, <1>2, <3>2, <3>4, <5>1 DEF CountsAgree
      <4>3. \A d \in Calls : request'[d].kind = "checkPin" => d = c
        BY <1>2, <1>3
      <4> QED
        BY <3>4, <4>1, <4>2, <4>3 DEF CountsAgree
    <3>7. LockoutStands'
      BY <1>1, <1>2, <1>3, <3>4, <3>5, MachineAssumption DEF LockoutStands
    <3> QED
      BY <1>4, <3>6, <3>7
  <2>4. CASE call[c].pin # There.pin
    <3> DEFINE tries == There.tries + 1
    <3>1. call'[c].pc = "answered" /\ call'[c].answer = "incorrect" /\ call'[c].tries = tries
      <4>1. call'[c] = [Answer(c, "incorrect") EXCEPT !.tries = tries]
        BY <1>1, <1>8, <2>4 DEF CheckPinVerify, Step, CardTypeOK
      <4>2. Answer(c, "incorrect") \in CardCalls
        BY <1>1 DEF Answer, CardCalls, CallPcs
      <4>3. Answer(c, "incorrect").pc = "answered" /\ Answer(c, "incorrect").answer = "incorrect"
        BY <1>1 DEF Answer, CardCalls
      <4> QED
        BY <4>1, <4>2, <4>3 DEF CardCalls
    <3>2. freeFrom' = [freeFrom EXCEPT ![inserted] = now + Duration(tries)]
      BY <1>2, <3>1, CardAssumption DEF CardWorks, Duration, Answers
    <3>3. chip' = [chip EXCEPT ![inserted].tries = tries] /\ NoteTries(tries)
      BY <1>1, <1>8, <2>1, <2>4 DEF CheckPinVerify, Verify, There
    <3>4. There'.tries = tries /\ \A k \in Cards : k # inserted => chip'[k] = chip[k]
      BY <1>1, <1>2, <2>1, <3>3 DEF There, Chips
    <3>5. There'.cert = There.cert
      BY <1>2, <2>1 DEF There
    <3>6. cardStatus'.status = "ready" /\ cardStatus'.details # None => cardStatus'.details.tries = tries
      BY <1>1, <3>3 DEF NoteTries, NoDetails, CardTypeOK, CardStatuses, DetailsRecords
    <3>7. /\ freeFrom'[inserted] = now + Duration(tries) /\ freeFrom'[inserted] \in Int
          /\ \A k \in Cards : k # inserted => freeFrom'[k] = freeFrom[k]
      <4>1. tries \in Nat /\ now \in Int
        BY <1>1, <2>2 DEF InsertedTypeOK
      <4>2. Duration(tries) \in Int
        BY <4>1, LockoutEndType DEF Duration
      <4> QED
        BY <1>1, <2>1, <3>2, <4>1, <4>2
    <3> HIDE DEF tries
    <3>8. \A k \in Cards : ~HasNoPin(chip'[k].cert) /\ chip'[k].tries >= Allowed
            => freeFrom'[k] <= now' \/ freeFrom'[k] <= now' + Duration(chip'[k].tries)
      <4> SUFFICES ASSUME NEW k \in Cards, ~HasNoPin(chip'[k].cert), chip'[k].tries >= Allowed
                   PROVE  freeFrom'[k] <= now' \/ freeFrom'[k] <= now' + Duration(chip'[k].tries)
        OBVIOUS
      <4>1. CASE k = inserted
        BY <1>2, <3>4, <3>7, <4>1 DEF There
      <4>2. CASE k # inserted
        BY <1>1, <1>2, <3>4, <3>7, <4>2 DEF CountsAgree
      <4> QED
        BY <4>1, <4>2
    <3>9. CountsAgree'
      BY <1>2, <1>3, <3>1, <3>4, <3>6, <3>8 DEF CountsAgree
    <3>10. LockoutStands'
      BY <1>1, <1>2, <1>3, <2>1, <3>1, <3>5 DEF LockoutStands, NoneOnItsWay, IdleCall
    <3> QED
      BY <1>4, <3>9, <3>10
  <2> QED
    BY <2>3, <2>4
<1> QED
  BY <1>2, <1>4, <1>7, <1>8

LEMMA LockoutInvariantInit == Init => LockoutInvariant
<1> SUFFICES ASSUME Init PROVE LockoutInvariant
  OBVIOUS
<1>1. /\ InsertedInvariant
      /\ \A c \in Calls : request[c] = IdleRequest /\ call[c] = IdleCall
      /\ authStatus.status = "logged_out" /\ inserted = NoCard
      /\ freeFrom = [k \in Cards |-> 0] /\ now = 0 /\ chip \in [Cards -> Chips]
  BY InsertedInvariantInit, FirstChipsAssumption
     DEF Init, AuthInit, CardInit, LoggedOut, Status
<1>2. CheckedWhileAsked
  BY <1>1 DEF CheckedWhileAsked, IdleRequest
<1>3. CountsAgree
  <2>1. \A k \in Cards : freeFrom[k] <= now
    BY <1>1
  <2> QED
    BY <1>1, <2>1 DEF CountsAgree
<1>4. LockoutStands
  BY <1>1 DEF LockoutStands, IdleCall
<1> QED
  BY <1>1, <1>2, <1>3, <1>4 DEF LockoutInvariant

LEMMA LockoutStep ==
    ASSUME LockoutInvariant, InsertedInvariant', ~Hurried, [Next]_vars
    PROVE  CheckedWhileAsked' /\ CountsAgree' /\ LockoutStands'
<1>1. /\ InsertedInvariant /\ CheckedWhileAsked /\ CountsAgree /\ LockoutStands
      /\ InsertedTypeOK /\ CardTypeOK /\ OnlyCheckPin /\ OnlyCheckPin'
      /\ request \in [Calls -> Requests] /\ now \in Nat /\ freeFrom \in [Cards -> Int]
      /\ chip \in [Cards -> Chips]
  BY DEF LockoutInvariant, InsertedInvariant, InsertedTypeOK, CardTypeOK
<1>2. \A c \in Calls : request[c].pc # "card" => call[c] = IdleCall
  BY <1>1 DEF OnlyCheckPin
<1>3. IdleCall.pc = "idle" /\ IdleCall.answer # "incorrect"
  BY CardAssumption DEF IdleCall, Answers
\* A call of the API that has not gone to the card, or does not go there, ends.
<1>4. ASSUME NEW c \in Calls, Return(c), request[c].pc # "card",
             UNCHANGED <<cardVars, now, freeFrom>>, LockMove,
             authStatus.status = "checking_pin" => authStatus'.status = "checking_pin"
      PROVE  CheckedWhileAsked' /\ CountsAgree' /\ LockoutStands'
  <2>1. UNCHANGED <<inserted, chip, events, reader, connected, reads, cardStatus, call>>
    BY <1>4 DEF cardVars
  <2>2. request'[c].kind = "none" /\ \A d \in Calls : d # c => request'[d] = request[d]
    BY <1>1, <1>4 DEF Return, IdleRequest
  <2> QED
    BY <1>1, <1>4, <2>1, <2>2, CheckedStays, CountsStay, StandsStay
<1>5. ASSUME UNCHANGED <<cardVars, request, authStatus>>,
             UNCHANGED <<now, freeFrom>> \/ Tick
      PROVE  CheckedWhileAsked' /\ CountsAgree' /\ LockoutStands'
  <2>1. /\ UNCHANGED <<inserted, chip, events, reader, connected, reads, cardStatus, call>>
        /\ UNCHANGED freeFrom /\ now' \in Nat /\ now' >= now
    BY <1>1, <1>5 DEF cardVars, Tick
  <2>2. UNCHANGED <<There, Reachable, Reading, NoneOnItsWay>>
    BY <2>1 DEF There, Reachable, Reading, NoneOnItsWay
  <2>3. CheckedWhileAsked'
    BY <1>1, <1>5, <2>1, <2>2 DEF CheckedWhileAsked
  <2>4. \A k \in Cards : ~HasNoPin(chip'[k].cert) /\ chip'[k].tries >= Allowed
          => freeFrom'[k] <= now' \/ freeFrom'[k] <= now' + Duration(chip'[k].tries)
    <3> SUFFICES ASSUME NEW k \in Cards, ~HasNoPin(chip[k].cert), chip[k].tries >= Allowed
                 PROVE  freeFrom[k] <= now' \/ freeFrom[k] <= now' + Duration(chip[k].tries)
      BY <2>1
    <3>1. freeFrom[k] <= now \/ freeFrom[k] <= now + Duration(chip[k].tries)
      BY <1>1 DEF CountsAgree
    <3>2. Duration(chip[k].tries) \in Int
      BY <1>1, LockoutEndType DEF Duration, Chips
    <3> QED
      BY <1>1, <2>1, <3>1, <3>2
  <2>5. CountsAgree'
    BY <1>1, <1>5, <2>1, <2>2, <2>4 DEF CountsAgree
  <2>6. inserted # NoCard => freeFrom[inserted] \in Int
    BY <1>1 DEF CardTypeOK
  <2>7. \A c \in Calls :
           call'[c].pc \in {"select", "cert", "verify"} /\ Reachable' /\ There'.tries >= Allowed
             => now' >= freeFrom'[inserted']
    <3>1. Reachable => inserted # NoCard
      BY <1>1 DEF Reachable, CardTypeOK
    <3> QED
      BY <1>1, <2>1, <2>2, <2>6, <3>1 DEF LockoutStands
  <2>8. LockoutStands'
    BY <1>1, <1>5, <2>1, <2>2, <2>6, <2>7 DEF LockoutStands
  <2> QED
    BY <2>3, <2>5, <2>8
<1>6. CASE PersonAndReader({"checking_pin", "logged_in"})
  BY <1>6, LockoutSurroundings
<1>7. ASSUME NEW c \in Calls, CardWorks(c) PROVE CheckedWhileAsked' /\ CountsAgree' /\ LockoutStands'
  BY <1>7, LockoutCardWorks
<1>8. ASSUME CheckCardReader,
             \/ UNCHANGED <<request, now, freeFrom>>
             \/ \E c \in Calls : ApiCall(c)
      PROVE  CheckedWhileAsked' /\ CountsAgree' /\ LockoutStands'
  <2>1. /\ UNCHANGED <<inserted, chip, events, reader, connected, reads, cardStatus, call>>
        /\ UNCHANGED <<now, freeFrom>> /\ authStatus' = AfterCardStatus(cardStatus)
    BY <1>8 DEF CheckCardReader, cardVars
  <2>2. \A d \in Calls : request'[d].kind = "checkPin" =>
          \/ request[d].kind = "checkPin"
          \/ authStatus.status = "checking_pin" /\ call'[d] = IdleCall
    <3>1. CASE UNCHANGED request
      BY <3>1
    <3>2. ASSUME NEW c \in Calls, ApiCall(c)
          PROVE  \A d \in Calls : request'[d].kind = "checkPin" =>
                   \/ request[d].kind = "checkPin"
                   \/ authStatus.status = "checking_pin" /\ call'[d] = IdleCall
      BY <1>1, <1>2, <2>1, <3>2 DEF ApiCall, Call
    <3> QED
      BY <1>8, <3>1, <3>2
  <2>3. authStatus.status = "checking_pin" /\ reader = "ready" => authStatus'.status = "checking_pin"
    BY <1>1, <2>1, AskedStays
  <2>4. UNCHANGED NoneOnItsWay
    BY <2>1 DEF NoneOnItsWay
  <2>5. LockMove
    BY <1>1, <2>1, <2>4, AfterCardStatusLockMoves
  <2>6. CheckedWhileAsked'
    BY <1>1, <2>1, <2>2, <2>3, CheckedStays
  <2>7. CountsAgree'
    BY <1>1, <1>3, <2>1, <2>2, CountsStay
  <2>8. LockoutStands'
    BY <1>1, <2>1, <2>5, StandsStay
  <2> QED
    BY <2>6, <2>7, <2>8
<1>9. ASSUME NEW c \in Calls, CheckPinLocked(c) \/ StartCardlessVoterSession(c)
      PROVE  CheckedWhileAsked' /\ CountsAgree' /\ LockoutStands'
  <2>1. /\ Return(c) /\ request[c].pc # "card"
        /\ UNCHANGED <<cardVars, authStatus, now, freeFrom>>
    BY <1>9 DEF CheckPinLocked, StartCardlessVoterSession, Then
  <2>2. LockMove
    BY <2>1 DEF LockMove, NoneOnItsWay, cardVars
  <2> QED
    BY <1>4, <2>1, <2>2
<1>10. ASSUME NEW c \in Calls, CheckPinAsks(c) PROVE CheckedWhileAsked' /\ CountsAgree' /\ LockoutStands'
  <2>1. PICK pin \in Pins : Start(c, "checkPin", pin, NoCert)
    BY <1>10 DEF CheckPinAsks, CheckPin
  <2>2. /\ UNCHANGED <<inserted, chip, events, reader, connected, reads, cardStatus>>
        /\ UNCHANGED <<now, freeFrom, authStatus>>
        /\ call'[c] = Started("checkPin", pin, NoCert)
        /\ \A d \in Calls : d # c => call'[d] = call[d]
    BY <1>1, <1>10, <2>1 DEF CheckPinAsks, Start, Step, Started, CardTypeOK
  <2>3. call'[c].pc = "select" /\ call'[c].answer # "incorrect"
    BY <2>2, StartedCall, CardAssumption DEF Answers
  <2>4. /\ request[c].kind = "checkPin" /\ request[c].pc = "then" /\ ~LockedOut
        /\ \A d \in Calls : request'[d].kind = request[d].kind
    BY <1>1, <1>10 DEF CheckPinAsks, Then, Requests
  <2>5. CheckedWhileAsked'
    BY <1>1, <2>2, <2>4, CheckedStays
  <2>6. CountsAgree'
    BY <1>1, <2>2, <2>3, <2>4, CountsStay
  <2>7. \A d \in Calls : call[d] = IdleCall
    <3>1. \A d \in Calls : request[d].pc = "card" => d = c
      BY <1>1, <2>4 DEF OnlyCheckPin
    <3> QED
      BY <1>2, <2>4, <3>1
  <2>8. NoneOnItsWay
    BY <1>3, <2>7 DEF NoneOnItsWay
  <2>9. Reachable /\ There.tries >= Allowed => now >= freeFrom[inserted]
    <3> HAVE Reachable /\ There.tries >= Allowed
    <3>1. inserted # NoCard /\ inserted \in Cards /\ authStatus.status = "checking_pin"
      BY <1>1, <2>4 DEF Reachable, CardTypeOK, CheckedWhileAsked
    <3>2. \/ now >= freeFrom[inserted]
          \/ authStatus.until \in Int /\ authStatus.until >= freeFrom[inserted]
      BY <1>1, <2>8, <3>1 DEF LockoutStands
    <3>3. authStatus.until \in Int => ~(now < authStatus.until)
      BY <2>4, <3>1, NoneAssumption DEF LockedOut
    <3> QED
      BY <1>1, <3>1, <3>2, <3>3
  <2>10. LockMove
    BY <2>2, <2>8 DEF LockMove
  <2>11. LockoutStands'
    BY <1>1, <2>2, <2>9, <2>10, StandsStay
  <2> QED
    BY <2>5, <2>6, <2>11
<1>11. ASSUME NEW c \in Calls, CheckPinAnswered(c)
       PROVE  CheckedWhileAsked' /\ CountsAgree' /\ LockoutStands'
  <2>1. /\ UNCHANGED <<inserted, chip, events, reader, connected, reads, cardStatus>>
        /\ UNCHANGED <<now, freeFrom>> /\ call' = [call EXCEPT ![c] = IdleCall]
        /\ request' = [request EXCEPT ![c] = IdleRequest]
        /\ request[c].pc = "card" /\ call[c].pc = "answered"
        /\ authStatus' = AfterPinAnswer(call[c].answer, call[c].tries)
    BY <1>11 DEF CheckPinAnswered, Take, Step, Return
  <2>2. /\ request[c].kind = "checkPin" /\ call[c].answer \in {"correct", "incorrect", "error"}
        /\ \A d \in Calls : d # c => request[d].kind # "checkPin" /\ request[d].pc # "card"
    BY <1>1, <2>1 DEF OnlyCheckPin
  <2>3. \A d \in Calls : request'[d].kind # "checkPin" /\ call'[d] = IdleCall
    BY <1>1, <1>2, <2>1, <2>2 DEF IdleRequest, CardTypeOK
  <2>4. CheckedWhileAsked'
    BY <1>1, <2>1, <2>3, CheckedStays
  <2>5. CountsAgree'
    BY <1>1, <2>1, <2>3, CountsStay
  <2>6. call[c].tries \in Nat
    BY <1>1 DEF CardTypeOK, CardCalls
  <2>7. CASE call[c].answer = "error" \/ authStatus.status # "checking_pin"
    <3>1. authStatus' = Current
      BY <1>1, <2>1, <2>6, <2>7, AfterPinAnswerCases
    <3>2. authStatus.status = "checking_pin" => NoneOnItsWay
      BY <1>2, <1>3, <2>2, <2>7 DEF NoneOnItsWay
    <3>3. Current.status # "checking_pin" \/ Current = authStatus
      BY <1>1, CurrentWellFormed DEF InsertedTypeOK
    <3> QED
      BY <3>1, <3>2, <3>3, <1>1, <2>1, <2>3, <2>4, <2>5, <1>3, StandsStay DEF LockMove
  <2>8. CASE call[c].answer # "error" /\ authStatus.status = "checking_pin"
    <3>1. CASE call[c].answer = "correct"
      <4>1. authStatus'.status = "logged_in"
        <5>1. /\ authStatus' = LoggedIn(authStatus.user, SessionEnd)
              /\ authStatus.user \in CardUsers /\ SessionEnd \in Int
          BY <1>1, <2>1, <2>6, <2>8, <3>1, AfterPinAnswerCases, SessionEndType
        <5> QED
          BY <5>1, LoggedInWellFormed
      <4>2. LockMove
        BY <4>1 DEF LockMove
      <4> QED
        BY <1>1, <1>3, <2>1, <2>3, <2>4, <2>5, <4>2, StandsStay
    <3>2. CASE call[c].answer = "incorrect"
      <4>1. authStatus'.until = LockoutEnd(Allowed, StartingDuration, call[c].tries, now)
        <5>1. /\ authStatus' = AskForPin([user |-> authStatus.user, tries |-> call[c].tries])
              /\ authStatus.user \in CardUsers
          BY <1>1, <2>1, <2>6, <2>8, <3>2, AfterPinAnswerCases
        <5> QED
          BY <1>1, <2>6, <5>1, AskForPinWellFormed
      <4>2. inserted # NoCard => ~HasNoPin(There.cert) /\ call[c].tries = There.tries
        BY <1>1, <2>2, <2>8, <3>2 DEF LockoutStands, CountsAgree
      <4>3. LockMove
        BY <2>6, <4>1, <4>2 DEF LockMove
      <4> QED
        BY <1>1, <1>3, <2>1, <2>3, <2>4, <2>5, <4>3, StandsStay
    <3> QED
      BY <2>2, <2>8, <3>1, <3>2
  <2> QED
    BY <2>7, <2>8
<1>12. CASE LogOut
  <2>1. /\ UNCHANGED <<inserted, chip, events, reader, connected, reads, cardStatus, call, request>>
        /\ UNCHANGED <<now, freeFrom>>
        /\ authStatus.status = "logged_in" /\ authStatus'.status = "logged_out"
    BY <1>12 DEF LogOut, LoggedOut, Status, cardVars
  <2>2. LockMove
    BY <2>1 DEF LockMove
  <2> QED
    BY <1>1, <2>1, <2>2, CheckedStays, CountsStay, StandsStay
<1>13. ASSUME NEW c \in Calls, UpdateSessionExpiry(c)
       PROVE  CheckedWhileAsked' /\ CountsAgree' /\ LockoutStands'
  <2>1. Return(c) /\ request[c].pc # "card" /\ UNCHANGED <<cardVars, now, freeFrom>>
    BY <1>13 DEF UpdateSessionExpiry, Then
  <2>2. WellFormed(authStatus) /\ UNCHANGED NoneOnItsWay
    BY <1>1, <2>1 DEF InsertedTypeOK, NoneOnItsWay, cardVars
  <2>3. CASE Current.status = "logged_in"
    <3>1. Current = authStatus
      BY <2>2, <2>3, CurrentWellFormed
    <3>2. PICK until : authStatus' = [authStatus EXCEPT !.until = until]
      BY <1>13, <2>3, <3>1 DEF UpdateSessionExpiry
    <3>3. authStatus'.status = "logged_in" /\ authStatus.status = "logged_in"
      BY <2>2, <2>3, <3>1, <3>2 DEF WellFormed, AuthStatuses
    <3> QED
      BY <1>4, <2>1, <3>3 DEF LockMove
  <2>4. CASE Current.status # "logged_in"
    <3>1. authStatus' = Current
      BY <1>13, <2>4 DEF UpdateSessionExpiry
    <3>2. LockMove
      BY <1>1, <2>2, <3>1, CurrentLockMoves
    <3>3. authStatus.status = "checking_pin" => authStatus'.status = "checking_pin"
      BY <2>2, <3>1, CurrentWellFormed
    <3> QED
      BY <1>4, <2>1, <3>2, <3>3
  <2> QED
    BY <2>3, <2>4
<1>14. \/ UNCHANGED <<cardVars, request, authStatus>> /\ (UNCHANGED <<now, freeFrom>> \/ Tick)
       \/ PersonAndReader({"checking_pin", "logged_in"}) \/ LogOut
       \/ CheckCardReader /\ UNCHANGED <<request, now, freeFrom>>
       \/ \E c \in Calls : \/ CardWorks(c) \/ CheckPinLocked(c) \/ CheckPinAsks(c)
                           \/ CheckPinAnswered(c) \/ UpdateSessionExpiry(c)
                           \/ StartCardlessVoterSession(c)
       \/ CheckCardReader /\ \E c \in Calls : ApiCall(c)
  BY DEF Next, Around, GetAuthStatus, CheckCardReader, ApiStep, ApiCall, Call, vars, authVars, Tick,
     EndCardlessVoterSession
<1> QED
  BY <1>5, <1>6, <1>7, <1>8, <1>9, <1>10, <1>11, <1>12, <1>13, <1>14

\* A PIN reaches a card only when the lockout of its last wrong PIN is over,
\* however often it was pulled and polled since, when no card is pulled before it
\* is read: LockoutInvariant says how the count on the card, the cached one, the
\* one an answer carries and the times of the lockouts keep each other in step.
THEOREM LockoutsAreKept ==
    ASSUME ~Hurried
    PROVE  Spec => LockoutIsKept
<1>1. Init => LockoutInvariant
  BY LockoutInvariantInit
<1>2. LockoutInvariant /\ [Next]_vars => LockoutInvariant'
  <2>1. ASSUME LockoutInvariant, [Next]_vars PROVE InsertedInvariant'
    BY <2>1, InsertedInvariantStep DEF LockoutInvariant
  <2> QED
    BY <2>1, LockoutStep DEF LockoutInvariant
<1>3. LockoutInvariant =>
        [\A c \in Calls : CheckPinVerify(c) /\ There.tries >= Allowed
           => now >= freeFrom[inserted]]_<<cardVars, authVars>>
  BY DEF LockoutInvariant, LockoutStands, CheckPinVerify, At, Commandable
<1> QED
  BY <1>1, <1>2, <1>3, PTL DEF Spec, LockoutIsKept
=============================================================================
