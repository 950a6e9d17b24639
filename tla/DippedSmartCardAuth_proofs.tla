---------------------- MODULE DippedSmartCardAuth_proofs ----------------------
(***************************************************************************)
(* Theorems about authentication by a card that is put in and taken out    *)
(* again, and about the cards a system administrator programs.             *)
(***************************************************************************)
EXTENDS DippedSmartCardAuth, SmartCardAuth_proofs

Reasons == {"machine_locked", "card_error", "invalid_user_on_card", "user_role_not_allowed",
            "machine_not_configured", "election_manager_wrong_election"}

ProgrammableCards ==
    [status : NotReadyStates \cup {"ready"}, programmedUser : CardUsers \cup {None}]

AuthStatuses ==
    [status : {"logged_out", "checking_pin", "remove_card", "logged_in"},
     reason : Reasons \cup {None}, user : CardUsers \cup {None}, until : Int \cup {None},
     card : ProgrammableCards \cup {None}]

WellFormed(s) ==
    /\ s \in AuthStatuses
    /\ s.status = "logged_out" <=> s.user = None
    /\ s.status \in {"remove_card", "logged_in"} => s.until \in Int

Requests == [pc : {"idle", "then", "card"},
             kind : {"none", "checkPin", "updateSessionExpiry", "programCard", "unprogramCard"}]

DippedTypeOK ==
    /\ CardTypeOK
    /\ WellFormed(authStatus)
    /\ now \in Nat
    /\ freeFrom \in [Cards -> Int]
    /\ request \in [Calls -> Requests]
    /\ changedLate \subseteq Cards \cup {NoCard}

\* The places of a call of each kind.
PlacesOf(kind) ==
    CASE kind = "checkPin" -> {"select", "cert", "verify", "key", "match", "bad", "answered"}
      [] kind = "program" -> {"select", "reset", "pin", "generate", "storeCert", "storeCa", "answered"}
      [] kind = "unprogram" -> {"select", "reset", "clearCert", "clearCa", "clearData", "answered"}
      [] OTHER -> {"idle"}

Changes(kind) == kind \in {"programCard", "unprogramCard"}

\* Each call of a card is for a request that waits for it, and no two requests
\* check a PIN, or change a card, at a time.
CallsAreRequested ==
    /\ \A c \in Calls :
         /\ request[c].pc = "idle" => request[c].kind = "none"
         /\ request[c].pc # "card" => call[c] = IdleCall
         /\ request[c].pc = "card" =>
              /\ <<request[c].kind, call[c].kind>> \in
                   {<<"checkPin", "checkPin">>, <<"programCard", "program">>,
                    <<"unprogramCard", "unprogram">>}
              /\ call[c].pc \in PlacesOf(call[c].kind)
              /\ call[c].pc # "answered" => call[c].answer = None
    /\ \A c, d \in Calls :
         /\ request[c].kind = "checkPin" /\ request[d].kind = "checkPin" => c = d
         /\ Changes(request[c].kind) /\ Changes(request[d].kind) => c = d

\* What the program call c has put on the card in the slot by now.
ProgramSoFar(c) ==
    /\ call[c].cert.user.jurisdiction = MachineJurisdiction /\ MachineJurisdiction # None
    /\ ~call[c].cert.hasPin => call[c].pin = DEFAULT_PIN
    /\ inserted # NoCard =>
         /\ call[c].pc \in {"pin", "generate", "storeCert", "storeCa"} => There.pin = call[c].pin
         /\ call[c].pc \in {"storeCert", "storeCa"} => There.key = call[c].cert.key
         /\ call[c].pc = "storeCa" => There.cert = call[c].cert
         /\ call[c].answer = "done" =>
              /\ There.pin = call[c].pin /\ There.key = call[c].cert.key
              /\ There.cert = call[c].cert /\ There.ca = MachineJurisdiction
    /\ call[c].pc \in {"storeCert", "storeCa"} \/ call[c].answer = "done" =>
         /\ call[c].cert.key \in Keys
         /\ issued[call[c].cert.key] = [user |-> call[c].cert.user, pin |-> call[c].pin]

Programming == \A c \in Calls : call[c].kind = "program" => ProgramSoFar(c)

\* A key that a certificate names was made before.
KeysAreIssued ==
    \A k \in Cards : chip[k].cert.key # 0 => issued[chip[k].cert.key] # None

WholeInvariant ==
    DippedTypeOK /\ CallsAreRequested /\ Programming /\ KeysAreIssued /\ WholeOrUseless

----------------------------------------------------------------------------

Unprogramming(c) ==
    /\ call[c].kind = "unprogram" /\ inserted # NoCard
    /\ call[c].pc \in {"clearCa", "clearData"}

\* Is the card in the slot half way from one owner to the next.
Flux == \E c \in Calls :
          call[c].pc \in {"pin", "generate", "storeCert", "storeCa", "clearCert", "clearCa", "clearData"}

\* Nobody's PIN is checked, and no card changed, while a card is coming.
NothingWhileReading ==
    /\ Reading \/ events = <<"present">> =>
         /\ authStatus.status \in {"logged_out", "logged_in"}
         /\ \A c \in Calls : request[c].kind \in {"none", "updateSessionExpiry"}
    /\ authStatus.status \in {"remove_card", "logged_in"} =>
         \A c \in Calls : request[c].kind # "checkPin"

\* A card answers no call and no reading that did not select its applet first.
SelectedFirst ==
    Reachable /\ session = "none" =>
        /\ \A c \in Calls : call[c].pc \in {"idle", "select", "match", "bad", "answered"}
        /\ \A r \in Reads : reads[r].pc \in {"idle", "select"}

\* A card half way to its next owner that cannot be reached is not called ready.
FluxIsReached == Flux /\ inserted # NoCard /\ cardStatus.status = "ready" => Reachable

RightPinClears ==
    \A c \in Calls : inserted # NoCard /\ call[c].kind = "checkPin"
        /\ call[c].pc \in {"key", "match"} => There.tries = 0

\* While the administrator is in, nobody tries a PIN on the card that is changed.
AdministratorsCard ==
    AdministratorIn /\ Reachable => \A c \in Calls :
        /\ call[c].pc \in {"pin", "generate", "storeCert", "storeCa"} => There.tries = 0
        /\ call[c].pc = "generate" => session = "verified"

Unprogrammed ==
    \A c \in Calls : Unprogramming(c) =>
        /\ There.cert = NoCert
        /\ call[c].pc = "clearData" => There.ca = None

TalksToTheCard ==
    SelectedFirst /\ FluxIsReached /\ RightPinClears /\ AdministratorsCard /\ Unprogrammed

\* What a reading knows of the card by now.
KnownTo(read) ==
    /\ read.pc \in {"admin", "ca", "vxkey", "pin", "key", "tries"} => read.vx = inserted
    /\ read.pc \in {"ca", "vxkey", "pin", "key", "tries", "done"} => read.cert = There.cert
    /\ read.pc \in {"vxkey", "pin", "key", "tries", "bad", "done"} =>
         read.ca = There.ca /\ There.ca # None
    /\ read.pc \in {"pin", "key", "tries", "done"} => Signed(There.cert, There.ca)
    /\ read.pc \in {"pin", "key", "bad", "done"} => There.cert # NoCert /\ HasNoPin(There.cert)
    /\ read.pc = "tries" => There.cert # NoCert /\ ~HasNoPin(There.cert)
    /\ read.pc \in {"key", "done"} => There.pin = DEFAULT_PIN /\ There.tries = 0
    /\ read.pc = "key" /\ Reachable => session = "verified"
    /\ read.pc = "done" => There.key = There.cert.key /\ There.key # 0
    /\ read.pc = "bad" => There.pin # DEFAULT_PIN \/ There.key # There.cert.key

ReadSoFar == \A r \in Reads : KnownTo(reads[r])

\* The cached details and the status are of the card in the slot.
OwnerIsTrue ==
    inserted \notin changedLate \cup {NoCard} /\ ~Flux =>
        /\ cardStatus.status = "ready" /\ cardStatus.details # None =>
             /\ cardStatus.details.user = There.cert.user
             /\ cardStatus.details.hasPin = There.cert.hasPin
        /\ authStatus.status \in {"checking_pin", "remove_card"} =>
             There.cert.user = authStatus.user

StatusIsTrue ==
    Reachable /\ cardStatus.status = "ready" /\ inserted \notin changedLate /\ ~Flux =>
        SameDetails(cardStatus.details, Readable(inserted))

DippedInvariant ==
    /\ WholeInvariant
    /\ ReaderAtRest
    /\ NothingWhileReading
    /\ TalksToTheCard
    /\ ReadSoFar
    /\ OwnerIsTrue
    /\ StatusIsTrue

----------------------------------------------------------------------------
(* Types.                                                                  *)

LEMMA LockoutEndType ==
    ASSUME NEW tries \in Nat, NEW n \in Int
    PROVE  /\ LockoutDuration(Allowed, StartingDuration, tries) \in Int
           /\ LockoutEnd(Allowed, StartingDuration, tries, n) \in Int \cup {None}
  BY MachineAssumption DEF LockoutEnd, LockoutDuration

LEMMA SessionEndType ==
    ASSUME now \in Nat
    PROVE  SessionEnd \in Int
  BY MachineAssumption DEF SessionEnd

LEMMA LoggedOutWellFormed ==
    ASSUME NEW reason \in Reasons
    PROVE  WellFormed(LoggedOut(reason)) /\ LoggedOut(reason).status = "logged_out"
  BY DEF WellFormed, LoggedOut, Status, AuthStatuses

LEMMA AskForPinWellFormed ==
    ASSUME NEW details, details.user \in CardUsers, details.tries \in Nat, now \in Nat
    PROVE  /\ WellFormed(AskForPin(details))
           /\ AskForPin(details).status = "checking_pin" /\ AskForPin(details).user = details.user
<1>1. LockoutEnd(Allowed, StartingDuration, details.tries, now) \in Int \cup {None}
  BY LockoutEndType
<1> QED
  BY <1>1, NoneAssumption DEF WellFormed, AskForPin, CheckingPin, Status, AuthStatuses

LEMMA RemoveCardWellFormed ==
    ASSUME NEW user \in CardUsers, NEW until \in Int
    PROVE  WellFormed(Status("remove_card", None, user, until))
  BY NoneAssumption DEF WellFormed, Status, AuthStatuses

LEMMA ProgrammableCardType ==
    ASSUME NEW status \in CardStatuses
    PROVE  ProgrammableCard(status) \in ProgrammableCards
  BY DEF ProgrammableCard, ProgrammedUser, ProgrammableCards, CardStatuses, DetailsRecords

LEMMA InWellFormed ==
    ASSUME NEW user \in CardUsers, NEW until \in Int, NEW status \in CardStatuses
    PROVE  /\ WellFormed(In(user, until, status))
           /\ In(user, until, status).status = "logged_in" /\ In(user, until, status).user = user
<1> DEFINE card == IF user.role = "system_administrator" THEN ProgrammableCard(status) ELSE None
<1>1. card \in ProgrammableCards \cup {None}
  BY ProgrammableCardType
<1>2. In(user, until, status) = [Status("logged_in", None, user, until) EXCEPT !.card = card]
  BY DEF In
<1> HIDE DEF card
<1> QED
  BY <1>1, <1>2, NoneAssumption DEF WellFormed, Status, AuthStatuses

LEMMA CurrentWellFormed ==
    ASSUME WellFormed(authStatus)
    PROVE  /\ WellFormed(Current)
           /\ Current = authStatus \/ Current = LoggedOut("machine_locked")
           /\ Current.status # "logged_out" => Current = authStatus
           /\ authStatus.status # "logged_in" => Current = authStatus
<1>1. WellFormed(LoggedOut("machine_locked")) /\ LoggedOut("machine_locked").status = "logged_out"
  BY LoggedOutWellFormed DEF Reasons
<1> QED
  BY <1>1 DEF Current, CurrentOr

\* What polling makes of the status.
LEMMA AfterCardStatusCases ==
    ASSUME CardTypeOK, WellFormed(authStatus), now \in Nat
    PROVE  \/ /\ WellFormed(AfterCardStatus(cardStatus))
              /\ AfterCardStatus(cardStatus).status = "logged_out"
           \/ /\ Current.status = "logged_out" /\ authStatus.status \in {"logged_out", "logged_in"}
              /\ cardStatus.status = "ready" /\ cardStatus.details \in DetailsRecords
              /\ AfterCardStatus(cardStatus) = AskForPin(cardStatus.details)
           \/ AfterCardStatus(cardStatus) = authStatus
           \/ /\ authStatus.status = "remove_card" /\ cardStatus.status = "no_card"
              /\ AfterCardStatus(cardStatus) = In(authStatus.user, authStatus.until, cardStatus)
           \/ /\ authStatus.status = "logged_in"
              /\ AfterCardStatus(cardStatus) = In(authStatus.user, authStatus.until, cardStatus)
<1> DEFINE t == AfterCardStatus(cardStatus)
<1>1. cardStatus.details \in DetailsRecords \cup {None}
  BY DEF CardTypeOK, CardStatuses
<1>2. Current.status \in {"logged_out", "checking_pin", "remove_card", "logged_in"}
  BY CurrentWellFormed DEF WellFormed, AuthStatuses
<1>3. authStatus.status \in {"logged_out", "checking_pin", "remove_card", "logged_in"}
  BY DEF WellFormed, AuthStatuses
<1>4. CASE Current.status = "logged_out"
  <2>1. authStatus.status \in {"logged_out", "logged_in"}
    BY <1>3, <1>4, CurrentWellFormed
  <2>2. CASE cardStatus.status # "ready"
    <3>1. t = LoggedOut("card_error") \/ t = LoggedOut("machine_locked")
      BY <1>4, <2>2 DEF AfterCardStatus
    <3> QED
      BY <3>1, LoggedOutWellFormed DEF Reasons
  <2>3. CASE cardStatus.status = "ready" /\ ValidateCard(cardStatus.details) # "ok"
    <3>1. t = LoggedOut(ValidateCard(cardStatus.details))
      BY <1>4, <2>3 DEF AfterCardStatus
    <3>2. ValidateCard(cardStatus.details) \in Reasons
      BY <2>3 DEF ValidateCard, Reasons
    <3> QED
      BY <3>1, <3>2, LoggedOutWellFormed
  <2>4. CASE cardStatus.status = "ready" /\ ValidateCard(cardStatus.details) = "ok"
    <3>1. cardStatus.details # None
      BY <2>4 DEF ValidateCard
    <3>2. t = AskForPin(cardStatus.details)
      BY <1>4, <2>4 DEF AfterCardStatus
    <3> QED
      BY <1>1, <1>4, <2>1, <2>4, <3>1, <3>2
  <2> QED
    BY <2>2, <2>3, <2>4
<1>5. CASE Current.status = "checking_pin"
  <2>1. t = LoggedOut("machine_locked") \/ t = Current
    BY <1>5 DEF AfterCardStatus
  <2>2. Current = authStatus
    BY <1>5, CurrentWellFormed
  <2> QED
    BY <2>1, <2>2, LoggedOutWellFormed DEF Reasons
<1>6. CASE Current.status = "remove_card"
  <2>1. Current = authStatus
    BY <1>6, CurrentWellFormed
  <2> QED
    BY <1>6, <2>1 DEF AfterCardStatus, CardGone
<1>7. CASE Current.status = "logged_in"
  <2>1. Current = authStatus
    BY <1>7, CurrentWellFormed
  <2> QED
    BY <1>7, <2>1 DEF AfterCardStatus
<1> QED
  BY <1>2, <1>4, <1>5, <1>6, <1>7

LEMMA AfterCardStatusWellFormed ==
    ASSUME DippedTypeOK
    PROVE  WellFormed(AfterCardStatus(cardStatus))
<1>1. /\ CardTypeOK /\ WellFormed(authStatus) /\ now \in Nat /\ cardStatus \in CardStatuses
  BY DEF DippedTypeOK, CardTypeOK
<1>2. authStatus.status \in {"remove_card", "logged_in"} =>
        authStatus.user \in CardUsers /\ authStatus.until \in Int
  BY <1>1 DEF WellFormed, AuthStatuses
<1>3. authStatus.status \in {"remove_card", "logged_in"} =>
        WellFormed(In(authStatus.user, authStatus.until, cardStatus))
  BY <1>1, <1>2, InWellFormed
<1>4. cardStatus.details \in DetailsRecords => WellFormed(AskForPin(cardStatus.details))
  BY <1>1, AskForPinWellFormed DEF DetailsRecords
<1> QED
  BY <1>1, <1>3, <1>4, AfterCardStatusCases

LEMMA AfterPinAnswerCases ==
    ASSUME DippedTypeOK, NEW answer, NEW tries \in Nat
    PROVE  \/ /\ authStatus.status # "checking_pin" \/ answer = "error"
              /\ AfterPinAnswer(answer, tries) = Current
           \/ /\ authStatus.status = "checking_pin" /\ answer = "correct"
              /\ AfterPinAnswer(answer, tries)
                   = Status("remove_card", None, authStatus.user, SessionEnd)
              /\ authStatus.user \in CardUsers
           \/ /\ authStatus.status = "checking_pin" /\ answer \notin {"error", "correct"}
              /\ AfterPinAnswer(answer, tries)
                   = AskForPin([user |-> authStatus.user, tries |-> tries])
              /\ authStatus.user \in CardUsers
<1>1. authStatus.status = "checking_pin" => authStatus.user \in CardUsers
  BY DEF DippedTypeOK, WellFormed, AuthStatuses
<1>2. Current.status = "checking_pin" => authStatus.status = "checking_pin" /\ Current = authStatus
  BY CurrentWellFormed DEF DippedTypeOK
<1>3. authStatus.status = "checking_pin" => Current = authStatus
  BY CurrentWellFormed DEF DippedTypeOK
<1> QED
  BY <1>1, <1>2, <1>3 DEF AfterPinAnswer

LEMMA AfterPinAnswerWellFormed ==
    ASSUME DippedTypeOK, NEW answer, NEW tries \in Nat
    PROVE  WellFormed(AfterPinAnswer(answer, tries))
<1>1. now \in Nat /\ SessionEnd \in Int /\ WellFormed(Current)
  BY SessionEndType, CurrentWellFormed DEF DippedTypeOK
<1>2. authStatus.user \in CardUsers =>
        WellFormed(AskForPin([user |-> authStatus.user, tries |-> tries]))
  BY <1>1, AskForPinWellFormed
<1> QED
  BY <1>1, <1>2, AfterPinAnswerCases, RemoveCardWellFormed

LEMMA CardTypesStay ==
    ASSUME CardTypeOK, UNCHANGED cardVars
    PROVE  CardTypeOK'
  BY DEF CardTypeOK, cardVars, HasCert

\* The users a card is programmed for, and the PIN of one that asks for none.
LEMMA NewCardTypes ==
    ASSUME NEW new \in NewCards, MachineJurisdiction # None,
           new.user.role # "system_administrator" => MachineElection # None
    PROVE  /\ new.user \in CardUsers /\ new.hasPin \in BOOLEAN
           /\ new.user.jurisdiction = MachineJurisdiction
<1>1. MachineJurisdiction \in Jurisdictions /\ MachineElection \in Elections \cup {None}
      /\ PollWorkerPins \in BOOLEAN
  BY MachineAssumption
<1>2. CASE new = [user |-> SystemAdministrator(MachineJurisdiction), hasPin |-> TRUE]
  BY <1>1, <1>2 DEF CardUsers, SystemAdministrator, User
<1>3. CASE new = [user |-> ElectionManager(MachineJurisdiction, MachineElection), hasPin |-> TRUE]
  <2>1. MachineElection \in Elections
    BY <1>1, <1>3 DEF ElectionManager, User
  <2> QED
    BY <1>1, <1>3, <2>1 DEF CardUsers, ElectionManager, User
<1>4. CASE new = [user |-> PollWorker(MachineJurisdiction, MachineElection), hasPin |-> PollWorkerPins]
  <2>1. MachineElection \in Elections
    BY <1>1, <1>4 DEF PollWorker, User
  <2> QED
    BY <1>1, <1>4, <2>1 DEF CardUsers, PollWorker, User
<1> QED
  BY <1>2, <1>3, <1>4 DEF NewCards

\* What ProgramCard asks of the card.
NewCert(new) == [user |-> new.user, hasPin |-> new.hasPin, key |-> 0]

LEMMA ProgramCardStarts ==
    ASSUME NEW c \in Calls, ProgramCard(c)
    PROVE  \E new \in NewCards, pin \in Pins :
             /\ Start(c, "program", pin, NewCert(new)) /\ NewCert(new) \in Certificates
             /\ new.user \in CardUsers /\ new.user.jurisdiction = MachineJurisdiction
             /\ ~new.hasPin => pin = DEFAULT_PIN
<1>1. PICK new \in NewCards, pin \in Pins :
        /\ new.user.role # "system_administrator" => MachineElection # None
        /\ Program(c, new.user, new.hasPin, pin)
  BY DEF ProgramCard
<1>2. /\ new.user \in CardUsers /\ new.hasPin \in BOOLEAN
      /\ new.user.jurisdiction = MachineJurisdiction
  BY <1>1, NewCardTypes DEF ProgramCard
<1>3. NewCert(new) \in Certificates
  BY <1>2 DEF NewCert, Certificates
<1>4. DEFAULT_PIN \in Pins
  BY CardAssumption
<1>5. Start(c, "program", IF new.hasPin THEN pin ELSE DEFAULT_PIN, NewCert(new))
  BY <1>1 DEF Program, NewCert
<1>6. (IF new.hasPin THEN pin ELSE DEFAULT_PIN) \in Pins
  BY <1>4
<1> QED
  BY <1>2, <1>3, <1>5, <1>6

LEMMA RequestsStep ==
    ASSUME request \in [Calls -> Requests], [Next]_vars
    PROVE  request' \in [Calls -> Requests]
<1>1. CASE UNCHANGED request
  BY <1>1
<1>2. ASSUME NEW c \in Calls, NEW kind, Call(c, kind),
             kind \in {"checkPin", "updateSessionExpiry", "programCard", "unprogramCard"}
      PROVE  request' \in [Calls -> Requests]
  BY <1>2 DEF Call, Requests
<1>3. ASSUME NEW c \in Calls, Return(c) PROVE request' \in [Calls -> Requests]
  BY <1>3 DEF Return, IdleRequest, Requests
<1>4. ASSUME NEW c \in Calls, request' = [request EXCEPT ![c].pc = "card"]
      PROVE  request' \in [Calls -> Requests]
  BY <1>4 DEF Requests
<1> QED
  BY <1>1, <1>2, <1>3, <1>4
     DEF Next, Around, GetAuthStatus, ApiCall, ApiStep, vars, authVars, PersonAndReader,
         Tick, CardChanges, CardWorks, CheckPinLocked, CheckPinAsks, CheckPinAnswered,
         UpdateSessionExpiry, LogOut, NotAllowed, ProgramCard, UnprogramCard, CardChanged

LEMMA DippedTypesInit == Init => DippedTypeOK
<1> SUFFICES ASSUME Init PROVE DippedTypeOK
  OBVIOUS
<1>1. CardTypeOK
  BY CardInitTypes DEF Init, AuthInit
<1>2. WellFormed(authStatus)
  BY LoggedOutWellFormed DEF Init, Reasons
<1>3. now \in Nat /\ freeFrom \in [Cards -> Int] /\ request \in [Calls -> Requests]
  BY DEF Init, AuthInit, IdleRequest, Requests
<1> QED
  BY <1>1, <1>2, <1>3 DEF DippedTypeOK, Init

LEMMA DippedTypesStep == DippedTypeOK /\ [Next]_vars => DippedTypeOK'
<1> SUFFICES ASSUME DippedTypeOK, [Next]_vars PROVE DippedTypeOK'
  OBVIOUS
<1>1. /\ CardTypeOK /\ WellFormed(authStatus) /\ WellFormed(Current)
      /\ now \in Nat /\ freeFrom \in [Cards -> Int] /\ changedLate \subseteq Cards \cup {NoCard}
      /\ request' \in [Calls -> Requests]
  BY CurrentWellFormed, RequestsStep DEF DippedTypeOK
<1>2. CASE UNCHANGED vars
  BY <1>1, <1>2, CardTypesStay DEF vars, authVars, DippedTypeOK
<1>3. CASE PersonAndReader({"checking_pin", "remove_card"}) /\ UNCHANGED changedLate
  BY <1>1, <1>3, SurroundingsTypes DEF PersonAndReader, authVars, DippedTypeOK
<1>4. CASE Tick /\ UNCHANGED changedLate
  BY <1>1, <1>4, CardTypesStay DEF Tick, DippedTypeOK
<1>5. ASSUME NEW c \in Calls, CardChanges(c) PROVE DippedTypeOK'
  <2>1. CardWorks(c) /\ CardTypeOK'
    BY <1>1, <1>5, CardCallTypes DEF CardChanges, CardWorks
  <2>2. call'[c].tries \in Nat
    BY <2>1 DEF CardTypeOK, CardCalls
  <2>3. now + LockoutDuration(Allowed, StartingDuration, call'[c].tries) \in Int
    <3>1. LockoutDuration(Allowed, StartingDuration, call'[c].tries) \in Int
      BY <1>1, <2>2, LockoutEndType
    <3> QED
      BY <1>1, <3>1
  <2>4. freeFrom' \in [Cards -> Int]
    BY <1>1, <2>1, <2>3 DEF CardWorks
  <2>5. changedLate' \subseteq Cards \cup {NoCard}
    BY <1>1, <1>5 DEF CardChanges, CardTypeOK
  <2> QED
    BY <1>1, <2>1, <2>4, <2>5 DEF CardWorks, DippedTypeOK
<1>6. CASE CheckCardReader /\ UNCHANGED changedLate
  BY <1>1, <1>6, CardTypesStay, AfterCardStatusWellFormed DEF CheckCardReader, DippedTypeOK
<1>7. ASSUME NEW c \in Calls, CheckPinLocked(c) \/ NotAllowed(c), UNCHANGED changedLate
      PROVE  DippedTypeOK'
  BY <1>1, <1>7, CardTypesStay DEF CheckPinLocked, NotAllowed, DippedTypeOK
<1>8. ASSUME NEW c \in Calls, CheckPinAsks(c), UNCHANGED changedLate PROVE DippedTypeOK'
  <2>1. CardTypeOK'
    BY <1>1, <1>8, StartTypes DEF CheckPinAsks, CheckPin
  <2> QED
    BY <1>1, <1>8, <2>1 DEF CheckPinAsks, DippedTypeOK
<1>9. ASSUME NEW c \in Calls, CheckPinAnswered(c), UNCHANGED changedLate PROVE DippedTypeOK'
  <2>1. call[c].tries \in Nat
    BY <1>1 DEF CardTypeOK, CardCalls
  <2>2. WellFormed(authStatus')
    BY <1>9, <2>1, AfterPinAnswerWellFormed DEF CheckPinAnswered
  <2> QED
    BY <1>1, <1>9, <2>2, TakeTypes DEF CheckPinAnswered, DippedTypeOK
<1>10. CASE LogOut /\ UNCHANGED changedLate
  BY <1>1, <1>10, CardTypesStay, LoggedOutWellFormed DEF LogOut, DippedTypeOK, Reasons
<1>11. ASSUME NEW c \in Calls, UpdateSessionExpiry(c), UNCHANGED changedLate PROVE DippedTypeOK'
  <2>1. PICK until \in Int :
          authStatus' = IF Current.status \in {"remove_card", "logged_in"}
                        THEN [Current EXCEPT !.until = until] ELSE Current
    BY <1>1, <1>11, SessionEndType DEF UpdateSessionExpiry
  <2>2. WellFormed(authStatus')
    BY <1>1, <2>1 DEF WellFormed, AuthStatuses
  <2> QED
    BY <1>1, <1>11, <2>2, CardTypesStay DEF UpdateSessionExpiry, DippedTypeOK
<1>12. ASSUME NEW c \in Calls, ProgramCard(c), UNCHANGED changedLate PROVE DippedTypeOK'
  <2>1. PICK new \in NewCards, pin \in Pins :
          /\ Start(c, "program", pin, NewCert(new)) /\ NewCert(new) \in Certificates
          /\ new.user \in CardUsers
    BY <1>12, ProgramCardStarts
  <2>2. NewCert(new).user \in CardUsers
    BY <2>1 DEF NewCert
  <2>3. CardTypeOK'
    BY <1>1, <2>1, <2>2, StartTypes
  <2> QED
    BY <1>1, <1>12, <2>3 DEF ProgramCard, DippedTypeOK
<1>13. ASSUME NEW c \in Calls, UnprogramCard(c), UNCHANGED changedLate PROVE DippedTypeOK'
  <2>1. CardTypeOK'
    BY <1>1, <1>13, StartTypes, CardAssumption DEF UnprogramCard, Unprogram
  <2> QED
    BY <1>1, <1>13, <2>1 DEF UnprogramCard, DippedTypeOK
<1>14. ASSUME NEW c \in Calls, CardChanged(c), UNCHANGED changedLate PROVE DippedTypeOK'
  BY <1>1, <1>14, TakeTypes DEF CardChanged, DippedTypeOK
<1> QED
  BY <1>2, <1>3, <1>4, <1>5, <1>6, <1>7, <1>8, <1>9, <1>10, <1>11, <1>12, <1>13, <1>14
     DEF Next, Around, GetAuthStatus, ApiCall, Call, ApiStep

\* The state keeps its shape: a status is out exactly when it has no user, one
\* that is proved or in has an end, and what the driver, the cards and the calls
\* hold are certificates, details and PINs that exist.
THEOREM DippedTypes == Spec => []DippedTypeOK
<1>1. Init => DippedTypeOK
  BY DippedTypesInit
<1>2. DippedTypeOK /\ [Next]_vars => DippedTypeOK'
  BY DippedTypesStep
<1> QED
  BY <1>1, <1>2, PTL DEF Spec

----------------------------------------------------------------------------
(* Refinement of AuthJourney.                                              *)

Phase(s) == CASE s.status = "logged_out" -> "out"
              [] s.status = "checking_pin" -> "asking"
              [] s.status = "remove_card" -> "proved"
              [] s.status = "logged_in" -> "in"

\* What a step may do to the status, in the terms of AuthJourney.
JourneyMove(s, t) ==
    \/ Phase(t) = Phase(s) /\ t.user = s.user
    \/ Phase(t) = "out" /\ t.user = None
    \/ Phase(s) \in {"out", "in"} /\ Phase(t) = "asking" /\ t.user # None
    \/ Phase(s) = "asking" /\ Phase(t) = "proved" /\ t.user = s.user
    \/ Phase(s) = "proved" /\ Phase(t) = "in" /\ t.user = s.user

LEMMA LeaveMoves ==
    ASSUME NEW s, NEW t, WellFormed(t), t.status = "logged_out"
    PROVE  JourneyMove(s, t)
  BY DEF JourneyMove, Phase, WellFormed

LEMMA CurrentMoves ==
    ASSUME WellFormed(authStatus), NEW t, t = Current
    PROVE  JourneyMove(authStatus, t)
<1>1. Current = authStatus \/ (WellFormed(Current) /\ Current.status = "logged_out")
  BY CurrentWellFormed, LoggedOutWellFormed DEF Reasons
<1> QED
  BY <1>1, LeaveMoves DEF JourneyMove

LEMMA AfterCardStatusMoves ==
    ASSUME DippedTypeOK, NEW t, t = AfterCardStatus(cardStatus)
    PROVE  JourneyMove(authStatus, t)
<1>1. /\ CardTypeOK /\ WellFormed(authStatus) /\ now \in Nat /\ cardStatus \in CardStatuses
  BY DEF DippedTypeOK, CardTypeOK
<1>2. authStatus.status \in {"remove_card", "logged_in"} =>
        authStatus.user \in CardUsers /\ authStatus.until \in Int
  BY <1>1 DEF WellFormed, AuthStatuses
<1>3. CASE WellFormed(t) /\ t.status = "logged_out"
  BY <1>3, LeaveMoves
<1>4. CASE /\ authStatus.status \in {"logged_out", "logged_in"}
           /\ cardStatus.details \in DetailsRecords /\ t = AskForPin(cardStatus.details)
  <2>1. cardStatus.details.user \in CardUsers /\ cardStatus.details.tries \in Nat
    BY <1>4 DEF DetailsRecords
  <2>2. t.status = "checking_pin" /\ t.user # None
    BY <1>1, <1>4, <2>1, AskForPinWellFormed, NoneAssumption
  <2> QED
    BY <1>4, <2>2 DEF JourneyMove, Phase
<1>5. CASE t = authStatus
  BY <1>5 DEF JourneyMove
<1>6. CASE /\ authStatus.status \in {"remove_card", "logged_in"}
           /\ t = In(authStatus.user, authStatus.until, cardStatus)
  <2>1. t.status = "logged_in" /\ t.user = authStatus.user
    BY <1>1, <1>2, <1>6, InWellFormed
  <2> QED
    BY <1>6, <2>1 DEF JourneyMove, Phase
<1> QED
  BY <1>1, <1>3, <1>4, <1>5, <1>6, AfterCardStatusCases

LEMMA AfterPinAnswerMoves ==
    ASSUME DippedTypeOK, NEW answer, NEW tries \in Nat, NEW t, t = AfterPinAnswer(answer, tries)
    PROVE  JourneyMove(authStatus, t)
<1>1. WellFormed(authStatus) /\ now \in Nat
  BY DEF DippedTypeOK
<1>2. CASE t = Current
  BY <1>1, <1>2, CurrentMoves
<1>3. CASE /\ authStatus.status = "checking_pin"
           /\ t = Status("remove_card", None, authStatus.user, SessionEnd)
  BY <1>3 DEF JourneyMove, Phase, Status
<1>4. CASE /\ authStatus.status = "checking_pin" /\ authStatus.user \in CardUsers
           /\ t = AskForPin([user |-> authStatus.user, tries |-> tries])
  <2>1. t.status = "checking_pin" /\ t.user = authStatus.user
    BY <1>1, <1>4, AskForPinWellFormed
  <2> QED
    BY <1>4, <2>1 DEF JourneyMove, Phase
<1> QED
  BY <1>2, <1>3, <1>4, AfterPinAnswerCases

LEMMA NextMoves == DippedTypeOK /\ [Next]_vars => JourneyMove(authStatus, authStatus')
<1> SUFFICES ASSUME DippedTypeOK, [Next]_vars PROVE JourneyMove(authStatus, authStatus')
  OBVIOUS
<1>1. CASE UNCHANGED authStatus
  BY <1>1 DEF JourneyMove
<1>2. CASE CheckCardReader
  BY <1>2, AfterCardStatusMoves DEF CheckCardReader
<1>3. ASSUME NEW c \in Calls, CheckPinAnswered(c) PROVE JourneyMove(authStatus, authStatus')
  <2>1. call[c].tries \in Nat
    BY DEF DippedTypeOK, CardTypeOK, CardCalls
  <2> QED
    BY <1>3, <2>1, AfterPinAnswerMoves DEF CheckPinAnswered
<1>4. CASE LogOut
  BY <1>4, LoggedOutWellFormed, LeaveMoves DEF LogOut, Reasons
<1>5. ASSUME NEW c \in Calls, UpdateSessionExpiry(c) PROVE JourneyMove(authStatus, authStatus')
  <2>1. WellFormed(authStatus)
    BY DEF DippedTypeOK
  <2>2. CASE Current.status \in {"remove_card", "logged_in"}
    <3>1. PICK until : authStatus' = [authStatus EXCEPT !.until = until]
      BY <1>5, <2>1, <2>2, CurrentWellFormed DEF UpdateSessionExpiry
    <3>2. authStatus'.status = authStatus.status /\ authStatus'.user = authStatus.user
      BY <2>1, <3>1 DEF WellFormed, AuthStatuses
    <3> QED
      BY <3>2 DEF JourneyMove, Phase
  <2>3. CASE Current.status \notin {"remove_card", "logged_in"}
    BY <1>5, <2>1, <2>3, CurrentMoves DEF UpdateSessionExpiry
  <2> QED
    BY <2>2, <2>3
<1> QED
  BY <1>1, <1>2, <1>3, <1>4, <1>5
     DEF Next, Around, GetAuthStatus, ApiCall, Call, ApiStep, vars, authVars, PersonAndReader,
         Tick, CardChanges, CardWorks, CheckPinLocked, CheckPinAsks, NotAllowed, ProgramCard,
         UnprogramCard, CardChanged

\* Authentication by a dipped card is a journey of AuthJourney, whatever the
\* cards, the reader, the polls and the calls do, and however hastily cards are
\* exchanged: nobody gets in but who was asked for a PIN, gave it and took the
\* card out, and no late answer or card report lets anybody skip a stage.
THEOREM DippedAuthIsAJourney == Spec => AuthIsAJourney
<1>1. Init => Journey!Init
  BY DEF Init, Journey!Init, LoggedOut, Status
<1>2. DippedTypeOK /\ [Next]_vars =>
        [Journey!AskPin \/ Journey!Prove \/ Journey!Enter \/ Journey!WalkIn \/ Journey!Leave]_
            <<CASE authStatus.status = "logged_out" -> "out"
                [] authStatus.status = "checking_pin" -> "asking"
                [] authStatus.status = "remove_card" -> "proved"
                [] authStatus.status = "logged_in" -> "in", authStatus.user>>
  BY NextMoves
     DEF JourneyMove, Phase, Journey!AskPin, Journey!Prove, Journey!Enter,
         Journey!WalkIn, Journey!Leave
<1> QED
  BY <1>1, <1>2, DippedTypes, PTL DEF Spec, AuthIsAJourney, Journey!Spec

----------------------------------------------------------------------------
(* The calls.                                                              *)

\* A call that works is waited for, and goes from place to place.
LEMMA WorkIsRequested ==
    ASSUME CallsAreRequested, NEW c \in Calls, CardCall(c)
    PROVE  /\ request[c].pc = "card"
           /\ call[c].pc # "answered" /\ call[c].pc # "idle" /\ call[c].answer = None
           /\ call[c].pc \in PlacesOf(call[c].kind)
           /\ call[c].kind \in {"checkPin", "program", "unprogram"}
           /\ call[c].kind # "checkPin" => Changes(request[c].kind)
<1>1. call[c].pc \notin {"idle", "answered"}
  BY DEF CardCall, CallSelect, CheckPinCert, CheckPinVerify, CheckPinKey, CheckPinDone, CallReset,
     ProgramPin, ProgramGenerate, ProgramCert, ProgramCa, UnprogramCert, UnprogramCa, UnprogramData,
     CallFails, At
<1>2. request[c].pc = "card"
  BY <1>1 DEF CallsAreRequested, IdleCall
<1> QED
  BY <1>1, <1>2 DEF CallsAreRequested, Changes

LEMMA CheckPinSteps ==
    ASSUME CallsAreRequested, NEW c \in Calls, CardCall(c), call[c].kind = "checkPin"
    PROVE  \/ CallSelect(c) \/ CheckPinCert(c) \/ CheckPinVerify(c) \/ CheckPinKey(c)
           \/ CheckPinDone(c) \/ CallFails(c)
<1>1. call[c].pc \in {"select", "cert", "verify", "key", "match", "bad", "answered"}
  BY WorkIsRequested DEF PlacesOf
<1> QED
  BY <1>1 DEF CardCall, CallReset, ProgramPin, ProgramGenerate, ProgramCert, ProgramCa,
     UnprogramCert, UnprogramCa, UnprogramData, At

LEMMA ProgramSteps ==
    ASSUME CallsAreRequested, NEW c \in Calls, CardCall(c), call[c].kind = "program"
    PROVE  \/ CallSelect(c) \/ CallReset(c) \/ ProgramPin(c) \/ ProgramGenerate(c)
           \/ ProgramCert(c) \/ ProgramCa(c) \/ CallFails(c)
  BY DEF CardCall, CheckPinCert, CheckPinVerify, CheckPinKey, CheckPinDone, UnprogramCert,
     UnprogramCa, UnprogramData, At

LEMMA UnprogramSteps ==
    ASSUME CallsAreRequested, NEW c \in Calls, CardCall(c), call[c].kind = "unprogram"
    PROVE  \/ CallSelect(c) \/ CallReset(c) \/ UnprogramCert(c) \/ UnprogramCa(c)
           \/ UnprogramData(c) \/ CallFails(c)
  BY DEF CardCall, CheckPinCert, CheckPinVerify, CheckPinKey, CheckPinDone, ProgramPin,
     ProgramGenerate, ProgramCert, ProgramCa, At

\* One step of a call that a request waits for.
CallMove(c, to) ==
    /\ call' = [call EXCEPT ![c] = to]
    /\ to.kind = call[c].kind
    /\ to.pc \in PlacesOf(to.kind)
    /\ to.pc # "answered" => to.answer = None

LEMMA CallMoves ==
    ASSUME CardTypeOK, CallsAreRequested, NEW c \in Calls, CardCall(c)
    PROVE  \E to : CallMove(c, to)
<1>1. /\ call[c] \in CardCalls /\ call[c].answer = None
      /\ call[c].pc \in PlacesOf(call[c].kind)
      /\ call[c].kind \in {"checkPin", "program", "unprogram"}
  BY WorkIsRequested DEF CardTypeOK
<1>2. ASSUME NEW pc, pc \in PlacesOf(call[c].kind), NEW to,
             \/ to = [call[c] EXCEPT !.pc = pc]
             \/ \E cert : to = [call[c] EXCEPT !.pc = pc, !.cert = cert]
             \/ \E key : to = [call[c] EXCEPT !.pc = pc, !.cert.key = key],
             Step(c, to)
      PROVE  \E t : CallMove(c, t)
  <2>1. to.pc = pc /\ to.kind = call[c].kind /\ to.answer = None
    BY <1>1, <1>2 DEF CardCalls
  <2>2. CallMove(c, to)
    BY <1>2, <2>1 DEF CallMove, Step
  <2> QED
    BY <2>2
<1>3. ASSUME NEW answer, NEW to,
             \/ to = Answer(c, answer)
             \/ \E tries : to = [Answer(c, answer) EXCEPT !.tries = tries],
             Step(c, to)
      PROVE  \E t : CallMove(c, t)
  <2>1. to.pc = "answered" /\ to.kind = call[c].kind
    BY <1>1, <1>3 DEF CardCalls, Answer
  <2>2. CallMove(c, to)
    BY <1>1, <1>3, <2>1 DEF CallMove, Step, PlacesOf
  <2> QED
    BY <2>2
<1>4. CASE call[c].kind = "checkPin"
  <2>1. CASE CallSelect(c)
    BY <1>2, <1>4, <2>1 DEF CallSelect, PlacesOf
  <2>2. CASE CheckPinCert(c)
    BY <1>2, <1>4, <2>2 DEF CheckPinCert, PlacesOf
  <2>3. CASE CheckPinVerify(c)
    <3>1. CASE call[c].pin = There.pin
      BY <1>2, <1>4, <2>3, <3>1 DEF CheckPinVerify, PlacesOf
    <3>2. CASE call[c].pin # There.pin
      BY <1>3, <2>3, <3>2 DEF CheckPinVerify
    <3> QED
      BY <3>1, <3>2
  <2>4. CASE CheckPinKey(c)
    BY <1>2, <1>4, <2>4 DEF CheckPinKey, PlacesOf
  <2>5. CASE CheckPinDone(c) \/ CallFails(c)
    BY <1>3, <2>5 DEF CheckPinDone, CallFails
  <2> QED
    BY <1>4, <2>1, <2>2, <2>3, <2>4, <2>5, CheckPinSteps
<1>5. CASE call[c].kind = "program"
  <2>1. CASE CallSelect(c)
    BY <1>2, <1>5, <2>1 DEF CallSelect, PlacesOf
  <2>2. CASE CallReset(c)
    BY <1>2, <1>5, <2>2 DEF CallReset, PlacesOf
  <2>3. CASE ProgramPin(c)
    <3>1. CASE call[c].pin = There.pin
      BY <1>2, <1>5, <2>3, <3>1 DEF ProgramPin, PlacesOf
    <3>2. CASE call[c].pin # There.pin
      BY <1>3, <2>3, <3>2 DEF ProgramPin
    <3> QED
      BY <3>1, <3>2
  <2>4. CASE ProgramGenerate(c)
    BY <1>2, <1>5, <2>4 DEF ProgramGenerate, PlacesOf
  <2>5. CASE ProgramCert(c)
    BY <1>2, <1>5, <2>5 DEF ProgramCert, PlacesOf
  <2>6. CASE ProgramCa(c) \/ CallFails(c)
    BY <1>3, <2>6 DEF ProgramCa, CallFails
  <2> QED
    BY <1>5, <2>1, <2>2, <2>3, <2>4, <2>5, <2>6, ProgramSteps
<1>6. CASE call[c].kind = "unprogram"
  <2>1. CASE CallSelect(c)
    BY <1>2, <1>6, <2>1 DEF CallSelect, PlacesOf
  <2>2. CASE CallReset(c)
    BY <1>2, <1>6, <2>2 DEF CallReset, PlacesOf
  <2>3. CASE UnprogramCert(c) \/ UnprogramCa(c)
    BY <1>2, <1>6, <2>3 DEF UnprogramCert, UnprogramCa, PlacesOf
  <2>4. CASE UnprogramData(c) \/ CallFails(c)
    BY <1>3, <2>4 DEF UnprogramData, CallFails
  <2> QED
    BY <1>6, <2>1, <2>2, <2>3, <2>4, UnprogramSteps
<1> QED
  BY <1>1, <1>4, <1>5, <1>6

LEMMA CallsInit == Init => CallsAreRequested
<1> SUFFICES ASSUME Init PROVE CallsAreRequested
  OBVIOUS
<1>1. request = [c \in Calls |-> IdleRequest] /\ call = [c \in Calls |-> IdleCall]
  BY DEF Init, AuthInit, CardInit
<1> QED
  BY <1>1 DEF CallsAreRequested, IdleRequest, Changes

LEMMA CallsStay ==
    ASSUME CallsAreRequested, UNCHANGED <<call, request>>
    PROVE  CallsAreRequested'
  BY DEF CallsAreRequested

LEMMA CallsWork ==
    ASSUME CardTypeOK, CallsAreRequested, NEW c \in Calls, CardCall(c), UNCHANGED request
    PROVE  CallsAreRequested'
<1>1. PICK to : CallMove(c, to)
  BY CallMoves
<1>2. request[c].pc = "card"
  BY WorkIsRequested
<1>3. call'[c] = to /\ \A d \in Calls : d # c => call'[d] = call[d]
  BY <1>1 DEF CallMove, CardTypeOK
<1> QED
  BY <1>1, <1>2, <1>3 DEF CallsAreRequested, CallMove

LEMMA CallsReturn ==
    ASSUME CallsAreRequested, request \in [Calls -> Requests], NEW c \in Calls, Return(c),
           call'[c] = IdleCall, \A d \in Calls : d # c => call'[d] = call[d]
    PROVE  CallsAreRequested'
<1>1. /\ request'[c].pc = "idle" /\ request'[c].kind = "none"
      /\ \A d \in Calls : d # c => request'[d] = request[d]
  BY DEF Return, IdleRequest
<1> QED
  BY <1>1 DEF CallsAreRequested, Changes

LEMMA CallsStart ==
    ASSUME CardTypeOK, CallsAreRequested, request \in [Calls -> Requests], NEW c \in Calls,
           NEW pin \in Pins, NEW cert \in Certificates \cup {NoCert}, NEW kind,
           Start(c, kind, pin, cert),
           <<request[c].kind, kind>> \in {<<"checkPin", "checkPin">>, <<"programCard", "program">>,
                                          <<"unprogramCard", "unprogram">>},
           request' = [request EXCEPT ![c].pc = "card"]
    PROVE  CallsAreRequested'
<1>1. /\ call'[c] = Started(kind, pin, cert)
      /\ \A d \in Calls : d # c => call'[d] = call[d]
  BY DEF Start, Step, Started, CardTypeOK
<1>2. kind \in {"checkPin", "program", "unprogram"}
  OBVIOUS
<1>3. call'[c].kind = kind /\ call'[c].pc = "select" /\ call'[c].answer = None
  BY <1>1, <1>2, StartedCall
<1>4. /\ request'[c].pc = "card" /\ request'[c].kind = request[c].kind
      /\ \A d \in Calls : d # c => request'[d] = request[d]
  BY DEF Requests
<1>5. "select" \in PlacesOf(kind)
  BY <1>2 DEF PlacesOf
<1> QED
  BY <1>1, <1>3, <1>4, <1>5 DEF CallsAreRequested, Changes

LEMMA CallsBegin ==
    ASSUME CallsAreRequested, request \in [Calls -> Requests], UNCHANGED call,
           NEW c \in Calls, NEW kind \in {"checkPin", "updateSessionExpiry", "programCard", "unprogramCard"},
           kind = "checkPin" => \A d \in Calls : request[d].kind # "checkPin",
           Changes(kind) => \A d \in Calls : ~Changes(request[d].kind),
           request[c].pc = "idle",
           request' = [request EXCEPT ![c] = [pc |-> "then", kind |-> kind]]
    PROVE  CallsAreRequested'
<1>1. /\ request'[c].pc = "then" /\ request'[c].kind = kind
      /\ \A d \in Calls : d # c => request'[d] = request[d]
  OBVIOUS
<1> QED
  BY <1>1 DEF CallsAreRequested, Changes

LEMMA SurroundingsLeaveCalls ==
    ASSUME Surroundings
    PROVE  UNCHANGED <<call, issued>>
  BY DEF Surroundings, Insert, Remove, CardPresent, CardAbsent, ReaderLost, ReadCardDetails,
     ReadSelect, ReadVxCert, ReadAdminCert, ReadCaCert, ReadVxKey, ReadDefaultPin, ReadAdminKey,
     ReadTries, ReadDone, ReadFails, Advance, FinishRead

LEMMA CallsStep == DippedTypeOK /\ CallsAreRequested /\ [Next]_vars => CallsAreRequested'
<1> SUFFICES ASSUME DippedTypeOK, CallsAreRequested, [Next]_vars PROVE CallsAreRequested'
  OBVIOUS
<1>1. CardTypeOK /\ request \in [Calls -> Requests] /\ call \in [Calls -> CardCalls]
  BY DEF DippedTypeOK, CardTypeOK
<1>2. CASE UNCHANGED <<call, request>>
  BY <1>2, CallsStay
<1>3. ASSUME NEW c \in Calls, CardChanges(c) PROVE CallsAreRequested'
  BY <1>1, <1>3, CallsWork DEF CardChanges, CardWorks
<1>4. ASSUME NEW c \in Calls, ApiCall(c) PROVE CallsAreRequested'
  <2>1. UNCHANGED call /\ request[c].pc = "idle"
    BY <1>4 DEF ApiCall, Call, CheckCardReader, cardVars
  <2>2. \E kind \in {"checkPin", "updateSessionExpiry", "programCard", "unprogramCard"} :
          /\ kind = "checkPin" => \A d \in Calls : request[d].kind # "checkPin"
          /\ Changes(kind) => \A d \in Calls : ~Changes(request[d].kind)
          /\ request' = [request EXCEPT ![c] = [pc |-> "then", kind |-> kind]]
    BY <1>4 DEF ApiCall, Call, Changes
  <2> QED
    BY <1>1, <2>1, <2>2, CallsBegin
<1>5. ASSUME NEW c \in Calls, CheckPinLocked(c) \/ NotAllowed(c) \/ UpdateSessionExpiry(c)
      PROVE  CallsAreRequested'
  <2>1. UNCHANGED call /\ request[c].pc = "then" /\ Return(c)
    BY <1>5 DEF CheckPinLocked, NotAllowed, UpdateSessionExpiry, Then, cardVars
  <2>2. call'[c] = IdleCall
    BY <2>1 DEF CallsAreRequested
  <2> QED
    BY <1>1, <2>1, <2>2, CallsReturn
<1>6. ASSUME NEW c \in Calls, CheckPinAnswered(c) \/ CardChanged(c) PROVE CallsAreRequested'
  <2>1. Return(c) /\ call'[c] = IdleCall /\ \A d \in Calls : d # c => call'[d] = call[d]
    BY <1>1, <1>6 DEF CheckPinAnswered, CardChanged, Take, Step
  <2> QED
    BY <1>1, <2>1, CallsReturn
<1>7. ASSUME NEW c \in Calls, CheckPinAsks(c) PROVE CallsAreRequested'
  <2>1. PICK pin \in Pins : Start(c, "checkPin", pin, NoCert)
    BY <1>7 DEF CheckPinAsks, CheckPin
  <2>2. request[c].kind = "checkPin" /\ request' = [request EXCEPT ![c].pc = "card"]
    BY <1>7 DEF CheckPinAsks, Then
  <2> QED
    BY <1>1, <2>1, <2>2, CallsStart
<1>8. ASSUME NEW c \in Calls, ProgramCard(c) PROVE CallsAreRequested'
  <2>1. PICK new \in NewCards, pin \in Pins :
          Start(c, "program", pin, NewCert(new)) /\ NewCert(new) \in Certificates
    BY <1>8, ProgramCardStarts
  <2>2. request[c].kind = "programCard" /\ request' = [request EXCEPT ![c].pc = "card"]
    BY <1>8 DEF ProgramCard, Then
  <2> QED
    BY <1>1, <2>1, <2>2, CallsStart
<1>9. ASSUME NEW c \in Calls, UnprogramCard(c) PROVE CallsAreRequested'
  <2>1. Start(c, "unprogram", DEFAULT_PIN, NoCert) /\ DEFAULT_PIN \in Pins
    BY <1>9, CardAssumption DEF UnprogramCard, Unprogram
  <2>2. request[c].kind = "unprogramCard" /\ request' = [request EXCEPT ![c].pc = "card"]
    BY <1>9 DEF UnprogramCard, Then
  <2> QED
    BY <1>1, <2>1, <2>2, CallsStart
<1> QED
  BY <1>2, <1>3, <1>4, <1>5, <1>6, <1>7, <1>8, <1>9, SurroundingsLeaveCalls
     DEF Next, Around, GetAuthStatus, CheckCardReader, ApiStep, vars, authVars, cardVars,
         PersonAndReader, Tick, LogOut

----------------------------------------------------------------------------
(* What a card holds when it was programmed.                               *)

\* Everything but the counts of wrong PINs stays on the cards.
OnlyTries ==
    \A k \in Cards : /\ chip'[k].cert = chip[k].cert /\ chip'[k].ca = chip[k].ca
                     /\ chip'[k].key = chip[k].key /\ chip'[k].pin = chip[k].pin

LEMMA VerifyKeeps ==
    ASSUME CardTypeOK, inserted # NoCard, NEW pin, Verify(pin)
    PROVE  /\ OnlyTries
           /\ chip'[inserted].tries = IF pin = There.pin THEN 0 ELSE There.tries + 1
           /\ \A k \in Cards : k # inserted => chip'[k] = chip[k]
           /\ session' = IF pin = There.pin THEN "verified" ELSE "selected"
<1>1. inserted \in Cards /\ chip \in [Cards -> Chips] /\ There \in Chips
  BY DEF CardTypeOK, There
<1>2. chip' = [chip EXCEPT ![inserted] =
                 [There EXCEPT !.tries = IF pin = There.pin THEN 0 ELSE There.tries + 1]]
  BY <1>1 DEF Verify, There
<1>3. /\ chip'[inserted] = [There EXCEPT !.tries = IF pin = There.pin THEN 0 ELSE There.tries + 1]
      /\ \A k \in Cards : k # inserted => chip'[k] = chip[k]
  BY <1>1, <1>2
<1>4. OnlyTries
  BY <1>1, <1>3 DEF OnlyTries, Chips, There
<1> QED
  BY <1>1, <1>3, <1>4 DEF Verify, Chips, There

LEMMA ReadingKeeps ==
    ASSUME CardTypeOK, ReadCardDetails
    PROVE  OnlyTries /\ UNCHANGED inserted
<1>1. UNCHANGED chip => OnlyTries
  BY DEF OnlyTries
<1>2. ASSUME NEW r \in Reads, ReadDefaultPin(r) PROVE OnlyTries /\ UNCHANGED inserted
  <2>1. inserted # NoCard /\ Verify(DEFAULT_PIN)
    BY <1>2 DEF ReadDefaultPin, Commandable, Reachable, CardTypeOK
  <2> QED
    BY <1>2, <2>1, VerifyKeeps DEF ReadDefaultPin, Advance
<1> QED
  BY <1>1, <1>2 DEF ReadCardDetails, ReadSelect, ReadVxCert, ReadAdminCert, ReadCaCert, ReadVxKey,
     ReadAdminKey, ReadTries, ReadDone, ReadFails, Advance, FinishRead

LEMMA SurroundingsKeep ==
    ASSUME CardTypeOK, Surroundings
    PROVE  OnlyTries /\ UNCHANGED <<call, issued>>
<1>1. UNCHANGED chip => OnlyTries
  BY DEF OnlyTries
<1> QED
  BY <1>1, ReadingKeeps, SurroundingsLeaveCalls
     DEF Surroundings, Insert, Remove, CardPresent, CardAbsent, ReaderLost

LEMMA CheckPinKeeps ==
    ASSUME CardTypeOK, CallsAreRequested, NEW c \in Calls, CardCall(c), call[c].kind = "checkPin"
    PROVE  OnlyTries /\ UNCHANGED issued
<1>1. UNCHANGED chip => OnlyTries
  BY DEF OnlyTries
<1>2. CheckPinVerify(c) => OnlyTries
  BY VerifyKeeps DEF CheckPinVerify, Commandable, Reachable, CardTypeOK
<1> QED
  BY <1>1, <1>2, CheckPinSteps DEF CallSelect, CheckPinCert, CheckPinVerify, CheckPinKey,
     CheckPinDone, CallFails

KeysHold == KeysAreIssued /\ WholeOrUseless

LEMMA KeysStay ==
    ASSUME KeysHold, OnlyTries, UNCHANGED issued
    PROVE  KeysHold'
  BY DEF KeysHold, KeysAreIssued, WholeOrUseless, OnlyTries

\* At most one call changes a card at a time.
LEMMA OneChange ==
    ASSUME CallsAreRequested, NEW c \in Calls, NEW d \in Calls,
           call[c].kind \in {"program", "unprogram"}, call[d].kind \in {"program", "unprogram"}
    PROVE  c = d
<1>1. Changes(request[c].kind) /\ Changes(request[d].kind)
  BY DEF CallsAreRequested, Changes, IdleCall
<1> QED
  BY <1>1 DEF CallsAreRequested

LEMMA ProgrammingStays ==
    ASSUME CardTypeOK, Programming, OnlyTries, UNCHANGED issued, inserted' \in {inserted, NoCard},
           \A c \in Calls : call'[c].kind = "program" => call'[c] = call[c]
    PROVE  Programming'
<1> SUFFICES ASSUME NEW c \in Calls, call'[c].kind = "program" PROVE ProgramSoFar(c)'
  BY DEF Programming
<1>1. call'[c] = call[c] /\ ProgramSoFar(c)
  BY DEF Programming
<1>2. inserted' # NoCard =>
        /\ There'.pin = There.pin /\ There'.key = There.key
        /\ There'.cert = There.cert /\ There'.ca = There.ca
  BY DEF CardTypeOK, OnlyTries, There
<1> QED
  BY <1>1, <1>2 DEF ProgramSoFar

LEMMA ProgrammingVanishes ==
    ASSUME \A c \in Calls : call'[c].kind # "program"
    PROVE  Programming'
  BY DEF Programming

\* What each command of program and unprogram makes of the card.
LEMMA ChipSteps ==
    ASSUME CardTypeOK, NEW c \in Calls
    PROVE  /\ CallReset(c) =>
                /\ \A k \in Cards : k # inserted => chip'[k] = chip[k]
                /\ chip'[inserted].pin = call[c].pin /\ chip'[inserted].tries = 0
                /\ chip'[inserted].key = 0 /\ chip'[inserted].cert = There.cert
                /\ chip'[inserted].ca = There.ca
           /\ \A key : chip' = [chip EXCEPT ![inserted].key = key] /\ Commandable =>
                /\ \A k \in Cards : k # inserted => chip'[k] = chip[k]
                /\ chip'[inserted].pin = There.pin /\ chip'[inserted].tries = There.tries
                /\ chip'[inserted].key = key /\ chip'[inserted].cert = There.cert
                /\ chip'[inserted].ca = There.ca
           /\ \A cert : chip' = [chip EXCEPT ![inserted].cert = cert] /\ Commandable =>
                /\ \A k \in Cards : k # inserted => chip'[k] = chip[k]
                /\ chip'[inserted].pin = There.pin /\ chip'[inserted].tries = There.tries
                /\ chip'[inserted].key = There.key /\ chip'[inserted].cert = cert
                /\ chip'[inserted].ca = There.ca
           /\ \A ca : chip' = [chip EXCEPT ![inserted].ca = ca] /\ Commandable =>
                /\ \A k \in Cards : k # inserted => chip'[k] = chip[k]
                /\ chip'[inserted].pin = There.pin /\ chip'[inserted].tries = There.tries
                /\ chip'[inserted].key = There.key /\ chip'[inserted].cert = There.cert
                /\ chip'[inserted].ca = ca
<1>1. Commandable => inserted \in Cards /\ chip \in [Cards -> Chips] /\ There \in Chips
  BY DEF Commandable, Reachable, CardTypeOK, There
<1>2. CallReset(c) =>
        /\ Commandable
        /\ chip' = [chip EXCEPT ![inserted].pin = call[c].pin, ![inserted].tries = 0,
                                ![inserted].key = 0]
  BY DEF CallReset
<1>3. CallReset(c) =>
                /\ \A k \in Cards : k # inserted => chip'[k] = chip[k]
                /\ chip'[inserted].pin = call[c].pin /\ chip'[inserted].tries = 0
                /\ chip'[inserted].key = 0 /\ chip'[inserted].cert = There.cert
                /\ chip'[inserted].ca = There.ca
  BY <1>1, <1>2 DEF Chips, There
<1>4. \A key : chip' = [chip EXCEPT ![inserted].key = key] /\ Commandable =>
                /\ \A k \in Cards : k # inserted => chip'[k] = chip[k]
                /\ chip'[inserted].pin = There.pin /\ chip'[inserted].tries = There.tries
                /\ chip'[inserted].key = key /\ chip'[inserted].cert = There.cert
                /\ chip'[inserted].ca = There.ca
  BY <1>1 DEF Chips, There
<1>5. \A cert : chip' = [chip EXCEPT ![inserted].cert = cert] /\ Commandable =>
                /\ \A k \in Cards : k # inserted => chip'[k] = chip[k]
                /\ chip'[inserted].pin = There.pin /\ chip'[inserted].tries = There.tries
                /\ chip'[inserted].key = There.key /\ chip'[inserted].cert = cert
                /\ chip'[inserted].ca = There.ca
  BY <1>1 DEF Chips, There
<1>6. \A ca : chip' = [chip EXCEPT ![inserted].ca = ca] /\ Commandable =>
                /\ \A k \in Cards : k # inserted => chip'[k] = chip[k]
                /\ chip'[inserted].pin = There.pin /\ chip'[inserted].tries = There.tries
                /\ chip'[inserted].key = There.key /\ chip'[inserted].cert = There.cert
                /\ chip'[inserted].ca = ca
  BY <1>1 DEF Chips, There
<1> QED
  BY <1>3, <1>4, <1>5, <1>6

\* The programming goes on as long as one of its commands keeps to it.
LEMMA ProgrammingGoesOn ==
    ASSUME CardTypeOK, CallsAreRequested, NEW c \in Calls, call[c].kind = "program",
           \A d \in Calls : d # c => call'[d] = call[d], ProgramSoFar(c)'
    PROVE  Programming'
<1> SUFFICES ASSUME NEW d \in Calls, call'[d].kind = "program" PROVE ProgramSoFar(d)'
  BY DEF Programming
<1>1. d = c
  <2>1. CASE d # c
    BY <2>1, OneChange
  <2> QED
    BY <2>1
<1> QED
  BY <1>1

LEMMA ProgramWorks ==
    ASSUME CardTypeOK, CallsAreRequested, Programming, KeysHold, NEW c \in Calls, CardCall(c),
           call[c].kind = "program"
    PROVE  Programming' /\ KeysHold'
<1>1. /\ call[c] \in CardCalls /\ call \in [Calls -> CardCalls]
      /\ ProgramSoFar(c) /\ call[c].answer = None /\ call[c].pc # "answered"
      /\ call[c].cert.user \in CardUsers
  BY WorkIsRequested DEF CardTypeOK, Programming
<1>2. /\ inserted' = inserted
      /\ \A to : Step(c, to) => /\ call'[c] = to
                                /\ \A d \in Calls : d # c => call'[d] = call[d]
  BY <1>1, ProgramSteps DEF CallSelect, CallReset, ProgramPin, ProgramGenerate, ProgramCert,
     ProgramCa, CallFails, Step
<1>3. Commandable => inserted \in Cards /\ inserted # NoCard /\ There \in Chips
  BY DEF Commandable, Reachable, CardTypeOK, There
<1>4. UNCHANGED chip => OnlyTries
  BY DEF OnlyTries
<1>5. ASSUME NEW to, Step(c, to), OnlyTries, UNCHANGED issued, to.kind = "program",
             to.cert = call[c].cert, to.pin = call[c].pin,
             \/ to.pc = "answered" /\ to.answer = "error"
             \/ to.pc = "reset" /\ to.answer = None
             \/ to.pc = "generate" /\ to.answer = None /\ There.pin = to.pin
      PROVE  Programming' /\ KeysHold'
  <2>1. /\ call'[c] = to /\ \A d \in Calls : d # c => call'[d] = call[d]
        /\ inserted # NoCard => There'.pin = There.pin
    BY <1>2, <1>5 DEF OnlyTries, There, CardTypeOK
  <2>2. ProgramSoFar(c)'
    BY <1>1, <1>2, <1>5, <2>1, CardAssumption DEF ProgramSoFar, Answers
  <2> QED
    BY <1>1, <1>5, <2>1, <2>2, KeysStay, ProgrammingGoesOn
<1>6. CASE CallSelect(c)
  <2> DEFINE to == [call[c] EXCEPT !.pc = "reset"]
  <2>1. /\ to.kind = "program" /\ to.cert = call[c].cert /\ to.pin = call[c].pin
        /\ to.pc = "reset" /\ to.answer = None
    BY <1>1 DEF CardCalls
  <2>2. Step(c, to) /\ UNCHANGED <<chip, issued>>
    BY <1>6 DEF CallSelect
  <2> HIDE DEF to
  <2> QED
    BY <1>4, <1>5, <2>1, <2>2
<1>7. CASE CallReset(c)
  <2> DEFINE to == [call[c] EXCEPT !.pc = "pin"]
  <2>1. /\ to.kind = "program" /\ to.cert = call[c].cert /\ to.pin = call[c].pin
        /\ to.pc = "pin" /\ to.answer = None
    BY <1>1 DEF CardCalls
  <2>2. Step(c, to) /\ UNCHANGED issued /\ Commandable
    BY <1>7 DEF CallReset
  <2> HIDE DEF to
  <2>3. /\ \A k \in Cards : k # inserted => chip'[k] = chip[k]
        /\ chip'[inserted].pin = call[c].pin
        /\ chip'[inserted].key = 0 /\ chip'[inserted].cert = There.cert
    BY <1>7, ChipSteps
  <2>4. call'[c] = to /\ \A d \in Calls : d # c => call'[d] = call[d]
    BY <1>2, <2>2
  <2>5. ProgramSoFar(c)'
    BY <1>1, <1>2, <2>1, <2>3, <2>4, CardAssumption DEF ProgramSoFar, There, Answers
  <2>6. KeysHold'
    BY <1>3, <2>2, <2>3 DEF KeysHold, KeysAreIssued, WholeOrUseless, There
  <2> QED
    BY <1>1, <2>4, <2>5, <2>6, ProgrammingGoesOn
<1>8. CASE ProgramPin(c)
  <2> DEFINE to == IF There.pin = call[c].pin THEN [call[c] EXCEPT !.pc = "generate"]
                   ELSE Answer(c, "error")
  <2>1. /\ to.kind = "program" /\ to.cert = call[c].cert /\ to.pin = call[c].pin
        /\ \/ to.pc = "answered" /\ to.answer = "error"
           \/ to.pc = "generate" /\ to.answer = None /\ There.pin = to.pin
    BY <1>1 DEF CardCalls, Answer
  <2>2. Step(c, to) /\ UNCHANGED issued /\ Verify(call[c].pin) /\ Commandable
    BY <1>8 DEF ProgramPin
  <2>3. OnlyTries
    BY <1>3, <2>2, VerifyKeeps
  <2> HIDE DEF to
  <2> QED
    BY <1>5, <2>1, <2>2, <2>3
<1>9. CASE ProgramGenerate(c)
  <2>1. PICK k \in Keys :
          /\ issued[k] = None
          /\ chip' = [chip EXCEPT ![inserted].key = k]
          /\ issued' = [issued EXCEPT ![k] = [user |-> call[c].cert.user, pin |-> call[c].pin]]
          /\ Step(c, [call[c] EXCEPT !.pc = "storeCert", !.cert.key = k])
    BY <1>9 DEF ProgramGenerate
  <2> DEFINE to == [call[c] EXCEPT !.pc = "storeCert", !.cert.key = k]
  <2>2. /\ to.kind = "program" /\ to.pin = call[c].pin /\ to.pc = "storeCert" /\ to.answer = None
        /\ to.cert.user = call[c].cert.user /\ to.cert.hasPin = call[c].cert.hasPin
        /\ to.cert.key = k
    BY <1>1 DEF CardCalls
  <2>3. Commandable /\ call[c].pc = "generate"
    BY <1>9 DEF ProgramGenerate, Unlocked, At
  <2>4. /\ \A l \in Cards : l # inserted => chip'[l] = chip[l]
        /\ chip'[inserted].pin = There.pin /\ chip'[inserted].key = k
        /\ chip'[inserted].cert = There.cert
    BY <2>1, <2>3, ChipSteps
  <2>5. call'[c] = to /\ \A d \in Calls : d # c => call'[d] = call[d]
    BY <1>2, <2>1
  <2>6. /\ issued'[k] = [user |-> call[c].cert.user, pin |-> call[c].pin]
        /\ \A l \in Keys : l # k => issued'[l] = issued[l]
    BY <2>1 DEF CardTypeOK
  <2> HIDE DEF to
  <2>7. ProgramSoFar(c)'
    BY <1>1, <1>2, <1>3, <2>1, <2>2, <2>3, <2>4, <2>5, <2>6, CardAssumption
       DEF ProgramSoFar, There, Answers
  <2>8. [user |-> call[c].cert.user, pin |-> call[c].pin] # None
    <3>1. [user |-> call[c].cert.user, pin |-> call[c].pin] \in Issues
      BY <1>1 DEF Issues, CardCalls
    <3> QED
      BY <3>1, CardAssumption
  <2>9. \A l \in Cards : /\ chip[l].cert.key # 0 => /\ chip[l].cert.key \in Keys
                                                    /\ chip[l].cert.key # k
                         /\ chip'[l].cert = chip[l].cert
    <3>1. \A l \in Cards : chip[l].cert.key # 0 => chip[l].cert.key \in Keys
      BY DEF CardTypeOK, Chips, Certificates, NoCert
    <3>2. \A l \in Cards : chip'[l].cert = chip[l].cert
      BY <2>4 DEF There
    <3> QED
      BY <2>1, <3>1, <3>2 DEF KeysHold, KeysAreIssued
  <2>10. KeysAreIssued'
    BY <2>6, <2>9 DEF KeysHold, KeysAreIssued
  <2>11. WholeOrUseless'
    <3> SUFFICES ASSUME NEW l \in Cards, chip'[l].cert # NoCert, chip'[l].key = chip'[l].cert.key,
                        chip'[l].cert.key # 0
                 PROVE  issued'[chip'[l].cert.key] = [user |-> chip'[l].cert.user, pin |-> chip'[l].pin]
      BY DEF WholeOrUseless
    <3>1. chip'[l].cert = chip[l].cert /\ chip[l].cert.key \in Keys /\ chip[l].cert.key # k
      BY <2>9
    <3>2. l # inserted
      BY <2>4, <3>1
    <3>3. chip'[l] = chip[l]
      BY <2>4, <3>2
    <3> QED
      BY <2>6, <3>1, <3>3 DEF KeysHold, WholeOrUseless
  <2> QED
    BY <1>1, <2>5, <2>7, <2>10, <2>11, ProgrammingGoesOn DEF KeysHold
<1>10. CASE ProgramCert(c)
  <2> DEFINE to == [call[c] EXCEPT !.pc = "storeCa"]
  <2>1. /\ to.kind = "program" /\ to.cert = call[c].cert /\ to.pin = call[c].pin
        /\ to.pc = "storeCa" /\ to.answer = None
    BY <1>1 DEF CardCalls
  <2>2. Step(c, to) /\ UNCHANGED issued /\ Commandable /\ call[c].pc = "storeCert"
        /\ chip' = [chip EXCEPT ![inserted].cert = call[c].cert]
    BY <1>10 DEF ProgramCert, At
  <2> HIDE DEF to
  <2>3. /\ \A k \in Cards : k # inserted => chip'[k] = chip[k]
        /\ chip'[inserted].pin = There.pin
        /\ chip'[inserted].key = There.key /\ chip'[inserted].cert = call[c].cert
    BY <2>2, ChipSteps
  <2>4. call'[c] = to /\ \A d \in Calls : d # c => call'[d] = call[d]
    BY <1>2, <2>2
  <2>5. /\ There.pin = call[c].pin /\ There.key = call[c].cert.key
        /\ call[c].cert.key \in Keys
        /\ issued[call[c].cert.key] = [user |-> call[c].cert.user, pin |-> call[c].pin]
    BY <1>1, <1>3, <2>2 DEF ProgramSoFar
  <2>6. ProgramSoFar(c)'
    BY <1>1, <1>2, <2>1, <2>2, <2>3, <2>4, <2>5, CardAssumption DEF ProgramSoFar, There, Answers
  <2>7. [user |-> call[c].cert.user, pin |-> call[c].pin] # None
    <3>1. [user |-> call[c].cert.user, pin |-> call[c].pin] \in Issues
      BY <1>1 DEF Issues, CardCalls
    <3> QED
      BY <3>1, CardAssumption
  <2>8. KeysAreIssued'
    BY <2>2, <2>3, <2>5, <2>7 DEF KeysHold, KeysAreIssued
  <2>9. WholeOrUseless'
    BY <2>2, <2>3, <2>5 DEF KeysHold, WholeOrUseless
  <2> QED
    BY <1>1, <2>4, <2>6, <2>8, <2>9, ProgrammingGoesOn DEF KeysHold
<1>11. CASE ProgramCa(c)
  <2> DEFINE to == Answer(c, "done")
  <2>1. /\ to.kind = "program" /\ to.cert = call[c].cert /\ to.pin = call[c].pin
        /\ to.pc = "answered" /\ to.answer = "done"
    BY <1>1 DEF CardCalls, Answer
  <2>2. Step(c, to) /\ UNCHANGED issued /\ Commandable /\ call[c].pc = "storeCa"
        /\ chip' = [chip EXCEPT ![inserted].ca = call[c].cert.user.jurisdiction]
    BY <1>11 DEF ProgramCa, At
  <2> HIDE DEF to
  <2>3. /\ \A k \in Cards : k # inserted => chip'[k] = chip[k]
        /\ chip'[inserted].pin = There.pin /\ chip'[inserted].key = There.key
        /\ chip'[inserted].cert = There.cert
        /\ chip'[inserted].ca = call[c].cert.user.jurisdiction
    BY <2>2, ChipSteps
  <2>4. call'[c] = to /\ \A d \in Calls : d # c => call'[d] = call[d]
    BY <1>2, <2>2
  <2>5. ProgramSoFar(c)'
    BY <1>1, <1>2, <1>3, <2>1, <2>2, <2>3, <2>4 DEF ProgramSoFar, There
  <2>6. \A k \in Cards : /\ chip'[k].cert = chip[k].cert /\ chip'[k].key = chip[k].key
                         /\ chip'[k].pin = chip[k].pin
    BY <2>3 DEF There
  <2>7. KeysHold'
    BY <2>2, <2>6 DEF KeysHold, KeysAreIssued, WholeOrUseless
  <2> QED
    BY <1>1, <2>4, <2>5, <2>7, ProgrammingGoesOn
<1>12. CASE CallFails(c)
  <2> DEFINE to == Answer(c, "error")
  <2>1. /\ to.kind = "program" /\ to.cert = call[c].cert /\ to.pin = call[c].pin
        /\ to.pc = "answered" /\ to.answer = "error"
    BY <1>1 DEF CardCalls, Answer
  <2>2. Step(c, to) /\ UNCHANGED <<chip, issued>>
    BY <1>12 DEF CallFails
  <2> HIDE DEF to
  <2> QED
    BY <1>4, <1>5, <2>1, <2>2
<1> QED
  BY <1>6, <1>7, <1>8, <1>9, <1>10, <1>11, <1>12, ProgramSteps

LEMMA UnprogramWorks ==
    ASSUME CardTypeOK, CallsAreRequested, KeysHold, NEW c \in Calls, CardCall(c),
           call[c].kind = "unprogram"
    PROVE  Programming' /\ KeysHold'
<1>1. PICK to : CallMove(c, to)
  BY CallMoves
<1>2. \A d \in Calls : call'[d].kind # "program"
  <2> SUFFICES ASSUME NEW d \in Calls PROVE call'[d].kind # "program"
    OBVIOUS
  <2>1. CASE d = c
    BY <1>1, <2>1 DEF CallMove, CardTypeOK
  <2>2. CASE d # c
    BY <1>1, <2>2, OneChange DEF CallMove, CardTypeOK
  <2> QED
    BY <2>1, <2>2
<1>3. UNCHANGED issued
  BY UnprogramSteps DEF CallSelect, CallReset, UnprogramCert, UnprogramCa, UnprogramData, CallFails
<1>4. UNCHANGED chip => OnlyTries
  BY DEF OnlyTries
<1>5. CASE CallReset(c)
  <2>1. /\ \A k \in Cards : k # inserted => chip'[k] = chip[k]
        /\ chip'[inserted].key = 0 /\ chip'[inserted].cert = There.cert
    BY <1>5, ChipSteps
  <2> QED
    BY <1>2, <1>3, <2>1, ProgrammingVanishes DEF KeysHold, KeysAreIssued, WholeOrUseless, There
<1>6. CASE UnprogramCert(c)
  <2>1. /\ \A k \in Cards : k # inserted => chip'[k] = chip[k]
        /\ chip'[inserted].cert = NoCert
    BY <1>6, ChipSteps DEF UnprogramCert
  <2> QED
    BY <1>2, <1>3, <2>1, ProgrammingVanishes DEF KeysHold, KeysAreIssued, WholeOrUseless, NoCert
<1>7. CASE UnprogramCa(c)
  <2>1. /\ \A k \in Cards : k # inserted => chip'[k] = chip[k]
        /\ chip'[inserted].key = There.key /\ chip'[inserted].cert = There.cert
        /\ chip'[inserted].pin = There.pin
    BY <1>7, ChipSteps DEF UnprogramCa
  <2> QED
    BY <1>2, <1>3, <2>1, ProgrammingVanishes DEF KeysHold, KeysAreIssued, WholeOrUseless, There
<1>8. CASE CallSelect(c) \/ UnprogramData(c) \/ CallFails(c)
  BY <1>2, <1>3, <1>4, <1>8, KeysStay, ProgrammingVanishes DEF CallSelect, UnprogramData, CallFails
<1> QED
  BY <1>5, <1>6, <1>7, <1>8, UnprogramSteps

LEMMA CheckPinWorks ==
    ASSUME CardTypeOK, CallsAreRequested, Programming, KeysHold, NEW c \in Calls, CardCall(c),
           call[c].kind = "checkPin"
    PROVE  Programming' /\ KeysHold'
<1>1. PICK to : CallMove(c, to)
  BY CallMoves
<1>2. \A d \in Calls : call'[d].kind = "program" => call'[d] = call[d]
  BY <1>1 DEF CallMove, CardTypeOK
<1>3. OnlyTries /\ UNCHANGED issued
  BY CheckPinKeeps
<1>4. UNCHANGED inserted
  BY CheckPinSteps DEF CallSelect, CheckPinCert, CheckPinVerify, CheckPinKey, CheckPinDone,
     CallFails, Step
<1> QED
  BY <1>2, <1>3, <1>4, KeysStay, ProgrammingStays

LEMMA WholeInit == Init => WholeInvariant
<1> SUFFICES ASSUME Init PROVE WholeInvariant
  OBVIOUS
<1>1. DippedTypeOK /\ CallsAreRequested
  BY DippedTypesInit, CallsInit
<1>2. Programming
  BY DEF Init, AuthInit, CardInit, IdleCall, Programming
<1>3. /\ chip \in [Cards -> Chips]
      /\ \A k \in Cards : chip[k].cert.key = chip[k].key
      /\ \A k, l \in Cards : chip[k].key = chip[l].key /\ chip[k].key # 0 => k = l
  BY FirstChipsAssumption DEF Init, AuthInit, CardInit
<1>4. ASSUME NEW k \in Cards, chip[k].cert.key # 0
      PROVE  issued[chip[k].cert.key] = [user |-> chip[k].cert.user, pin |-> chip[k].pin]
  <2> DEFINE key == chip[k].key
             owner == CHOOSE c \in Cards : chip[c].key = key
  <2>1. key \in Keys /\ chip[k].cert.key = key
    BY <1>3, <1>4 DEF Chips
  <2>2. owner = k
    BY <1>3, <1>4
  <2>3. issued[key] = [user |-> chip[owner].cert.user, pin |-> chip[owner].pin]
    BY <2>1 DEF Init, AuthInit, CardInit
  <2> HIDE DEF owner
  <2> QED
    BY <2>1, <2>2, <2>3
<1>5. WholeOrUseless
  BY <1>4 DEF WholeOrUseless
<1>6. KeysAreIssued
  <2> SUFFICES ASSUME NEW k \in Cards, chip[k].cert.key # 0 PROVE issued[chip[k].cert.key] # None
    BY DEF KeysAreIssued
  <2>1. chip[k].cert \in Certificates /\ chip[k].pin \in Pins
    BY <1>3 DEF Chips, NoCert
  <2>2. [user |-> chip[k].cert.user, pin |-> chip[k].pin] \in Issues
    BY <2>1 DEF Certificates, Issues
  <2> QED
    BY <1>4, <2>2, CardAssumption
<1> QED
  BY <1>1, <1>2, <1>5, <1>6 DEF WholeInvariant

LEMMA WholeStep == WholeInvariant /\ [Next]_vars => WholeInvariant'
<1> SUFFICES ASSUME WholeInvariant, [Next]_vars PROVE WholeInvariant'
  OBVIOUS
<1>1. /\ DippedTypeOK /\ CardTypeOK /\ CallsAreRequested /\ Programming /\ KeysHold
      /\ DippedTypeOK' /\ CallsAreRequested'
  BY DippedTypesStep, CallsStep DEF WholeInvariant, DippedTypeOK, KeysHold
<1>2. UNCHANGED chip => OnlyTries
  BY DEF OnlyTries
<1>3. CASE UNCHANGED cardVars
  <2>1. /\ UNCHANGED <<chip, issued, inserted, call>>
    BY <1>3 DEF cardVars
  <2> QED
    BY <1>1, <1>2, <2>1, KeysStay, ProgrammingStays DEF KeysHold, WholeInvariant
<1>4. CASE PersonAndReader({"checking_pin", "remove_card"})
  <2>1. Surroundings /\ OnlyTries /\ UNCHANGED <<call, issued>>
    BY <1>1, <1>4, SurroundingsKeep DEF PersonAndReader
  <2>2. KeysHold'
    BY <1>1, <2>1, KeysStay
  <2>3. Programming'
    <3>1. CASE inserted' \in {inserted, NoCard}
      BY <1>1, <2>1, <3>1, ProgrammingStays
    <3>2. CASE inserted' \notin {inserted, NoCard}
      <4>1. \A c \in Calls : request[c].pc = "idle"
        BY <1>4, <2>1, <3>2 DEF PersonAndReader, Surroundings, Insert, Remove, CardPresent,
           CardAbsent, ReaderLost, ReadCardDetails, ReadSelect, ReadVxCert, ReadAdminCert,
           ReadCaCert, ReadVxKey, ReadDefaultPin, ReadAdminKey, ReadTries, ReadDone, ReadFails,
           Advance, FinishRead
      <4>2. \A c \in Calls : call'[c].kind # "program"
        BY <1>1, <2>1, <4>1 DEF CallsAreRequested, IdleCall
      <4> QED
        BY <4>2, ProgrammingVanishes
    <3> QED
      BY <3>1, <3>2
  <2> QED
    BY <1>1, <2>2, <2>3 DEF KeysHold, WholeInvariant
<1>5. ASSUME NEW c \in Calls, CardChanges(c) PROVE WholeInvariant'
  <2>1. CardCall(c)
    BY <1>5 DEF CardChanges, CardWorks
  <2>2. call[c].kind \in {"checkPin", "program", "unprogram"}
    BY <1>1, <2>1, WorkIsRequested
  <2>3. Programming' /\ KeysHold'
    BY <1>1, <2>1, <2>2, CheckPinWorks, ProgramWorks, UnprogramWorks
  <2> QED
    BY <1>1, <2>3 DEF KeysHold, WholeInvariant
<1>6. ASSUME NEW c \in Calls, CheckPinAnswered(c) \/ CardChanged(c) \/ CheckPinAsks(c) \/ UnprogramCard(c)
      PROVE  WholeInvariant'
  <2>1. UNCHANGED <<chip, issued, inserted>>
    BY <1>6 DEF CheckPinAnswered, CardChanged, CheckPinAsks, UnprogramCard, CheckPin, Unprogram,
       Start, Take, Step
  <2>2. \A d \in Calls : call'[d].kind = "program" => call'[d] = call[d]
    <3>1. CASE CheckPinAnswered(c) \/ CardChanged(c)
      BY <1>1, <3>1 DEF CheckPinAnswered, CardChanged, Take, Step, IdleCall, CardTypeOK
    <3>2. CASE CheckPinAsks(c) \/ UnprogramCard(c)
      <4>1. PICK kind \in {"checkPin", "unprogram"}, pin \in Pins : Start(c, kind, pin, NoCert)
        BY <3>2, CardAssumption DEF CheckPinAsks, UnprogramCard, CheckPin, Unprogram
      <4>2. /\ call'[c] = Started(kind, pin, NoCert)
            /\ \A d \in Calls : d # c => call'[d] = call[d]
        BY <1>1, <4>1 DEF Start, Step, Started, CardTypeOK
      <4> QED
        BY <4>2, StartedCall
    <3> QED
      BY <1>6, <3>1, <3>2
  <2> QED
    BY <1>1, <1>2, <2>1, <2>2, KeysStay, ProgrammingStays DEF KeysHold, WholeInvariant
<1>7. ASSUME NEW c \in Calls, ProgramCard(c) PROVE WholeInvariant'
  <2>1. PICK new \in NewCards, pin \in Pins :
          /\ Start(c, "program", pin, NewCert(new)) /\ NewCert(new) \in Certificates
          /\ new.user.jurisdiction = MachineJurisdiction
          /\ ~new.hasPin => pin = DEFAULT_PIN
    BY <1>7, ProgramCardStarts
  <2>2. UNCHANGED <<chip, issued, inserted>>
    BY <2>1 DEF Start, Step
  <2>3. /\ call'[c] = Started("program", pin, NewCert(new))
        /\ \A d \in Calls : d # c => call'[d] = call[d]
    BY <1>1, <2>1 DEF Start, Step, Started, CardTypeOK
  <2>4. /\ call'[c].pc = "select" /\ call'[c].answer = None /\ call'[c].pin = pin
        /\ call'[c].cert = NewCert(new)
    BY <2>1, <2>3, StartedCall
  <2>5. MachineJurisdiction # None
    BY <1>7 DEF ProgramCard
  <2>6. ProgramSoFar(c)'
    BY <2>1, <2>4, <2>5, CardAssumption DEF ProgramSoFar, NewCert, Answers
  <2>7. Programming'
    <3> SUFFICES ASSUME NEW d \in Calls, call'[d].kind = "program" PROVE ProgramSoFar(d)'
      BY DEF Programming
    <3>1. CASE d # c
      BY <1>1, <2>2, <2>3, <3>1 DEF Programming, ProgramSoFar, There
    <3> QED
      BY <2>6, <3>1
  <2> QED
    BY <1>1, <1>2, <2>2, <2>7, KeysStay DEF KeysHold, WholeInvariant
<1> QED
  BY <1>3, <1>4, <1>5, <1>6, <1>7
     DEF Next, Around, GetAuthStatus, CheckCardReader, ApiCall, Call, ApiStep, vars, authVars,
         CheckPinLocked, UpdateSessionExpiry, NotAllowed, Tick, LogOut

LEMMA WholeAlways == Spec => []WholeInvariant
<1>1. Init => WholeInvariant
  BY WholeInit
<1>2. WholeInvariant /\ [Next]_vars => WholeInvariant'
  BY WholeStep
<1> QED
  BY <1>1, <1>2, PTL DEF Spec

\* Whenever cards are pulled, program and unprogram are cut off between two
\* commands or the session ends under them: a card whose key is the one of its
\* certificate was made for that user by one whole call of program, and asks for
\* the PIN that call was given.
THEOREM ProgrammedWholeOrUseless == Spec => []WholeOrUseless
<1>1. WholeInvariant => WholeOrUseless
  BY DEF WholeInvariant
<1> QED
  BY <1>1, WholeAlways, PTL

LEMMA ToldStep ==
    ASSUME WholeInvariant, NEW c \in Calls, call[c].kind = "program", call[c].answer = "done",
           inserted # NoCard
    PROVE  /\ There.pin = call[c].pin /\ There.key = There.cert.key
           /\ SameDetails(Details(call[c].cert.user, call[c].cert.hasPin, There.tries),
                          Readable(inserted))
<1> DEFINE told == Details(call[c].cert.user, call[c].cert.hasPin, There.tries)
<1>1. ProgramSoFar(c) /\ call[c].cert.user \in CardUsers /\ There \in Chips
  BY DEF WholeInvariant, DippedTypeOK, CardTypeOK, Programming, There
<1>2. /\ There.pin = call[c].pin /\ There.key = call[c].cert.key
      /\ There.cert = call[c].cert /\ There.ca = MachineJurisdiction
      /\ call[c].cert.key \in Keys /\ MachineJurisdiction # None
      /\ call[c].cert.user.jurisdiction = MachineJurisdiction
      /\ ~call[c].cert.hasPin => call[c].pin = DEFAULT_PIN
  BY <1>1 DEF ProgramSoFar
<1>3. /\ There.cert # NoCert /\ Signed(There.cert, There.ca)
      /\ There.key # 0 /\ There.tries \in Nat
  BY <1>1, <1>2, NoneAssumption DEF NoCert, Signed, Keys, Chips
<1>4. told # None
  <2>1. told \in DetailsRecords
    BY <1>1, <1>3 DEF Details, DetailsRecords, WholeInvariant, DippedTypeOK, CardTypeOK, CardCalls
  <2> QED
    BY <2>1, NoneAssumption
<1>5. /\ told.user = call[c].cert.user /\ told.hasPin = call[c].cert.hasPin
      /\ told.tries = There.tries
      /\ HasNoPin(told) <=> HasNoPin(There.cert)
  BY <1>2 DEF Details, HasNoPin
<1>6. CASE ~HasNoPin(There.cert)
  <2>1. Readable(inserted) = told
    BY <1>2, <1>3, <1>6 DEF Readable, There
  <2> QED
    BY <1>2, <1>3, <1>4, <1>5, <2>1 DEF SameDetails
<1>7. CASE HasNoPin(There.cert) /\ There.tries < MAX_TRIES
  <2>1. Readable(inserted) = Details(call[c].cert.user, call[c].cert.hasPin, 0)
    BY <1>2, <1>3, <1>7 DEF Readable, There, HasNoPin
  <2>2. Details(call[c].cert.user, call[c].cert.hasPin, 0) # None
    <3>1. Details(call[c].cert.user, call[c].cert.hasPin, 0) \in DetailsRecords
      BY <1>1, <1>2 DEF Details, DetailsRecords, WholeInvariant, DippedTypeOK, CardTypeOK, CardCalls
    <3> QED
      BY <3>1, NoneAssumption
  <2> QED
    BY <1>2, <1>4, <1>5, <1>7, <2>1, <2>2 DEF SameDetails, Details
<1>8. CASE HasNoPin(There.cert) /\ ~(There.tries < MAX_TRIES)
  <2>1. Readable(inserted) = None /\ Blocked
    BY <1>3, <1>8, CardAssumption DEF Readable, There, Blocked
  <2> QED
    BY <1>2, <1>4, <1>5, <1>8, <2>1 DEF SameDetails
<1> QED
  BY <1>6, <1>7, <1>8

\* Whatever PINs are tried on a card that was just programmed, and whoever pulls
\* it: the PIN an administrator is told is the one the card takes, and the card
\* reads as that of its new user.
THEOREM ToldPinIsTaken == Spec => ToldPinIsTheCards
<1>1. WholeInvariant /\ [Next]_vars =>
        [\A c \in Calls : CardChanged(c) /\ call[c].kind = "program" /\ call[c].answer = "done"
                          /\ inserted # NoCard /\ reader = "ready" /\ connected
           => /\ There.pin = call[c].pin /\ There.key = There.cert.key
              /\ SameDetails(Details(call[c].cert.user, call[c].cert.hasPin, There.tries),
                             Readable(inserted))]_vars
  BY ToldStep
<1> QED
  BY <1>1, WholeAlways, PTL DEF Spec, ToldPinIsTheCards

----------------------------------------------------------------------------
(* Steps of the authentication that send no command to a card.             *)

\* What such a step may make of the status.
StatusMove(t) ==
    \/ t.status = "logged_out"
    \/ t.status = authStatus.status /\ t.user = authStatus.user
    \/ /\ authStatus.status \in {"logged_out", "logged_in"} /\ t.status = "checking_pin"
       /\ cardStatus.status = "ready" /\ cardStatus.details \in DetailsRecords
       /\ t.user = cardStatus.details.user
    \/ authStatus.status = "remove_card" /\ t.status = "logged_in" /\ cardStatus.status = "no_card"
    \/ authStatus.status = "checking_pin" /\ t.status = "remove_card" /\ t.user = authStatus.user

LEMMA StatusKnown ==
    ASSUME WellFormed(authStatus)
    PROVE  authStatus.status \in {"logged_out", "checking_pin", "remove_card", "logged_in"}
  BY DEF WellFormed, AuthStatuses

\* A poll takes nobody past the PIN.
LEMMA PollMoves ==
    ASSUME DippedTypeOK, NEW t, t = AfterCardStatus(cardStatus)
    PROVE  /\ StatusMove(t)
           /\ t.status = "remove_card" => authStatus.status = "remove_card"
           /\ t.status = "logged_in" => authStatus.status \in {"remove_card", "logged_in"}
<1>1. /\ CardTypeOK /\ WellFormed(authStatus) /\ now \in Nat /\ cardStatus \in CardStatuses
  BY DEF DippedTypeOK, CardTypeOK
<1>2. authStatus.status \in {"remove_card", "logged_in"} =>
        authStatus.user \in CardUsers /\ authStatus.until \in Int
  BY <1>1 DEF WellFormed, AuthStatuses
<1>3. CASE t.status = "logged_out"
  BY <1>3 DEF StatusMove
<1>4. CASE /\ authStatus.status \in {"logged_out", "logged_in"} /\ cardStatus.status = "ready"
           /\ cardStatus.details \in DetailsRecords /\ t = AskForPin(cardStatus.details)
  <2>1. cardStatus.details.user \in CardUsers /\ cardStatus.details.tries \in Nat
    BY <1>4 DEF DetailsRecords
  <2>2. t.status = "checking_pin" /\ t.user = cardStatus.details.user
    BY <1>1, <1>4, <2>1, AskForPinWellFormed
  <2> QED
    BY <1>4, <2>2 DEF StatusMove
<1>5. CASE t = authStatus
  BY <1>5 DEF StatusMove
<1>6. CASE /\ authStatus.status = "remove_card" /\ cardStatus.status = "no_card"
           /\ t = In(authStatus.user, authStatus.until, cardStatus)
  <2>1. t.status = "logged_in"
    BY <1>1, <1>2, <1>6, InWellFormed
  <2> QED
    BY <1>6, <2>1 DEF StatusMove
<1>7. CASE /\ authStatus.status = "logged_in"
           /\ t = In(authStatus.user, authStatus.until, cardStatus)
  <2>1. t.status = "logged_in" /\ t.user = authStatus.user
    BY <1>1, <1>2, <1>7, InWellFormed
  <2> QED
    BY <1>7, <2>1 DEF StatusMove
<1> QED
  BY <1>1, <1>3, <1>4, <1>5, <1>6, <1>7, AfterCardStatusCases

LEMMA CurrentIs ==
    ASSUME WellFormed(authStatus)
    PROVE  Current.status = "logged_out" \/ Current = authStatus
  BY CurrentWellFormed

LEMMA AnswerMoves ==
    ASSUME DippedTypeOK, NEW answer, NEW tries \in Nat, NEW t, t = AfterPinAnswer(answer, tries)
    PROVE  /\ StatusMove(t)
           /\ t.status \in {"remove_card", "logged_in"} =>
                authStatus.status \in {"remove_card", "logged_in", "checking_pin"}
<1>1. WellFormed(authStatus) /\ now \in Nat
  BY DEF DippedTypeOK
<1>2. CASE t = Current
  BY <1>1, <1>2, CurrentIs DEF StatusMove
<1>3. CASE /\ authStatus.status = "checking_pin"
           /\ t = Status("remove_card", None, authStatus.user, SessionEnd)
  BY <1>3 DEF StatusMove, Status
<1>4. CASE /\ authStatus.status = "checking_pin" /\ authStatus.user \in CardUsers
           /\ t = AskForPin([user |-> authStatus.user, tries |-> tries])
  <2>1. t.status = "checking_pin" /\ t.user = authStatus.user
    BY <1>1, <1>4, AskForPinWellFormed
  <2> QED
    BY <1>4, <2>1 DEF StatusMove
<1> QED
  BY <1>2, <1>3, <1>4, AfterPinAnswerCases

\* The driver and the cards are left alone; a call may start or be over.
Quiet ==
    /\ UNCHANGED <<inserted, chip, events, reader, connected, session, cardStatus, reads>>
    /\ \A c \in Calls : \/ call'[c] = call[c]
                        \/ /\ call[c].pc \in {"idle", "answered"}
                           /\ call'[c].pc \in {"idle", "select"}

\* No request to check a PIN or to change a card comes out of this step.
NoNewRequest ==
    \A c \in Calls : request'[c].kind \in {"none", "updateSessionExpiry", request[c].kind}

LEMMA QuietFlux ==
    ASSUME Quiet
    PROVE  Flux' <=> Flux
<1>1. \A c \in Calls :
        call'[c].pc \in {"pin", "generate", "storeCert", "storeCa", "clearCert", "clearCa", "clearData"}
        <=> call[c].pc \in {"pin", "generate", "storeCert", "storeCa", "clearCert", "clearCa", "clearData"}
  BY DEF Quiet
<1> QED
  BY <1>1 DEF Flux

LEMMA QuietTalks ==
    ASSUME Quiet, TalksToTheCard, AdministratorIn' /\ Reachable => AdministratorIn
    PROVE  TalksToTheCard'
<1>1. Reachable' = Reachable
  BY DEF Quiet, Reachable
<1>2. SelectedFirst'
  BY <1>1 DEF Quiet, TalksToTheCard, SelectedFirst
<1>3. FluxIsReached'
  BY <1>1, QuietFlux DEF Quiet, TalksToTheCard, FluxIsReached
<1>4. RightPinClears'
  BY DEF Quiet, TalksToTheCard, RightPinClears, There
<1>5. AdministratorsCard'
  BY <1>1 DEF Quiet, TalksToTheCard, AdministratorsCard, There
<1>6. Unprogrammed'
  BY DEF Quiet, TalksToTheCard, Unprogrammed, Unprogramming, There
<1> QED
  BY <1>2, <1>3, <1>4, <1>5, <1>6 DEF TalksToTheCard

\* The reader and the cards side of the invariant.
CardSide == ReaderAtRest /\ TalksToTheCard /\ ReadSoFar /\ OwnerIsTrue /\ StatusIsTrue

LEMMA QuietKeeps ==
    ASSUME DippedTypeOK, CardSide, NothingWhileReading, Quiet, StatusMove(authStatus'),
           UNCHANGED changedLate
    PROVE  CardSide'
<1>1. WellFormed(authStatus) /\ cardStatus \in CardStatuses
  BY DEF DippedTypeOK, CardTypeOK
<1>2. ReaderAtRest'
  BY DEF CardSide, Quiet, ReaderAtRest, Reading
<1>3. Reachable' = Reachable /\ (Flux' <=> Flux)
  BY QuietFlux DEF Quiet, Reachable
<1>4. AdministratorIn' /\ Reachable => AdministratorIn
  <2>1. CASE authStatus.status = "remove_card" /\ cardStatus.status = "no_card"
    <3>1. ~Reading
      BY <2>1 DEF NothingWhileReading
    <3> QED
      BY <2>1, <3>1 DEF CardSide, ReaderAtRest, Reachable
  <2>2. CASE ~(authStatus.status = "remove_card" /\ cardStatus.status = "no_card")
    BY <2>2 DEF StatusMove, AdministratorIn
  <2> QED
    BY <2>1, <2>2
<1>5. TalksToTheCard'
  BY <1>4, QuietTalks DEF CardSide
<1>6. ReadSoFar'
  BY <1>3 DEF CardSide, ReadSoFar, KnownTo, Quiet, There
<1>7. OwnerIsTrue'
  <2> SUFFICES ASSUME inserted \notin changedLate \cup {NoCard}, ~Flux
               PROVE  /\ cardStatus.status = "ready" /\ cardStatus.details # None =>
                           /\ cardStatus.details.user = There.cert.user
                           /\ cardStatus.details.hasPin = There.cert.hasPin
                      /\ authStatus'.status \in {"checking_pin", "remove_card"} =>
                           There.cert.user = authStatus'.user
    BY <1>3 DEF OwnerIsTrue, Quiet, There
  <2>1. cardStatus.details \in DetailsRecords => cardStatus.details # None
    BY NoneAssumption
  <2> QED
    BY <1>1, <2>1 DEF CardSide, OwnerIsTrue, StatusMove
<1>8. StatusIsTrue'
  BY <1>3 DEF CardSide, StatusIsTrue, Quiet, SameDetails, Readable, Blocked, There
<1> QED
  BY <1>2, <1>5, <1>6, <1>7, <1>8 DEF CardSide

LEMMA NothingKeeps ==
    ASSUME DippedTypeOK, ReaderAtRest, NothingWhileReading, Quiet, StatusMove(authStatus'),
           NoNewRequest,
           authStatus'.status \in {"remove_card", "logged_in"} =>
             \/ authStatus.status \in {"remove_card", "logged_in"}
             \/ \A c \in Calls : request'[c].kind # "checkPin"
    PROVE  NothingWhileReading'
<1>1. Reading' = Reading /\ events' = events
  BY DEF Quiet, Reading
<1>2. Reading \/ events = <<"present">> => cardStatus.status # "ready"
  BY DEF ReaderAtRest
<1> QED
  BY <1>1, <1>2 DEF NothingWhileReading, NoNewRequest, StatusMove

LEMMA QuietStep ==
    ASSUME WholeInvariant, CardSide, NothingWhileReading, UNCHANGED changedLate,
           \/ Tick \/ GetAuthStatus \/ LogOut
           \/ \E c \in Calls : ApiCall(c) \/ ApiStep(c)
    PROVE  CardSide' /\ NothingWhileReading'
<1>1. /\ DippedTypeOK /\ CallsAreRequested /\ ReaderAtRest
      /\ WellFormed(authStatus) /\ request \in [Calls -> Requests] /\ call \in [Calls -> CardCalls]
  BY DEF WholeInvariant, DippedTypeOK, CardTypeOK, CardSide
<1>2. UNCHANGED cardVars => Quiet
  BY DEF cardVars, Quiet
<1>3. UNCHANGED request => NoNewRequest
  BY DEF NoNewRequest
<1>4. ASSUME NEW c \in Calls, Return(c) PROVE NoNewRequest /\ request'[c].kind = "none"
  BY <1>1, <1>4 DEF Return, IdleRequest, NoNewRequest
<1>5. UNCHANGED authStatus => StatusMove(authStatus')
  BY DEF StatusMove
<1>6. CASE Tick
  BY <1>1, <1>2, <1>3, <1>5, <1>6, QuietKeeps, NothingKeeps DEF Tick
<1>7. CASE GetAuthStatus
  BY <1>1, <1>2, <1>3, <1>7, PollMoves, QuietKeeps, NothingKeeps DEF GetAuthStatus, CheckCardReader
<1>8. CASE LogOut
  <2>1. authStatus'.status = "logged_out"
    BY <1>8 DEF LogOut, LoggedOut, Status
  <2>2. StatusMove(authStatus')
    BY <2>1 DEF StatusMove
  <2> QED
    BY <1>1, <1>2, <1>3, <1>8, <2>1, <2>2, QuietKeeps, NothingKeeps DEF LogOut
<1>9. ASSUME NEW c \in Calls, NEW kind \in {"checkPin", "updateSessionExpiry", "programCard", "unprogramCard"},
             Call(c, kind),
             kind = "checkPin" => authStatus.status = "checking_pin",
             Changes(kind) => ~Reading /\ events = <<>>
      PROVE  CardSide' /\ NothingWhileReading'
  <2>1. /\ Quiet /\ StatusMove(authStatus')
        /\ authStatus'.status = "remove_card" => authStatus.status = "remove_card"
        /\ authStatus'.status = "logged_in" => authStatus.status \in {"remove_card", "logged_in"}
    BY <1>1, <1>2, <1>9, PollMoves DEF Call, CheckCardReader
  <2>2. /\ request'[c].kind = kind
        /\ \A d \in Calls : d # c => request'[d] = request[d]
    BY <1>1, <1>9 DEF Call
  <2>3. Reading' = Reading /\ events' = events
    BY <2>1 DEF Quiet, Reading
  <2>4. NothingWhileReading'
    <3>1. CASE kind = "checkPin"
      <4>1. ~(Reading \/ events = <<"present">>)
        BY <1>9, <3>1 DEF NothingWhileReading
      <4>2. authStatus'.status \notin {"remove_card", "logged_in"}
        BY <1>9, <2>1, <3>1
      <4> QED
        BY <2>3, <4>1, <4>2 DEF NothingWhileReading
    <3>2. CASE Changes(kind)
      <4>1. ~(Reading \/ events = <<"present">>)
        BY <1>9, <3>2
      <4>2. kind # "checkPin"
        BY <3>2 DEF Changes
      <4> QED
        BY <2>1, <2>2, <2>3, <4>1, <4>2 DEF NothingWhileReading
    <3>3. CASE kind = "updateSessionExpiry"
      <4>1. NoNewRequest
        BY <2>2, <3>3 DEF NoNewRequest
      <4> QED
        BY <1>1, <2>1, <4>1, NothingKeeps
    <3> QED
      BY <3>1, <3>2, <3>3 DEF Changes
  <2> QED
    BY <1>1, <2>1, <2>4, QuietKeeps
<1>10. ASSUME NEW c \in Calls, ApiCall(c) PROVE CardSide' /\ NothingWhileReading'
  BY <1>9, <1>10 DEF ApiCall, Changes
<1>11. ASSUME NEW c \in Calls, CheckPinLocked(c) \/ NotAllowed(c) PROVE CardSide' /\ NothingWhileReading'
  <2>1. Quiet /\ NoNewRequest /\ UNCHANGED authStatus
    BY <1>2, <1>4, <1>11 DEF CheckPinLocked, NotAllowed
  <2> QED
    BY <1>1, <1>5, <2>1, QuietKeeps, NothingKeeps
<1>12. ASSUME NEW c \in Calls, UpdateSessionExpiry(c) PROVE CardSide' /\ NothingWhileReading'
  <2>1. Quiet /\ NoNewRequest
    BY <1>2, <1>4, <1>12 DEF UpdateSessionExpiry
  <2>2. authStatus'.status = "logged_out"
        \/ (authStatus'.status = authStatus.status /\ authStatus'.user = authStatus.user)
    BY <1>1, <1>12, CurrentIs DEF UpdateSessionExpiry, WellFormed, AuthStatuses
  <2>3. StatusMove(authStatus')
    BY <2>2 DEF StatusMove
  <2> QED
    BY <1>1, <2>1, <2>2, <2>3, QuietKeeps, NothingKeeps
<1>13. ASSUME NEW c \in Calls, NEW to, call[c].pc \in {"idle", "answered"},
              to.pc \in {"idle", "select"}, Step(c, to), UNCHANGED <<chip, session, cardStatus>>
       PROVE  Quiet
  BY <1>1, <1>13 DEF Step, Quiet
<1>14. ASSUME NEW c \in Calls, CheckPinAsks(c) \/ ProgramCard(c) \/ UnprogramCard(c)
       PROVE  CardSide' /\ NothingWhileReading'
  <2>1. UNCHANGED authStatus /\ request' = [request EXCEPT ![c].pc = "card"]
    BY <1>14 DEF CheckPinAsks, ProgramCard, UnprogramCard
  <2>2. NoNewRequest
    BY <1>1, <2>1 DEF NoNewRequest, Requests
  <2>3. PICK kind \in {"checkPin", "program", "unprogram"}, pin \in Pins,
             cert \in Certificates \cup {NoCert} : Start(c, kind, pin, cert)
    BY <1>14, ProgramCardStarts, CardAssumption
       DEF CheckPinAsks, CheckPin, UnprogramCard, Unprogram
  <2>4. Quiet
    <3> DEFINE to == Started(kind, pin, cert)
    <3>1. call[c].pc = "idle" /\ Step(c, to) /\ UNCHANGED <<chip, session, cardStatus>>
      BY <2>3 DEF Start, Started
    <3>2. to.pc = "select"
      BY StartedCall
    <3> HIDE DEF to
    <3> QED
      BY <1>13, <3>1, <3>2
  <2> QED
    BY <1>1, <1>5, <2>1, <2>2, <2>4, QuietKeeps, NothingKeeps
<1>15. ASSUME NEW c \in Calls, Take(c) PROVE Quiet
  BY <1>13, <1>15 DEF Take, IdleCall
<1>16. ASSUME NEW c \in Calls, CardChanged(c) PROVE CardSide' /\ NothingWhileReading'
  <2>1. Quiet /\ NoNewRequest /\ UNCHANGED authStatus
    BY <1>4, <1>15, <1>16 DEF CardChanged
  <2> QED
    BY <1>1, <1>5, <2>1, QuietKeeps, NothingKeeps
<1>17. ASSUME NEW c \in Calls, CheckPinAnswered(c) PROVE CardSide' /\ NothingWhileReading'
  <2>1. /\ Quiet /\ NoNewRequest /\ request'[c].kind = "none" /\ request[c].kind = "checkPin"
        /\ call[c].tries \in Nat
    BY <1>1, <1>4, <1>15, <1>17 DEF CheckPinAnswered, CardCalls
  <2>2. StatusMove(authStatus')
    BY <1>1, <1>17, <2>1, AnswerMoves DEF CheckPinAnswered
  <2>3. \A d \in Calls : request'[d].kind # "checkPin"
    BY <1>1, <2>1 DEF NoNewRequest, CallsAreRequested
  <2> QED
    BY <1>1, <2>1, <2>2, <2>3, QuietKeeps, NothingKeeps
<1> QED
  BY <1>6, <1>7, <1>8, <1>10, <1>11, <1>12, <1>14, <1>16, <1>17 DEF ApiStep

----------------------------------------------------------------------------
(* The person, the reader and the readings.                                *)

LEMMA NoCalls ==
    ASSUME CallsAreRequested, \A c \in Calls : request[c].kind \in {"none", "updateSessionExpiry"}
    PROVE  \A c \in Calls : call[c] = IdleCall
  BY DEF CallsAreRequested

LEMMA IdleTalks ==
    ASSUME \A c \in Calls : call'[c] = IdleCall,
           Reachable' /\ session' = "none" => \A r \in Reads : reads'[r].pc \in {"idle", "select"}
    PROVE  TalksToTheCard' /\ ~Flux'
<1>1. \A c \in Calls : call'[c].pc = "idle" /\ call'[c].kind = "none"
  BY DEF IdleCall
<1>2. ~Flux'
  BY <1>1 DEF Flux
<1>3. SelectedFirst' /\ FluxIsReached' /\ RightPinClears' /\ AdministratorsCard' /\ Unprogrammed'
  BY <1>1, <1>2 DEF SelectedFirst, FluxIsReached, RightPinClears, AdministratorsCard, Unprogrammed,
     Unprogramming
<1> QED
  BY <1>2, <1>3 DEF TalksToTheCard

\* No reading is past the selection of the applet.
LEMMA NothingRead ==
    ASSUME \A r \in Reads : reads'[r].pc \in {"idle", "select"}
    PROVE  ReadSoFar'
  BY DEF ReadSoFar, KnownTo

LEMMA SlotStep ==
    ASSUME WholeInvariant, CardSide, NothingWhileReading, ~Hurried,
           (\E k \in Cards : Insert(k)) \/ Remove \/ CardPresent \/ CardAbsent \/ ReaderLost,
           PersonAndReader({"checking_pin", "remove_card"}), UNCHANGED changedLate
    PROVE  CardSide' /\ NothingWhileReading'
<1>1. /\ DippedTypeOK /\ CallsAreRequested /\ ReaderAtRest /\ CardTypeOK
      /\ WellFormed(authStatus) /\ ReaderAtRest' /\ UNCHANGED authVars
      /\ authStatus.status \in {"logged_out", "checking_pin", "remove_card", "logged_in"}
  BY RestSurroundings, StatusKnown DEF WholeInvariant, DippedTypeOK, CardSide, PersonAndReader
<1>2. UNCHANGED <<authStatus, request>>
  BY <1>1 DEF authVars
<1>3. Reading => inserted # NoCard /\ events = <<>>
  BY <1>1 DEF ReaderAtRest
<1>4. ASSUME NEW k \in Cards, Insert(k) PROVE CardSide' /\ NothingWhileReading'
  <2>1. /\ inserted = NoCard /\ inserted' = k /\ k # NoCard /\ ~Reading /\ events = <<>>
        /\ UNCHANGED <<reader, connected, reads, call, cardStatus, chip>>
    BY <1>1, <1>4, CardAssumption DEF Insert
  <2>2. authStatus.status \notin {"checking_pin", "remove_card"} /\ \A c \in Calls : request[c].pc = "idle"
    BY <2>1 DEF PersonAndReader
  <2>3. \A c \in Calls : request[c].kind = "none" /\ call[c] = IdleCall
    BY <1>1, <2>2 DEF CallsAreRequested
  <2>4. ~Reachable' /\ cardStatus'.status # "ready"
    BY <1>1, <2>1 DEF Reachable, CardTypeOK, ReaderAtRest
  <2>5. \A r \in Reads : reads'[r].pc = "idle"
    BY <2>1 DEF Reading
  <2>6. TalksToTheCard' /\ ReadSoFar'
    BY <2>1, <2>3, <2>4, <2>5, IdleTalks, NothingRead
  <2>7. OwnerIsTrue' /\ StatusIsTrue'
    BY <1>2, <2>2, <2>4 DEF OwnerIsTrue, StatusIsTrue
  <2>8. NothingWhileReading'
    BY <1>1, <1>2, <2>2, <2>3 DEF NothingWhileReading
  <2> QED
    BY <1>1, <2>6, <2>7, <2>8 DEF CardSide
<1>5. CASE Remove
  <2>1. /\ inserted' = NoCard /\ connected' = FALSE /\ ~Reading /\ events' = Append(events, "absent")
        /\ events = <<>> /\ UNCHANGED <<reads, call, chip>>
    BY <1>1, <1>5 DEF Remove
  <2>2. ~Reachable' /\ ~Reading' /\ events' # <<"present">>
    BY <2>1 DEF Reachable, Reading
  <2>3. \A r \in Reads : reads'[r].pc = "idle"
    BY <2>1 DEF Reading
  <2>4. SelectedFirst' /\ FluxIsReached' /\ RightPinClears' /\ AdministratorsCard' /\ Unprogrammed'
    BY <2>1, <2>2 DEF SelectedFirst, FluxIsReached, RightPinClears, AdministratorsCard,
       Unprogrammed, Unprogramming
  <2>5. OwnerIsTrue' /\ StatusIsTrue' /\ ReadSoFar'
    BY <2>1, <2>2, <2>3, NothingRead DEF OwnerIsTrue, StatusIsTrue
  <2>6. NothingWhileReading'
    BY <1>2, <2>2 DEF NothingWhileReading
  <2> QED
    BY <1>1, <2>4, <2>5, <2>6 DEF CardSide, TalksToTheCard
<1>6. CASE CardPresent
  <2>1. events = <<"present">> /\ UNCHANGED <<inserted, call, chip>>
    BY <1>1, <1>6 DEF CardPresent, Report, ReaderAtRest
  <2>2. /\ authStatus.status \in {"logged_out", "logged_in"}
        /\ \A c \in Calls : request[c].kind \in {"none", "updateSessionExpiry"}
        /\ ~Reading /\ cardStatus.status # "ready"
    BY <1>1, <1>3, <2>1 DEF NothingWhileReading, ReaderAtRest
  <2>3. \A c \in Calls : call'[c] = IdleCall
    BY <1>1, <2>1, <2>2, NoCalls
  <2>4. \A r \in Reads : reads[r] \in Readings /\ reads[r].pc = "idle"
    BY <1>1, <2>2 DEF Reading, CardTypeOK
  <2>5. /\ \A r \in Reads : reads'[r].pc \in {"idle", "select"}
        /\ cardStatus'.status # "ready"
    <3>1. CASE UpdateReader("ready")
      BY <1>1, <2>2, <2>4, <3>1 DEF UpdateReader, CardTypeOK, IdleRead
    <3>2. CASE UpdateReader("card_error")
      BY <2>2, <2>4, <3>2 DEF UpdateReader, NotReady
    <3> QED
      BY <1>6, <3>1, <3>2 DEF CardPresent
  <2>6. TalksToTheCard' /\ ReadSoFar'
    BY <2>3, <2>5, IdleTalks, NothingRead
  <2>7. OwnerIsTrue' /\ StatusIsTrue' /\ NothingWhileReading'
    BY <1>2, <2>2, <2>5 DEF OwnerIsTrue, StatusIsTrue, NothingWhileReading
  <2> QED
    BY <1>1, <2>6, <2>7 DEF CardSide
<1>7. CASE CardAbsent
  <2>1. /\ inserted = NoCard /\ connected' = FALSE /\ ~Reading /\ events' = <<>>
        /\ UpdateReader("no_card") /\ UNCHANGED <<inserted, call, chip>>
    BY <1>1, <1>3, <1>7 DEF CardAbsent, Report, ReaderAtRest
  <2>2. \A r \in Reads : reads'[r].pc = "idle"
    BY <2>1 DEF UpdateReader, Reading
  <2>3. ~Reachable' /\ ~Reading' /\ events' # <<"present">> /\ inserted' = NoCard
    BY <2>1, <2>2 DEF Reachable, Reading
  <2>4. SelectedFirst' /\ FluxIsReached' /\ RightPinClears' /\ AdministratorsCard' /\ Unprogrammed'
    BY <2>3 DEF SelectedFirst, FluxIsReached, RightPinClears, AdministratorsCard,
       Unprogrammed, Unprogramming
  <2>5. OwnerIsTrue' /\ StatusIsTrue' /\ ReadSoFar'
    BY <2>2, <2>3, NothingRead DEF OwnerIsTrue, StatusIsTrue
  <2>6. NothingWhileReading'
    BY <1>2, <2>3 DEF NothingWhileReading
  <2> QED
    BY <1>1, <2>4, <2>5, <2>6 DEF CardSide, TalksToTheCard
<1>8. CASE ReaderLost
  <2>1. PICK status \in {"unknown_error", "no_card_reader"} : UpdateReader(status)
    BY <1>8 DEF ReaderLost
  <2>2. /\ UNCHANGED <<inserted, chip, events, session, call, reads>> /\ ~connected'
        /\ cardStatus'.status # "ready" \/ (UNCHANGED cardStatus /\ ~Reachable)
    BY <1>8, <2>1 DEF ReaderLost, UpdateReader, NotReady, Reachable
  <2>3. ~Reachable' /\ Reading' = Reading /\ (Flux' <=> Flux)
    BY <2>2 DEF Reachable, Reading, Flux
  <2>4. SelectedFirst' /\ FluxIsReached' /\ RightPinClears' /\ AdministratorsCard' /\ Unprogrammed'
    BY <2>2, <2>3 DEF CardSide, TalksToTheCard, SelectedFirst, FluxIsReached, RightPinClears,
       AdministratorsCard, Unprogrammed, Unprogramming, There
  <2>5. ReadSoFar'
    BY <2>2, <2>3 DEF CardSide, ReadSoFar, KnownTo, There
  <2>6. OwnerIsTrue' /\ StatusIsTrue'
    BY <1>2, <2>2, <2>3 DEF CardSide, OwnerIsTrue, StatusIsTrue, There
  <2>7. NothingWhileReading'
    BY <1>2, <2>2, <2>3 DEF NothingWhileReading
  <2> QED
    BY <1>1, <2>4, <2>5, <2>6, <2>7 DEF CardSide, TalksToTheCard
<1> QED
  BY <1>4, <1>5, <1>6, <1>7, <1>8

LEMMA AdvanceKeeps ==
    ASSUME DippedTypeOK, CallsAreRequested, CardSide, NothingWhileReading,
           NEW r \in Reads, reads[r].pc # "idle", NEW read, read.pc # "idle", Advance(r, read),
           Reachable => session' # "none", KnownTo(read)', UNCHANGED authVars, ReaderAtRest'
    PROVE  CardSide' /\ NothingWhileReading'
<1>1. Reading /\ reads \in [Reads -> Readings]
  BY DEF Reading, DippedTypeOK, CardTypeOK
<1>2. /\ authStatus.status \in {"logged_out", "logged_in"}
      /\ \A c \in Calls : request[c].kind \in {"none", "updateSessionExpiry"}
      /\ cardStatus.status # "ready"
      /\ \A q \in Reads : q # r => reads[q].pc = "idle"
  BY <1>1 DEF NothingWhileReading, CardSide, ReaderAtRest
<1>3. UNCHANGED <<reader, connected, cardStatus, call, authStatus, request>>
  BY DEF Advance, authVars
<1>4. \A c \in Calls : call'[c] = IdleCall
  BY <1>2, <1>3, NoCalls
<1>5. TalksToTheCard'
  BY <1>3, <1>4, IdleTalks DEF Reachable
<1>6. \A q \in Reads : reads'[q] = IF q = r THEN read ELSE reads[q]
  BY <1>1 DEF Advance
<1>7. \A q \in Reads : q # r => reads'[q].pc = "idle"
  BY <1>2, <1>6
<1>8. \A q \in Reads : q # r => KnownTo(reads[q])'
  BY <1>7 DEF KnownTo
<1>9. ReadSoFar'
  BY <1>6, <1>8 DEF ReadSoFar
<1>10. OwnerIsTrue' /\ StatusIsTrue' /\ NothingWhileReading'
  BY <1>2, <1>3 DEF OwnerIsTrue, StatusIsTrue, NothingWhileReading
<1> QED
  BY <1>5, <1>9, <1>10 DEF CardSide

LEMMA FinishKeeps ==
    ASSUME DippedTypeOK, CallsAreRequested, CardSide, NothingWhileReading,
           NEW r \in Reads, reads[r].pc # "idle", NEW details, FinishRead(r, details),
           details # None => details.user = There.cert.user /\ details.hasPin = There.cert.hasPin,
           Reachable => SameDetails(details, Readable(inserted)),
           UNCHANGED authVars, ReaderAtRest'
    PROVE  CardSide' /\ NothingWhileReading'
<1>1. Reading /\ reads \in [Reads -> Readings]
  BY DEF Reading, DippedTypeOK, CardTypeOK
<1>2. /\ authStatus.status \in {"logged_out", "logged_in"}
      /\ \A c \in Calls : request[c].kind \in {"none", "updateSessionExpiry"}
      /\ \A q \in Reads : q # r => reads[q].pc = "idle"
  BY <1>1 DEF NothingWhileReading, CardSide, ReaderAtRest
<1>3. UNCHANGED <<inserted, chip, reader, connected, call, authStatus, request>>
  BY DEF FinishRead, authVars
<1>4. \A q \in Reads : reads'[q].pc = "idle"
  BY <1>1, <1>2 DEF FinishRead, IdleRead
<1>5. TalksToTheCard' /\ ReadSoFar'
  BY <1>2, <1>3, <1>4, NoCalls, IdleTalks, NothingRead
<1>6. cardStatus' = [status |-> "ready", details |-> details]
  BY DEF FinishRead, Ready
<1>7. OwnerIsTrue' /\ NothingWhileReading'
  BY <1>2, <1>3, <1>6 DEF OwnerIsTrue, NothingWhileReading, There
<1>8. StatusIsTrue'
  BY <1>3, <1>6 DEF StatusIsTrue, Reachable, SameDetails, Readable, Blocked, There
<1> QED
  BY <1>5, <1>7, <1>8 DEF CardSide

\* A reading makes of the card what it is.
LEMMA SameRead ==
    ASSUME NEW details, details = Readable(inserted), details # None => details.tries \in Nat
    PROVE  SameDetails(details, Readable(inserted))
  BY DEF SameDetails

LEMMA FailsForAReason ==
    ASSUME DippedTypeOK, CardSide, NEW r \in Reads, ReadFails(r), Reachable
    PROVE  Readable(inserted) = None
<1>1. /\ KnownTo(reads[r]) /\ There \in Chips /\ reads[r].pc \in ReadPcs
      /\ reads[r].pc \notin {"idle", "select"} => session # "none"
  BY DEF CardSide, ReadSoFar, DippedTypeOK, CardTypeOK, Reachable, There, Readings, TalksToTheCard,
     SelectedFirst
<1>2. reads[r].pc \notin {"idle", "select"} => Commandable
  BY <1>1 DEF Commandable
<1>3. CASE reads[r].pc = "bad"
  BY <1>1, <1>3 DEF KnownTo, Readable, There
<1>4. CASE reads[r].pc = "admin" /\ There.cert = NoCert
  BY <1>4 DEF Readable, There
<1>5. CASE reads[r].pc = "ca" /\ There.ca = None
  BY <1>5 DEF Readable, There
<1>6. CASE reads[r].pc = "vxkey" /\ ~(reads[r].vx = inserted /\ Signed(reads[r].cert, reads[r].ca))
  BY <1>1, <1>6 DEF KnownTo, Readable, There
<1>7. CASE reads[r].pc = "pin" /\ Blocked
  <2>1. ~(There.tries < MAX_TRIES)
    BY <1>1, <1>7, CardAssumption DEF Blocked, Chips
  <2> QED
    BY <1>1, <1>7, <2>1 DEF KnownTo, Readable, There
<1>8. CASE reads[r].pc = "key" /\ (There.key = 0 \/ ~Unlocked)
  <2>1. There.key = 0
    BY <1>1, <1>2, <1>8 DEF KnownTo, Unlocked
  <2> QED
    BY <1>1, <1>8, <2>1 DEF KnownTo, Readable, There
<1> QED
  BY <1>2, <1>3, <1>4, <1>5, <1>6, <1>7, <1>8 DEF ReadFails

LEMMA ReadStep ==
    ASSUME WholeInvariant, CardSide, NothingWhileReading, ReadCardDetails,
           UNCHANGED <<authVars, changedLate>>
    PROVE  CardSide' /\ NothingWhileReading'
<1>1. /\ DippedTypeOK /\ CallsAreRequested /\ ReaderAtRest' /\ CardTypeOK
  BY RestReading DEF WholeInvariant, DippedTypeOK, CardSide
<1>2. PICK r \in Reads :
        \/ ReadSelect(r) \/ ReadVxCert(r) \/ ReadAdminCert(r) \/ ReadCaCert(r)
        \/ ReadVxKey(r) \/ ReadDefaultPin(r) \/ ReadAdminKey(r)
        \/ ReadTries(r) \/ ReadDone(r) \/ ReadFails(r)
  BY DEF ReadCardDetails
<1>3. /\ reads[r] \in Readings /\ KnownTo(reads[r])
  BY <1>1 DEF CardTypeOK, CardSide, ReadSoFar
<1>4. reads[r].pc # "idle"
  BY <1>2, <1>3 DEF ReadSelect, ReadVxCert, ReadAdminCert, ReadCaCert, ReadVxKey, ReadDefaultPin,
     ReadAdminKey, ReadTries, ReadDone, ReadFails
<1>5. inserted # NoCard /\ inserted \in Cards /\ There \in Chips
  <2>1. inserted # NoCard
    BY <1>4 DEF CardSide, ReaderAtRest, Reading
  <2> QED
    BY <1>1, <2>1 DEF CardTypeOK, There
<1>6. CASE ReadSelect(r)
  <2>0. PICK read : read = [reads[r] EXCEPT !.pc = "vx"]
    OBVIOUS
  <2>1. read.pc = "vx"
    BY <2>0, <1>3 DEF Readings
  <2>2. Advance(r, read) /\ session' # "none"
    BY <2>0, <1>6 DEF ReadSelect
  <2>3. KnownTo(read)'
    BY <2>1 DEF KnownTo
  <2> QED
    BY <1>1, <1>4, <2>1, <2>2, <2>3, AdvanceKeeps
<1>7. CASE ReadVxCert(r)
  <2>0. PICK read : read = [reads[r] EXCEPT !.pc = "admin", !.vx = inserted]
    OBVIOUS
  <2>1. read.pc = "admin" /\ read.vx = inserted
    BY <2>0, <1>3 DEF Readings
  <2>2. Advance(r, read) /\ session' # "none" /\ inserted' = inserted
    BY <2>0, <1>7 DEF ReadVxCert, Commandable, Advance
  <2>3. KnownTo(read)'
    BY <2>1, <2>2 DEF KnownTo
  <2> QED
    BY <1>1, <1>4, <2>1, <2>2, <2>3, AdvanceKeeps
<1>8. CASE ReadAdminCert(r)
  <2>0. PICK read : read = [reads[r] EXCEPT !.pc = "ca", !.cert = There.cert]
    OBVIOUS
  <2>1. read.pc = "ca" /\ read.vx = inserted /\ read.cert = There.cert
    BY <2>0, <1>3, <1>8 DEF Readings, ReadAdminCert, KnownTo
  <2>2. Advance(r, read) /\ session' # "none" /\ UNCHANGED <<inserted, chip>>
    BY <2>0, <1>8 DEF ReadAdminCert, Commandable, Advance
  <2>3. KnownTo(read)'
    BY <2>1, <2>2 DEF KnownTo, There
  <2> QED
    BY <1>1, <1>4, <2>1, <2>2, <2>3, AdvanceKeeps
<1>9. CASE ReadCaCert(r)
  <2>0. PICK read : read = [reads[r] EXCEPT !.pc = "vxkey", !.ca = There.ca]
    OBVIOUS
  <2>1. /\ read.pc = "vxkey" /\ read.vx = inserted /\ read.cert = There.cert
        /\ read.ca = There.ca /\ There.ca # None
    BY <2>0, <1>3, <1>9 DEF Readings, ReadCaCert, KnownTo
  <2>2. Advance(r, read) /\ session' # "none" /\ UNCHANGED <<inserted, chip>>
    BY <2>0, <1>9 DEF ReadCaCert, Commandable, Advance
  <2>3. KnownTo(read)'
    BY <2>1, <2>2 DEF KnownTo, There
  <2> QED
    BY <1>1, <1>4, <2>1, <2>2, <2>3, AdvanceKeeps
<1>10. CASE ReadVxKey(r)
  <2>0. PICK read : read = [reads[r] EXCEPT !.pc = IF HasNoPin(reads[r].cert) THEN "pin" ELSE "tries"]
    OBVIOUS
  <2>1. /\ read.pc = IF HasNoPin(There.cert) THEN "pin" ELSE "tries"
        /\ read.vx = inserted /\ read.cert = There.cert
        /\ read.ca = There.ca /\ There.ca # None /\ Signed(There.cert, There.ca)
        /\ There.cert # NoCert
    BY <2>0, <1>1, <1>3, <1>10 DEF Readings, ReadVxKey, KnownTo, CardTypeOK, HasCert
  <2>2. Advance(r, read) /\ session' # "none" /\ UNCHANGED <<inserted, chip>>
    BY <2>0, <1>10 DEF ReadVxKey, Commandable, Advance
  <2>3. KnownTo(read)'
    BY <2>1, <2>2 DEF KnownTo, There
  <2> QED
    BY <1>1, <1>4, <2>1, <2>2, <2>3, AdvanceKeeps
<1>11. CASE ReadDefaultPin(r)
  <2>0. PICK read : read = [reads[r] EXCEPT !.pc = IF There.pin = DEFAULT_PIN THEN "key" ELSE "bad"]
    OBVIOUS
  <2>1. /\ read.pc = IF There.pin = DEFAULT_PIN THEN "key" ELSE "bad"
        /\ read.vx = inserted /\ read.cert = There.cert
        /\ read.ca = There.ca /\ There.ca # None /\ Signed(There.cert, There.ca)
        /\ There.cert # NoCert /\ HasNoPin(There.cert)
    BY <2>0, <1>3, <1>11 DEF Readings, ReadDefaultPin, KnownTo
  <2>2. Advance(r, read) /\ Verify(DEFAULT_PIN) /\ inserted' = inserted
    BY <2>0, <1>11 DEF ReadDefaultPin, Advance
  <2>3. /\ OnlyTries /\ chip'[inserted].tries = IF DEFAULT_PIN = There.pin THEN 0 ELSE There.tries + 1
        /\ session' = IF DEFAULT_PIN = There.pin THEN "verified" ELSE "selected"
    BY <1>1, <1>5, <2>2, VerifyKeeps
  <2>4. /\ There'.cert = There.cert /\ There'.ca = There.ca /\ There'.pin = There.pin
        /\ There'.key = There.key
        /\ There.pin = DEFAULT_PIN => There'.tries = 0 /\ session' = "verified"
    BY <1>5, <2>2, <2>3 DEF OnlyTries, There
  <2>5. KnownTo(read)'
    BY <2>1, <2>2, <2>4 DEF KnownTo
  <2> QED
    BY <1>1, <1>4, <2>1, <2>2, <2>3, <2>5, AdvanceKeeps
<1>12. CASE ReadAdminKey(r)
  <2>0. PICK read : read = [reads[r] EXCEPT !.pc = IF There.key = reads[r].cert.key THEN "done" ELSE "bad"]
    OBVIOUS
  <2>1. /\ read.pc = IF There.key = There.cert.key THEN "done" ELSE "bad"
        /\ read.vx = inserted /\ read.cert = There.cert
        /\ read.ca = There.ca /\ There.ca # None /\ Signed(There.cert, There.ca)
        /\ There.cert # NoCert /\ HasNoPin(There.cert)
        /\ There.pin = DEFAULT_PIN /\ There.tries = 0 /\ There.key # 0
    BY <2>0, <1>3, <1>12 DEF Readings, ReadAdminKey, KnownTo
  <2>2. Advance(r, read) /\ session' # "none" /\ UNCHANGED <<inserted, chip>>
    BY <2>0, <1>12 DEF ReadAdminKey, Unlocked, Commandable, Advance
  <2>3. KnownTo(read)'
    BY <2>1, <2>2 DEF KnownTo, There
  <2> QED
    BY <1>1, <1>4, <2>1, <2>2, <2>3, AdvanceKeeps
<1>13. CASE ReadTries(r)
  <2> DEFINE details == Details(There.cert.user, There.cert.hasPin, There.tries)
  <2>1. /\ There.cert # NoCert /\ There.ca # None /\ Signed(There.cert, There.ca)
        /\ ~HasNoPin(There.cert) /\ FinishRead(r, details)
    BY <1>3, <1>13 DEF ReadTries, KnownTo
  <2>2. details = Readable(inserted)
    BY <2>1 DEF Readable, There
  <2>3. /\ details.user = There.cert.user /\ details.hasPin = There.cert.hasPin
        /\ details.tries \in Nat
    BY <1>5 DEF Details, Chips
  <2> HIDE DEF details
  <2> QED
    BY <1>1, <1>4, <2>1, <2>2, <2>3, SameRead, FinishKeeps
<1>14. CASE ReadDone(r)
  <2> DEFINE details == Details(There.cert.user, There.cert.hasPin, 0)
  <2>1. /\ There.cert # NoCert /\ There.ca # None /\ Signed(There.cert, There.ca)
        /\ HasNoPin(There.cert) /\ There.pin = DEFAULT_PIN /\ There.tries = 0
        /\ There.key # 0 /\ There.key = There.cert.key /\ FinishRead(r, details)
    BY <1>3, <1>14 DEF ReadDone, KnownTo
  <2>2. details = Readable(inserted)
    BY <2>1, CardAssumption DEF Readable, There
  <2>3. /\ details.user = There.cert.user /\ details.hasPin = There.cert.hasPin
        /\ details.tries \in Nat
    BY DEF Details
  <2> HIDE DEF details
  <2> QED
    BY <1>1, <1>4, <2>1, <2>2, <2>3, SameRead, FinishKeeps
<1>15. CASE ReadFails(r)
  <2>1. FinishRead(r, None)
    BY <1>15 DEF ReadFails
  <2>2. Reachable => SameDetails(None, Readable(inserted))
    BY <1>1, <1>15, FailsForAReason DEF SameDetails
  <2> QED
    BY <1>1, <1>4, <2>1, <2>2, FinishKeeps
<1> QED
  BY <1>2, <1>6, <1>7, <1>8, <1>9, <1>10, <1>11, <1>12, <1>13, <1>14, <1>15

----------------------------------------------------------------------------
(* The commands of the calls.                                              *)

\* A command is sent with no reading under way, and leaves the reader alone.
LEMMA WorkLeaves ==
    ASSUME WholeInvariant, CardSide, NothingWhileReading, NEW c \in Calls, CardChanges(c)
    PROVE  /\ CardCall(c) /\ (\E to : CallMove(c, to))
           /\ UNCHANGED <<inserted, events, reader, connected, reads, authStatus, request, now>>
           /\ Reachable' = Reachable /\ AdministratorIn' = AdministratorIn
           /\ changedLate \subseteq changedLate'
           /\ ReaderAtRest' /\ ReadSoFar' /\ NothingWhileReading'
<1>1. /\ DippedTypeOK /\ CardTypeOK /\ CallsAreRequested /\ ReaderAtRest
      /\ CardCall(c) /\ CardWorks(c)
  BY DEF WholeInvariant, DippedTypeOK, CardSide, CardChanges, CardWorks
<1>2. /\ request[c].pc = "card"
      /\ call[c].kind \in {"checkPin", "program", "unprogram"}
      /\ \E to : CallMove(c, to)
  BY <1>1, WorkIsRequested, CallMoves
<1>3. request[c].kind \in {"checkPin", "programCard", "unprogramCard"}
  BY <1>1, <1>2 DEF CallsAreRequested
<1>4. ~Reading
  BY <1>3 DEF NothingWhileReading
<1>5. ReaderAtRest'
  BY <1>1, <1>4, RestCall
<1>6. UNCHANGED <<inserted, events, reader, connected, reads, authStatus, request, now>>
  BY <1>1 DEF CardWorks, CardCall, CallSelect, CheckPinCert, CheckPinVerify, CheckPinKey,
     CheckPinDone, CallReset, ProgramPin, ProgramGenerate, ProgramCert, ProgramCa, UnprogramCert,
     UnprogramCa, UnprogramData, CallFails, Step
<1>7. ReadSoFar'
  BY <1>4, <1>6, NothingRead DEF Reading
<1>8. NothingWhileReading'
  BY <1>6 DEF NothingWhileReading, Reading
<1>9. Reachable' = Reachable /\ AdministratorIn' = AdministratorIn
  BY <1>6 DEF Reachable, AdministratorIn
<1>10. changedLate \subseteq changedLate'
  BY DEF CardChanges
<1> QED
  BY <1>1, <1>2, <1>5, <1>6, <1>7, <1>8, <1>9, <1>10

\* Whatever is sent to a card after the applet was selected leaves it selected.
LEMMA SelectedWorks ==
    ASSUME WholeInvariant, CardSide, NothingWhileReading, NEW c \in Calls, CardChanges(c)
    PROVE  SelectedFirst'
<1>1. /\ CardCall(c) /\ call \in [Calls -> CardCalls] /\ call[c] \in CardCalls
      /\ UNCHANGED reads /\ Reachable' = Reachable
      /\ SelectedFirst
  BY WorkLeaves DEF WholeInvariant, DippedTypeOK, CardTypeOK, CardSide, TalksToTheCard
<1>2. PICK to : CallMove(c, to)
  BY WorkLeaves
<1>3. call'[c] = to /\ \A d \in Calls : d # c => call'[d] = call[d]
  BY <1>1, <1>2 DEF CallMove
<1> SUFFICES ASSUME Reachable, session' = "none"
             PROVE  call'[c].pc = "answered" /\ session = "none"
  BY <1>1, <1>3 DEF SelectedFirst
<1>4. CASE CallFails(c) \/ CheckPinDone(c)
  <2>1. PICK answer : Step(c, Answer(c, answer)) /\ UNCHANGED session
    BY <1>4 DEF CallFails, CheckPinDone
  <2>2. Answer(c, answer).pc = "answered"
    BY <1>1 DEF Answer, CardCalls
  <2>3. call'[c] = Answer(c, answer)
    BY <1>1, <2>1 DEF Step
  <2> QED
    BY <2>1, <2>2, <2>3
<1>5. CASE ~(CallFails(c) \/ CheckPinDone(c))
  <2>1. session' # "none"
    BY <1>1, <1>5 DEF CardCall, CallSelect, CheckPinCert, CheckPinVerify, CheckPinKey, CallReset,
       ProgramPin, ProgramGenerate, ProgramCert, ProgramCa, UnprogramCert, UnprogramCa,
       UnprogramData, Commandable, Unlocked, Verify
  <2> QED
    BY <2>1
<1> QED
  BY <1>4, <1>5

\* checkPin keeps the count of the card that is cached, and nothing else.
LEMMA NoteTriesKeeps ==
    ASSUME CardTypeOK, NEW tries \in Nat, NoteTries(tries)
    PROVE  /\ cardStatus'.status = cardStatus.status
           /\ cardStatus'.details = None <=> cardStatus.details = None
           /\ cardStatus.details # None =>
                /\ cardStatus'.details.user = cardStatus.details.user
                /\ cardStatus'.details.hasPin = cardStatus.details.hasPin
           /\ cardStatus.details # None /\ cardStatus.status = "ready" =>
                cardStatus'.details.tries = tries
<1>1. cardStatus \in CardStatuses /\ cardStatus' \in CardStatuses
  BY NoteTriesTypes DEF CardTypeOK
<1>2. CASE NoDetails
  BY <1>2 DEF NoteTries, NoDetails
<1>3. CASE ~NoDetails
  <2>1. cardStatus.details \in DetailsRecords /\ cardStatus.status = "ready"
    BY <1>1, <1>3 DEF NoDetails, CardStatuses
  <2>2. cardStatus' = [cardStatus EXCEPT !.details = [cardStatus.details EXCEPT !.tries = tries]]
    BY <1>1, <1>3, <2>1 DEF NoteTries, CardStatuses
  <2>3. /\ cardStatus'.details = [cardStatus.details EXCEPT !.tries = tries]
        /\ cardStatus'.status = cardStatus.status
    BY <1>1, <2>2 DEF CardStatuses
  <2>4. cardStatus'.details \in DetailsRecords
    BY <2>1, <2>3 DEF DetailsRecords
  <2>5. cardStatus'.details # None /\ cardStatus.details # None
    BY <2>1, <2>4, NoneAssumption
  <2> QED
    BY <2>1, <2>3, <2>5 DEF DetailsRecords
<1> QED
  BY <1>2, <1>3

\* Of the calls that check a PIN, or change a card, there is one.
LEMMA OneCheck ==
    ASSUME CallsAreRequested, NEW c \in Calls, NEW d \in Calls,
           call[c].kind = "checkPin", call[d].kind = "checkPin"
    PROVE  c = d
<1>1. request[c].kind = "checkPin" /\ request[d].kind = "checkPin"
  BY DEF CallsAreRequested, IdleCall
<1> QED
  BY <1>1 DEF CallsAreRequested

\* Whether the cached details tell of the card after a step.
LEMMA SameAfter ==
    ASSUME NEW cached, NEW real, cardStatus'.details = cached, Readable(inserted)' = real,
           cached = None \/ real = None =>
               cached = real \/ (cached # None /\ HasNoPin(cached) /\ Blocked'),
           cached # None /\ real # None =>
               /\ cached.user = real.user /\ cached.hasPin = real.hasPin
               /\ HasNoPin(cached) \/ cached.tries >= real.tries
    PROVE  SameDetails(cardStatus.details, Readable(inserted))'
  BY DEF SameDetails

\* What the card in the slot reads as, when it reads.
LEMMA ReadsAs ==
    ASSUME NEW real, real = Readable(inserted), There \in Chips
    PROVE  /\ real # None =>
                /\ real.user = There.cert.user /\ real.hasPin = There.cert.hasPin
                /\ HasNoPin(real) <=> HasNoPin(There.cert)
                /\ ~HasNoPin(There.cert) => real.tries = There.tries
           /\ HasNoPin(There.cert) /\ real # None => There.tries < MAX_TRIES
           /\ ~HasNoPin(There.cert) =>
                (real = None <=> There.cert = NoCert \/ There.ca = None \/ ~Signed(There.cert, There.ca))
<1>1. \A tries \in Nat : There.cert # NoCert =>
        /\ Details(There.cert.user, There.cert.hasPin, tries) # None
        /\ Details(There.cert.user, There.cert.hasPin, tries).user = There.cert.user
        /\ Details(There.cert.user, There.cert.hasPin, tries).hasPin = There.cert.hasPin
        /\ Details(There.cert.user, There.cert.hasPin, tries).tries = tries
  <2> SUFFICES ASSUME NEW tries \in Nat, There.cert # NoCert
               PROVE  Details(There.cert.user, There.cert.hasPin, tries) # None
    BY DEF Details
  <2>1. Details(There.cert.user, There.cert.hasPin, tries) \in DetailsRecords
    BY DEF Details, DetailsRecords, Chips, Certificates
  <2> QED
    BY <2>1, NoneAssumption
<1>2. There.tries \in Nat
  BY DEF Chips
<1>3. \/ real = None
      \/ There.cert # NoCert /\ real = Details(There.cert.user, There.cert.hasPin, 0)
           /\ HasNoPin(There.cert) /\ There.tries < MAX_TRIES
      \/ There.cert # NoCert /\ real = Details(There.cert.user, There.cert.hasPin, There.tries)
           /\ ~HasNoPin(There.cert)
  BY DEF Readable, There
<1>4. ~HasNoPin(There.cert) =>
        (real = None <=> There.cert = NoCert \/ There.ca = None \/ ~Signed(There.cert, There.ca))
  BY <1>1, <1>2 DEF Readable, There
<1> QED
  BY <1>1, <1>2, <1>3, <1>4 DEF HasNoPin

\* The cached status keeps to the card when a PIN is tried on it.
LEMMA CheckPinTells ==
    ASSUME WholeInvariant, CardSide, NEW c \in Calls, CardCall(c), call[c].kind = "checkPin",
           UNCHANGED <<inserted, changedLate>>, Reachable' = Reachable, Flux' <=> Flux
    PROVE  StatusIsTrue' /\ cardStatus'.status = cardStatus.status
           /\ (cardStatus.status = "ready" /\ cardStatus'.details # None =>
                 /\ cardStatus.details # None
                 /\ cardStatus'.details.user = cardStatus.details.user
                 /\ cardStatus'.details.hasPin = cardStatus.details.hasPin)
<1>1. /\ CardTypeOK /\ CallsAreRequested /\ cardStatus \in CardStatuses /\ StatusIsTrue
      /\ TalksToTheCard
  BY DEF WholeInvariant, DippedTypeOK, CardTypeOK, CardSide
<1>2. CASE UNCHANGED <<chip, cardStatus>>
  BY <1>1, <1>2 DEF StatusIsTrue, SameDetails, Readable, Blocked, There
<1>3. ASSUME UNCHANGED <<session, chip>> \/ CheckPinVerify(c), Reachable, cardStatus.status = "ready",
             inserted \notin changedLate, ~Flux, ~Blocked, There \in Chips,
             NEW cached, NEW real, NEW after, NEW next, NEW tries \in Nat,
             cached = cardStatus.details, real = Readable(inserted), after = Readable(inserted)',
             next = cardStatus'.details, There'.cert = There.cert, There'.ca = There.ca,
             There'.key = There.key, There'.pin = There.pin, There'.tries = tries,
             next = None <=> cached = None,
             cached # None => next.user = cached.user /\ next.hasPin = cached.hasPin,
             cached # None => next.tries \in Int /\ next.tries >= tries
      PROVE  SameDetails(cardStatus.details, Readable(inserted))'
  <2>1. /\ cached = None \/ real = None => cached = real
        /\ cached # None /\ real # None => cached.user = real.user /\ cached.hasPin = real.hasPin
    BY <1>1, <1>3 DEF StatusIsTrue, SameDetails
  <2>2. There.tries < MAX_TRIES /\ There.tries \in Nat /\ MAX_TRIES \in Nat
    BY <1>3, CardAssumption DEF Blocked, Chips
  <2>3. /\ real # None =>
                /\ real.user = There.cert.user /\ real.hasPin = There.cert.hasPin
                /\ HasNoPin(real) <=> HasNoPin(There.cert)
        /\ ~HasNoPin(There.cert) =>
                (real = None <=> There.cert = NoCert \/ There.ca = None \/ ~Signed(There.cert, There.ca))
    BY <1>3, ReadsAs
  <2>4. CASE HasNoPin(There.cert) /\ tries < MAX_TRIES
    <3>1. after = real
      BY <1>3, <2>2, <2>4 DEF Readable, There
    <3>2. next # None => HasNoPin(next)
      BY <1>3, <2>1, <2>3, <2>4 DEF HasNoPin
    <3> QED
      BY <1>3, <2>1, <3>1, <3>2, SameAfter
  <2>5. CASE HasNoPin(There.cert) /\ ~(tries < MAX_TRIES)
    <3>1. after = None /\ Blocked'
      BY <1>3, <2>2, <2>5 DEF Readable, There, Blocked
    <3>2. next # None => HasNoPin(next)
      BY <1>3, <2>1, <2>3, <2>5 DEF HasNoPin
    <3> QED
      BY <1>3, <2>1, <3>1, <3>2, SameAfter
  <2>6. CASE ~HasNoPin(There.cert) /\ real = None
    <3>1. after = None
      BY <1>3, <2>3, <2>6 DEF Readable, There
    <3> QED
      BY <1>3, <2>1, <2>6, <3>1, SameAfter
  <2>7. CASE ~HasNoPin(There.cert) /\ real # None
    <3>1. after = Details(There.cert.user, There.cert.hasPin, tries)
      BY <1>3, <2>3, <2>7 DEF Readable, There
    <3>2. after.user = real.user /\ after.hasPin = real.hasPin /\ after.tries = tries
      BY <2>3, <2>7, <3>1 DEF Details
    <3>3. after # None
      <4>1. after \in DetailsRecords
        BY <1>3, <2>3, <2>7, <3>1 DEF Details, DetailsRecords, Chips, Certificates
      <4> QED
        BY <4>1, NoneAssumption
    <3> QED
      BY <1>3, <2>1, <2>7, <3>2, <3>3, SameAfter
  <2> QED
    BY <2>4, <2>5, <2>6, <2>7
<1>4. Reachable => inserted # NoCard /\ inserted \in Cards /\ There \in Chips
  BY <1>1 DEF Reachable, CardTypeOK, There
<1>5. CASE CheckPinVerify(c)
  <2>1. /\ ~Blocked /\ Verify(call[c].pin) /\ Reachable
    BY <1>5 DEF CheckPinVerify, Commandable
  <2>2. /\ There'.cert = There.cert /\ There'.ca = There.ca /\ There'.key = There.key
        /\ There'.pin = There.pin
        /\ There'.tries = IF call[c].pin = There.pin THEN 0 ELSE There.tries + 1
    BY <1>1, <1>4, <2>1, VerifyKeeps DEF OnlyTries, There
  <2>3. There.tries \in Nat
    BY <1>4, <2>1 DEF Chips
  <2>4. CASE call[c].pin = There.pin
    <3>1. UNCHANGED cardStatus
      BY <1>5, <2>4 DEF CheckPinVerify
    <3>2. cardStatus.details # None => cardStatus.details.tries \in Nat
      BY <1>1 DEF CardStatuses, DetailsRecords
    <3>3. PICK cached, real, after :
            cached = cardStatus.details /\ real = Readable(inserted) /\ after = Readable(inserted)'
      OBVIOUS
    <3>4. cached = cardStatus'.details
      BY <3>1, <3>3
    <3> QED
      BY <1>3, <1>4, <1>5, <2>1, <2>2, <2>4, <3>1, <3>2, <3>3, <3>4 DEF StatusIsTrue
  <2>5. CASE call[c].pin # There.pin
    <3>1. NoteTries(There.tries + 1)
      BY <1>5, <2>5 DEF CheckPinVerify
    <3>2. There.tries + 1 \in Nat
      BY <2>3
    <3>3. /\ cardStatus'.status = cardStatus.status
          /\ cardStatus'.details = None <=> cardStatus.details = None
          /\ cardStatus.details # None =>
                /\ cardStatus'.details.user = cardStatus.details.user
                /\ cardStatus'.details.hasPin = cardStatus.details.hasPin
          /\ cardStatus.details # None /\ cardStatus.status = "ready" =>
                cardStatus'.details.tries = There.tries + 1
      BY <1>1, <3>1, <3>2, NoteTriesKeeps
    <3>4. PICK cached, real, after, next :
            /\ cached = cardStatus.details /\ real = Readable(inserted)
            /\ after = Readable(inserted)' /\ next = cardStatus'.details
      OBVIOUS
    <3>5. StatusIsTrue'
      BY <1>3, <1>4, <1>5, <2>1, <2>2, <2>5, <3>2, <3>3, <3>4 DEF StatusIsTrue
    <3> QED
      BY <3>3, <3>5
  <2> QED
    BY <2>4, <2>5
<1>6. CASE CheckPinDone(c)
  <2>1. NoteTries(0) /\ UNCHANGED <<chip, session>> /\ call[c].pc = "match"
    BY <1>6 DEF CheckPinDone, At
  <2>2. /\ cardStatus'.status = cardStatus.status
        /\ cardStatus'.details = None <=> cardStatus.details = None
        /\ cardStatus.details # None =>
              /\ cardStatus'.details.user = cardStatus.details.user
              /\ cardStatus'.details.hasPin = cardStatus.details.hasPin
        /\ cardStatus.details # None /\ cardStatus.status = "ready" =>
              cardStatus'.details.tries = 0
    BY <1>1, <2>1, NoteTriesKeeps
  <2>3. Reachable => There.tries = 0 /\ ~Blocked /\ There' = There
    BY <1>1, <1>4, <2>1, CardAssumption DEF TalksToTheCard, RightPinClears, Blocked, There
  <2>4. PICK cached, real, after, next :
          /\ cached = cardStatus.details /\ real = Readable(inserted)
          /\ after = Readable(inserted)' /\ next = cardStatus'.details
    OBVIOUS
  <2>5. StatusIsTrue'
    BY <1>3, <1>4, <2>1, <2>2, <2>3, <2>4 DEF StatusIsTrue
  <2> QED
    BY <2>2, <2>5
<1> QED
  BY <1>1, <1>2, <1>5, <1>6, CheckPinSteps
     DEF CallSelect, CheckPinCert, CheckPinKey, CallFails

LEMMA CheckPinStep ==
    ASSUME WholeInvariant, CardSide, NothingWhileReading, NEW c \in Calls, CardChanges(c),
           call[c].kind = "checkPin"
    PROVE  CardSide' /\ NothingWhileReading'
<1>1. /\ DippedTypeOK /\ CardTypeOK /\ CallsAreRequested /\ CardCall(c)
      /\ UNCHANGED <<inserted, authStatus, request>> /\ Reachable' = Reachable
      /\ AdministratorIn' = AdministratorIn
      /\ ReaderAtRest' /\ ReadSoFar' /\ NothingWhileReading' /\ SelectedFirst'
      /\ TalksToTheCard /\ OwnerIsTrue
  BY WorkLeaves, SelectedWorks DEF WholeInvariant, DippedTypeOK, CardSide
<1>2. PICK to : CallMove(c, to)
  BY WorkLeaves
<1>3. /\ call'[c] = to /\ \A d \in Calls : d # c => call'[d] = call[d]
      /\ call[c].pc \in PlacesOf("checkPin") /\ call'[c].pc \in PlacesOf("checkPin")
      /\ call'[c].kind = "checkPin"
      /\ request[c].kind = "checkPin"
  BY <1>1, <1>2, WorkIsRequested DEF CallMove, CardTypeOK, CallsAreRequested
<1>4. Flux' <=> Flux
  BY <1>3 DEF Flux, PlacesOf
<1>5. UNCHANGED changedLate
  BY DEF CardChanges
<1>6. OnlyTries
  BY <1>1, CheckPinKeeps
<1>7. /\ StatusIsTrue' /\ cardStatus'.status = cardStatus.status
      /\ cardStatus.status = "ready" /\ cardStatus'.details # None =>
           /\ cardStatus.details # None
           /\ cardStatus'.details.user = cardStatus.details.user
           /\ cardStatus'.details.hasPin = cardStatus.details.hasPin
  BY <1>1, <1>4, <1>5, CheckPinTells
<1>8. inserted # NoCard => /\ There'.cert = There.cert /\ There'.ca = There.ca
                           /\ There'.key = There.key /\ There'.pin = There.pin
  BY <1>1, <1>6 DEF OnlyTries, There, CardTypeOK
<1>9. FluxIsReached'
  BY <1>1, <1>4, <1>7 DEF TalksToTheCard, FluxIsReached
<1>10. RightPinClears'
  <2> SUFFICES ASSUME NEW d \in Calls, inserted # NoCard, call'[d].kind = "checkPin",
                      call'[d].pc \in {"key", "match"}
               PROVE  There'.tries = 0
    BY <1>1 DEF RightPinClears
  <2>1. d = c
    BY <1>1, <1>3, OneCheck
  <2>2. CASE CheckPinVerify(c)
    <3>1. Verify(call[c].pin) /\ call[c].pin = There.pin
      <4>1. Verify(call[c].pin) /\ call \in [Calls -> CardCalls]
        BY <1>1, <2>2 DEF CheckPinVerify, CardTypeOK
      <4>2. CASE call[c].pin # There.pin
        <5>1. Step(c, [Answer(c, "incorrect") EXCEPT !.tries = There.tries + 1])
          BY <2>2, <4>2 DEF CheckPinVerify
        <5>2. PICK answered : answered = [Answer(c, "incorrect") EXCEPT !.tries = There.tries + 1]
          OBVIOUS
        <5>3. answered.pc = "answered"
          BY <4>1, <5>2 DEF Answer, CardCalls
        <5>4. call'[c] = answered
          BY <4>1, <5>1, <5>2 DEF Step
        <5> QED
          BY <2>1, <5>3, <5>4
      <4> QED
        BY <4>1, <4>2
    <3>2. chip'[inserted].tries = 0
      BY <1>1, <3>1, VerifyKeeps
    <3> QED
      BY <1>1, <3>2 DEF There
  <2>3. CASE CheckPinKey(c)
    BY <1>1, <2>3 DEF TalksToTheCard, RightPinClears, CheckPinKey, At, There
  <2>4. CASE CallSelect(c) \/ CheckPinCert(c) \/ CheckPinDone(c) \/ CallFails(c)
    <3>1. call[c] \in CardCalls /\ call \in [Calls -> CardCalls]
      BY <1>1 DEF CardTypeOK
    <3>2. \A answer : Answer(c, answer).pc = "answered"
      BY <3>1 DEF Answer, CardCalls
    <3>3. CASE CallSelect(c)
      BY <1>3, <2>1, <3>1, <3>3 DEF CallSelect, Step, CardCalls
    <3>4. CASE CheckPinCert(c)
      BY <1>3, <2>1, <3>1, <3>4 DEF CheckPinCert, Step, CardCalls
    <3>5. CASE CheckPinDone(c) \/ CallFails(c)
      <4>1. PICK answer : Step(c, Answer(c, answer))
        BY <3>5 DEF CheckPinDone, CallFails
      <4>2. call'[c] = Answer(c, answer)
        BY <3>1, <4>1 DEF Step
      <4> QED
        BY <2>1, <3>2, <4>2
    <3> QED
      BY <2>4, <3>3, <3>4, <3>5
  <2> QED
    BY <1>1, <1>3, <2>2, <2>3, <2>4, CheckPinSteps
<1>11. AdministratorsCard'
  <2>1. ~AdministratorIn
    BY <1>3 DEF NothingWhileReading, AdministratorIn
  <2> QED
    BY <1>1, <2>1 DEF AdministratorsCard
<1>12. Unprogrammed'
  BY <1>1, <1>3, <1>8 DEF TalksToTheCard, Unprogrammed, Unprogramming
<1>13. OwnerIsTrue'
  BY <1>1, <1>4, <1>5, <1>7, <1>8 DEF OwnerIsTrue
<1> QED
  BY <1>1, <1>7, <1>9, <1>10, <1>11, <1>12, <1>13 DEF CardSide, TalksToTheCard

\* Only the one call that changes the card leaves it half way.
LEMMA FluxIsOf ==
    ASSUME CardTypeOK, CallsAreRequested, NEW c \in Calls, CardCall(c), call[c].kind # "checkPin"
    PROVE  LET places == {"pin", "generate", "storeCert", "storeCa",
                          "clearCert", "clearCa", "clearData"} IN
           /\ Flux <=> call[c].pc \in places
           /\ Flux' <=> call'[c].pc \in places
           /\ \A d \in Calls : d # c => /\ call'[d] = call[d] /\ call[d].pc \notin places
                                        /\ call[d].kind \notin {"program", "unprogram"}
<1>1. call[c].kind \in {"program", "unprogram"}
  BY WorkIsRequested
<1>2. PICK to : CallMove(c, to)
  BY CallMoves
<1>3. \A d \in Calls : d # c => /\ call'[d] = call[d]
                                /\ call[d].kind \notin {"program", "unprogram"}
  BY <1>1, <1>2, OneChange DEF CallMove, CardTypeOK
<1>4. \A d \in Calls : call[d].pc \in PlacesOf(call[d].kind) \/ call[d].pc = "idle"
  BY DEF CallsAreRequested, IdleCall
<1>5. \A d \in Calls : d # c =>
        call[d].pc \notin {"pin", "generate", "storeCert", "storeCa", "clearCert", "clearCa", "clearData"}
  BY <1>3, <1>4 DEF PlacesOf, CardTypeOK, CardCalls
<1> QED
  BY <1>3, <1>5 DEF Flux

\* Where each command of program and unprogram goes, and what it leaves behind.
LEMMA ChangeMoves ==
    ASSUME WholeInvariant, CardSide, NEW c \in Calls, CardCall(c), call[c].kind # "checkPin"
    PROVE  \/ /\ CallSelect(c) /\ call[c].pc = "select" /\ call'[c].pc = "reset"
              /\ UNCHANGED <<chip, cardStatus>>
           \/ /\ CallReset(c) /\ Commandable /\ UNCHANGED cardStatus /\ chip'[inserted].tries = 0
              /\ call'[c].pc = IF call[c].kind = "program" THEN "pin" ELSE "clearCert"
           \/ /\ ProgramPin(c) /\ Commandable /\ UNCHANGED cardStatus /\ chip'[inserted].tries = 0
              /\ call'[c].pc = "generate" /\ session' = "verified"
           \/ /\ ProgramGenerate(c) /\ Commandable /\ UNCHANGED <<cardStatus, session>>
              /\ chip'[inserted].tries = There.tries
              /\ call[c].pc = "generate" /\ call'[c].pc = "storeCert"
           \/ /\ ProgramCert(c) /\ Commandable /\ UNCHANGED <<cardStatus, session>>
              /\ chip'[inserted].tries = There.tries
              /\ call[c].pc = "storeCert" /\ call'[c].pc = "storeCa"
           \/ /\ ProgramCa(c) /\ Commandable /\ chip'[inserted].tries = There.tries
              /\ call[c].pc = "storeCa" /\ call'[c].pc = "answered"
           \/ /\ UnprogramCert(c) /\ Commandable /\ UNCHANGED cardStatus
              /\ chip'[inserted].tries = There.tries
              /\ call'[c].pc = "clearCa" /\ chip'[inserted].cert = NoCert
           \/ /\ UnprogramCa(c) /\ Commandable /\ UNCHANGED cardStatus
              /\ chip'[inserted].tries = There.tries
              /\ call[c].pc = "clearCa" /\ call'[c].pc = "clearData"
              /\ chip'[inserted].cert = There.cert /\ chip'[inserted].ca = None
           \/ /\ UnprogramData(c) /\ Commandable /\ UNCHANGED chip
              /\ call[c].pc = "clearData" /\ call'[c].pc = "answered"
           \/ /\ CallFails(c) /\ UNCHANGED <<chip, cardStatus>> /\ call'[c].pc = "answered"
<1>1. /\ CardTypeOK /\ CallsAreRequested /\ call \in [Calls -> CardCalls] /\ call[c] \in CardCalls
      /\ call[c].kind \in {"program", "unprogram"} /\ call[c].pc \in PlacesOf(call[c].kind)
      /\ call[c].kind = "program" => ProgramSoFar(c)
  BY WorkIsRequested DEF WholeInvariant, DippedTypeOK, CardTypeOK, Programming
<1>2. Commandable => inserted # NoCard
  BY <1>1 DEF Commandable, Reachable, CardTypeOK
<1>3. ASSUME NEW answer, Step(c, Answer(c, answer)) PROVE call'[c].pc = "answered"
  <2>1. Answer(c, answer).pc = "answered"
    BY <1>1 DEF Answer, CardCalls
  <2> QED
    BY <1>1, <1>3, <2>1 DEF Step
<1>4. CASE CallSelect(c)
  BY <1>1, <1>4 DEF CallSelect, Step, CardCalls
<1>5. CASE CallReset(c)
  <2>1. chip'[inserted].tries = 0
    BY <1>1, <1>5, ChipSteps
  <2> QED
    BY <1>1, <1>5, <2>1 DEF CallReset, Step, CardCalls
<1>6. CASE ProgramPin(c)
  <2>1. There.pin = call[c].pin /\ Commandable /\ Verify(call[c].pin)
    BY <1>1, <1>2, <1>6 DEF ProgramPin, At, ProgramSoFar
  <2>2. chip'[inserted].tries = 0 /\ session' = "verified"
    BY <1>1, <1>2, <2>1, VerifyKeeps
  <2>3. Step(c, [call[c] EXCEPT !.pc = "generate"]) /\ UNCHANGED cardStatus
    BY <1>6, <2>1 DEF ProgramPin
  <2>4. call'[c].pc = "generate"
    BY <1>1, <2>3 DEF Step, CardCalls
  <2> QED
    BY <1>6, <2>1, <2>2, <2>3, <2>4
<1>7. CASE ProgramGenerate(c)
  <2>1. PICK k \in Keys :
          /\ chip' = [chip EXCEPT ![inserted].key = k]
          /\ Step(c, [call[c] EXCEPT !.pc = "storeCert", !.cert.key = k])
    BY <1>7 DEF ProgramGenerate
  <2>2. Commandable /\ call[c].pc = "generate" /\ UNCHANGED <<cardStatus, session>>
    BY <1>7 DEF ProgramGenerate, Unlocked, At
  <2>3. chip'[inserted].tries = There.tries
    BY <1>1, <2>1, <2>2, ChipSteps
  <2>4. call'[c].pc = "storeCert"
    BY <1>1, <2>1 DEF Step, CardCalls
  <2> QED
    BY <1>7, <2>2, <2>3, <2>4
<1>8. CASE ProgramCert(c)
  <2>1. chip'[inserted].tries = There.tries
    BY <1>1, <1>8, ChipSteps DEF ProgramCert
  <2> QED
    BY <1>1, <1>8, <2>1 DEF ProgramCert, At, Step, CardCalls
<1>9. CASE ProgramCa(c)
  <2>1. chip'[inserted].tries = There.tries
    BY <1>1, <1>9, ChipSteps DEF ProgramCa
  <2> QED
    BY <1>1, <1>3, <1>9, <2>1 DEF ProgramCa, At
<1>10. CASE UnprogramCert(c)
  <2>1. chip'[inserted].tries = There.tries /\ chip'[inserted].cert = NoCert
    BY <1>1, <1>10, ChipSteps DEF UnprogramCert
  <2> QED
    BY <1>1, <1>10, <2>1 DEF UnprogramCert, Step, CardCalls
<1>11. CASE UnprogramCa(c)
  <2>1. /\ chip'[inserted].tries = There.tries /\ chip'[inserted].cert = There.cert
        /\ chip'[inserted].ca = None
    BY <1>1, <1>11, ChipSteps DEF UnprogramCa
  <2> QED
    BY <1>1, <1>11, <2>1 DEF UnprogramCa, At, Step, CardCalls
<1>12. CASE UnprogramData(c) \/ CallFails(c)
  BY <1>1, <1>3, <1>12 DEF UnprogramData, At, CallFails
<1> QED
  BY <1>1, <1>4, <1>5, <1>6, <1>7, <1>8, <1>9, <1>10, <1>11, <1>12, ProgramSteps, UnprogramSteps

\* A call that stops half way, with the administrator still in, has lost its card.
LEMMA HalfWayFails ==
    ASSUME WholeInvariant, CardSide, NEW c \in Calls, CallFails(c), call[c].kind # "checkPin",
           Flux, AdministratorIn, inserted # NoCard
    PROVE  cardStatus.status # "ready" /\ ~Reachable
<1>1. /\ CardTypeOK /\ CallsAreRequested /\ CardCall(c) /\ TalksToTheCard
      /\ call[c].kind \in {"program", "unprogram"} /\ call[c].pc \in PlacesOf(call[c].kind)
  BY WorkIsRequested DEF WholeInvariant, DippedTypeOK, CardSide, CardCall
<1>2. call[c].pc \in {"pin", "generate", "storeCert", "storeCa", "clearCert", "clearCa", "clearData"}
  BY <1>1, FluxIsOf
<1>3. ~Reachable
  <2> SUFFICES ASSUME Reachable PROVE FALSE
    OBVIOUS
  <2>1. Commandable
    BY <1>1, <1>2 DEF TalksToTheCard, SelectedFirst, Commandable
  <2>2. There.tries = 0 \/ call[c].pc # "pin"
    BY <1>1 DEF TalksToTheCard, AdministratorsCard
  <2>3. call[c].pc = "generate" => Unlocked
    BY <1>1, <2>1 DEF TalksToTheCard, AdministratorsCard, Unlocked
  <2> QED
    BY <1>2, <2>1, <2>2, <2>3, CardAssumption DEF CallFails, Blocked
<1> QED
  BY <1>1, <1>3 DEF TalksToTheCard, FluxIsReached

\* The end of program and unprogram says of the card what it is.
LEMMA ChangeTells ==
    ASSUME WholeInvariant, CardSide, NothingWhileReading, NEW c \in Calls, CardChanges(c),
           call[c].kind # "checkPin"
    PROVE  OwnerIsTrue' /\ StatusIsTrue'
<1>1. /\ CardTypeOK /\ CallsAreRequested /\ CardCall(c) /\ TalksToTheCard
      /\ UNCHANGED <<inserted, authStatus>> /\ Reachable' = Reachable
      /\ OwnerIsTrue /\ StatusIsTrue
      /\ changedLate \subseteq changedLate'
      /\ inserted \notin changedLate' => AdministratorIn
      /\ call[c] \in CardCalls
  BY WorkLeaves DEF WholeInvariant, DippedTypeOK, CardTypeOK, CardSide, CardChanges
<1> SUFFICES ASSUME inserted \notin changedLate' \cup {NoCard}, ~Flux'
             PROVE  /\ cardStatus'.status = "ready" /\ cardStatus'.details # None =>
                         /\ cardStatus'.details.user = There'.cert.user
                         /\ cardStatus'.details.hasPin = There'.cert.hasPin
                    /\ Reachable /\ cardStatus'.status = "ready" =>
                         SameDetails(cardStatus.details, Readable(inserted))'
  <2>1. AdministratorIn => authStatus.status \notin {"checking_pin", "remove_card"}
    BY DEF AdministratorIn
  <2>2. Reachable => inserted # NoCard
    BY <1>1 DEF Reachable, CardTypeOK
  <2> QED
    BY <1>1, <2>1, <2>2 DEF OwnerIsTrue, StatusIsTrue
<1>2. /\ AdministratorIn /\ inserted \notin changedLate \cup {NoCard}
      /\ inserted \in Cards /\ There \in Chips
  BY <1>1 DEF CardTypeOK, There
<1>3. ASSUME UNCHANGED <<chip, cardStatus>>, ~Flux
      PROVE  /\ cardStatus'.status = "ready" /\ cardStatus'.details # None =>
                  /\ cardStatus'.details.user = There'.cert.user
                  /\ cardStatus'.details.hasPin = There'.cert.hasPin
             /\ Reachable /\ cardStatus'.status = "ready" =>
                  SameDetails(cardStatus.details, Readable(inserted))'
  <2>1. There' = There
    BY <1>1, <1>3 DEF There
  <2>2. Reachable /\ cardStatus.status = "ready" => SameDetails(cardStatus.details, Readable(inserted))
    BY <1>1, <1>2, <1>3 DEF StatusIsTrue
  <2>3. Reachable /\ cardStatus'.status = "ready" => SameDetails(cardStatus.details, Readable(inserted))'
    BY <1>1, <1>3, <2>2 DEF SameDetails, Readable, Blocked, There
  <2> QED
    BY <1>1, <1>2, <1>3, <2>1, <2>3 DEF OwnerIsTrue
<1>4. CASE ProgramCa(c)
  <2> DEFINE told == Details(call[c].cert.user, call[c].cert.hasPin, 0)
  <2>1. /\ Commandable /\ Reachable /\ call[c].pc = "storeCa" /\ call[c].kind = "program"
        /\ cardStatus' = Ready(told)
        /\ chip' = [chip EXCEPT ![inserted].ca = call[c].cert.user.jurisdiction]
    BY <1>4 DEF ProgramCa, At, Commandable
  <2>2. /\ ProgramSoFar(c) /\ There.tries = 0
    BY <1>1, <1>2, <2>1 DEF WholeInvariant, Programming, TalksToTheCard, AdministratorsCard
  <2>3. /\ There'.cert = call[c].cert /\ There'.key = call[c].cert.key
        /\ There'.pin = call[c].pin /\ There'.tries = 0
        /\ There'.ca = MachineJurisdiction /\ call[c].cert.user.jurisdiction = MachineJurisdiction
        /\ MachineJurisdiction # None /\ call[c].cert.key \in Keys
        /\ ~call[c].cert.hasPin => call[c].pin = DEFAULT_PIN
    <3>1. PICK ca : ca = call[c].cert.user.jurisdiction
      OBVIOUS
    <3>2. chip' = [chip EXCEPT ![inserted].ca = ca]
      BY <2>1, <3>1
    <3>3. /\ chip'[inserted].pin = There.pin /\ chip'[inserted].tries = There.tries
          /\ chip'[inserted].key = There.key /\ chip'[inserted].cert = There.cert
          /\ chip'[inserted].ca = ca
      BY <1>1, <2>1, <3>2, ChipSteps
    <3>4. /\ There.cert = call[c].cert /\ There.key = call[c].cert.key /\ There.pin = call[c].pin
          /\ ca = MachineJurisdiction /\ MachineJurisdiction # None
          /\ ~call[c].cert.hasPin => call[c].pin = DEFAULT_PIN
      BY <1>2, <2>1, <2>2, <3>1 DEF ProgramSoFar
    <3>5. call[c].cert.key \in Keys
      BY <2>1, <2>2 DEF ProgramSoFar
    <3>6. There' = chip'[inserted]
      BY <1>1 DEF There
    <3> QED
      BY <2>2, <3>1, <3>3, <3>4, <3>5, <3>6
  <2>4. call[c].cert # NoCert /\ Signed(call[c].cert, MachineJurisdiction) /\ call[c].cert.key # 0
    BY <2>3 DEF NoCert, Signed, Keys
  <2>5. told = Readable(inserted)'
    BY <1>1, <2>3, <2>4, CardAssumption DEF Readable, There, HasNoPin
  <2>6. /\ told.user = call[c].cert.user /\ told.hasPin = call[c].cert.hasPin /\ told.tries = 0
    BY DEF Details
  <2>7. cardStatus'.details = told
    BY <2>1 DEF Ready
  <2>8. SameDetails(cardStatus.details, Readable(inserted))'
    <3>1. PICK cached : cached = told
      OBVIOUS
    <3> QED
      BY <2>5, <2>6, <2>7, <3>1, SameAfter
  <2> QED
    BY <2>3, <2>6, <2>7, <2>8
<1>5. CASE UnprogramData(c)
  <2>1. /\ call[c].pc = "clearData" /\ call[c].kind = "unprogram" /\ UNCHANGED chip
        /\ cardStatus' = Ready(None)
    BY <1>5 DEF UnprogramData, At
  <2>2. There.cert = NoCert
    BY <1>1, <1>2, <2>1 DEF TalksToTheCard, Unprogrammed, Unprogramming
  <2>3. Readable(inserted)' = None /\ cardStatus'.details = None
    BY <1>1, <2>1, <2>2 DEF Readable, There, Ready
  <2> QED
    BY <2>3, SameAfter
<1>6. CASE CallFails(c)
  <2>1. UNCHANGED <<chip, cardStatus>>
    BY <1>6 DEF CallFails
  <2>2. CASE ~Flux
    BY <1>3, <2>1, <2>2
  <2>3. CASE Flux
    BY <1>2, <1>6, <2>1, <2>3, HalfWayFails
  <2> QED
    BY <2>2, <2>3
<1>7. CASE CallSelect(c) /\ call[c].pc = "select" /\ UNCHANGED <<chip, cardStatus>>
  <2>1. ~Flux
    BY <1>1, <1>7, FluxIsOf
  <2> QED
    BY <1>3, <1>7, <2>1
<1>8. CASE call'[c].pc \in {"pin", "generate", "storeCert", "storeCa", "clearCert", "clearCa", "clearData"}
  BY <1>1, <1>8, FluxIsOf
<1> QED
  BY <1>1, <1>4, <1>5, <1>6, <1>7, <1>8, ChangeMoves

LEMMA ChangeStep ==
    ASSUME WholeInvariant, CardSide, NothingWhileReading, NEW c \in Calls, CardChanges(c),
           call[c].kind # "checkPin"
    PROVE  CardSide' /\ NothingWhileReading'
<1> DEFINE places == {"pin", "generate", "storeCert", "storeCa", "clearCert", "clearCa", "clearData"}
<1>1. /\ CardTypeOK /\ CallsAreRequested /\ CardCall(c)
      /\ UNCHANGED <<inserted, authStatus, request>> /\ Reachable' = Reachable
      /\ AdministratorIn' = AdministratorIn
      /\ ReaderAtRest' /\ ReadSoFar' /\ NothingWhileReading' /\ SelectedFirst'
      /\ TalksToTheCard
  BY WorkLeaves, SelectedWorks DEF WholeInvariant, DippedTypeOK, CardSide
<1>2. PICK to : CallMove(c, to)
  BY WorkLeaves
<1>3. /\ call'[c] = to /\ call'[c].kind = call[c].kind
      /\ call[c].kind \in {"program", "unprogram"}
  BY <1>1, <1>2, WorkIsRequested DEF CallMove, CardTypeOK
<1>4. /\ Flux' <=> call'[c].pc \in places
      /\ \A d \in Calls : d # c => /\ call'[d] = call[d] /\ call[d].pc \notin places
                                   /\ call[d].kind \notin {"program", "unprogram"}
  BY <1>1, FluxIsOf
<1>5. call'[c].pc \in places => Commandable
  BY <1>1, ChangeMoves
<1>6. FluxIsReached'
  BY <1>1, <1>4, <1>5 DEF FluxIsReached, Commandable
<1>7. inserted # NoCard /\ There.tries = 0 => There'.tries = 0
  <2> SUFFICES ASSUME inserted # NoCard, There.tries = 0 PROVE chip'[inserted].tries = 0
    BY <1>1 DEF There
  <2>1. UNCHANGED chip => chip'[inserted].tries = 0
    BY DEF There
  <2> QED
    BY <1>1, <2>1, ChangeMoves
<1>8. RightPinClears'
  BY <1>1, <1>3, <1>4, <1>7 DEF TalksToTheCard, RightPinClears
<1>9. AdministratorsCard'
  <2> SUFFICES ASSUME AdministratorIn, Reachable, NEW d \in Calls,
                      call'[d].pc \in {"pin", "generate", "storeCert", "storeCa"}
               PROVE  /\ There'.tries = 0
                      /\ call'[d].pc = "generate" => session' = "verified"
    BY <1>1 DEF AdministratorsCard
  <2>1. d = c
    BY <1>4
  <2>2. /\ call[c].pc \in {"generate", "storeCert"} => There.tries = 0
    BY <1>1 DEF TalksToTheCard, AdministratorsCard
  <2>3. There'.tries = chip'[inserted].tries
    BY <1>1 DEF There
  <2> QED
    BY <1>1, <2>1, <2>2, <2>3, ChangeMoves
<1>10. Unprogrammed'
  <2> SUFFICES ASSUME NEW d \in Calls, call'[d].kind = "unprogram", inserted # NoCard,
                      call'[d].pc \in {"clearCa", "clearData"}
               PROVE  /\ chip'[inserted].cert = NoCert
                      /\ call'[d].pc = "clearData" => chip'[inserted].ca = None
    BY <1>1 DEF Unprogrammed, Unprogramming, There
  <2>1. d = c /\ call[c].kind = "unprogram"
    BY <1>3, <1>4
  <2>2. call[c].pc = "clearCa" => There.cert = NoCert
    BY <1>1, <2>1 DEF TalksToTheCard, Unprogrammed, Unprogramming
  <2> QED
    BY <1>1, <2>1, <2>2, ChangeMoves
<1>11. OwnerIsTrue' /\ StatusIsTrue'
  BY ChangeTells
<1> QED
  BY <1>1, <1>6, <1>8, <1>9, <1>10, <1>11 DEF CardSide, TalksToTheCard

LEMMA DippedInit == Init => DippedInvariant
<1> SUFFICES ASSUME Init PROVE DippedInvariant
  OBVIOUS
<1>1. CardInit /\ WholeInvariant /\ authStatus = LoggedOut("machine_locked")
  BY WholeInit DEF Init, AuthInit
<1>2. ReaderAtRest
  BY <1>1, RestInit
<1>3. /\ \A r \in Reads : reads[r].pc = "idle"
      /\ \A c \in Calls : call[c].pc = "idle" /\ call[c].kind = "none"
      /\ reader = "no_card_reader" /\ inserted = NoCard /\ events = <<>>
  BY <1>1 DEF CardInit, IdleRead, IdleCall
<1>4. authStatus.status = "logged_out"
  BY <1>1 DEF LoggedOut, Status
<1>5. ~Reachable /\ ~Reading /\ events # <<"present">> /\ ~Flux
  BY <1>3 DEF Reachable, Reading, Flux
<1>6. NothingWhileReading
  BY <1>4, <1>5 DEF NothingWhileReading
<1>7. TalksToTheCard
  BY <1>3, <1>5 DEF TalksToTheCard, SelectedFirst, FluxIsReached, RightPinClears,
     AdministratorsCard, Unprogrammed, Unprogramming
<1>8. ReadSoFar /\ OwnerIsTrue /\ StatusIsTrue
  BY <1>3, <1>5 DEF ReadSoFar, KnownTo, OwnerIsTrue, StatusIsTrue
<1> QED
  BY <1>1, <1>2, <1>6, <1>7, <1>8 DEF DippedInvariant

LEMMA DippedStep == ~Hurried /\ DippedInvariant /\ [Next]_vars => DippedInvariant'
<1> SUFFICES ASSUME ~Hurried, DippedInvariant, [Next]_vars PROVE DippedInvariant'
  OBVIOUS
<1>1. WholeInvariant /\ WholeInvariant' /\ CardSide /\ NothingWhileReading
  BY WholeStep DEF DippedInvariant, CardSide
<1>2. CASE UNCHANGED vars
  <2>1. Quiet /\ NoNewRequest /\ UNCHANGED <<authStatus, request, changedLate>>
    BY <1>2 DEF vars, cardVars, authVars, Quiet, NoNewRequest
  <2>2. StatusMove(authStatus')
    BY <2>1 DEF StatusMove
  <2>3. CardSide' /\ NothingWhileReading'
    BY <1>1, <2>1, <2>2, QuietKeeps, NothingKeeps DEF WholeInvariant, CardSide
  <2> QED
    BY <1>1, <2>3 DEF DippedInvariant, CardSide
<1>3. CASE Around
  <2>1. CASE ReadCardDetails /\ UNCHANGED <<authVars, changedLate>>
    BY <1>1, <2>1, ReadStep DEF DippedInvariant, CardSide
  <2>2. CASE PersonAndReader({"checking_pin", "remove_card"}) /\ ~ReadCardDetails
    <3>1. (\E k \in Cards : Insert(k)) \/ Remove \/ CardPresent \/ CardAbsent \/ ReaderLost
      BY <2>2 DEF PersonAndReader, Surroundings
    <3>2. CardSide' /\ NothingWhileReading'
      BY <1>1, <1>3, <2>2, <3>1, SlotStep DEF Around
    <3> QED
      BY <1>1, <3>2 DEF DippedInvariant, CardSide
  <2>3. CASE Tick \/ GetAuthStatus \/ LogOut
    <3>1. CardSide' /\ NothingWhileReading'
      BY <1>1, <1>3, <2>3, QuietStep DEF Around
    <3> QED
      BY <1>1, <3>1 DEF DippedInvariant, CardSide
  <2> QED
    BY <1>3, <2>1, <2>2, <2>3 DEF Around, PersonAndReader
<1>4. ASSUME NEW c \in Calls, CardChanges(c) PROVE DippedInvariant'
  <2>1. CardSide' /\ NothingWhileReading'
    BY <1>1, <1>4, CheckPinStep, ChangeStep
  <2> QED
    BY <1>1, <2>1 DEF DippedInvariant, CardSide
<1>5. ASSUME NEW c \in Calls, ApiCall(c) \/ ApiStep(c), UNCHANGED changedLate PROVE DippedInvariant'
  <2>1. CardSide' /\ NothingWhileReading'
    BY <1>1, <1>5, QuietStep
  <2> QED
    BY <1>1, <2>1 DEF DippedInvariant, CardSide
<1> QED
  BY <1>2, <1>3, <1>4, <1>5 DEF Next

LEMMA DippedAlways ==
    ASSUME ~Hurried
    PROVE  Spec => []DippedInvariant
<1>1. Init => DippedInvariant
  BY DippedInit
<1>2. DippedInvariant /\ [Next]_vars => DippedInvariant'
  BY DippedStep
<1> QED
  BY <1>1, <1>2, PTL DEF Spec

\* As long as nobody pulls a card while it is read: when a PIN is asked for, or
\* the card is to be taken out, the card in the slot is that of the user who is
\* going to be in, whatever calls run and however the session ends, unless the
\* card was still being changed when the session that changed it was over.
THEOREM AskedIsTheCards ==
    ASSUME ~Hurried
    PROVE  Spec => []AuthUserIsCardUser
<1>1. DippedInvariant => AuthUserIsCardUser
  <2> SUFFICES ASSUME DippedInvariant, \A c \in Calls : call[c].kind \notin {"program", "unprogram"},
                      inserted \notin changedLate \cup {NoCard},
                      authStatus.status \in {"checking_pin", "remove_card"}
               PROVE  chip[inserted].cert.user = authStatus.user
    BY DEF AuthUserIsCardUser
  <2>1. \A c \in Calls : call[c].pc \in PlacesOf(call[c].kind) \/ call[c].pc = "idle"
    BY DEF DippedInvariant, WholeInvariant, CallsAreRequested, IdleCall
  <2>2. \A c \in Calls : call[c].kind \in {"none", "checkPin"}
    BY DEF DippedInvariant, WholeInvariant, DippedTypeOK, CardTypeOK, CardCalls
  <2>3. ~Flux
    BY <2>1, <2>2 DEF Flux, PlacesOf
  <2> QED
    BY <2>3 DEF DippedInvariant, OwnerIsTrue, There
<1> QED
  BY <1>1, DippedAlways, PTL

\* As long as nobody pulls a card while it is read: with nothing under way, the
\* cached status of a reader that is ready says what reading the card again would
\* say, after any number of calls of checkPin, program and unprogram.
THEOREM CachedIsTheCards ==
    ASSUME ~Hurried
    PROVE  Spec => []SettledStatusIsTrue
<1>1. DippedInvariant => SettledStatusIsTrue
  <2> SUFFICES ASSUME DippedInvariant, Settled, reader = "ready", connected, inserted \notin changedLate
               PROVE  /\ cardStatus.status = "ready"
                      /\ SameDetails(cardStatus.details, Readable(inserted))
    BY DEF SettledStatusIsTrue
  <2>1. cardStatus.status = "ready"
    BY DEF DippedInvariant, ReaderAtRest, Settled
  <2>2. ~Flux
    BY DEF Settled, Calling, Flux
  <2> QED
    BY <2>1, <2>2 DEF DippedInvariant, StatusIsTrue, Reachable
<1> QED
  BY <1>1, DippedAlways, PTL
=============================================================================
