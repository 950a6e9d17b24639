--------------------------- MODULE SmartCardAuth ---------------------------
(***************************************************************************)
(* What the two ways of authenticating by a smart card have in common      *)
(* (libs/auth/src/inserted_smart_card_auth.ts, dipped_smart_card_auth.ts,  *)
(* lockout.ts, sessions.ts), on JavaCard.  The status is a field that      *)
(* every call of the API updates: getAuthStatus is polled, checkPin waits  *)
(* for the card in between.  getCardStatus is resolved already, so reading *)
(* the card's status and applying it is one step; the log lines after it   *)
(* are awaited, so what a call does next is another.                       *)
(***************************************************************************)
EXTENDS JavaCard

CONSTANTS
    Allowed,            \* numIncorrectPinAttemptsAllowedBeforeCardLockout
    StartingDuration,   \* startingCardLockoutDurationSeconds
    SessionLength,      \* overallSessionTimeLimitHours
    MachineElection,    \* machineState.electionHash, or None
    MachineJurisdiction,\* machineState.jurisdiction, or None
    PollWorkerPins,     \* machineState.arePollWorkerCardPinsEnabled
    MaxTime             \* bound of the clock

ASSUME MachineAssumption ==
    /\ Allowed \in Nat \ {0}
    /\ StartingDuration \in Nat /\ SessionLength \in Nat
    /\ MachineElection \in Elections \cup {None}
    /\ MachineJurisdiction \in Jurisdictions \cup {None}
    /\ PollWorkerPins \in BOOLEAN

VARIABLES
    authStatus,
    request,            \* what each call of the API does next
    now,
    freeFrom            \* when each card may be tried again (history)

authVars == <<authStatus, request, now, freeFrom>>

Status(status, reason, user, until) ==
    [status |-> status, reason |-> reason, user |-> user, until |-> until, card |-> None]

LoggedOut(reason) == Status("logged_out", reason, None, None)
CheckingPin(user, lockedOutUntil) == Status("checking_pin", None, user, lockedOutUntil)

IdleRequest == [pc |-> "idle", kind |-> "none"]

AuthInit ==
    /\ CardInit
    /\ request = [c \in Calls |-> IdleRequest]
    /\ now = 0
    /\ freeFrom = [k \in Cards |-> 0]

\* computeSessionEndTime
SessionEnd == now + SessionLength

\* An expired session counts as logged out, but nothing ends it by itself.
CurrentOr(loggedOut) ==
    IF authStatus.status = "logged_in" /\ now >= authStatus.until
    THEN loggedOut ELSE authStatus

AskForPin(details) ==
    CheckingPin(details.user, LockoutEnd(Allowed, StartingDuration, details.tries, now))

\* isLockedOut
LockedOut ==
    authStatus.status = "checking_pin" /\ authStatus.until # None /\ now < authStatus.until

Then(c, kind) == request[c].pc = "then" /\ request[c].kind = kind

Return(c) == request' = [request EXCEPT ![c] = IdleRequest]

Tick ==
    /\ now < MaxTime
    /\ now' = now + 1
    /\ UNCHANGED <<cardVars, authStatus, request, freeFrom>>

\* The history notes when the lockout of the last wrong PIN ends.
CardWorks(c) ==
    /\ CardCall(c)
    /\ freeFrom' = IF call'[c].answer = "incorrect" /\ call[c].answer # "incorrect"
                   THEN [freeFrom EXCEPT ![inserted] =
                           now + LockoutDuration(Allowed, StartingDuration, call'[c].tries)]
                   ELSE freeFrom
    /\ UNCHANGED <<authStatus, request, now>>

\* A hand takes longer to exchange cards than a poll to see that one is gone:
\* no card comes while the status is one of those that stand for the last one.
PersonAndReader(held) ==
    /\ Surroundings
    /\ inserted = NoCard /\ inserted' # NoCard =>
         authStatus.status \notin held /\ \A c \in Calls : request[c].pc = "idle"
    /\ UNCHANGED authVars

----------------------------------------------------------------------------
(* Properties.                                                             *)

\* A PIN reaches a card only when the lockout its last wrong PIN brought is
\* over, however often the card was pulled and polled since.
LockoutIsKept ==
    [][\A c \in Calls : CheckPinVerify(c) /\ There.tries >= Allowed
         => now >= freeFrom[inserted]]_<<cardVars, authVars>>
=============================================================================
