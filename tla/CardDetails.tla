---------------------------- MODULE CardDetails ----------------------------
(***************************************************************************)
(* What every part of the authentication library says about a smart card:  *)
(* the user a card stands for, the details a card status carries, and the  *)
(* lockout that wrong PINs bring (libs/auth/src/card.ts, lockout.ts).      *)
(***************************************************************************)
EXTENDS Integers

CONSTANTS
    Jurisdictions,      \* names of jurisdictions
    Elections,          \* hashes of elections
    None                \* "undefined" in the source

\* The roles of UserWithCard; a cardless voter has no card.
CardRoles == {"system_administrator", "election_manager", "poll_worker", "rave_voter"}

\* A user: a field its role does not have is None.
User(role, jurisdiction, election) ==
    [role |-> role, jurisdiction |-> jurisdiction, electionHash |-> election]

SystemAdministrator(j) == User("system_administrator", j, None)
ElectionManager(j, e) == User("election_manager", j, e)
PollWorker(j, e) == User("poll_worker", j, e)
RaveVoter == User("rave_voter", None, None)

CardUsers ==
    {SystemAdministrator(j) : j \in Jurisdictions}
        \cup {ElectionManager(j, e) : j \in Jurisdictions, e \in Elections}
        \cup {PollWorker(j, e) : j \in Jurisdictions, e \in Elections}
        \cup {RaveVoter}

\* CardDetails: only a poll worker's card may be without a PIN.
DetailsRecords == [user : CardUsers, hasPin : BOOLEAN, tries : Nat]

ASSUME NoneAssumption ==
    None \notin CardUsers /\ None \notin DetailsRecords /\ None \notin Int

Details(user, hasPin, tries) == [user |-> user, hasPin |-> hasPin, tries |-> tries]

HasNoPin(details) == details.user.role = "poll_worker" /\ ~details.hasPin

NotReady(status) == [status |-> status, details |-> None]
Ready(details) == [status |-> "ready", details |-> details]
NotReadyStates == {"card_error", "no_card", "unknown_error"}

\* Seconds a card stays locked before its next attempt; 0 when it is not.
LockoutDuration(allowed, start, tries) ==
    IF tries < allowed THEN 0 ELSE start * 2 ^ (tries - allowed)

\* The time a lockout ends that starts now, or None.
LockoutEnd(allowed, start, tries, now) ==
    IF tries < allowed THEN None ELSE now + LockoutDuration(allowed, start, tries)
=============================================================================
