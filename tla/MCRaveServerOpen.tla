-------------------------- MODULE MCRaveServerOpen ---------------------------
(* Two kinds of behaviour.  Either one HTTP call runs alone, with a long    *)
(* body, while an operator inserts up to MaxExternal rows; or all Calls are *)
(* open at once with short bodies and a single inserted row.  A short body  *)
(* has a request, the registration and the ballot that build on it, or the  *)
(* same request and another voter's ballot for that registration.           *)
EXTENDS RaveServerOpen, TLC

CONSTANTS t1, v1, v2, c1, c2

VARIABLE alone   \* whether only one call ever comes

MCRequest == [clientId |-> <<t1, 1>>, machineId |-> t1, cac |-> v1]

\* An operator's first row is the election <<Server, 1>>.
MCRegistration == [clientId |-> <<t1, 2>>, machineId |-> t1, cac |-> v1,
                   requestId |-> <<t1, 1>>, electionId |-> <<Server, 1>>]

MCBallot == [clientId |-> <<t1, 3>>, machineId |-> t1, cac |-> v1,
             registrationId |-> <<t1, 2>>]

MCShortBodies ==
    {[requests |-> {MCRequest}, registrations |-> {},
      ballots |-> {[MCBallot EXCEPT !.cac = v2]}],
     [requests |-> {MCRequest}, registrations |-> {MCRegistration},
      ballots |-> {MCBallot}]}

\* The registration and two more requests, for the call that runs alone.
MCLongBodies ==
    {[requests |-> {MCRequest, [MCRequest EXCEPT !.clientId = <<t1, 4>>, !.cac = v2],
                    [MCRequest EXCEPT !.clientId = <<t1, 5>>]},
      registrations |-> {MCRegistration}, ballots |-> {MCBallot}]}

MCBodies == MCShortBodies \cup MCLongBodies

Idle(c) == calls[c].pc = "idle"

MCInit == ServerInit /\ alone \in BOOLEAN

MCNext ==
    /\ Next
    /\ UNCHANGED alone
    /\ IF alone THEN \A c, d \in Calls : c # d => (Idle(c) \/ Idle(d))'
       ELSE /\ external' <= 1
            /\ \A c \in Calls : Idle(c) /\ ~Idle(c)' =>
                   \E body \in MCShortBodies :
                       calls'[c].input.requests = body.requests

MCSpec == MCInit /\ [][MCNext]_<<serverVars, alone>>

MCSymmetry == Permutations(Calls)
=============================================================================
