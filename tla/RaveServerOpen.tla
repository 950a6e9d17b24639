--------------------------- MODULE RaveServerOpen ----------------------------
(***************************************************************************)
(* ServerSpec with the bodies cut down to a small set: a body may carry     *)
(* registrations, which this repository's terminals never send, and names  *)
(* as last synced rows the server has stored by then.                      *)
(***************************************************************************)
EXTENDS RaveServer

CONSTANT Bodies  \* what a client may send: requests, registrations, ballots

ASSUME BodiesAssumption ==
    Bodies \subseteq [requests : SUBSET RequestInput,
                      registrations : SUBSET RegistrationInput,
                      ballots : SUBSET BallotInput]

Known(rows) == {None} \cup {r.id : r \in rows}

Inputs ==
    {[lastRequest |-> lr, lastRegistration |-> lg, lastElection |-> le,
      lastBallot |-> lb, requests |-> body.requests,
      registrations |-> body.registrations, ballots |-> body.ballots] :
        body \in Bodies,
        lr \in Known(srv.requests), lg \in Known(srv.registrations),
        le \in Known(srv.elections), lb \in Known(srv.ballots)}

Next == ServerNext(Inputs)

Spec == ServerInit /\ [][Next]_serverVars
=============================================================================
