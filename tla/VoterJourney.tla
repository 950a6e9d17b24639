---------------------------- MODULE VoterJourney -----------------------------
(***************************************************************************)
(* What a terminal promises a voter: the status getVoterStatus reports     *)
(* moves from unregistered over registration_pending and registered to     *)
(* voted, one voter at a time, possibly past a stage, and never back.      *)
(***************************************************************************)
EXTENDS Naturals

CONSTANTS Terminals, Cacs

VARIABLE status  \* status[t][cac]: the rank of the status, 0 to 3

Ranks == 0 .. 3

Init == status = [t \in Terminals |-> [cac \in Cacs |-> 0]]

Advance(t, cac) ==
    \E rank \in Ranks :
        /\ rank > status[t][cac]
        /\ status' = [status EXCEPT ![t][cac] = rank]

Next == \E t \in Terminals, cac \in Cacs : Advance(t, cac)

Spec == Init /\ [][Next]_status
=============================================================================
