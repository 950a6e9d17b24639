---------------------------- MODULE AuthJourney ----------------------------
(***************************************************************************)
(* What card authentication promises, whichever way the card is used:      *)
(* nobody gets in but the user who was asked for a PIN and gave it, or a   *)
(* user whose card needs none; whoever is asked or in can only leave or be *)
(* replaced by a user who is asked anew.                                   *)
(***************************************************************************)
CONSTANTS
    Walkers,            \* users who need no PIN
    None

VARIABLES
    phase,              \* "out", "asking", "proved" or "in"
    who                 \* the user asked, proved or in

Init == phase = "out" /\ who = None

\* A card is presented whose user has a PIN to give.
AskPin ==
    /\ phase # "proved" /\ (phase = "asking" => who' = who)
    /\ phase' = "asking" /\ who' # None

\* The right PIN; with a dipped card the card has to leave next.
Prove == phase = "asking" /\ phase' \in {"proved", "in"} /\ who' = who

Enter == phase = "proved" /\ phase' = "in" /\ who' = who

WalkIn == phase' = "in" /\ phase \notin {"asking", "proved"} /\ who' \in Walkers

Leave == phase' = "out" /\ who' = None

Spec == Init /\ [][AskPin \/ Prove \/ Enter \/ WalkIn \/ Leave]_<<phase, who>>
=============================================================================
