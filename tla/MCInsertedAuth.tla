--------------------------- MODULE MCInsertedAuth ---------------------------
(* InsertedSmartCardAuth with an election manager's and a poll worker's    *)
(* card, the latter without a PIN.                                         *)
EXTENDS InsertedSmartCardAuth

CONSTANTS c1, c2, j, e, pin

Programmed(user, hasPin, key) ==
    [cert |-> [user |-> user, hasPin |-> hasPin, key |-> key], ca |-> j,
     key |-> key, pin |-> IF hasPin THEN pin ELSE DEFAULT_PIN, tries |-> 0]

MCFirstChips ==
    {[k \in Cards |-> IF k = c1 THEN Programmed(ElectionManager(j, e), TRUE, 1)
                                 ELSE Programmed(PollWorker(j, e), FALSE, 2)]}
=============================================================================
