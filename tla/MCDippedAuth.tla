---------------------------- MODULE MCDippedAuth ----------------------------
(* DippedSmartCardAuth with a system administrator's card and one that is  *)
(* programmed for a poll worker.                                           *)
EXTENDS DippedSmartCardAuth

CONSTANTS c1, c2, j, e, pin

Programmed(user, hasPin, key) ==
    [cert |-> [user |-> user, hasPin |-> hasPin, key |-> key], ca |-> j,
     key |-> key, pin |-> IF hasPin THEN pin ELSE DEFAULT_PIN, tries |-> 0]

MCFirstChips ==
    {[k \in Cards |-> IF k = c1 THEN Programmed(SystemAdministrator(j), TRUE, 1)
                                 ELSE Programmed(PollWorker(j, e), FALSE, 2)]}
=============================================================================
