------------------------------- MODULE Lists -------------------------------
(***************************************************************************)
(* flatMap, and with it filter, where a theorem is about what is kept: the *)
(* provers have no facts of SelectSeq.                                     *)
(***************************************************************************)
EXTENDS Naturals, Sequences, SequencesExt

Concat(s, F(_)) == FlattenSeq([i \in DOMAIN s |-> F(s[i])])
Those(s, Test(_)) == Concat(s, LAMBDA x : IF Test(x) THEN <<x>> ELSE <<>>)
=============================================================================
