------------------------------- MODULE RaveIds -------------------------------
(***************************************************************************)
(* Names shared by the RAVE voter terminals and the RAVE server.           *)
(*                                                                         *)
(* A UUID is a pair <<maker, n>>: the n-th identifier drawn by that maker. *)
(* A random UUID never repeats, and neither does such a pair.  The server  *)
(* numbers its rows with its clock, so for a row of the server the second  *)
(* component is also the row's created_at: rows with later numbers were    *)
(* given later timestamps.                                                 *)
(***************************************************************************)
EXTENDS Naturals

CONSTANTS
    Terminals,  \* the voter terminals; a terminal is its own VX_MACHINE_ID
    Cacs,       \* common access card ids of the voters
    Server,     \* the RAVE server, as a maker of ids (and any machine not modelled)
    None        \* SQL null, an undefined optional field

Owners == Terminals \cup {Server}
Uuid == Owners \X Nat
Optional(S) == S \cup {None}

ASSUME IdsAssumption ==
    /\ Server \notin Terminals
    /\ None \notin Uuid
=============================================================================
