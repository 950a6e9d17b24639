----------------------------- MODULE MCRaveSync ------------------------------
(* Small instances of RaveSync.                                             *)
EXTENDS RaveSync, TLC

CONSTANTS t1, t2, v1, v2

MCCalls == Terminals \X Attempts
MCTerminalSymmetry == Permutations(Terminals)
=============================================================================
