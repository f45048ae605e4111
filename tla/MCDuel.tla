------------------------------- MODULE MCDuel -------------------------------
(***************************************************************************)
(* Small instances of Duel for TLC.                                        *)
(***************************************************************************)
EXTENDS Duel

CONSTANTS a, b, c

Symmetry == Permutations(Players)
=============================================================================
