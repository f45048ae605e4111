----------------------------- MODULE MCRpsGame -----------------------------
(***************************************************************************)
(* Small instances of RpsGame for TLC.                                     *)
(***************************************************************************)
EXTENDS RpsGame

CONSTANTS a, b

(* Two sessions of the same players, the roles swapped. *)
TwoGames == {<<a, b, 1>>, <<b, a, 2>>}

(* The profiles of both, as the clients pass them, or a's in both places. *)
BothOrFirst == {<<a, b>>, <<a, a>>}

BothTickets == {<<a, b>>, <<b, a>>}
=============================================================================
