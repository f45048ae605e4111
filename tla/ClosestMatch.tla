---------------------------- MODULE ClosestMatch ----------------------------
(***************************************************************************)
(* What join_queue looks for when a player enters (duel/src/lib.rs,        *)
(* 272-293): among the entries already waiting, the one whose ELO is       *)
(* closest to the newcomer's, no farther than the tenant's window, and the *)
(* earliest one when several are equally close.  This is the answer; how   *)
(* the loop of the program reaches it is module MatchScan.                 *)
(***************************************************************************)
EXTENDS Integers, Sequences

(* u64::abs_diff *)
Distance(a, b) == IF a >= b THEN a - b ELSE b - a

(* Sensitivity variant: the window taken as an exclusive bound. *)
InWindowExclusive(a, b, window) == Distance(a, b) < window

InWindow(a, b, window) == Distance(a, b) <= window

(* The positions of the waiting entries the newcomer may be paired with. *)
Candidates(waiting, elo, window) ==
  {i \in DOMAIN waiting : InWindow(waiting[i].elo, elo, window)}

IsBestMatch(i, waiting, elo, window) ==
  /\ i \in Candidates(waiting, elo, window)
  /\ \A j \in Candidates(waiting, elo, window) :
       \/ Distance(waiting[i].elo, elo) < Distance(waiting[j].elo, elo)
       \/ /\ Distance(waiting[i].elo, elo) = Distance(waiting[j].elo, elo)
          /\ i <= j
=============================================================================
