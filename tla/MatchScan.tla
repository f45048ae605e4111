----------------------------- MODULE MatchScan -----------------------------
(***************************************************************************)
(* The loop of join_queue that looks for an opponent                       *)
(* (duel/src/lib.rs:272-293): one pass over the entries before the new     *)
(* one, keeping the best position so far and its distance.  Module Duel    *)
(* takes the outcome of this loop to be what ClosestMatch defines; here it *)
(* is shown to be.                                                         *)
(***************************************************************************)
EXTENDS ClosestMatch

CONSTANTS
  Queues,     \* the entry lists a newcomer may find, as sequences of [elo]
  Elos,       \* the newcomer's possible ELO values
  Window      \* Tenant.elo_window

ASSUME ScanAssumption ==
  /\ Elos \subseteq Nat
  /\ Queues \subseteq Seq([elo : Elos])
  /\ Window \in Nat

VARIABLES
  waiting,   \* queue.entries without the new entry
  elo,       \* new_player.elo
  i,         \* the loop variable, from 1
  best,      \* the position in best_match, 0 for None
  bestDiff   \* the distance in best_match

vars == <<waiting, elo, i, best, bestDiff>>

Init ==
  /\ waiting \in Queues
  /\ elo \in Elos
  /\ i = 1
  /\ best = 0
  /\ bestDiff = 0

(* Sensitivity variant: an equally close entry replaces the best one. *)
ImprovesOnTie(diff) == best = 0 \/ diff <= bestDiff

(* best_match.map_or(true, |(_, best_diff)| diff < best_diff) *)
Improves(diff) == best = 0 \/ diff < bestDiff

Scan ==
  LET diff == Distance(waiting[i].elo, elo) IN
  /\ i <= Len(waiting)
  /\ i' = i + 1
  /\ IF diff <= Window /\ Improves(diff)
     THEN best' = i /\ bestDiff' = diff
     ELSE UNCHANGED <<best, bestDiff>>
  /\ UNCHANGED <<waiting, elo>>

Done == i > Len(waiting) /\ UNCHANGED vars

Next == Scan \/ Done

Spec == Init /\ [][Next]_vars

-----------------------------------------------------------------------------
(* Properties. *)

TypeOK ==
  /\ waiting \in Seq([elo : Elos])
  /\ elo \in Nat
  /\ i \in 1..Len(waiting) + 1
  /\ best \in 0..i - 1
  /\ bestDiff \in Nat

(* best_match holds the answer for the entries already looked at: nothing if *)
(* none of them is in the window, otherwise the closest and earliest.        *)
BestSoFar ==
  /\ best = 0 => \A j \in 1..i - 1 : ~ InWindow(waiting[j].elo, elo, Window)
  /\ best # 0 =>
       /\ bestDiff = Distance(waiting[best].elo, elo)
       /\ InWindow(waiting[best].elo, elo, Window)
       /\ \A j \in 1..i - 1 :
            \/ Distance(waiting[j].elo, elo) > bestDiff
            \/ Distance(waiting[j].elo, elo) = bestDiff /\ best <= j

(* At the end of the loop best_match is the opponent ClosestMatch asks for,  *)
(* and None only if there is none (lines 277-293).                           *)
ScanCorrect ==
  i > Len(waiting) =>
    IF best = 0 THEN Candidates(waiting, elo, Window) = {}
    ELSE IsBestMatch(best, waiting, elo, Window)
=============================================================================
