---------------------------- MODULE Matchmaking ----------------------------
(***************************************************************************)
(* What the matchmaking service promises its players, without accounts,    *)
(* layers, cranks or commits: a player who arrives is paired at once with  *)
(* the closest waiting player of the window, or waits; a waiting player    *)
(* leaves the queue only by being paired; the one who arrived learns the   *)
(* outcome immediately, the one who waited is owed it until told; and an   *)
(* outcome once told is not replaced by another, only forgotten.           *)
(***************************************************************************)
EXTENDS ClosestMatch, FiniteSets

CONSTANTS
  Players,
  Elos,
  EloWindow,
  Unknown    \* the outcome of a player who has been told none

VARIABLES
  waiting,   \* [player, elo] of those waiting
  made,      \* the matches made, in order
  owed,      \* [player, match]: outcomes a player has not been told
  outcome    \* the match each player was last told of

vars == <<waiting, made, owed, outcome>>

Init ==
  /\ waiting = {}
  /\ made = <<>>
  /\ owed = {}
  /\ outcome = [p \in Players |-> Unknown]

Near(elo) == {w \in waiting : Distance(w.elo, elo) <= EloWindow}

Arrive(p, elo) ==
  /\ outcome[p] = Unknown
  /\ Near(elo) = {}
  /\ waiting' = waiting \cup {[player |-> p, elo |-> elo]}
  /\ UNCHANGED <<made, owed, outcome>>

Match(p, elo, w) ==
  LET id == Len(made) + 1 IN
  /\ outcome[p] = Unknown
  /\ w \in Near(elo)
  /\ \A v \in Near(elo) : Distance(w.elo, elo) <= Distance(v.elo, elo)
  /\ waiting' = waiting \ {w}
  /\ made' = Append(made, [player1 |-> p, player2 |-> w.player,
                           elo1 |-> elo, elo2 |-> w.elo])
  /\ owed' = owed \cup {[player |-> w.player, match |-> id]}
  /\ outcome' = [outcome EXCEPT ![p] = id]

(* Some of those owed an outcome are told it, each at most one. *)
Tell(debts) ==
  /\ debts \subseteq owed
  /\ \A d, e \in debts : d.player = e.player => d = e
  /\ \A d \in debts : outcome[d.player] = Unknown
  /\ owed' = owed \ debts
  /\ outcome' = [p \in Players |->
       IF \E d \in debts : d.player = p
       THEN (CHOOSE d \in debts : d.player = p).match
       ELSE outcome[p]]
  /\ UNCHANGED <<waiting, made>>

Forget(p) ==
  /\ outcome' = [outcome EXCEPT ![p] = Unknown]
  /\ UNCHANGED <<waiting, made, owed>>

Next ==
  \/ \E p \in Players, elo \in Elos :
       Arrive(p, elo) \/ \E w \in waiting : Match(p, elo, w)
  \/ \E debts \in SUBSET owed : Tell(debts)
  \/ \E p \in Players : Forget(p)

Spec == Init /\ [][Next]_vars
=============================================================================
