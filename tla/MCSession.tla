----------------------------- MODULE MCSession -----------------------------
(***************************************************************************)
(* Small instances of Session for TLC.                                     *)
(***************************************************************************)
EXTENDS Session

CONSTANTS a, b, c, d, o1, o2

(* Sound where the other players can do the same things as one another.     *)
Symmetry == Permutations(Players \ Retrying) \cup Permutations(Operators)

(* The state in which the tenant and the queue are set up, the queue and    *)
(* every ticket are delegated, and each player is about to join.            *)
Ready ==
  /\ tenant = "plain"
  /\ queue = "TEE"
  /\ ticket = [p \in Players |-> Searching]
  /\ delegated = Players
  /\ l1 = ticket
  /\ entries = <<>> /\ matches = <<>> /\ pending = <<>> /\ counter = 0
  /\ inflight = <<>> /\ events = <<>>
  /\ stage = [p \in Players |-> "join"]
  /\ late = {}
  /\ found = [p \in Players |-> Searching]
  /\ resolving = [o \in Operators |-> "idle"]
  /\ toFlush = [o \in Operators |-> <<>>]
  /\ toCommit = [o \in Operators |-> {}]

ReadySession == Ready /\ [][SessionNext]_sessionVars
FairReadySession == ReadySession /\ OperatorFairness
=============================================================================
