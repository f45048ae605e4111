---------------------------- MODULE MCFindMatch ----------------------------
(***************************************************************************)
(* Small instances of FindMatch for TLC.                                   *)
(***************************************************************************)
EXTENDS FindMatch

CONSTANTS a, b, c

(* a before b before c *)
Alphabetical == [p \in Players |-> CASE p = a -> 1 [] p = b -> 2 [] p = c -> 3]

(* How often each player searches. *)
Once == [p \in Players |-> 1]
OnlyAAgain == [p \in Players |-> IF p = a THEN 2 ELSE 1]

(* The queue is set up, every ticket is in the TEE, everybody is about to   *)
(* join.                                                                    *)
Joining ==
  /\ tenant = "callback"
  /\ queue = "TEE"
  /\ ticket = [p \in Players |-> Searching]
  /\ delegated = Players
  /\ l1 = ticket
  /\ entries = <<>> /\ matches = <<>> /\ pending = <<>> /\ counter = 0
  /\ inflight = <<>> /\ events = <<>>
  /\ step = [p \in Players |-> "join"]
  /\ toFlush = [p \in Players |-> <<>>]
  /\ result = [p \in Players |-> NoResult]
  /\ earlier = [p \in Players |-> {}]
  /\ searches = [p \in Players |-> 1]
  /\ sent = {}

FairJoining == Joining /\ [][FindNext]_findVars /\ FindFairness
=============================================================================
