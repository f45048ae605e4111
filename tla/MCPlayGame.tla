---------------------------- MODULE MCPlayGame -----------------------------
(***************************************************************************)
(* Small instances of PlayGame for TLC.                                    *)
(***************************************************************************)
EXTENDS PlayGame

CONSTANTS a, b

OneGame == {<<a, b, 1>>}

OneTicket == {<<a, b>>}

TheProfiles == {<<a, b>>}

(* How often each player opens a board. *)
Once == [p \in Players |-> 1]

OnlyBAgain == [p \in Players |-> IF p = b THEN 2 ELSE 1]

(* How often Continue is clicked on each board. *)
EachOnce == [x \in Boards |-> 1]

FirstOfBTwice == [x \in Boards |-> IF x = <<b, 1>> THEN 2 ELSE 1]
=============================================================================
