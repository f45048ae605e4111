----------------------------- MODULE FindMatch -----------------------------
(***************************************************************************)
(* The search of the web client, findMatch and cancelSearch of             *)
(* src/frontend/lib/hooks/useMatchmaking.ts, against the accounts of       *)
(* module Duel.                                                            *)
(*                                                                         *)
(* Unlike the SDK, the web client sends a transaction and goes on without  *)
(* waiting for it (sendInstruction, src/frontend/lib/utils/transaction.ts, *)
(* with skipPreflight): it is executed later, in any order with the        *)
(* others, or refused, or lost, and the client is told of none of these.   *)
(* Whoever joins the queue then does the crank duty: it flushes and        *)
(* commits what it reads as pending.                                       *)
(*                                                                         *)
(* cancelSearch is reachable while the button shows the search, that is    *)
(* while the ticket is polled, so the checks of the abort signal between   *)
(* the earlier steps never fire.                                           *)
(***************************************************************************)
EXTENDS Duel

CONSTANTS
  Address,     \* the order of the wallets' addresses
  Prompt,      \* bound: players whose calls are never lost and are executed at once
  MaxSent,     \* bound: transactions of one player on their way
  MaxSearches  \* bound: searches of each player

ASSUME AddressAssumption ==
  /\ Address \in [Players -> Nat]
  /\ \A p, q \in Players : Address[p] = Address[q] => p = q
ASSUME SearchAssumption ==
  Prompt \subseteq Players /\ MaxSent \in Nat /\ MaxSearches \in [Players -> Nat]

VARIABLES
  step,      \* how far each player's search is
  toFlush,   \* the pending players a search has read from the queue
  result,    \* what the last search of each player reported
  earlier,   \* the matches earlier searches of the player reported
  searches,  \* how many searches each player has begun
  sent       \* transactions neither executed nor lost yet

searchVars == <<step, toFlush, result, earlier, searches>>
findVars == <<vars, searchVars, sent>>

Steps == {"idle", "look", "cancel", "commit", "return", "create", "delegate",
          "join", "read", "flush", "settle", "poll", "matched", "error"}

NoResult == [opponent |-> Nobody, matchId |-> 0, role |-> "none"]

-----------------------------------------------------------------------------
(* Transactions. *)

Calls == {"cancel", "commit", "close", "create", "delegate", "join", "flush"}

(* The TEE writes what is delegated to it, L1 the rest.  Equal transactions *)
(* on their way at the same time are counted once.                          *)
Execute(tx) ==
  CASE tx.call = "create" -> CreateTicket(tx.by)
    [] tx.call = "delegate" -> DelegateTicket(tx.by)
    [] tx.call = "close" -> CloseTicket(tx.by)
    [] tx.call = "cancel" -> tx.by \in delegated /\ CancelTicket(tx.by)
    [] tx.call = "join" ->
         queue = "TEE" /\ \E elo \in Elos : JoinQueue(tx.by, elo, TRUE)
    [] tx.call = "flush" -> queue = "TEE" /\ FlushMatches(tx.accounts)
    [] tx.call = "commit" -> CommitTickets(ToSet(tx.accounts))

Executed(tx) ==
  /\ Execute(tx)
  /\ sent' = sent \ {tx}
  /\ UNCHANGED searchVars

(* A transaction is lost, or changes nothing: the program refuses it, or     *)
(* finds nothing pending to flush.                                           *)
Dropped(tx) ==
  /\ tx.by \notin Prompt \/ ~ ENABLED Execute(tx)
  /\ sent' = sent \ {tx}
  /\ UNCHANGED <<vars, searchVars>>

SentBy(p) == {tx \in sent : tx.by = p}

(* p sends a transaction and the search goes on.  The list of accounts is   *)
(* that of flush and commit.                                                *)
Send(p, call, accounts, next) ==
  /\ Cardinality(SentBy(p)) < MaxSent
  /\ Len(accounts) <= MaxAccounts
  /\ sent' = sent \cup {[by |-> p, call |-> call, accounts |-> accounts]}
  /\ step' = [step EXCEPT ![p] = next]
  /\ UNCHANGED <<vars, toFlush, result, earlier, searches>>

Go(p, next) ==
  /\ step' = [step EXCEPT ![p] = next]
  /\ UNCHANGED <<vars, toFlush, result, earlier, searches, sent>>

-----------------------------------------------------------------------------
(* findMatch *)

Begin(p) ==
  /\ step[p] \in {"idle", "error", "matched"}
  /\ searches[p] < MaxSearches[p]
  /\ searches' = [searches EXCEPT ![p] = @ + 1]
  /\ earlier' = [earlier EXCEPT ![p] = @ \cup ({result[p].matchId} \ {0})]
  /\ result' = [result EXCEPT ![p] = NoResult]
  /\ step' = [step EXCEPT ![p] = "look"]
  /\ UNCHANGED <<vars, toFlush, sent>>

(* 1. The clean-up: an old ticket in the TEE is to be cancelled, committed,  *)
(* and waited for, and closed when it is on L1.                              *)
Look(p) ==
  /\ step[p] = "look"
  /\ Go(p, IF p \in delegated THEN "cancel"
           ELSE IF l1[p] # Absent THEN "return" ELSE "create")

OnL1(p) == l1[p] # Absent /\ p \notin delegated

(* The wait for the ticket has an end, whether it came or not. *)
Return(p) ==
  /\ step[p] = "return"
  /\ IF OnL1(p) THEN Send(p, "close", <<>>, "create") ELSE Go(p, "create")

CleanUp(p) ==
  \/ Look(p)
  \/ step[p] = "cancel" /\ Send(p, "cancel", <<>>, "commit")
  \/ step[p] = "commit" /\ Send(p, "commit", <<p>>, "return")
  \/ Return(p)

(* 2. to 6.  The permission set-ups change no account of this model. *)
Enter(p) ==
  \/ step[p] = "create" /\ Send(p, "create", <<>>, "delegate")
  \/ step[p] = "delegate" /\ Send(p, "delegate", <<>>, "join")
  \/ step[p] = "join" /\ Send(p, "join", <<>>, "read")

(* 7. Crank duty. *)

(* Sensitivity variant: the flush is sent even when nothing is pending. *)
AfterReadFlush == "flush"

AfterRead == IF pending = <<>> THEN "poll" ELSE "flush"

ReadQueue(p) ==
  /\ step[p] = "read"
  /\ toFlush' = [toFlush EXCEPT ![p] = [k \in DOMAIN pending |-> pending[k].player]]
  /\ step' = [step EXCEPT ![p] = AfterRead]
  /\ UNCHANGED <<vars, result, earlier, searches, sent>>

CrankDuty(p) ==
  \/ ReadQueue(p)
  \/ step[p] = "flush" /\ Send(p, "flush", toFlush[p], "settle")
  \/ step[p] = "settle" /\ Send(p, "commit", <<p>> \o toFlush[p], "poll")

(* A call throws before it is sent: the clean-up and the crank duty go on,   *)
(* everything else ends the search.                                          *)
Throw(p) ==
  /\ p \notin Prompt
  /\ \/ step[p] = "cancel" /\ \E next \in {"commit", "error"} : Go(p, next)
     \/ step[p] = "commit" /\ Go(p, "return")
     \/ step[p] = "return" /\ Go(p, "create")
     \/ step[p] \in {"look", "create", "delegate", "join"} /\ Go(p, "error")
     \/ step[p] \in {"read", "flush", "settle"} /\ Go(p, "poll")

(* Sensitivity variant: the searching player takes itself for player1. *)
RoleFirst(p, q) == "player1"

Role(p, q) == IF Address[p] < Address[q] THEN "player1" ELSE "player2"

(* 8. The ticket is polled on L1. *)
Report(p) ==
  /\ step[p] = "poll"
  /\ l1[p].status = "Matched"
  /\ result' = [result EXCEPT ![p] =
       [opponent |-> l1[p].opponent, matchId |-> l1[p].matchId,
        role |-> Role(p, l1[p].opponent)]]
  /\ step' = [step EXCEPT ![p] = "matched"]
  /\ UNCHANGED <<vars, toFlush, earlier, searches, sent>>

(* Two minutes go by. *)
TimeOut(p) == p \notin Prompt /\ step[p] = "poll" /\ Go(p, "error")

(* cancelSearch: the search ends, and the ticket is cancelled if that call   *)
(* can be sent.                                                              *)
CancelSearch(p) ==
  /\ p \notin Prompt
  /\ step[p] = "poll"
  /\ Go(p, "idle") \/ Send(p, "cancel", <<>>, "idle")

-----------------------------------------------------------------------------
FindInit ==
  /\ Init
  /\ step = [p \in Players |-> "idle"]
  /\ toFlush = [p \in Players |-> <<>>]
  /\ result = [p \in Players |-> NoResult]
  /\ earlier = [p \in Players |-> {}]
  /\ searches = [p \in Players |-> 0]
  /\ sent = {}

(* One step of p's search.  A prompt player's transactions come first. *)
Search(p) ==
  /\ p \in Prompt => SentBy(p) = {}
  /\ Begin(p) \/ CleanUp(p) \/ Enter(p) \/ CrankDuty(p) \/ Report(p)

GiveUp(p) == Throw(p) \/ TimeOut(p) \/ CancelSearch(p)

Setup == Admin /\ UNCHANGED <<searchVars, sent>>
Settlement == Settle /\ UNCHANGED <<searchVars, sent>>

FindNext ==
  \/ Setup
  \/ Settlement
  \/ \E p \in Players : Search(p) \/ GiveUp(p)
  \/ \E tx \in sent : Executed(tx) \/ Dropped(tx)

FindSpec == FindInit /\ [][FindNext]_findVars

(* Searches go on, transactions are executed or refused, L1 applies commits. *)
FindFairness ==
  /\ \A p \in Players :
       WF_findVars(Search(p)) /\ WF_findVars(\E tx \in SentBy(p) : Executed(tx) \/ Dropped(tx))
  /\ WF_findVars(Settlement)
-----------------------------------------------------------------------------
(* Properties. *)

(* The types, and that a search reports nothing but the match it ends with,  *)
(* and never flushes nothing.                                                *)
FindTypeOK ==
  /\ step \in [Players -> Steps]
  /\ \A p \in Players :
       /\ result[p].matchId \in 0..MaxMatches
       /\ step[p] = "matched" <=> result[p] # NoResult
       /\ toFlush[p] \in Seq(Players)
       /\ step[p] = "flush" => toFlush[p] # <<>>
       /\ searches[p] \in 0..MaxSearches[p]
  /\ \A tx \in sent : tx.by \in Players /\ tx.call \in Calls

(* The two sides of a match that were told of it name one another and take   *)
(* different roles, so that they derive the same game session and one of     *)
(* them starts it (lines 299-303; useGameSession.ts:90-92).                  *)
SidesAgree ==
  \A p, q \in Players :
    p # q /\ result[p] # NoResult /\ result[p].matchId = result[q].matchId =>
      /\ result[p].opponent = q /\ result[q].opponent = p
      /\ result[p].role # result[q].role

(* A reported match stays on the ticket L1 shows, which is what the game     *)
(* program will read (start_game_with_ticket), whatever older calls of the   *)
(* player, a late cancelTicket or closeTicket among them, are still to be    *)
(* executed.                                                                 *)
ReportStands ==
  \A p \in Players :
    result[p] # NoResult => l1[p] = Matched(result[p].opponent, result[p].matchId)

(* Whoever is told of a match has an opponent whose ticket says so too, or   *)
(* is still to be told so by a pending match: not even the opponent's later  *)
(* searches undo it.                                                         *)
OpponentBound ==
  \A p \in Players :
    LET q == result[p].opponent  n == result[p].matchId IN
    result[p] # NoResult =>
      \/ ticket[q] = Matched(p, n)
      \/ [player |-> q, opponent |-> p, matchId |-> n] \in ToSet(pending)

(* A search reports a match of its own, never one an earlier search of the   *)
(* player has reported ("Clean up any stale ticket", line 84; "Create fresh  *)
(* MatchTicket on L1", line 143).  The code disagrees: a ticket that was     *)
(* delegated stays, and the next search finds the old match on it.           *)
NoMatchReportedTwice == \A p \in Players : result[p].matchId \notin earlier[p]

(* Both players of a match are told of it, if their transactions are         *)
(* executed at once and they wait as long as it takes ("Commit all matched   *)
(* tickets back to L1", line 252; "other player may handle it", line 269).   *)
(* The code disagrees: who reads the queue after somebody else has flushed   *)
(* it finds nothing pending and does not commit its own ticket, and nobody   *)
(* else does.                                                                *)
MatchReported ==
  \A n \in 1..MaxMatches :
    LET sides == {events[n].player1, events[n].player2} IN
    (n \in DOMAIN events /\ sides \subseteq Prompt)
      ~> (n \in DOMAIN events /\ \A p \in sides : result[p].matchId = n)
=============================================================================
