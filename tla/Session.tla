------------------------------ MODULE Session ------------------------------
(***************************************************************************)
(* The SDK around the program: players running enterQueue and pollForMatch *)
(* (sdk/src/player.ts) and operators running resolveMatches                *)
(* (sdk/src/admin.ts), all against the accounts of module Duel.            *)
(*                                                                         *)
(* A call of the SDK sends one transaction at a time and waits for it      *)
(* (sendInstruction, sdk/src/transaction.ts).  The wait ends in one of     *)
(* three ways: the transaction is seen to have succeeded; it is seen to    *)
(* have failed or could not be sent; or eight seconds pass with no status, *)
(* in which case the call throws although the transaction may have been    *)
(* executed or may still be.                                               *)
(***************************************************************************)
EXTENDS Duel

CONSTANTS
  Operators,   \* those who run resolveMatches
  Unconfirmed, \* bound: players whose confirmations may time out
  Retrying,    \* players who retry a failed joinQueue once
  Cancelling   \* players who may cancel their search

ASSUME SessionAssumption ==
  Unconfirmed \cup Retrying \cup Cancelling \subseteq Players

VARIABLES
  stage,     \* how far each player's client is
  late,      \* <<player, call>> given up on by the client, not executed yet
  found,     \* what pollForMatch returned to each player, Searching before
  resolving, \* how far each operator's resolveMatches is
  toFlush,   \* the pending players an operator read from the queue
  toCommit   \* the tickets an operator's resolveMatches was asked to commit

clientVars == <<stage, late, found>>
operatorVars == <<resolving, toFlush, toCommit>>
sessionVars == <<vars, clientVars, operatorVars>>

-----------------------------------------------------------------------------
(* Players. *)

Calls == {"create", "setup", "permit", "delegate", "join", "rejoin"}

Stages == Calls \cup {"poll", "found", "timedOut", "failed", "left"}

(* The call that follows when one is confirmed. *)
Following(call) ==
  CASE call = "create" -> "setup"
    [] call = "setup" -> "permit"
    [] call = "permit" -> "delegate"
    [] call = "delegate" -> "join"
    [] call \in {"join", "rejoin"} -> "poll"

(* Setting up the ticket's permission and delegating it change no account   *)
(* of this model.                                                           *)
Execute(p, call) ==
  CASE call = "create" -> CreateTicket(p)
    [] call \in {"setup", "permit"} -> ticket[p] # Absent /\ UNCHANGED vars
    [] call = "delegate" -> DelegateTicket(p)
    [] call \in {"join", "rejoin"} ->
         \E elo \in Elos, listed \in BOOLEAN : JoinQueue(p, elo, listed)

(* A call is confirmed: enterQueue goes on with the next one. *)
Confirmed(p) ==
  /\ stage[p] \in Calls
  /\ Execute(p, stage[p])
  /\ stage' = [stage EXCEPT ![p] = Following(stage[p])]
  /\ UNCHANGED <<late, found, operatorVars>>

(* Sensitivity variant: every failed joinQueue is sent again. *)
AfterFailureRetry(p) == IF stage[p] = "join" THEN "rejoin" ELSE "failed"

(* A call throws; joinQueue may be tried once more. *)
AfterFailure(p) ==
  IF stage[p] = "join" /\ p \in Retrying THEN "rejoin" ELSE "failed"

Rejected(p) ==
  /\ p \in Unconfirmed
  /\ stage[p] \in Calls
  /\ stage' = [stage EXCEPT ![p] = AfterFailure(p)]
  /\ UNCHANGED <<vars, late, found, operatorVars>>

(* No status after eight seconds: the call throws, the transaction remains. *)
ConfirmationTimeout(p) ==
  /\ p \in Unconfirmed
  /\ stage[p] \in Calls
  /\ stage' = [stage EXCEPT ![p] = AfterFailure(p)]
  /\ late' = late \cup {<<p, stage[p]>>}
  /\ UNCHANGED <<vars, found, operatorVars>>

LateExecution(p, call) ==
  /\ <<p, call>> \in late
  /\ Execute(p, call)
  /\ late' = late \ {<<p, call>>}
  /\ UNCHANGED <<stage, found, operatorVars>>

(* The blockhash of the transaction expires, or the program refuses it. *)
LateDrop(p, call) ==
  /\ <<p, call>> \in late
  /\ late' = late \ {<<p, call>>}
  /\ UNCHANGED <<vars, stage, found, operatorVars>>

(* pollForMatch reads the copy on L1, delegated or not. *)
PollFinds(p) ==
  /\ stage[p] = "poll"
  /\ l1[p].status = "Matched"
  /\ found' = [found EXCEPT ![p] = l1[p]]
  /\ stage' = [stage EXCEPT ![p] = "found"]
  /\ UNCHANGED <<vars, late, operatorVars>>

(* Sixty attempts go by. *)
PollTimesOut(p) ==
  /\ p \in Unconfirmed
  /\ stage[p] = "poll"
  /\ stage' = [stage EXCEPT ![p] = "timedOut"]
  /\ UNCHANGED <<vars, late, found, operatorVars>>

CancelSearch(p) ==
  /\ p \in Cancelling
  /\ stage[p] \in {"poll", "timedOut", "failed"}
  /\ CancelTicket(p)
  /\ stage' = [stage EXCEPT ![p] = "left"]
  /\ UNCHANGED <<late, found, operatorVars>>

-----------------------------------------------------------------------------
(* Operators. *)

(* Sensitivity variant: only the tickets of those who joined last. *)
ParticipantsJoining == {events[n].player1 : n \in DOMAIN events}

(* The tickets to commit are the caller's: those of the players matched so  *)
(* far, as docs/integration-guide.md:292 has it.                            *)
Participants == UNION {{events[n].player1, events[n].player2} : n \in DOMAIN events}

(* Sensitivity variant: the flush is sent even when nothing is pending. *)
AfterReadingFlush == "flush"

(* Nothing pending, nothing to flush. *)
AfterReading == IF pending = <<>> THEN "commit" ELSE "flush"

ReadPending(o) ==
  /\ resolving[o] = "idle"
  /\ events # <<>>
  /\ toFlush' = [toFlush EXCEPT ![o] = [k \in DOMAIN pending |-> pending[k].player]]
  /\ toCommit' = [toCommit EXCEPT ![o] = Participants]
  /\ resolving' = [resolving EXCEPT ![o] = AfterReading]
  /\ UNCHANGED <<vars, clientVars>>

(* flush_matches with what was read before, whatever is pending by now; an  *)
(* empty queue of pending matches is no error.                              *)
FlushRead(o) ==
  /\ resolving[o] = "flush"
  /\ Len(toFlush[o]) <= MaxAccounts
  /\ FlushMatches(toFlush[o]) \/ (pending = <<>> /\ UNCHANGED vars)
  /\ UNCHANGED <<clientVars, toFlush, toCommit>>

FlushConfirmed(o) ==
  /\ FlushRead(o)
  /\ resolving' = [resolving EXCEPT ![o] = "commit"]

FlushUnconfirmed(o) ==
  /\ FlushRead(o)
  /\ resolving' = [resolving EXCEPT ![o] = "idle"]

CommitRead(o) ==
  /\ resolving[o] = "commit"
  /\ CommitTickets(toCommit[o])
  /\ resolving' = [resolving EXCEPT ![o] = "idle"]
  /\ UNCHANGED <<clientVars, toFlush, toCommit>>

(* The flush or the commit throws, and resolveMatches with it. *)
ResolveThrows(o) ==
  /\ resolving[o] \in {"flush", "commit"}
  /\ resolving' = [resolving EXCEPT ![o] = "idle"]
  /\ UNCHANGED <<vars, clientVars, toFlush, toCommit>>

-----------------------------------------------------------------------------
SessionInit ==
  /\ Init
  /\ stage = [p \in Players |-> "create"]
  /\ late = {}
  /\ found = [p \in Players |-> Searching]
  /\ resolving = [o \in Operators |-> "idle"]
  /\ toFlush = [o \in Operators |-> <<>>]
  /\ toCommit = [o \in Operators |-> {}]

Client(p) ==
  \/ Confirmed(p)
  \/ Rejected(p)
  \/ ConfirmationTimeout(p)
  \/ \E call \in Calls : LateExecution(p, call) \/ LateDrop(p, call)
  \/ PollFinds(p)
  \/ PollTimesOut(p)
  \/ CancelSearch(p)

Operator(o) ==
  \/ ReadPending(o)
  \/ FlushConfirmed(o)
  \/ FlushUnconfirmed(o)
  \/ CommitRead(o)
  \/ ResolveThrows(o)

Setup == Admin /\ UNCHANGED <<clientVars, operatorVars>>

Settlement == Settle /\ UNCHANGED <<clientVars, operatorVars>>

SessionNext ==
  \/ Setup
  \/ \E p \in Players : Client(p)
  \/ \E o \in Operators : Operator(o)
  \/ Settlement

SessionSpec == SessionInit /\ [][SessionNext]_sessionVars

(* Operators keep calling resolveMatches, their transactions do not fail    *)
(* forever when the program would accept them, and L1 applies every commit. *)
(* Nothing is assumed of the players.                                       *)
OperatorFairness ==
  /\ \A o \in Operators :
       /\ WF_sessionVars(ReadPending(o))
       /\ SF_sessionVars(FlushConfirmed(o))
       /\ SF_sessionVars(CommitRead(o))
       /\ WF_sessionVars(ResolveThrows(o))
  /\ WF_sessionVars(Settlement)

FairSession == SessionSpec /\ OperatorFairness
-----------------------------------------------------------------------------
(* Properties. *)

(* The types, and that no operator sends an empty flush or commit.           *)
SessionTypeOK ==
  /\ stage \in [Players -> Stages]
  /\ late \subseteq Players \X Calls
  /\ found \in [Players -> Tickets]
  /\ resolving \in [Operators -> {"idle", "flush", "commit"}]
  /\ \A o \in Operators :
       /\ toFlush[o] \in Seq(Players) /\ toCommit[o] \subseteq Players
       /\ resolving[o] = "flush" => toFlush[o] # <<>>
       /\ resolving[o] # "idle" => toCommit[o] # {}

(* Two clients that were each told of a match and name one another were told *)
(* of the same one, and a client is never told of an opponent who was told   *)
(* of somebody else, unless one of them retried (enterQueue and pollForMatch, *)
(* against any number of operators resolving at once).                       *)
FoundMutual ==
  \A p \in Players \ Retrying :
    LET q == found[p].opponent IN
    found[p] # Searching =>
      /\ found[p] = ticket[p]
      /\ q # p
      /\ q \notin Retrying /\ found[q] # Searching =>
           found[q] = Matched(p, found[p].matchId)

(* Players who do not retry are in one match at most and never their own     *)
(* opponent, although join_queue itself does not check whether its caller is *)
(* already waiting or already matched (lines 202-264), and whatever happens  *)
(* to those who do retry.                                                    *)
OneMatchEach ==
  \A p \in Players \ Retrying :
    \A m, n \in DOMAIN events :
      /\ ~ (events[n].player1 = p /\ events[n].player2 = p)
      /\ p \in {events[m].player1, events[m].player2}
            /\ p \in {events[n].player1, events[n].player2} => m = n

ShownOnL1(p, n) == l1[p].status = "Matched" /\ l1[p].matchId = n

BothShown(n) ==
  /\ n \in DOMAIN events
  /\ ShownOnL1(events[n].player1, n)
  /\ ShownOnL1(events[n].player2, n)

MadeWithoutCancelling(n) ==
  /\ n \in DOMAIN events
  /\ {events[n].player1, events[n].player2} \cap Cancelling = {}

(* Every match in which nobody cancels is shown on L1 on both tickets, once  *)
(* operators resolve ("so players can see their results",                    *)
(* docs/integration-guide.md:282 and 296).                                   *)
ResultsReachL1 ==
  \A n \in 1..MaxMatches : MadeWithoutCancelling(n) ~> BothShown(n)

(* The queue's account has room for the match of any player who waits (one   *)
(* entry goes, a recent match and an outcome owed are added), if it would     *)
(* have it with the list of recent matches full and nothing owed before.     *)
RoomForMatch ==
  \A i \in DOMAIN entries :
    LET others == RemoveAt(entries, i)
    IN Fits(others, [k \in 1..MaxRecent |-> NewMatchId], <<NewMatchId>>) =>
         Fits(others, KeepRecent(Append(matches, NewMatchId)), Append(pending, NewMatchId))

(* Outcomes owed, recent matches and those who wait share one account        *)
(* (Queue::LEN, duel/src/lib.rs:739-747), so undelivered outcomes may leave  *)
(* no room for a match, and joins fail.  Where nobody cancels that passes    *)
(* once operators resolve, time and again; only those who wait can take up   *)
(* the room for good.                                                        *)
RoomReturns == []<>RoomForMatch

=============================================================================
