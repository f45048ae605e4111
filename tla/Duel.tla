------------------------------- MODULE Duel -------------------------------
(***************************************************************************)
(* The on-chain matchmaking program, src/programs/duel/src/lib.rs: one     *)
(* tenant, its queue account, and one match ticket per player.             *)
(*                                                                         *)
(* An account lives on the base layer (L1) until it is delegated; from     *)
(* then on the authoritative copy is the one in the TEE rollup and L1 only *)
(* shows what was last committed.  An instruction is atomic: it succeeds   *)
(* as a whole or, on any error, leaves every account as it was, so a       *)
(* failing call is a stuttering step.  An instruction runs on one layer    *)
(* and can write only the accounts whose authoritative copy is there.      *)
(*                                                                         *)
(* `events' is the program's output, the MatchFound log; all other         *)
(* variables are accounts.                                                 *)
(***************************************************************************)
EXTENDS ClosestMatch, FiniteSets, SequencesExt

CONSTANTS
  Players,       \* the wallets that play
  Nobody,        \* the opponent of a ticket that has none
  Elos,          \* ELO values a player's profile can hold
  EloWindow,     \* Tenant.elo_window
  EntrySize,     \* bytes of a QueueEntry in the account (40)
  MatchSize,     \* bytes of a MatchEntry (80)
  PendingSize,   \* bytes of a PendingMatch (72)
  Capacity,      \* bytes the three vectors share (Queue::LEN: 6240)
  MaxRecent,     \* length of the list of recent matches (10)
  MaxMatches,    \* largest value of match_counter (a checked u64)
  MaxAccounts,   \* ticket accounts a transaction has room for
  MaxInflight,   \* bound: commits on their way to L1
  Callbacks      \* bound: whether the tenant may be given a callback

ASSUME NobodyAssumption == Nobody \notin Players
ASSUME ElosAssumption == Elos \subseteq Nat /\ EloWindow \in Nat
ASSUME SizesAssumption ==
  /\ EntrySize \in Nat /\ MatchSize \in Nat /\ PendingSize \in Nat
  /\ Capacity \in Nat
ASSUME BoundsAssumption ==
  /\ MaxRecent \in Nat \ {0} /\ MaxMatches \in Nat
  /\ MaxAccounts \in Nat /\ MaxInflight \in Nat /\ Callbacks \subseteq BOOLEAN

VARIABLES
  tenant,     \* the tenant account: absent, or initialised without or with a callback
  queue,      \* where the queue account lives: nowhere, on L1, in the TEE
  entries,    \* Queue.entries: players waiting for a match
  matches,    \* Queue.matches: the most recent matches
  pending,    \* Queue.pending_matches: outcomes not yet written to a ticket
  counter,    \* Queue.match_counter
  ticket,     \* the authoritative copy of each player's ticket
  delegated,  \* players whose ticket is delegated to the TEE
  l1,         \* the copy of each ticket that L1 shows
  inflight,   \* commits accepted by the TEE and not yet applied on L1
  events      \* the MatchFound events emitted so far

queueVars == <<queue, entries, matches, pending, counter>>
ticketVars == <<ticket, delegated, l1>>
vars == <<tenant, queueVars, ticketVars, inflight, events>>

-----------------------------------------------------------------------------
(* Tickets.  Absent stands for a PDA with no account behind it. *)

Absent == [status |-> "Absent", opponent |-> Nobody, matchId |-> 0]
Searching == [status |-> "Searching", opponent |-> Nobody, matchId |-> 0]
Cancelled == [status |-> "Cancelled", opponent |-> Nobody, matchId |-> 0]
Matched(q, id) == [status |-> "Matched", opponent |-> q, matchId |-> id]

Tickets ==
  {Absent, Searching, Cancelled} \cup
  {Matched(q, id) : q \in Players, id \in 1..MaxMatches}

Entries == [player : Players, elo : Elos]
Matches == [player1 : Players, player2 : Players, matchId : 1..MaxMatches]
PendingMatches == [player : Players, opponent : Players, matchId : 1..MaxMatches]
Events == [player1 : Players, player2 : Players, elo1 : Elos, elo2 : Elos,
           called : BOOLEAN]

(* What one commit carries: the tickets of some players. *)
Commits == UNION {[S -> Tickets] : S \in SUBSET Players}

(* The layer on which player p's ticket can be written. *)
Layer(p) == IF p \in delegated THEN "TEE" ELSE "L1"

(* p's ticket exists on the layer of the queue: one instruction can write both. *)
WithQueue(p) == ticket[p] # Absent /\ Layer(p) = queue

(* Tickets become `new': L1 sees at once what is not delegated. *)
WriteTickets(new) ==
  /\ ticket' = new
  /\ l1' = [p \in Players |-> IF p \in delegated THEN l1[p] ELSE new[p]]

(* The three vectors of the queue share the space the account was given. *)
Fits(es, ms, ps) ==
  EntrySize * Len(es) + MatchSize * Len(ms) + PendingSize * Len(ps) <= Capacity

-----------------------------------------------------------------------------
(* The tenant and the queue. *)

InitializeTenant(callback) ==
  /\ tenant = "absent"
  /\ tenant' = IF callback THEN "callback" ELSE "plain"
  /\ UNCHANGED <<queueVars, ticketVars, inflight, events>>

InitializeQueue ==
  /\ tenant # "absent"
  /\ queue = "absent"
  /\ queue' = "L1"
  /\ counter' = 0
  /\ UNCHANGED <<tenant, entries, matches, pending, ticketVars, inflight, events>>

DelegateQueue ==
  /\ queue = "L1"
  /\ queue' = "TEE"
  /\ UNCHANGED <<tenant, entries, matches, pending, counter, ticketVars, inflight, events>>

-----------------------------------------------------------------------------
(* The life of a ticket. *)

CreateTicket(p) ==
  /\ tenant # "absent"
  /\ ticket[p] = Absent
  /\ WriteTickets([ticket EXCEPT ![p] = Searching])
  /\ UNCHANGED <<tenant, queueVars, delegated, inflight, events>>

DelegateTicket(p) ==
  /\ ticket[p] # Absent
  /\ p \notin delegated
  /\ delegated' = delegated \cup {p}
  /\ UNCHANGED <<tenant, queueVars, ticket, l1, inflight, events>>

(* Sensitivity variant: cancel_ticket without its status check. *)
CancelTicketUnchecked(p) ==
  /\ ticket[p] # Absent
  /\ WriteTickets([ticket EXCEPT ![p] = Cancelled])
  /\ UNCHANGED <<tenant, queueVars, delegated, inflight, events>>

CancelTicket(p) ==
  /\ ticket[p] = Searching
  /\ WriteTickets([ticket EXCEPT ![p] = Cancelled])
  /\ UNCHANGED <<tenant, queueVars, delegated, inflight, events>>

(* Only an account the program owns can be closed: never a delegated one. *)
CloseTicket(p) ==
  /\ p \notin delegated
  /\ ticket[p].status \in {"Matched", "Cancelled"}
  /\ WriteTickets([ticket EXCEPT ![p] = Absent])
  /\ UNCHANGED <<tenant, queueVars, delegated, inflight, events>>

-----------------------------------------------------------------------------
(* join_queue. *)

(* No entry in the window: the new player waits. *)
Wait(p, elo) ==
  /\ Candidates(entries, elo, EloWindow) = {}
  /\ entries' = Append(entries, [player |-> p, elo |-> elo])
  /\ UNCHANGED <<matches, pending, counter, ticket, l1, events>>

(* Sensitivity variant: the list of recent matches one too long. *)
KeepRecentOneMore(ms) ==
  IF Len(ms) > MaxRecent + 1 THEN RemoveAt(ms, 1) ELSE ms

KeepRecent(ms) == IF Len(ms) > MaxRecent THEN RemoveAt(ms, 1) ELSE ms

(* Sensitivity variant: entries.remove(best_idx) forgotten. *)
WithoutNewcomer(es, newcomer, best) == RemoveAt(es, newcomer)

(* Sensitivity variant: the second index not that of the newcomer, but of   *)
(* whoever has moved to where the opponent was.                              *)
WithoutSuccessor(es, newcomer, best) == RemoveAt(RemoveAt(es, best), best)

(* Both leave the queue, "higher index first": the newcomer is the last. *)
WithoutBoth(es, newcomer, best) == RemoveAt(RemoveAt(es, newcomer), best)

(* Sensitivity variant: the pending match points the opponent at itself. *)
OwedSwapped(waiting, p, id) ==
  [player |-> p, opponent |-> waiting, matchId |-> id]

(* Sensitivity variant: the waiting player named as its own opponent. *)
OwedSelf(waiting, p, id) ==
  [player |-> waiting, opponent |-> waiting, matchId |-> id]

(* What the opponent's ticket is to be told. *)
Owed(waiting, p, id) ==
  [player |-> waiting, opponent |-> p, matchId |-> id]

(* Sensitivity variant: match_counter read before it is incremented. *)
NewMatchIdStale == counter

NewMatchId == counter + 1

(* The tenant's callback runs iff it has one and the call lists its program; *)
(* a callback that fails fails the whole call.                               *)
Pair(p, elo, i, listed) ==
  LET other == entries[i]
      id == NewMatchId
      pushed == Append(entries, [player |-> p, elo |-> elo])
  IN /\ IsBestMatch(i, entries, elo, EloWindow)
     /\ counter < MaxMatches
     /\ counter' = counter + 1
     /\ matches' = KeepRecent(Append(matches,
          [player1 |-> p, player2 |-> other.player, matchId |-> id]))
     /\ WriteTickets([ticket EXCEPT ![p] = Matched(other.player, id)])
     /\ pending' = Append(pending, Owed(other.player, p, id))
     /\ entries' = WithoutBoth(pushed, Len(pushed), i)
     /\ events' = Append(events,
          [player1 |-> p, player2 |-> other.player, elo1 |-> elo,
           elo2 |-> other.elo, called |-> tenant = "callback" /\ listed])

JoinQueue(p, elo, listed) ==
  /\ queue # "absent"
  /\ WithQueue(p)
  /\ ticket[p] = Searching
  /\ Wait(p, elo) \/ \E i \in DOMAIN entries : Pair(p, elo, i, listed)
  /\ Fits(entries', matches', pending')
  /\ UNCHANGED <<tenant, queue, delegated, inflight>>

-----------------------------------------------------------------------------
(* flush_matches and commit_tickets. *)

(* Sensitivity variant: the unprocessed matches are not put back. *)
UnprocessedDropped(n) == <<>>

Unprocessed(n) == SubSeq(pending, n + 1, Len(pending))

(* Sensitivity variant: the PDA check left out. *)
RightTicketUnchecked(p, pm) == TRUE

RightTicket(p, pm) == p = pm.player

(* The accounts are taken in the order of the pending matches, as many as   *)
(* there are of both.  A ticket named twice is no longer Searching the       *)
(* second time, which fails the call.  An empty list changes nothing.        *)
FlushMatches(accounts) ==
  LET n == IF Len(accounts) <= Len(pending) THEN Len(accounts) ELSE Len(pending)
      Turn(p) == {k \in 1..n : accounts[k] = p}
  IN /\ n > 0
     /\ \A k \in 1..n :
          /\ RightTicket(accounts[k], pending[k])
          /\ WithQueue(accounts[k])
          /\ ticket[accounts[k]] = Searching
          /\ Turn(accounts[k]) = {k}
     /\ pending' = Unprocessed(n)
     /\ WriteTickets([p \in Players |->
          IF Turn(p) = {} THEN ticket[p]
          ELSE LET pm == pending[CHOOSE k \in Turn(p) : TRUE]
               IN Matched(pm.opponent, pm.matchId)])
     /\ UNCHANGED <<tenant, queue, entries, matches, counter, delegated, inflight, events>>

(* Any set of delegated tickets, whatever their status, is snapshotted. *)
CommitTickets(players) ==
  /\ players # {}
  /\ players \subseteq delegated
  /\ Len(inflight) < MaxInflight
  /\ inflight' = Append(inflight, [p \in players |-> ticket[p]])
  /\ UNCHANGED <<tenant, queueVars, ticketVars, events>>

(* Sensitivity variant: the newest commit applied first. *)
NextCommitNewest == Len(inflight)

(* L1 applies the commits of an account in the order they were made. *)
NextCommit == 1

Settle ==
  /\ inflight # <<>>
  /\ l1' = [p \in Players |->
              IF p \in DOMAIN inflight[NextCommit]
              THEN inflight[NextCommit][p] ELSE l1[p]]
  /\ inflight' = RemoveAt(inflight, NextCommit)
  /\ UNCHANGED <<tenant, queueVars, ticket, delegated, events>>

-----------------------------------------------------------------------------
Init ==
  /\ tenant = "absent"
  /\ queue = "absent"
  /\ entries = <<>>
  /\ matches = <<>>
  /\ pending = <<>>
  /\ counter = 0
  /\ ticket = [p \in Players |-> Absent]
  /\ delegated = {}
  /\ l1 = ticket
  /\ inflight = <<>>
  /\ events = <<>>

Admin ==
  \/ \E callback \in Callbacks : InitializeTenant(callback)
  \/ InitializeQueue
  \/ DelegateQueue

Player(p) ==
  \/ CreateTicket(p)
  \/ DelegateTicket(p)
  \/ CancelTicket(p)
  \/ CloseTicket(p)
  \/ \E elo \in Elos, listed \in BOOLEAN : JoinQueue(p, elo, listed)

Crank ==
  \/ \E accounts \in SeqOf(Players, MaxAccounts) : FlushMatches(accounts)
  \/ \E players \in SUBSET Players : CommitTickets(players)

Next == Admin \/ (\E p \in Players : Player(p)) \/ Crank \/ Settle

Spec == Init /\ [][Next]_vars

-----------------------------------------------------------------------------
(* Properties. *)

TypeOK ==
  /\ tenant \in {"absent", "plain", "callback"}
  /\ queue \in {"absent", "L1", "TEE"}
  /\ entries \in Seq(Entries)
  /\ matches \in Seq(Matches)
  /\ pending \in Seq(PendingMatches)
  /\ counter \in 0..MaxMatches
  /\ ticket \in [Players -> Tickets]
  /\ delegated \subseteq Players
  /\ l1 \in [Players -> Tickets]
  /\ inflight \in Seq(Commits)
  /\ events \in Seq(Events)

(* No two waiting players could be matched with each other: whoever can be   *)
(* matched has been, although join_queue compares only the newcomer with the *)
(* others ("no one is left unmatched", tests/stress-elo.ts:12).              *)
QueueSeparated ==
  \A i, j \in DOMAIN entries :
    i # j => Distance(entries[i].elo, entries[j].elo) > EloWindow

(* What a copy t of p's ticket says is a match of the log, with p in it and  *)
(* against the opponent p has there.                                         *)
TellsTruth(p, t, log) ==
  t.status = "Matched" =>
    /\ t.matchId \in DOMAIN log
    /\ \/ log[t.matchId].player1 = p /\ log[t.matchId].player2 = t.opponent
       \/ log[t.matchId].player2 = p /\ log[t.matchId].player1 = t.opponent

(* Every copy of a ticket, in the TEE, on L1 or on its way there, tells the  *)
(* truth about a match that was made; so the two tickets of a match name     *)
(* each other and the same id.                                               *)
TicketsHonest ==
  \A p \in Players :
    /\ TellsTruth(p, ticket[p], events)
    /\ TellsTruth(p, l1[p], events)
    /\ \A k \in DOMAIN inflight :
         p \in DOMAIN inflight[k] => TellsTruth(p, inflight[k][p], events)

(* A pending match is in the log, and waits for the one who was queueing.    *)
WasMade(pm, log) ==
  /\ pm.matchId \in DOMAIN log
  /\ log[pm.matchId].player1 = pm.opponent
  /\ log[pm.matchId].player2 = pm.player

(* A pending match was made, is there once and in the order of the matches,  *)
(* and has not been delivered yet (lines 339-344 and 403-478); a player      *)
(* matched with itself is the exception, its only ticket already says so.    *)
PendingHonest ==
  /\ \A k \in DOMAIN pending :
       /\ WasMade(pending[k], events)
       /\ ticket[pending[k].player].matchId = pending[k].matchId =>
            pending[k].player = pending[k].opponent
  /\ \A j, k \in DOMAIN pending :
       j < k => pending[j].matchId < pending[k].matchId

(* Queue.matches is the end of the log of matches, at most MaxRecent long.   *)
RecentMatches ==
  /\ Len(matches) = IF counter <= MaxRecent THEN counter ELSE MaxRecent
  /\ \A k \in DOMAIN matches :
       LET id == counter - Len(matches) + k IN
       matches[k] = [player1 |-> events[id].player1,
                     player2 |-> events[id].player2, matchId |-> id]

(* An outcome L1 shows or is about to show for a delegated ticket is the     *)
(* outcome of the ticket: a commit never outlives what it copied.            *)
SettledAgrees ==
  \A p \in delegated :
    /\ l1[p] = Searching \/ l1[p] = ticket[p]
    /\ \A k \in DOMAIN inflight :
         p \in DOMAIN inflight[k] =>
           inflight[k][p] = Searching \/ inflight[k][p] = ticket[p]

(* Matched and Cancelled are final: such a ticket can only be closed.        *)
OutcomeFinal ==
  [][\A p \in Players :
       ticket[p].status \in {"Matched", "Cancelled"} =>
         ticket'[p] \in {ticket[p], Absent}]_vars

(* What a client polling L1 has seen of a delegated ticket is never taken    *)
(* back by a later commit.                                                   *)
L1NeverRetracts ==
  [][\A p \in delegated :
       l1[p].status \in {"Matched", "Cancelled"} => l1'[p] = l1[p]]_vars

(* A pending match leaves the queue only by being written to the ticket of   *)
(* the player it is for (lines 405, 418-426 and 455-468).                    *)
PendingOnlyDelivered ==
  [][\A k \in DOMAIN pending :
       \/ pending[k] \in ToSet(pending')
       \/ ticket'[pending[k].player] =
            Matched(pending[k].opponent, pending[k].matchId)]_vars

(* The program keeps the promises of module Matchmaking.                     *)
Promise == INSTANCE Matchmaking WITH
  Unknown <- 0,
  waiting <- ToSet(entries),
  made <- [id \in DOMAIN events |->
             [player1 |-> events[id].player1, player2 |-> events[id].player2,
              elo1 |-> events[id].elo1, elo2 |-> events[id].elo2]],
  owed <- {[player |-> pm.player, match |-> pm.matchId] : pm \in ToSet(pending)},
  outcome <- [p \in Players |-> ticket[p].matchId]

KeepsPromise == Promise!Spec
=============================================================================
