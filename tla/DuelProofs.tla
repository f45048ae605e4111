----------------------------- MODULE DuelProofs -----------------------------
(***************************************************************************)
(* Theorems about Duel, for any number of players and matches, any ELO     *)
(* values and window, and accounts of any size.                            *)
(***************************************************************************)
EXTENDS Duel, SequenceTheorems, TLAPS

-----------------------------------------------------------------------------
(* Lemmas about the operators of the model. *)

(* abs_diff is a natural number and symmetric. *)
LEMMA DistanceProperties ==
  ASSUME NEW x \in Nat, NEW y \in Nat
  PROVE  Distance(x, y) \in Nat /\ Distance(x, y) = Distance(y, x)
BY DEF Distance

(* Removing an element keeps the others, in order. *)
LEMMA RemoveAtProperties ==
  ASSUME NEW S, NEW s \in Seq(S), NEW i \in 1..Len(s)
  PROVE  /\ RemoveAt(s, i) \in Seq(S)
         /\ Len(RemoveAt(s, i)) = Len(s) - 1
         /\ \A j \in 1..Len(s) - 1 :
              RemoveAt(s, i)[j] = IF j < i THEN s[j] ELSE s[j + 1]
<1> DEFINE before == SubSeq(s, 1, i - 1)
           after == SubSeq(s, i + 1, Len(s))
<1>1. Len(s) \in Nat /\ i \in Nat /\ 1 <= i /\ i <= Len(s)
  BY LenProperties
<1>2. /\ before \in Seq(S) /\ Len(before) = i - 1
      /\ \A j \in 1..i - 1 : before[j] = s[j]
  BY <1>1, SubSeqProperties
<1>3. /\ after \in Seq(S) /\ Len(after) = Len(s) - i
      /\ \A j \in 1..Len(s) - i : after[j] = s[i + j]
  BY <1>1, SubSeqProperties
<1> HIDE DEF before, after
<1>4. /\ before \o after \in Seq(S)
      /\ Len(before \o after) = Len(s) - 1
      /\ \A j \in 1..Len(s) - 1 :
           (before \o after)[j] =
             IF j <= i - 1 THEN before[j] ELSE after[j - (i - 1)]
  <2>1. Len(before) + Len(after) = Len(s) - 1
    BY <1>1, <1>2, <1>3
  <2>2. /\ before \o after \in Seq(S)
        /\ Len(before \o after) = Len(before) + Len(after)
        /\ \A j \in 1..Len(before) + Len(after) :
             (before \o after)[j] =
               IF j <= Len(before) THEN before[j] ELSE after[j - Len(before)]
    BY <1>2, <1>3, ConcatProperties
  <2> QED
    BY <2>1, <2>2, <1>2
<1>5. \A j \in 1..Len(s) - 1 :
        (before \o after)[j] = IF j < i THEN s[j] ELSE s[j + 1]
  <2> SUFFICES ASSUME NEW j \in 1..Len(s) - 1
               PROVE  (before \o after)[j] = IF j < i THEN s[j] ELSE s[j + 1]
    OBVIOUS
  <2>1. CASE j < i
    BY <2>1, <1>1, <1>2, <1>4
  <2>2. CASE ~ (j < i)
    <3>1. j - (i - 1) \in 1..Len(s) - i /\ i + (j - (i - 1)) = j + 1
      BY <2>2, <1>1
    <3> QED
      BY <2>2, <3>1, <1>1, <1>3, <1>4
  <2> QED
    BY <2>1, <2>2
<1> QED
  BY <1>4, <1>5 DEF RemoveAt, before, after

(* Dropping the first n elements keeps the others, in order. *)
LEMMA RestProperties ==
  ASSUME NEW S, NEW s \in Seq(S), NEW n \in 1..Len(s)
  PROVE  LET rest == SubSeq(s, n + 1, Len(s)) IN
         /\ rest \in Seq(S)
         /\ DOMAIN rest = 1..Len(s) - n
         /\ \A k \in 1..Len(s) - n : k + n \in DOMAIN s /\ rest[k] = s[k + n]
<1> DEFINE rest == SubSeq(s, n + 1, Len(s))
<1>1. /\ Len(s) \in Nat /\ n \in Nat /\ n >= 1 /\ n <= Len(s)
      /\ DOMAIN s = 1..Len(s)
  BY LenProperties
<1>2. n + 1 \in Int /\ Len(s) \in Int
  BY <1>1
<1>3. \A k \in n + 1..Len(s) : s[k] \in S
  BY <1>1, ElementOfSeq
<1>4. /\ rest \in Seq(S)
      /\ Len(rest) = IF n + 1 <= Len(s) THEN Len(s) - (n + 1) + 1 ELSE 0
      /\ \A k \in 1..Len(s) - (n + 1) + 1 : rest[k] = s[n + 1 + k - 1]
  BY <1>2, <1>3, SubSeqProperties
<1> HIDE DEF rest
<1>5. Len(rest) = Len(s) - n
  <2> DEFINE m == Len(s)
  <2>1. m \in Nat /\ n \in Nat /\ n <= m
    BY <1>1
  <2>2. Len(rest) = IF n + 1 <= m THEN m - (n + 1) + 1 ELSE 0
    BY <1>4
  <2> HIDE DEF m
  <2>3. Len(rest) = m - n
    BY <2>1, <2>2
  <2> QED
    BY <2>3 DEF m
<1>6. DOMAIN rest = 1..Len(s) - n
  BY <1>4, <1>5, LenProperties
<1>7. \A k \in 1..Len(s) - n : k + n \in DOMAIN s /\ rest[k] = s[k + n]
  <2> SUFFICES ASSUME NEW k \in 1..Len(s) - n
               PROVE  k + n \in DOMAIN s /\ rest[k] = s[k + n]
    OBVIOUS
  <2>1. k \in 1..Len(s) - (n + 1) + 1 /\ n + 1 + k - 1 = k + n
    BY <1>1
  <2>2. k + n \in 1..Len(s)
    BY <1>1
  <2>3. rest[k] = s[n + 1 + k - 1]
    BY <2>1, <1>4
  <2> QED
    BY <2>1, <2>2, <2>3, <1>1
<1> QED
  BY <1>4, <1>6, <1>7 DEF rest

(* The four kinds of ticket are tickets. *)
LEMMA TicketKinds ==
  /\ Absent \in Tickets /\ Searching \in Tickets /\ Cancelled \in Tickets
  /\ \A q \in Players, id \in 1..MaxMatches : Matched(q, id) \in Tickets
BY DEF Tickets

(* A ticket that names a match is one of those.                              *)
LEMMA MatchedTicket ==
  ASSUME NEW t \in Tickets, t.status = "Matched"
  PROVE  t = Matched(t.opponent, t.matchId)
BY DEF Tickets, Absent, Searching, Cancelled, Matched

(* Writing well-typed tickets leaves both copies well typed. *)
LEMMA WriteTicketsTyped ==
  ASSUME l1 \in [Players -> Tickets], NEW new \in [Players -> Tickets],
         WriteTickets(new)
  PROVE  ticket' \in [Players -> Tickets] /\ l1' \in [Players -> Tickets]
BY DEF WriteTickets

(* The state of the sequences that SMT needs to know about. *)
LEMMA SequencesTyped ==
  ASSUME TypeOK
  PROVE  /\ entries \in Seq(Entries) /\ Len(entries) \in Nat
         /\ DOMAIN entries = 1..Len(entries)
         /\ pending \in Seq(PendingMatches) /\ Len(pending) \in Nat
         /\ DOMAIN pending = 1..Len(pending)
         /\ events \in Seq(Events) /\ Len(events) \in Nat
         /\ DOMAIN events = 1..Len(events)
         /\ inflight \in Seq(Commits) /\ Len(inflight) \in Nat
         /\ DOMAIN inflight = 1..Len(inflight)
<1>1. /\ entries \in Seq(Entries) /\ pending \in Seq(PendingMatches)
      /\ events \in Seq(Events) /\ inflight \in Seq(Commits)
  BY DEF TypeOK
<1> QED
  BY <1>1, LenProperties

(* Every waiting entry has a player and an ELO. *)
LEMMA EntryTyped ==
  ASSUME TypeOK, NEW i \in DOMAIN entries
  PROVE  entries[i] \in Entries /\ entries[i].player \in Players /\ entries[i].elo \in Elos
<1>1. entries[i] \in Entries
  BY SequencesTyped, ElementOfSeq
<1> QED
  BY <1>1 DEF Entries

(* Every pending match has two players and the id of a match. *)
LEMMA PendingTyped ==
  ASSUME TypeOK, NEW k \in DOMAIN pending
  PROVE  /\ pending[k] \in PendingMatches /\ pending[k].player \in Players
         /\ pending[k].opponent \in Players /\ pending[k].matchId \in 1..MaxMatches
<1>1. pending[k] \in PendingMatches
  BY SequencesTyped, ElementOfSeq
<1> QED
  BY <1>1 DEF PendingMatches

-----------------------------------------------------------------------------
(* Type correctness. *)

(* The list of recent matches stays a list of matches. *)
LEMMA KeepRecentTyped ==
  ASSUME NEW ms \in Seq(Matches)
  PROVE  KeepRecent(ms) \in Seq(Matches)
<1>1. CASE Len(ms) > MaxRecent
  <2>1. 1 \in 1..Len(ms)
    BY <1>1, BoundsAssumption, LenProperties
  <2> QED
    BY <1>1, <2>1, RemoveAtProperties DEF KeepRecent
<1>2. CASE ~ (Len(ms) > MaxRecent)
  BY <1>2 DEF KeepRecent
<1> QED
  BY <1>1, <1>2

(* Whoever is pushed and removed by its index, which is the last, leaves no  *)
(* trace; what is removed after it is the opponent, whose index still holds. *)
LEMMA PairRemoves ==
  ASSUME TypeOK, NEW p \in Players, NEW elo \in Elos, NEW i \in DOMAIN entries,
         NEW listed \in BOOLEAN, Pair(p, elo, i, listed)
  PROVE  entries' = RemoveAt(entries, i)
<1> DEFINE e == [player |-> p, elo |-> elo]
           pushed == Append(entries, e)
           n == Len(pushed)
<1>1. entries \in Seq(Entries) /\ Len(entries) \in Nat
  BY SequencesTyped, LenProperties
<1>2. e \in Entries
  BY DEF Entries
<1>3. /\ pushed \in Seq(Entries) /\ n = Len(entries) + 1
      /\ \A j \in 1..Len(entries) : pushed[j] = entries[j]
  BY <1>1, <1>2, AppendProperties
<1>4. entries' = RemoveAt(RemoveAt(pushed, n), i)
  BY DEF Pair, WithoutBoth
<1> HIDE DEF e, pushed, n
<1>5. Len(pushed) = n
  BY DEF n
<1>6. n \in 1..Len(pushed) /\ Len(pushed) - 1 = Len(entries)
  BY <1>1, <1>3, <1>5
<1>7. /\ RemoveAt(pushed, n) \in Seq(Entries)
      /\ Len(RemoveAt(pushed, n)) = Len(pushed) - 1
      /\ \A j \in 1..Len(pushed) - 1 :
           RemoveAt(pushed, n)[j] = IF j < n THEN pushed[j] ELSE pushed[j + 1]
  BY <1>3, <1>6, RemoveAtProperties
<1>8. \A j \in 1..Len(entries) : RemoveAt(pushed, n)[j] = entries[j]
  BY <1>1, <1>3, <1>6, <1>7
<1>9. RemoveAt(pushed, n) = entries
  BY <1>1, <1>6, <1>7, <1>8, SeqEqual
<1> QED
  BY <1>4, <1>9

(* join_queue with an opponent keeps the types. *)
LEMMA PairTyped ==
  ASSUME TypeOK, NEW p \in Players, NEW elo \in Elos, NEW i \in DOMAIN entries,
         NEW listed \in BOOLEAN, Pair(p, elo, i, listed)
  PROVE  /\ entries' \in Seq(Entries) /\ matches' \in Seq(Matches)
         /\ pending' \in Seq(PendingMatches) /\ counter' \in 0..MaxMatches
         /\ ticket' \in [Players -> Tickets] /\ l1' \in [Players -> Tickets]
         /\ events' \in Seq(Events)
<1> DEFINE q == entries[i].player
           id == counter + 1
<1>1. q \in Players /\ entries[i].elo \in Elos
  BY EntryTyped
<1>2. id \in 1..MaxMatches /\ counter' = id
  BY BoundsAssumption DEF Pair, TypeOK
<1>3. entries' \in Seq(Entries)
  <2>1. i \in 1..Len(entries)
    BY SequencesTyped
  <2> QED
    BY <2>1, SequencesTyped, PairRemoves, RemoveAtProperties
<1>4. matches' \in Seq(Matches)
  <2> DEFINE m == [player1 |-> p, player2 |-> q, matchId |-> id]
  <2>1. m \in Matches
    BY <1>1, <1>2 DEF Matches
  <2>2. matches' = KeepRecent(Append(matches, m))
    BY DEF Pair, NewMatchId
  <2> HIDE DEF m
  <2>3. Append(matches, m) \in Seq(Matches)
    BY <2>1, AppendProperties DEF TypeOK
  <2> QED
    BY <2>2, <2>3, KeepRecentTyped
<1>5. pending' \in Seq(PendingMatches)
  <2>1. Owed(q, p, id) \in PendingMatches
    BY <1>1, <1>2 DEF PendingMatches, Owed
  <2>2. pending' = Append(pending, Owed(q, p, id))
    BY DEF Pair, NewMatchId
  <2> QED
    BY <2>1, <2>2, AppendProperties, SequencesTyped
<1>6. ticket' \in [Players -> Tickets] /\ l1' \in [Players -> Tickets]
  <2>1. Matched(q, id) \in Tickets
    BY <1>1, <1>2, TicketKinds
  <2>2. [ticket EXCEPT ![p] = Matched(q, id)] \in [Players -> Tickets]
    BY <2>1 DEF TypeOK
  <2>3. WriteTickets([ticket EXCEPT ![p] = Matched(q, id)])
    BY DEF Pair, NewMatchId
  <2> QED
    BY <2>2, <2>3, WriteTicketsTyped DEF TypeOK
<1>7. events' \in Seq(Events)
  <2> DEFINE ev == [player1 |-> p, player2 |-> q, elo1 |-> elo, elo2 |-> entries[i].elo,
                    called |-> tenant = "callback" /\ listed]
  <2>1. ev \in Events
    <3>1. (tenant = "callback" /\ listed) \in BOOLEAN
      OBVIOUS
    <3> QED
      BY <1>1, <3>1 DEF Events
  <2>2. events' = Append(events, ev)
    BY DEF Pair
  <2> HIDE DEF ev
  <2> QED
    BY <2>1, <2>2, AppendProperties, SequencesTyped
<1> QED
  BY <1>2, <1>3, <1>4, <1>5, <1>6, <1>7

(* join_queue without one does. *)
LEMMA WaitTyped ==
  ASSUME TypeOK, NEW p \in Players, NEW elo \in Elos, Wait(p, elo)
  PROVE  entries' \in Seq(Entries)
<1>1. [player |-> p, elo |-> elo] \in Entries
  BY DEF Entries
<1> QED
  BY <1>1, SequencesTyped, AppendProperties DEF Wait

(* The accounts of a transaction are a sequence of tickets. *)
LEMMA AccountsTyped ==
  ASSUME NEW accounts \in SeqOf(Players, MaxAccounts)
  PROVE  accounts \in Seq(Players) /\ Len(accounts) \in Nat
<1>1. PICK m \in 0..MaxAccounts : accounts \in [1..m -> Players]
  BY DEF SeqOf
<1>2. m \in Nat
  BY BoundsAssumption
<1> QED
  BY <1>1, <1>2

(* What a successful flush_matches does: the first n pending matches, of n   *)
(* different players who were all Searching, are written to their tickets    *)
(* and leave the queue; everything else is as before.                        *)
LEMMA FlushEffect ==
  ASSUME TypeOK, NEW accounts \in SeqOf(Players, MaxAccounts), FlushMatches(accounts)
  PROVE  \E n \in 1..Len(pending) :
           /\ pending' = SubSeq(pending, n + 1, Len(pending))
           /\ \A j, k \in 1..n : pending[j].player = pending[k].player => j = k
           /\ \A k \in 1..n :
                /\ WithQueue(pending[k].player)
                /\ ticket[pending[k].player] = Searching
                /\ ticket'[pending[k].player] =
                     Matched(pending[k].opponent, pending[k].matchId)
           /\ \A p \in Players :
                (\A k \in 1..n : pending[k].player # p) => ticket'[p] = ticket[p]
           /\ ticket' \in [Players -> Tickets]
           /\ l1' = [p \in Players |-> IF p \in delegated THEN l1[p] ELSE ticket'[p]]
<1> DEFINE n == IF Len(accounts) <= Len(pending) THEN Len(accounts) ELSE Len(pending)
           Turn(p) == {k \in 1..n : accounts[k] = p}
           told(p) == LET pm == pending[CHOOSE k \in Turn(p) : TRUE]
                      IN Matched(pm.opponent, pm.matchId)
           new == [p \in Players |-> IF Turn(p) = {} THEN ticket[p] ELSE told(p)]
<1>1. Len(accounts) \in Nat /\ Len(pending) \in Nat /\ DOMAIN pending = 1..Len(pending)
  BY AccountsTyped, SequencesTyped
<1>2. n \in 1..Len(pending)
  BY <1>1 DEF FlushMatches
<1>3. /\ pending' = SubSeq(pending, n + 1, Len(pending))
      /\ WriteTickets(new)
      /\ \A k \in 1..n :
           /\ accounts[k] = pending[k].player
           /\ WithQueue(accounts[k])
           /\ ticket[accounts[k]] = Searching
           /\ Turn(accounts[k]) = {k}
  BY DEF FlushMatches, Unprocessed, RightTicket
<1> HIDE DEF n
<1>4. \A p \in Players : Turn(p) # {} =>
        \E k \in 1..n : p = pending[k].player /\ Turn(p) = {k}
  BY <1>3
<1>5. \A k \in 1..n : k \in DOMAIN pending
  BY <1>1, <1>2
<1>6. \A k \in 1..n : told(pending[k].player) = Matched(pending[k].opponent, pending[k].matchId)
  <2> SUFFICES ASSUME NEW k \in 1..n
               PROVE  told(pending[k].player) = Matched(pending[k].opponent, pending[k].matchId)
    OBVIOUS
  <2>1. Turn(pending[k].player) = {k}
    BY <1>3
  <2>2. (CHOOSE j \in {k} : TRUE) = k
    OBVIOUS
  <2> QED
    BY <2>1, <2>2
<1>7. \A k \in 1..n : pending[k].player \in Players /\ told(pending[k].player) \in Tickets
  BY <1>5, <1>6, PendingTyped, TicketKinds
<1>8. \A p \in Players : Turn(p) # {} => told(p) \in Tickets
  BY <1>4, <1>7
<1> HIDE DEF told
<1>9. new \in [Players -> Tickets]
  BY <1>8 DEF TypeOK
<1>10. ticket' = new /\ l1' = [p \in Players |-> IF p \in delegated THEN l1[p] ELSE ticket'[p]]
  BY <1>3 DEF WriteTickets
<1>11. \A k \in 1..n : ticket'[pending[k].player] = Matched(pending[k].opponent, pending[k].matchId)
  <2> SUFFICES ASSUME NEW k \in 1..n
               PROVE  ticket'[pending[k].player] = told(pending[k].player)
    BY <1>6
  <2>1. Turn(pending[k].player) = {k}
    BY <1>3
  <2> QED
    BY <2>1, <1>7, <1>10
<1>12. \A p \in Players : (\A k \in 1..n : pending[k].player # p) => ticket'[p] = ticket[p]
  BY <1>4, <1>10
<1>13. \A j, k \in 1..n : pending[j].player = pending[k].player => j = k
  BY <1>3
<1>14. ticket' \in [Players -> Tickets]
  BY <1>9, <1>10
<1> HIDE DEF Turn, new
<1>15. \A k \in 1..n :
         /\ WithQueue(pending[k].player)
         /\ ticket[pending[k].player] = Searching
         /\ ticket'[pending[k].player] = Matched(pending[k].opponent, pending[k].matchId)
  BY <1>3, <1>11
<1> WITNESS n \in 1..Len(pending)
<1> QED
  BY <1>3, <1>10, <1>12, <1>13, <1>14, <1>15

(* flush_matches keeps the types. *)
LEMMA FlushTyped ==
  ASSUME TypeOK, NEW accounts \in SeqOf(Players, MaxAccounts), FlushMatches(accounts)
  PROVE  /\ pending' \in Seq(PendingMatches)
         /\ ticket' \in [Players -> Tickets] /\ l1' \in [Players -> Tickets]
<1>1. PICK n \in 1..Len(pending) :
        /\ pending' = SubSeq(pending, n + 1, Len(pending))
        /\ ticket' \in [Players -> Tickets]
        /\ l1' = [p \in Players |-> IF p \in delegated THEN l1[p] ELSE ticket'[p]]
  BY FlushEffect
<1>2. l1' \in [Players -> Tickets]
  BY <1>1 DEF TypeOK
<1>3. pending' \in Seq(PendingMatches)
  BY <1>1, SequencesTyped, RestProperties
<1> QED
  BY <1>1, <1>2, <1>3

(* A commit carries tickets. *)
LEMMA CommitTyped ==
  ASSUME TypeOK, NEW players \in SUBSET Players, CommitTickets(players)
  PROVE  inflight' \in Seq(Commits)
<1>1. [p \in players |-> ticket[p]] \in [players -> Tickets]
  BY DEF TypeOK
<1>2. [p \in players |-> ticket[p]] \in Commits
  BY <1>1 DEF Commits
<1> QED
  BY <1>2, SequencesTyped, AppendProperties DEF CommitTickets

(* L1 takes over tickets. *)
LEMMA SettleTyped ==
  ASSUME TypeOK, Settle
  PROVE  l1' \in [Players -> Tickets] /\ inflight' \in Seq(Commits)
<1>1. 1 \in 1..Len(inflight)
  BY SequencesTyped, EmptySeq DEF Settle
<1>2. inflight[1] \in Commits
  BY <1>1, SequencesTyped, ElementOfSeq
<1>3. PICK S \in SUBSET Players : inflight[1] \in [S -> Tickets]
  BY <1>2 DEF Commits
<1>4. \A p \in DOMAIN inflight[1] : inflight[1][p] \in Tickets
  BY <1>3
<1>5. l1' \in [Players -> Tickets]
  BY <1>4 DEF Settle, NextCommit, TypeOK
<1>6. inflight' \in Seq(Commits)
  BY <1>1, SequencesTyped, RemoveAtProperties DEF Settle, NextCommit
<1> QED
  BY <1>5, <1>6

(* The accounts start as their structs say.                                  *)
LEMMA InitTyped ==
  ASSUME Init
  PROVE  TypeOK
<1>1. ticket \in [Players -> Tickets]
  BY TicketKinds DEF Init
<1>2. 0 \in 0..MaxMatches
  BY BoundsAssumption
<1> QED
  BY <1>1, <1>2, EmptySeq DEF Init, TypeOK

(* Every instruction keeps the types.                                        *)
LEMMA TypesKept ==
  ASSUME TypeOK, [Next]_vars
  PROVE  TypeOK'
<1>1. CASE Admin
  <2>1. ASSUME NEW callback \in Callbacks, InitializeTenant(callback) PROVE TypeOK'
    BY <2>1 DEF InitializeTenant, TypeOK, queueVars, ticketVars
  <2>2. CASE InitializeQueue
    BY <2>2, BoundsAssumption DEF InitializeQueue, TypeOK, ticketVars
  <2>3. CASE DelegateQueue
    BY <2>3 DEF DelegateQueue, TypeOK, ticketVars
  <2> QED
    BY <1>1, <2>1, <2>2, <2>3 DEF Admin
<1>2. ASSUME NEW p \in Players, Player(p) PROVE TypeOK'
  <2>1. ASSUME NEW t \in Tickets, WriteTickets([ticket EXCEPT ![p] = t])
        PROVE  ticket' \in [Players -> Tickets] /\ l1' \in [Players -> Tickets]
    <3>1. [ticket EXCEPT ![p] = t] \in [Players -> Tickets]
      BY DEF TypeOK
    <3> QED
      BY <2>1, <3>1, WriteTicketsTyped DEF TypeOK
  <2>2. CASE CreateTicket(p)
    BY <2>1, <2>2, TicketKinds DEF CreateTicket, TypeOK, queueVars
  <2>3. CASE DelegateTicket(p)
    BY <2>3 DEF DelegateTicket, TypeOK, queueVars
  <2>4. CASE CancelTicket(p)
    BY <2>1, <2>4, TicketKinds DEF CancelTicket, TypeOK, queueVars
  <2>5. CASE CloseTicket(p)
    BY <2>1, <2>5, TicketKinds DEF CloseTicket, TypeOK, queueVars
  <2>6. ASSUME NEW elo \in Elos, NEW listed \in BOOLEAN, JoinQueue(p, elo, listed)
        PROVE  TypeOK'
    <3>1. CASE Wait(p, elo)
      BY <2>6, <3>1, WaitTyped DEF JoinQueue, Wait, TypeOK
    <3>2. ASSUME NEW i \in DOMAIN entries, Pair(p, elo, i, listed) PROVE TypeOK'
      BY <2>6, <3>2, PairTyped DEF JoinQueue, TypeOK
    <3> QED
      BY <2>6, <3>1, <3>2 DEF JoinQueue
  <2> QED
    BY <1>2, <2>2, <2>3, <2>4, <2>5, <2>6 DEF Player
<1>3. CASE Crank
  <2>1. ASSUME NEW accounts \in SeqOf(Players, MaxAccounts), FlushMatches(accounts)
        PROVE  TypeOK'
    BY <2>1, FlushTyped DEF FlushMatches, TypeOK
  <2>2. ASSUME NEW players \in SUBSET Players, CommitTickets(players)
        PROVE  TypeOK'
    BY <2>2, CommitTyped DEF CommitTickets, TypeOK, queueVars, ticketVars
  <2> QED
    BY <1>3, <2>1, <2>2 DEF Crank
<1>4. CASE Settle
  BY <1>4, SettleTyped DEF Settle, TypeOK, queueVars
<1>5. CASE UNCHANGED vars
  BY <1>5 DEF TypeOK, vars, queueVars, ticketVars
<1> QED
  BY <1>1, <1>2, <1>3, <1>4, <1>5 DEF Next

(* Every account always holds what its struct may hold. *)
THEOREM DuelTyped == Spec => []TypeOK
<1>1. Init => TypeOK
  BY InitTyped
<1>2. TypeOK /\ [Next]_vars => TypeOK'
  BY TypesKept
<1> QED
  BY <1>1, <1>2, PTL DEF Spec

-----------------------------------------------------------------------------
(* What join_queue does to the queue and the log. *)

(* Who waits is added at the end.                                           *)
LEMMA WaitQueued ==
  ASSUME TypeOK, NEW p \in Players, NEW elo \in Elos, Wait(p, elo)
  PROVE  /\ Len(entries) \in Nat /\ DOMAIN entries = 1..Len(entries)
         /\ DOMAIN entries' = 1..Len(entries) + 1
         /\ \A i \in 1..Len(entries) : entries'[i] = entries[i]
         /\ entries'[Len(entries) + 1].player = p
<1> DEFINE e == [player |-> p, elo |-> elo]
<1>1. entries' = Append(entries, e)
  BY DEF Wait
<1>2. e \in Entries /\ e.player = p
  BY DEF Entries
<1> HIDE DEF e
<1>3. entries' \in Seq(Entries) /\ Len(entries') = Len(entries) + 1
  BY <1>1, <1>2, SequencesTyped, AppendProperties
<1> QED
  BY <1>1, <1>2, <1>3, SequencesTyped, AppendProperties, LenProperties

(* Who is matched leaves, the others keep their order.                      *)
LEMMA PairLeaves ==
  ASSUME TypeOK, NEW p \in Players, NEW elo \in Elos, NEW i \in DOMAIN entries,
         NEW listed \in BOOLEAN, Pair(p, elo, i, listed)
  PROVE  /\ DOMAIN entries' = 1..Len(entries) - 1
         /\ \A j \in DOMAIN entries' :
              entries'[j] = IF j < i THEN entries[j] ELSE entries[j + 1]
<1>1. i \in 1..Len(entries) /\ entries' = RemoveAt(entries, i)
  BY SequencesTyped, PairRemoves
<1>2. /\ entries' \in Seq(Entries) /\ Len(entries') = Len(entries) - 1
      /\ \A j \in 1..Len(entries) - 1 :
           entries'[j] = IF j < i THEN entries[j] ELSE entries[j + 1]
  BY <1>1, SequencesTyped, RemoveAtProperties
<1>3. DOMAIN entries' = 1..Len(entries) - 1
  BY <1>2, LenProperties
<1> QED
  BY <1>2, <1>3

(* What a match adds to the log: the pair and the ELO values compared.      *)
LEMMA PairLogged ==
  ASSUME TypeOK, NEW p \in Players, NEW elo \in Elos, NEW i \in DOMAIN entries,
         NEW listed \in BOOLEAN, Pair(p, elo, i, listed)
  PROVE  /\ events' \in Seq(Events) /\ Len(events') = Len(events) + 1
         /\ DOMAIN events' = 1..Len(events) + 1
         /\ \A n \in DOMAIN events : n \in DOMAIN events' /\ events'[n] = events[n]
         /\ LET ev == events'[Len(events) + 1] IN
            /\ ev.player1 = p /\ ev.player2 = entries[i].player
            /\ ev.elo1 = elo /\ ev.elo2 = entries[i].elo
<1> DEFINE ev == [player1 |-> p, player2 |-> entries[i].player, elo1 |-> elo,
                  elo2 |-> entries[i].elo, called |-> tenant = "callback" /\ listed]
<1>1. events' = Append(events, ev)
  BY DEF Pair
<1>2. ev \in Events
  <2>1. (tenant = "callback" /\ listed) \in BOOLEAN
    OBVIOUS
  <2> QED
    BY <2>1, EntryTyped DEF Events
<1>3. /\ ev.player1 = p /\ ev.player2 = entries[i].player
      /\ ev.elo1 = elo /\ ev.elo2 = entries[i].elo
  OBVIOUS
<1> HIDE DEF ev
<1>4. events' \in Seq(Events) /\ Len(events') = Len(events) + 1
  BY <1>1, <1>2, SequencesTyped, AppendProperties
<1>5. DOMAIN events' = 1..Len(events) + 1
  BY <1>4, LenProperties
<1>6. /\ \A n \in 1..Len(events) : events'[n] = events[n]
      /\ events'[Len(events) + 1] = ev
  BY <1>1, <1>2, SequencesTyped, AppendProperties
<1>7. \A n \in DOMAIN events : n \in DOMAIN events' /\ events'[n] = events[n]
  BY <1>5, <1>6, SequencesTyped
<1> QED
  BY <1>3, <1>4, <1>5, <1>6, <1>7

(* The log grows in Pair only.                                              *)
LEMMA LogGrows ==
  ASSUME [Next]_vars
  PROVE  \/ UNCHANGED events
         \/ \E p \in Players, elo \in Elos, listed \in BOOLEAN :
              \E i \in DOMAIN entries : Pair(p, elo, i, listed)
<1>1. CASE Admin
  BY <1>1 DEF Admin, InitializeTenant, InitializeQueue, DelegateQueue
<1>2. ASSUME NEW p \in Players, Player(p)
      PROVE  \/ UNCHANGED events
             \/ \E elo \in Elos, listed \in BOOLEAN :
                  \E i \in DOMAIN entries : Pair(p, elo, i, listed)
  BY <1>2 DEF Player, CreateTicket, DelegateTicket, CancelTicket, CloseTicket,
              JoinQueue, Wait
<1>3. CASE Crank
  BY <1>3 DEF Crank, FlushMatches, CommitTickets
<1>4. CASE Settle \/ UNCHANGED vars
  BY <1>4 DEF Settle, vars
<1> QED
  BY <1>1, <1>2, <1>3, <1>4 DEF Next

-----------------------------------------------------------------------------
(* The queue holds nobody who could be matched. *)

(* A newcomer who waits is out of the window of every entry. *)
LEMMA WaitSeparated ==
  ASSUME TypeOK, QueueSeparated, NEW p \in Players, NEW elo \in Elos, Wait(p, elo)
  PROVE  QueueSeparated'
<1> DEFINE e == [player |-> p, elo |-> elo]
<1>1. entries' = Append(entries, e) /\ Candidates(entries, elo, EloWindow) = {}
  BY DEF Wait
<1>2. e \in Entries /\ e.elo = elo
  BY DEF Entries
<1> HIDE DEF e
<1>3. /\ Len(entries) \in Nat /\ DOMAIN entries = 1..Len(entries)
      /\ DOMAIN entries' = 1..Len(entries) + 1
      /\ \A i \in 1..Len(entries) : entries'[i] = entries[i]
      /\ entries'[Len(entries) + 1] = e
  <2>1. entries' \in Seq(Entries) /\ Len(entries') = Len(entries) + 1
    BY <1>1, <1>2, SequencesTyped, AppendProperties
  <2> QED
    BY <2>1, <1>1, <1>2, SequencesTyped, AppendProperties, LenProperties
<1>4. \A i \in DOMAIN entries :
        /\ Distance(entries[i].elo, elo) > EloWindow
        /\ Distance(elo, entries[i].elo) > EloWindow
  <2> SUFFICES ASSUME NEW i \in DOMAIN entries
               PROVE  /\ Distance(entries[i].elo, elo) > EloWindow
                      /\ Distance(elo, entries[i].elo) > EloWindow
    OBVIOUS
  <2>1. entries[i].elo \in Nat /\ elo \in Nat /\ EloWindow \in Nat
    BY EntryTyped, ElosAssumption
  <2>2. ~ (Distance(entries[i].elo, elo) <= EloWindow)
    BY <1>1 DEF Candidates, InWindow
  <2>3. /\ Distance(entries[i].elo, elo) \in Nat
        /\ Distance(entries[i].elo, elo) = Distance(elo, entries[i].elo)
    BY <2>1, DistanceProperties
  <2> QED
    BY <2>1, <2>2, <2>3
<1> SUFFICES ASSUME NEW i \in 1..Len(entries) + 1, NEW j \in 1..Len(entries) + 1, i # j
             PROVE  Distance(entries'[i].elo, entries'[j].elo) > EloWindow
  BY <1>3 DEF QueueSeparated
<1>5. CASE i = Len(entries) + 1
  <2>1. j \in DOMAIN entries
    BY <1>3, <1>5
  <2> QED
    BY <2>1, <1>2, <1>3, <1>4, <1>5
<1>6. CASE j = Len(entries) + 1
  <2>1. i \in DOMAIN entries
    BY <1>3, <1>6
  <2> QED
    BY <2>1, <1>2, <1>3, <1>4, <1>6
<1>7. CASE i # Len(entries) + 1 /\ j # Len(entries) + 1
  <2>1. i \in DOMAIN entries /\ j \in DOMAIN entries
    BY <1>3, <1>7
  <2> QED
    BY <2>1, <1>3 DEF QueueSeparated
<1> QED
  BY <1>5, <1>6, <1>7

(* Taking an entry out leaves the others as far apart as they were. *)
LEMMA PairSeparated ==
  ASSUME TypeOK, QueueSeparated, NEW p \in Players, NEW elo \in Elos,
         NEW e \in DOMAIN entries, NEW listed \in BOOLEAN, Pair(p, elo, e, listed)
  PROVE  QueueSeparated'
<1>1. entries' = RemoveAt(entries, e) /\ e \in 1..Len(entries)
  BY SequencesTyped, PairRemoves
<1>2. /\ Len(entries) \in Nat /\ DOMAIN entries = 1..Len(entries)
      /\ entries' \in Seq(Entries) /\ Len(entries') = Len(entries) - 1
      /\ \A j \in 1..Len(entries) - 1 :
           entries'[j] = IF j < e THEN entries[j] ELSE entries[j + 1]
  BY <1>1, SequencesTyped, RemoveAtProperties
<1>3. DOMAIN entries' = 1..Len(entries) - 1
  BY <1>2, LenProperties
<1> DEFINE old(j) == IF j < e THEN j ELSE j + 1
<1>4. \A j \in DOMAIN entries' : old(j) \in DOMAIN entries /\ entries'[j] = entries[old(j)]
  BY <1>1, <1>2, <1>3
<1>5. \A i, j \in DOMAIN entries' : i # j => old(i) # old(j)
  BY <1>1, <1>2, <1>3
<1> HIDE DEF old
<1> QED
  BY <1>4, <1>5 DEF QueueSeparated

(* Although join_queue compares only the newcomer with the others, no two    *)
(* players ever wait who could have been matched with each other.            *)
THEOREM NoMatchLeftBehind == Spec => []QueueSeparated
<1>1. Init => QueueSeparated
  BY DEF Init, QueueSeparated
<1>2. TypeOK /\ QueueSeparated /\ [Next]_vars => QueueSeparated'
  <2> SUFFICES ASSUME TypeOK, QueueSeparated, [Next]_vars PROVE QueueSeparated'
    OBVIOUS
  <2>1. ASSUME UNCHANGED entries PROVE QueueSeparated'
    BY <2>1 DEF QueueSeparated
  <2>2. ASSUME NEW p \in Players, NEW elo \in Elos, NEW listed \in BOOLEAN,
               JoinQueue(p, elo, listed)
        PROVE  QueueSeparated'
    BY <2>2, WaitSeparated, PairSeparated DEF JoinQueue
  <2>3. CASE Admin
    BY <2>1, <2>3 DEF Admin, InitializeTenant, InitializeQueue, DelegateQueue, queueVars
  <2>4. ASSUME NEW p \in Players, Player(p) PROVE QueueSeparated'
    BY <2>1, <2>2, <2>4
    DEF Player, CreateTicket, DelegateTicket, CancelTicket, CloseTicket, queueVars
  <2>5. CASE Crank
    BY <2>1, <2>5 DEF Crank, FlushMatches, CommitTickets, queueVars
  <2>6. CASE Settle
    BY <2>1, <2>6 DEF Settle, queueVars
  <2>7. CASE UNCHANGED vars
    BY <2>1, <2>7 DEF vars, queueVars
  <2> QED
    BY <2>3, <2>4, <2>5, <2>6, <2>7 DEF Next
<1> QED
  BY <1>1, <1>2, DuelTyped, PTL DEF Spec

-----------------------------------------------------------------------------
(* Tickets and pending matches tell the truth. *)

(* match_counter is the number of matches made. *)
Ledger == counter = Len(events)

(* The inductive invariant: tickets are honest because what is written to    *)
(* them comes from the queue, and pending matches are because their ids are  *)
(* those of the log and their order keeps them apart.                        *)
HonestInv == Ledger /\ TicketsHonest /\ PendingHonest

(* What was true of a match stays true as matches are added. *)
LEMMA TruthLasts ==
  ASSUME NEW log, NEW longer,
         \A n \in DOMAIN log : n \in DOMAIN longer /\ longer[n] = log[n]
  PROVE  /\ \A p, t : TellsTruth(p, t, log) => TellsTruth(p, t, longer)
         /\ \A pm : WasMade(pm, log) => WasMade(pm, longer)
BY DEF TellsTruth, WasMade

(* A ticket that names no match tells the truth, and one that names a        *)
(* pending match of its player or a match just made does.                    *)
LEMMA TruthfulTickets ==
  ASSUME NEW p, NEW log
  PROVE  /\ TellsTruth(p, Absent, log) /\ TellsTruth(p, Searching, log)
         /\ TellsTruth(p, Cancelled, log)
         /\ \A pm : WasMade(pm, log) /\ pm.player = p =>
              TellsTruth(p, Matched(pm.opponent, pm.matchId), log)
         /\ \A q, id : id \in DOMAIN log /\ log[id].player1 = p /\ log[id].player2 = q =>
              TellsTruth(p, Matched(q, id), log)
BY DEF TellsTruth, WasMade, Absent, Searching, Cancelled, Matched

(* Only a ticket that names a match has the id of a pending match. *)
LEMMA NoIdYet ==
  ASSUME TypeOK, NEW k \in DOMAIN pending
  PROVE  /\ Absent.matchId # pending[k].matchId
         /\ Searching.matchId # pending[k].matchId
         /\ Cancelled.matchId # pending[k].matchId
<1>1. pending[k].matchId \in 1..MaxMatches
  BY PendingTyped
<1>2. pending[k].matchId # 0
  BY <1>1, BoundsAssumption
<1> QED
  BY <1>2 DEF Absent, Searching, Cancelled

(* Writing p's ticket on its layer with a truthful copy keeps tickets honest. *)
LEMMA WriteHonest ==
  ASSUME TypeOK, TicketsHonest, NEW p \in Players, NEW t,
         WriteTickets([ticket EXCEPT ![p] = t]),
         UNCHANGED <<delegated, inflight>>,
         \A n \in DOMAIN events : n \in DOMAIN events' /\ events'[n] = events[n],
         TellsTruth(p, t, events')
  PROVE  TicketsHonest'
<1>1. /\ ticket' = [ticket EXCEPT ![p] = t]
      /\ l1' = [x \in Players |-> IF x \in delegated THEN l1[x] ELSE [ticket EXCEPT ![p] = t][x]]
  BY DEF WriteTickets
<1>2. \A x, c : TellsTruth(x, c, events) => TellsTruth(x, c, events')
  BY TruthLasts
<1>3. \A x \in Players : TellsTruth(x, ticket'[x], events')
  BY <1>1, <1>2 DEF TicketsHonest, TypeOK
<1>4. \A x \in Players : TellsTruth(x, l1'[x], events')
  BY <1>1, <1>2, <1>3 DEF TicketsHonest, TypeOK
<1>5. \A x \in Players : \A k \in DOMAIN inflight :
        x \in DOMAIN inflight[k] => TellsTruth(x, inflight[k][x], events')
  BY <1>2 DEF TicketsHonest
<1> QED
  BY <1>3, <1>4, <1>5 DEF TicketsHonest

(* A match just made is logged, told to the joiner and owed to the other. *)
LEMMA PairHonest ==
  ASSUME TypeOK, HonestInv, NEW p \in Players, NEW elo \in Elos,
         NEW i \in DOMAIN entries, NEW listed \in BOOLEAN,
         Pair(p, elo, i, listed), UNCHANGED <<delegated, inflight>>
  PROVE  HonestInv'
<1> DEFINE q == entries[i].player
           id == counter + 1
           ev == [player1 |-> p, player2 |-> q, elo1 |-> elo, elo2 |-> entries[i].elo,
                  called |-> tenant = "callback" /\ listed]
           pm == Owed(q, p, id)
<1>1. q \in Players /\ entries[i].elo \in Elos
  BY EntryTyped
<1>2. id \in 1..MaxMatches /\ counter' = id /\ id = Len(events) + 1
  BY BoundsAssumption DEF Pair, TypeOK, HonestInv, Ledger
<1>3. ev \in Events /\ ev.player1 = p /\ ev.player2 = q
  <2>1. (tenant = "callback" /\ listed) \in BOOLEAN
    OBVIOUS
  <2> QED
    BY <1>1, <2>1 DEF Events
<1>4. /\ pm \in PendingMatches /\ pm.player = q /\ pm.opponent = p /\ pm.matchId = id
  BY <1>1, <1>2 DEF PendingMatches, Owed
<1>5. /\ events' = Append(events, ev)
      /\ pending' = Append(pending, pm)
      /\ WriteTickets([ticket EXCEPT ![p] = Matched(q, id)])
  BY DEF Pair, NewMatchId
<1> HIDE DEF ev, pm, q, id
<1>6. /\ Len(events') = Len(events) + 1 /\ DOMAIN events' = 1..Len(events) + 1
      /\ \A n \in DOMAIN events : n \in DOMAIN events' /\ events'[n] = events[n]
      /\ events'[id] = ev /\ id \in DOMAIN events'
  <2>1. events' \in Seq(Events) /\ Len(events') = Len(events) + 1
    BY <1>3, <1>5, SequencesTyped, AppendProperties
  <2> QED
    BY <2>1, <1>2, <1>3, <1>5, SequencesTyped, AppendProperties, LenProperties
<1>7. Ledger'
  BY <1>2, <1>6 DEF Ledger
<1>8. TicketsHonest'
  <2>1. TellsTruth(p, Matched(q, id), events')
    BY <1>3, <1>6, TruthfulTickets
  <2> QED
    BY <2>1, <1>5, <1>6, WriteHonest DEF HonestInv
<1>9. /\ Len(pending) \in Nat /\ DOMAIN pending = 1..Len(pending)
      /\ DOMAIN pending' = 1..Len(pending) + 1
      /\ \A k \in DOMAIN pending : pending'[k] = pending[k]
      /\ pending'[Len(pending) + 1] = pm
  <2>1. pending' \in Seq(PendingMatches) /\ Len(pending') = Len(pending) + 1
    BY <1>4, <1>5, SequencesTyped, AppendProperties
  <2> QED
    BY <2>1, <1>4, <1>5, SequencesTyped, AppendProperties, LenProperties
<1>10. \A k \in DOMAIN pending : pending[k].matchId \in Nat /\ pending[k].matchId < id
  <2> SUFFICES ASSUME NEW k \in DOMAIN pending
               PROVE  pending[k].matchId \in Nat /\ pending[k].matchId < id
    OBVIOUS
  <2>1. pending[k].matchId \in DOMAIN events
    BY DEF HonestInv, PendingHonest, WasMade
  <2> QED
    BY <2>1, <1>2, SequencesTyped
<1>11. ticket'[p].matchId = id /\ \A x \in Players : x # p => ticket'[x] = ticket[x]
  BY <1>5 DEF WriteTickets, Matched, TypeOK
<1>12. \A k \in DOMAIN pending' :
         /\ WasMade(pending'[k], events')
         /\ ticket'[pending'[k].player].matchId = pending'[k].matchId =>
              pending'[k].player = pending'[k].opponent
  <2> SUFFICES ASSUME NEW k \in DOMAIN pending'
               PROVE  /\ WasMade(pending'[k], events')
                      /\ ticket'[pending'[k].player].matchId = pending'[k].matchId =>
                           pending'[k].player = pending'[k].opponent
    OBVIOUS
  <2>1. CASE k = Len(pending) + 1
    <3>1. pending'[k] = pm
      BY <2>1, <1>9
    <3>2. WasMade(pm, events')
      BY <1>3, <1>4, <1>6 DEF WasMade
    <3>3. ticket'[q].matchId = id => q = p
      <4> SUFFICES ASSUME q # p PROVE ticket'[q].matchId # id
        OBVIOUS
      <4>1. ticket'[q] = ticket[q]
        BY <1>1, <1>11
      <4>2. TellsTruth(q, ticket[q], events) /\ ticket[q] \in Tickets
        BY <1>1 DEF HonestInv, TicketsHonest, TypeOK
      <4>3. CASE ticket[q].status = "Matched"
        <5>1. ticket[q].matchId \in DOMAIN events
          BY <4>2, <4>3 DEF TellsTruth
        <5> QED
          BY <4>1, <5>1, <1>2, SequencesTyped
      <4>4. CASE ticket[q].status # "Matched"
        <5>1. ticket[q].matchId = 0
          BY <4>2, <4>4 DEF Tickets, Absent, Searching, Cancelled, Matched
        <5> QED
          BY <4>1, <5>1, <1>2, BoundsAssumption
      <4> QED
        BY <4>3, <4>4
    <3> QED
      BY <3>1, <3>2, <3>3, <1>4
  <2>2. CASE k # Len(pending) + 1
    <3>1. k \in DOMAIN pending /\ pending'[k] = pending[k]
      BY <2>2, <1>9
    <3>2. /\ WasMade(pending[k], events)
          /\ ticket[pending[k].player].matchId = pending[k].matchId =>
               pending[k].player = pending[k].opponent
      BY <3>1 DEF HonestInv, PendingHonest
    <3>3. WasMade(pending[k], events')
      BY <3>2, <1>6, TruthLasts
    <3>4. CASE pending[k].player = p
      BY <3>1, <3>3, <3>4, <1>2, <1>10, <1>11
    <3>5. CASE pending[k].player # p
      BY <3>1, <3>2, <3>3, <3>5, <1>11, PendingTyped
    <3> QED
      BY <3>4, <3>5
  <2> QED
    BY <2>1, <2>2
<1>13. \A j, k \in DOMAIN pending' : j < k => pending'[j].matchId < pending'[k].matchId
  <2> SUFFICES ASSUME NEW j \in DOMAIN pending', NEW k \in DOMAIN pending', j < k
               PROVE  pending'[j].matchId < pending'[k].matchId
    OBVIOUS
  <2>1. j \in DOMAIN pending
    BY <1>9
  <2>2. CASE k = Len(pending) + 1
    BY <2>1, <2>2, <1>4, <1>9, <1>10
  <2>3. CASE k # Len(pending) + 1
    <3>1. k \in DOMAIN pending
      BY <2>3, <1>9
    <3> QED
      BY <2>1, <3>1, <1>9 DEF HonestInv, PendingHonest
  <2> QED
    BY <2>2, <2>3
<1> QED
  BY <1>7, <1>8, <1>12, <1>13 DEF HonestInv, PendingHonest

(* A flush writes what is pending and keeps the rest pending. *)
LEMMA FlushHonest ==
  ASSUME TypeOK, HonestInv, NEW accounts \in SeqOf(Players, MaxAccounts),
         FlushMatches(accounts)
  PROVE  HonestInv'
<1>1. PICK n \in 1..Len(pending) :
        /\ pending' = SubSeq(pending, n + 1, Len(pending))
        /\ \A j, k \in 1..n : pending[j].player = pending[k].player => j = k
        /\ \A k \in 1..n :
             ticket'[pending[k].player] = Matched(pending[k].opponent, pending[k].matchId)
        /\ \A p \in Players :
             (\A k \in 1..n : pending[k].player # p) => ticket'[p] = ticket[p]
        /\ l1' = [p \in Players |-> IF p \in delegated THEN l1[p] ELSE ticket'[p]]
  BY FlushEffect
<1>2. UNCHANGED <<counter, events, delegated, inflight>>
  BY DEF FlushMatches
<1>3. /\ Len(pending) \in Nat /\ DOMAIN pending = 1..Len(pending)
      /\ n \in Nat /\ n <= Len(pending) /\ \A k \in 1..n : k \in DOMAIN pending
  BY SequencesTyped
<1>4. /\ DOMAIN pending' = 1..Len(pending) - n
      /\ \A k \in 1..Len(pending) - n :
           k + n \in DOMAIN pending /\ pending'[k] = pending[k + n]
  BY <1>1, SequencesTyped, RestProperties
<1>5. \A p \in Players : TellsTruth(p, ticket'[p], events)
  <2> SUFFICES ASSUME NEW p \in Players PROVE TellsTruth(p, ticket'[p], events)
    OBVIOUS
  <2>1. CASE \A k \in 1..n : pending[k].player # p
    BY <2>1, <1>1 DEF HonestInv, TicketsHonest
  <2>2. ASSUME NEW k \in 1..n, pending[k].player = p PROVE TellsTruth(p, ticket'[p], events)
    <3>1. WasMade(pending[k], events)
      BY <1>3 DEF HonestInv, PendingHonest
    <3>2. ticket'[p] = Matched(pending[k].opponent, pending[k].matchId)
      BY <2>2, <1>1
    <3> QED
      BY <2>2, <3>1, <3>2, TruthfulTickets
  <2> QED
    BY <2>1, <2>2
<1>6. TicketsHonest'
  BY <1>1, <1>2, <1>5 DEF HonestInv, TicketsHonest
<1>7. \A k \in DOMAIN pending' :
        /\ WasMade(pending'[k], events')
        /\ ticket'[pending'[k].player].matchId = pending'[k].matchId =>
             pending'[k].player = pending'[k].opponent
  <2> SUFFICES ASSUME NEW k \in DOMAIN pending'
               PROVE  /\ WasMade(pending'[k], events)
                      /\ ticket'[pending'[k].player].matchId = pending'[k].matchId =>
                           pending'[k].player = pending'[k].opponent
    BY <1>2
  <2>1. k + n \in DOMAIN pending /\ pending'[k] = pending[k + n] /\ k \in Nat \ {0}
    BY <1>3, <1>4
  <2>2. /\ WasMade(pending[k + n], events)
        /\ ticket[pending[k + n].player].matchId = pending[k + n].matchId =>
             pending[k + n].player = pending[k + n].opponent
    BY <2>1 DEF HonestInv, PendingHonest
  <2>3. CASE \A j \in 1..n : pending[j].player # pending[k + n].player
    <3>1. ticket'[pending[k + n].player] = ticket[pending[k + n].player]
      BY <2>1, <2>3, <1>1, PendingTyped
    <3> QED
      BY <2>1, <2>2, <3>1
  <2>4. ASSUME NEW j \in 1..n, pending[j].player = pending[k + n].player
        PROVE  ticket'[pending[k + n].player].matchId # pending[k + n].matchId
    <3>1. ticket'[pending[k + n].player].matchId = pending[j].matchId
      <4>1. ticket'[pending[j].player] = Matched(pending[j].opponent, pending[j].matchId)
        BY <1>1
      <4>2. Matched(pending[j].opponent, pending[j].matchId).matchId = pending[j].matchId
        BY DEF Matched
      <4> QED
        BY <2>4, <4>1, <4>2
    <3>2. j \in DOMAIN pending /\ j < k + n
      BY <2>1, <1>3
    <3>3. pending[j].matchId < pending[k + n].matchId
      BY <2>1, <3>2 DEF HonestInv, PendingHonest
    <3>4. pending[j].matchId \in Int /\ pending[k + n].matchId \in Int
      BY <2>1, <3>2, PendingTyped
    <3> QED
      BY <3>1, <3>3, <3>4
  <2> QED
    BY <2>1, <2>2, <2>3, <2>4
<1>8. \A j, k \in DOMAIN pending' : j < k => pending'[j].matchId < pending'[k].matchId
  <2> SUFFICES ASSUME NEW j \in DOMAIN pending', NEW k \in DOMAIN pending', j < k
               PROVE  pending'[j].matchId < pending'[k].matchId
    OBVIOUS
  <2>1. /\ j + n \in DOMAIN pending /\ pending'[j] = pending[j + n]
        /\ k + n \in DOMAIN pending /\ pending'[k] = pending[k + n]
        /\ j + n < k + n
    BY <1>3, <1>4
  <2> QED
    BY <2>1 DEF HonestInv, PendingHonest
<1> QED
  BY <1>2, <1>6, <1>7, <1>8 DEF HonestInv, PendingHonest, Ledger

(* A player's own writes to its ticket name no match. *)
LEMMA RewriteHonest ==
  ASSUME TypeOK, HonestInv, NEW p \in Players, NEW t \in {Absent, Searching, Cancelled},
         WriteTickets([ticket EXCEPT ![p] = t]),
         UNCHANGED <<counter, pending, delegated, inflight, events>>
  PROVE  HonestInv'
<1>1. TicketsHonest'
  <2>1. TellsTruth(p, t, events')
    BY TruthfulTickets
  <2> QED
    BY <2>1, WriteHonest DEF HonestInv
<1>2. \A k \in DOMAIN pending :
        ticket'[pending[k].player].matchId = pending[k].matchId =>
          pending[k].player = pending[k].opponent
  <2> SUFFICES ASSUME NEW k \in DOMAIN pending,
                      ticket'[pending[k].player].matchId = pending[k].matchId
               PROVE  pending[k].player = pending[k].opponent
    OBVIOUS
  <2>1. ticket' = [ticket EXCEPT ![p] = t] /\ ticket \in [Players -> Tickets]
    BY DEF WriteTickets, TypeOK
  <2>2. pending[k].player # p
    <3>1. t.matchId # pending[k].matchId
      BY NoIdYet
    <3> QED
      BY <2>1, <3>1
  <2>3. ticket'[pending[k].player] = ticket[pending[k].player]
    BY <2>1, <2>2, PendingTyped
  <2> QED
    BY <2>3 DEF HonestInv, PendingHonest
<1> QED
  BY <1>1, <1>2 DEF HonestInv, Ledger, PendingHonest

(* A commit copies tickets, and L1 takes over what a commit copied. *)
LEMMA CommitHonest ==
  ASSUME TypeOK, HonestInv, NEW players \in SUBSET Players, CommitTickets(players)
  PROVE  HonestInv'
<1> DEFINE copy == [p \in players |-> ticket[p]]
<1>1. /\ inflight' = Append(inflight, copy)
      /\ UNCHANGED <<counter, pending, ticket, l1, events>>
  BY DEF CommitTickets, queueVars, ticketVars
<1>2. copy \in Commits
  <2>1. copy \in [players -> Tickets]
    BY DEF TypeOK
  <2> QED
    BY <2>1 DEF Commits
<1>3. /\ DOMAIN copy = players
      /\ \A p \in players : copy[p] = ticket[p] /\ TellsTruth(p, copy[p], events)
  BY DEF HonestInv, TicketsHonest
<1> HIDE DEF copy
<1>4. /\ DOMAIN inflight' = 1..Len(inflight) + 1
      /\ \A k \in 1..Len(inflight) : inflight'[k] = inflight[k]
      /\ inflight'[Len(inflight) + 1] = copy
  <2>1. inflight' \in Seq(Commits) /\ Len(inflight') = Len(inflight) + 1
    BY <1>1, <1>2, SequencesTyped, AppendProperties
  <2> QED
    BY <2>1, <1>1, <1>2, SequencesTyped, AppendProperties, LenProperties
<1>5. ASSUME NEW p \in Players, NEW k \in DOMAIN inflight', p \in DOMAIN inflight'[k]
      PROVE  TellsTruth(p, inflight'[k][p], events)
  <2>1. CASE k = Len(inflight) + 1
    BY <2>1, <1>3, <1>4, <1>5
  <2>2. CASE k # Len(inflight) + 1
    <3>1. k \in DOMAIN inflight /\ inflight'[k] = inflight[k]
      BY <2>2, <1>4, SequencesTyped
    <3> QED
      BY <3>1, <1>5 DEF HonestInv, TicketsHonest
  <2> QED
    BY <2>1, <2>2
<1>6. TicketsHonest'
  BY <1>1, <1>5 DEF HonestInv, TicketsHonest
<1> QED
  BY <1>1, <1>6 DEF HonestInv, Ledger, PendingHonest

LEMMA SettleHonest ==
  ASSUME TypeOK, HonestInv, Settle
  PROVE  HonestInv'
<1>1. /\ inflight' = RemoveAt(inflight, 1)
      /\ UNCHANGED <<counter, pending, ticket, delegated, events>>
      /\ l1' = [p \in Players |-> IF p \in DOMAIN inflight[1] THEN inflight[1][p] ELSE l1[p]]
  BY DEF Settle, NextCommit, queueVars
<1>2. 1 \in DOMAIN inflight /\ 1 \in 1..Len(inflight)
  BY SequencesTyped, EmptySeq DEF Settle
<1>3. \A p \in Players : TellsTruth(p, l1'[p], events)
  BY <1>1, <1>2 DEF HonestInv, TicketsHonest
<1>4. \A k \in DOMAIN inflight' : k + 1 \in DOMAIN inflight /\ inflight'[k] = inflight[k + 1]
  <2>1. /\ inflight' \in Seq(Commits) /\ Len(inflight') = Len(inflight) - 1
        /\ \A k \in 1..Len(inflight) - 1 :
             inflight'[k] = IF k < 1 THEN inflight[k] ELSE inflight[k + 1]
    BY <1>1, <1>2, SequencesTyped, RemoveAtProperties
  <2>2. DOMAIN inflight' = 1..Len(inflight) - 1
    BY <2>1, LenProperties
  <2> QED
    BY <2>1, <2>2, SequencesTyped
<1>5. \A p \in Players : \A k \in DOMAIN inflight' :
        p \in DOMAIN inflight'[k] => TellsTruth(p, inflight'[k][p], events)
  BY <1>4 DEF HonestInv, TicketsHonest
<1>6. TicketsHonest'
  BY <1>1, <1>3, <1>5 DEF HonestInv, TicketsHonest
<1> QED
  BY <1>1, <1>6 DEF HonestInv, Ledger, PendingHonest

(* Before there is a queue, no match has been counted. *)
QueueFresh == queue = "absent" => counter = 0

LEMMA NoQueueNoMatch == Spec => []QueueFresh
<1>1. Init => QueueFresh
  BY DEF Init, QueueFresh
<1>2. QueueFresh /\ [Next]_vars => QueueFresh'
  <2> SUFFICES ASSUME QueueFresh, [Next]_vars PROVE QueueFresh'
    OBVIOUS
  <2>1. CASE Admin
    BY <2>1 DEF Admin, InitializeTenant, InitializeQueue, DelegateQueue, QueueFresh, queueVars
  <2>2. ASSUME NEW p \in Players, Player(p) PROVE QueueFresh'
    BY <2>2 DEF Player, CreateTicket, DelegateTicket, CancelTicket, CloseTicket, JoinQueue,
                QueueFresh, queueVars
  <2>3. CASE Crank
    BY <2>3 DEF Crank, FlushMatches, CommitTickets, QueueFresh, queueVars
  <2>4. CASE Settle \/ UNCHANGED vars
    BY <2>4 DEF Settle, QueueFresh, vars, queueVars
  <2> QED
    BY <2>1, <2>2, <2>3, <2>4 DEF Next
<1> QED
  BY <1>1, <1>2, PTL DEF Spec

(* Tickets and pending matches tell the truth about the matches made. *)
THEOREM DuelHonest == Spec => []HonestInv
<1>1. Init => HonestInv
  <2> SUFFICES ASSUME Init PROVE HonestInv
    OBVIOUS
  <2>1. TicketsHonest
    BY TruthfulTickets DEF Init, TicketsHonest
  <2>2. Ledger /\ PendingHonest
    BY DEF Init, Ledger, PendingHonest
  <2> QED
    BY <2>1, <2>2 DEF HonestInv
<1>2. TypeOK /\ QueueFresh /\ HonestInv /\ [Next]_vars => HonestInv'
  <2> SUFFICES ASSUME TypeOK, QueueFresh, HonestInv, [Next]_vars PROVE HonestInv'
    OBVIOUS
  <2>1. ASSUME UNCHANGED <<counter, pending, ticket, l1, inflight, events>> PROVE HonestInv'
    BY <2>1 DEF HonestInv, Ledger, TicketsHonest, PendingHonest
  <2>2. CASE Admin
    <3>1. CASE InitializeQueue
      BY <2>1, <3>1 DEF InitializeQueue, QueueFresh, ticketVars
    <3>2. CASE DelegateQueue \/ \E callback \in Callbacks : InitializeTenant(callback)
      BY <2>1, <3>2 DEF DelegateQueue, InitializeTenant, queueVars, ticketVars
    <3> QED
      BY <2>2, <3>1, <3>2 DEF Admin
  <2>3. ASSUME NEW p \in Players, Player(p) PROVE HonestInv'
    <3>1. CASE CreateTicket(p)
      BY <3>1, RewriteHonest DEF CreateTicket, queueVars
    <3>2. CASE DelegateTicket(p)
      BY <2>1, <3>2 DEF DelegateTicket, queueVars
    <3>3. CASE CancelTicket(p)
      BY <3>3, RewriteHonest DEF CancelTicket, queueVars
    <3>4. CASE CloseTicket(p)
      BY <3>4, RewriteHonest DEF CloseTicket, queueVars
    <3>5. ASSUME NEW elo \in Elos, NEW listed \in BOOLEAN, JoinQueue(p, elo, listed)
          PROVE  HonestInv'
      <4>1. CASE Wait(p, elo)
        BY <2>1, <3>5, <4>1 DEF JoinQueue, Wait
      <4>2. ASSUME NEW i \in DOMAIN entries, Pair(p, elo, i, listed) PROVE HonestInv'
        BY <3>5, <4>2, PairHonest DEF JoinQueue
      <4> QED
        BY <3>5, <4>1, <4>2 DEF JoinQueue
    <3> QED
      BY <2>3, <3>1, <3>2, <3>3, <3>4, <3>5 DEF Player
  <2>4. CASE Crank
    BY <2>4, FlushHonest, CommitHonest DEF Crank
  <2>5. CASE Settle
    BY <2>5, SettleHonest
  <2>6. CASE UNCHANGED vars
    BY <2>1, <2>6 DEF vars, queueVars, ticketVars
  <2> QED
    BY <2>2, <2>3, <2>4, <2>5, <2>6 DEF Next
<1> QED
  BY <1>1, <1>2, DuelTyped, NoQueueNoMatch, PTL DEF Spec

(* Whatever copy of a ticket a player, an operator or L1 looks at, the match *)
(* it names was made, with that player and that opponent.                    *)
THEOREM TicketsNeverLie == Spec => []TicketsHonest
<1>1. HonestInv => TicketsHonest
  BY DEF HonestInv
<1> QED
  BY <1>1, DuelHonest, PTL

(* Every pending match is a match that was made and not yet delivered.       *)
THEOREM PendingNeverLies == Spec => []PendingHonest
<1>1. HonestInv => PendingHonest
  BY DEF HonestInv
<1> QED
  BY <1>1, DuelHonest, PTL

-----------------------------------------------------------------------------
(* What a step may never do. *)

(* Nothing is undelegated.                                                   *)
LEMMA DelegatedStays ==
  ASSUME [Next]_vars
  PROVE  delegated \subseteq delegated'
<1>1. CASE Admin
  BY <1>1 DEF Admin, InitializeTenant, InitializeQueue, DelegateQueue, ticketVars
<1>2. ASSUME NEW p \in Players, Player(p) PROVE delegated \subseteq delegated'
  BY <1>2 DEF Player, CreateTicket, DelegateTicket, CancelTicket, CloseTicket, JoinQueue
<1>3. CASE Crank
  BY <1>3 DEF Crank, FlushMatches, CommitTickets, ticketVars
<1>4. CASE Settle \/ UNCHANGED vars
  BY <1>4 DEF Settle, vars, ticketVars
<1> QED
  BY <1>1, <1>2, <1>3, <1>4 DEF Next

(* A final ticket is left alone, or closed.                                  *)
LEMMA OutcomeStays ==
  ASSUME TypeOK, [Next]_vars, NEW p \in Players
  PROVE  ticket[p].status \in {"Matched", "Cancelled"} => ticket'[p] \in {ticket[p], Absent}
<1> DEFINE Final(x) == ticket[x].status \in {"Matched", "Cancelled"} =>
                         ticket'[x] \in {ticket[x], Absent}
<1> SUFFICES Final(p)
  OBVIOUS
<1>1. ASSUME UNCHANGED ticket PROVE Final(p)
  BY <1>1
<1>2. ASSUME NEW x \in Players, NEW t, WriteTickets([ticket EXCEPT ![x] = t]),
             ticket[x].status \in {"Absent", "Searching"} \/ t = Absent
      PROVE  Final(p)
  BY <1>2 DEF WriteTickets, TypeOK
<1>3. Searching.status = "Searching" /\ Absent.status = "Absent"
  BY DEF Searching, Absent
<1> HIDE DEF Final
<1>4. CASE Admin
  BY <1>1, <1>4 DEF Admin, InitializeTenant, InitializeQueue, DelegateQueue, ticketVars
<1>5. ASSUME NEW x \in Players, Player(x) PROVE Final(p)
  <2>1. CASE CreateTicket(x)
    BY <1>2, <1>3, <2>1 DEF CreateTicket
  <2>2. CASE DelegateTicket(x)
    BY <1>1, <2>2 DEF DelegateTicket
  <2>3. CASE CancelTicket(x)
    BY <1>2, <1>3, <2>3 DEF CancelTicket
  <2>4. CASE CloseTicket(x)
    BY <1>2, <2>4 DEF CloseTicket
  <2>5. ASSUME NEW elo \in Elos, NEW listed \in BOOLEAN, JoinQueue(x, elo, listed)
        PROVE  Final(p)
    <3>1. CASE Wait(x, elo)
      BY <1>1, <3>1 DEF Wait
    <3>2. ASSUME NEW i \in DOMAIN entries, Pair(x, elo, i, listed) PROVE Final(p)
      BY <1>2, <1>3, <2>5, <3>2 DEF JoinQueue, Pair
    <3> QED
      BY <2>5, <3>1, <3>2 DEF JoinQueue
  <2> QED
    BY <1>5, <2>1, <2>2, <2>3, <2>4, <2>5 DEF Player
<1>6. ASSUME NEW accounts \in SeqOf(Players, MaxAccounts), FlushMatches(accounts)
      PROVE  Final(p)
  <2>1. PICK n \in 1..Len(pending) :
          /\ \A k \in 1..n : ticket[pending[k].player] = Searching
          /\ (\A k \in 1..n : pending[k].player # p) => ticket'[p] = ticket[p]
    BY <1>6, FlushEffect
  <2> QED
    BY <1>3, <2>1 DEF Final
<1>7. ASSUME NEW players \in SUBSET Players, CommitTickets(players) PROVE Final(p)
  BY <1>1, <1>7 DEF CommitTickets, ticketVars
<1>8. CASE Settle \/ UNCHANGED vars
  BY <1>1, <1>8 DEF Settle, vars, ticketVars
<1> QED
  BY <1>4, <1>5, <1>6, <1>7, <1>8 DEF Next, Crank

(* A final ticket is only ever closed: no race of joins, flushes, commits    *)
(* and cancellations overwrites an outcome or revives a cancelled ticket.    *)
THEOREM OutcomesAreFinal == Spec => OutcomeFinal
<1>1. TypeOK /\ [Next]_vars =>
        [\A p \in Players :
           ticket[p].status \in {"Matched", "Cancelled"} =>
             ticket'[p] \in {ticket[p], Absent}]_vars
  BY OutcomeStays
<1> QED
  BY <1>1, DuelTyped, PTL DEF Spec, OutcomeFinal

(* A pending match stays pending or is delivered.                            *)
LEMMA PendingStays ==
  ASSUME TypeOK, [Next]_vars, NEW k \in DOMAIN pending
  PROVE  \/ pending[k] \in ToSet(pending')
         \/ ticket'[pending[k].player] = Matched(pending[k].opponent, pending[k].matchId)
<1> DEFINE Kept(n) == pending[n] \in ToSet(pending')
           Told(n) == ticket'[pending[n].player] =
                        Matched(pending[n].opponent, pending[n].matchId)
<1> SUFFICES Kept(k) \/ Told(k)
  OBVIOUS
<1>1. ASSUME NEW j \in DOMAIN pending', pending'[j] = pending[k] PROVE Kept(k)
  BY <1>1 DEF ToSet
<1>2. ASSUME UNCHANGED pending PROVE Kept(k)
  BY <1>1, <1>2
<1> HIDE DEF Kept, Told
<1>3. ASSUME NEW p \in Players, NEW elo \in Elos, NEW listed \in BOOLEAN,
             NEW i \in DOMAIN entries, Pair(p, elo, i, listed)
      PROVE  Kept(k)
  <2> DEFINE pm == Owed(entries[i].player, p, counter + 1)
  <2>1. pending' = Append(pending, pm)
    BY <1>3 DEF Pair, NewMatchId
  <2>2. pm \in PendingMatches /\ pending' \in Seq(PendingMatches)
    <3>1. counter + 1 \in 1..MaxMatches
      BY <1>3, BoundsAssumption DEF Pair, TypeOK
    <3> QED
      BY <1>3, <3>1, EntryTyped, PairTyped DEF Owed, PendingMatches
  <2> HIDE DEF pm
  <2>3. Len(pending') = Len(pending) + 1 /\ pending'[k] = pending[k]
    BY <2>1, <2>2, SequencesTyped, AppendProperties
  <2>4. k \in DOMAIN pending'
    BY <2>2, <2>3, SequencesTyped, LenProperties
  <2> QED
    BY <1>1, <2>3, <2>4
<1>4. ASSUME NEW accounts \in SeqOf(Players, MaxAccounts), FlushMatches(accounts)
      PROVE  Kept(k) \/ Told(k)
  <2>1. PICK n \in 1..Len(pending) :
          /\ pending' = SubSeq(pending, n + 1, Len(pending))
          /\ \A j \in 1..n : ticket'[pending[j].player] =
                               Matched(pending[j].opponent, pending[j].matchId)
    BY <1>4, FlushEffect
  <2>2. CASE k \in 1..n
    BY <2>1, <2>2 DEF Told
  <2>3. CASE k \notin 1..n
    <3>1. /\ DOMAIN pending' = 1..Len(pending) - n
          /\ \A j \in 1..Len(pending) - n : pending'[j] = pending[j + n]
      BY <2>1, SequencesTyped, RestProperties
    <3>2. k - n \in 1..Len(pending) - n /\ (k - n) + n = k
      BY <2>3, SequencesTyped
    <3> QED
      BY <1>1, <3>1, <3>2
  <2> QED
    BY <2>2, <2>3
<1>5. CASE Admin
  BY <1>2, <1>5 DEF Admin, InitializeTenant, InitializeQueue, DelegateQueue, queueVars
<1>6. ASSUME NEW p \in Players, Player(p) PROVE Kept(k)
  <2>1. ASSUME NEW elo \in Elos, NEW listed \in BOOLEAN, JoinQueue(p, elo, listed)
        PROVE  Kept(k)
    <3>1. CASE Wait(p, elo)
      BY <1>2, <3>1 DEF Wait
    <3> QED
      BY <1>3, <2>1, <3>1 DEF JoinQueue
  <2> QED
    BY <1>2, <1>6, <2>1
    DEF Player, CreateTicket, DelegateTicket, CancelTicket, CloseTicket, queueVars
<1>7. ASSUME NEW players \in SUBSET Players, CommitTickets(players) PROVE Kept(k)
  BY <1>2, <1>7 DEF CommitTickets, queueVars
<1>8. CASE Settle \/ UNCHANGED vars
  BY <1>2, <1>8 DEF Settle, vars, queueVars
<1> QED
  BY <1>4, <1>5, <1>6, <1>7, <1>8 DEF Next, Crank

(* A pending match is not lost: it leaves the queue only in a flush that     *)
(* writes it to the ticket of the player who is owed it.                     *)
THEOREM PendingNeverLost == Spec => PendingOnlyDelivered
<1>1. TypeOK /\ [Next]_vars =>
        [\A k \in DOMAIN pending :
           \/ pending[k] \in ToSet(pending')
           \/ ticket'[pending[k].player] =
                Matched(pending[k].opponent, pending[k].matchId)]_vars
  BY PendingStays
<1> QED
  BY <1>1, DuelTyped, PTL DEF Spec, PendingOnlyDelivered
=============================================================================
