------------------------- MODULE DuelPromiseProofs -------------------------
(***************************************************************************)
(* The program keeps the promises of module Matchmaking, lists the latest  *)
(* matches, and L1 never shows a ticket of the TEE as anything it was not: *)
(* for any number of players, matches, pending outcomes and commits on     *)
(* their way.                                                              *)
(***************************************************************************)
EXTENDS DuelProofs

-----------------------------------------------------------------------------
(* The list of recent matches. *)

(* A match is added at the end of the list, the oldest one leaves it.        *)
LEMMA PairRecent ==
  ASSUME TypeOK, Ledger, RecentMatches, NEW p \in Players, NEW elo \in Elos,
         NEW i \in DOMAIN entries, NEW listed \in BOOLEAN, Pair(p, elo, i, listed)
  PROVE  RecentMatches'
<1> DEFINE m == [player1 |-> p, player2 |-> entries[i].player, matchId |-> counter + 1]
           longer == Append(matches, m)
           n == Len(matches)
<1>1. matches' = KeepRecent(longer) /\ counter' = counter + 1
  BY DEF Pair, NewMatchId
<1>2. m \in Matches
  <2>1. counter + 1 \in 1..MaxMatches
    BY BoundsAssumption DEF Pair, TypeOK
  <2> QED
    BY <2>1, EntryTyped DEF Matches
<1>3. matches \in Seq(Matches) /\ n \in Nat /\ DOMAIN matches = 1..n
  BY LenProperties DEF TypeOK
<1> HIDE DEF m
<1>4. /\ longer \in Seq(Matches) /\ Len(longer) = n + 1 /\ DOMAIN longer = 1..n + 1
      /\ \A k \in 1..n : longer[k] = matches[k]
      /\ longer[n + 1] = m
  <2>1. longer \in Seq(Matches) /\ Len(longer) = n + 1
    BY <1>2, <1>3, AppendProperties
  <2>2. DOMAIN longer = 1..n + 1
    BY <2>1, LenProperties
  <2> QED
    BY <2>1, <2>2, <1>2, <1>3, AppendProperties
<1> HIDE DEF longer
<1>5. /\ counter \in Nat /\ MaxRecent \in Nat \ {0} /\ Len(events) = counter
      /\ DOMAIN events = 1..counter
      /\ n = IF counter <= MaxRecent THEN counter ELSE MaxRecent
      /\ \A k \in 1..n :
           matches[k] = [player1 |-> events[counter - n + k].player1,
                         player2 |-> events[counter - n + k].player2,
                         matchId |-> counter - n + k]
  BY <1>3, BoundsAssumption, SequencesTyped DEF TypeOK, Ledger, RecentMatches
<1> HIDE DEF n
<1> DEFINE Logged(id) == [player1 |-> events'[id].player1,
                          player2 |-> events'[id].player2, matchId |-> id]
<1>6. \A k \in 1..n + 1 : longer[k] = Logged(counter - n + k)
  <2> SUFFICES ASSUME NEW k \in 1..n + 1 PROVE longer[k] = Logged(counter - n + k)
    OBVIOUS
  <2> DEFINE id == counter - n + k
  <2>1. CASE k = n + 1
    <3>1. id = counter + 1
      BY <2>1, <1>3, <1>5
    <3>2. events'[counter + 1].player1 = p /\ events'[counter + 1].player2 = entries[i].player
      BY <1>5, PairLogged
    <3>3. longer[k] = m
      BY <2>1, <1>4
    <3> HIDE DEF id
    <3>4. Logged(id) = [player1 |-> p, player2 |-> entries[i].player, matchId |-> counter + 1]
      BY <3>1, <3>2
    <3> QED
      BY <3>3, <3>4 DEF m, id
  <2>2. CASE k \in 1..n
    <3>1. id \in DOMAIN events
      BY <2>2, <1>3, <1>5
    <3>2. matches[k] = [player1 |-> events[id].player1,
                        player2 |-> events[id].player2, matchId |-> id]
      BY <2>2, <1>5
    <3>3. longer[k] = matches[k]
      BY <2>2, <1>4
    <3> HIDE DEF id
    <3>4. events'[id] = events[id]
      BY <3>1, PairLogged
    <3>5. longer[k] = Logged(id)
      BY <3>2, <3>3, <3>4
    <3> QED
      BY <3>5 DEF id
  <2> QED
    BY <2>1, <2>2, <1>3
<1> HIDE DEF Logged
<1>7. CASE n + 1 > MaxRecent
  <2>1. matches' = RemoveAt(longer, 1) /\ 1 \in 1..Len(longer)
    BY <1>1, <1>3, <1>4, <1>7 DEF KeepRecent
  <2>2. /\ matches' \in Seq(Matches) /\ Len(matches') = n
        /\ \A k \in 1..n : matches'[k] = longer[k + 1]
    <3>1. /\ matches' \in Seq(Matches) /\ Len(matches') = Len(longer) - 1
          /\ \A k \in 1..Len(longer) - 1 :
               matches'[k] = IF k < 1 THEN longer[k] ELSE longer[k + 1]
      BY <2>1, <1>4, RemoveAtProperties
    <3>2. Len(longer) - 1 = n
      BY <1>3, <1>4
    <3> QED
      BY <3>1, <3>2, <1>3
  <2>3. n = MaxRecent /\ MaxRecent <= counter
    BY <1>3, <1>5, <1>7
  <2>4. DOMAIN matches' = 1..n
    BY <2>2, LenProperties
  <2>5. Len(matches') = IF counter' <= MaxRecent THEN counter' ELSE MaxRecent
    BY <2>2, <2>3, <1>1, <1>5
  <2>6. \A k \in DOMAIN matches' : matches'[k] = Logged(counter' - Len(matches') + k)
    <3> SUFFICES ASSUME NEW k \in 1..n PROVE matches'[k] = Logged(counter + 1 - n + k)
      BY <2>2, <2>4, <1>1, <1>3, <1>5
    <3>1. k + 1 \in 1..n + 1 /\ counter - n + (k + 1) = counter + 1 - n + k
      <4>1. n \in Int /\ counter \in Int /\ k \in Int
        BY <1>3, <1>5
      <4> QED
        BY <4>1, <1>3
    <3>2. matches'[k] = longer[k + 1] /\ longer[k + 1] = Logged(counter - n + (k + 1))
      BY <3>1, <2>2, <1>6
    <3> QED
      BY <3>1, <3>2
  <2> QED
    BY <2>5, <2>6 DEF RecentMatches, Logged
<1>8. CASE n + 1 <= MaxRecent
  <2>1. matches' = longer
    BY <1>1, <1>3, <1>4, <1>5, <1>8 DEF KeepRecent
  <2>2. n = counter
    BY <1>3, <1>5, <1>8
  <2>3. Len(matches') = IF counter' <= MaxRecent THEN counter' ELSE MaxRecent
    BY <2>1, <2>2, <1>1, <1>4, <1>8
  <2>4. \A k \in DOMAIN matches' : matches'[k] = Logged(counter' - Len(matches') + k)
    <3>1. DOMAIN matches' = 1..n + 1 /\ Len(matches') = n + 1
      BY <2>1, <1>4
    <3> SUFFICES ASSUME NEW k \in 1..n + 1
                 PROVE  longer[k] = Logged(counter' - Len(matches') + k)
      BY <2>1, <3>1
    <3>2. counter' - Len(matches') + k = counter - n + k
      BY <3>1, <1>1, <1>3, <1>5
    <3>3. longer[k] = Logged(counter - n + k)
      BY <1>6
    <3> QED
      BY <3>2, <3>3
  <2> QED
    BY <2>3, <2>4 DEF RecentMatches, Logged
<1> QED
  BY <1>3, <1>5, <1>7, <1>8

(* The queue lists the latest matches, in order, and no more than there is   *)
(* room for.                                                                 *)
THEOREM RecentAreLatest == Spec => []RecentMatches
<1>1. Init => RecentMatches
  BY BoundsAssumption DEF Init, RecentMatches
<1>2. TypeOK /\ QueueFresh /\ HonestInv /\ RecentMatches /\ [Next]_vars => RecentMatches'
  <2> SUFFICES ASSUME TypeOK, QueueFresh, HonestInv, RecentMatches, [Next]_vars
               PROVE  RecentMatches'
    OBVIOUS
  <2>1. ASSUME UNCHANGED <<matches, counter, events>> PROVE RecentMatches'
    BY <2>1 DEF RecentMatches
  <2>2. CASE Admin
    <3>1. UNCHANGED <<matches, counter, events>>
      BY <2>2 DEF Admin, InitializeTenant, InitializeQueue, DelegateQueue, queueVars, QueueFresh
    <3> QED
      BY <2>1, <3>1
  <2>3. ASSUME NEW p \in Players, Player(p) PROVE RecentMatches'
    <3>1. ASSUME NEW elo \in Elos, NEW listed \in BOOLEAN, JoinQueue(p, elo, listed)
          PROVE  RecentMatches'
      BY <2>1, <3>1, PairRecent DEF JoinQueue, Wait, HonestInv
    <3> QED
      BY <2>1, <2>3, <3>1
      DEF Player, CreateTicket, DelegateTicket, CancelTicket, CloseTicket, queueVars
  <2>4. CASE Crank
    BY <2>1, <2>4 DEF Crank, FlushMatches, CommitTickets, queueVars
  <2>5. CASE Settle \/ UNCHANGED vars
    BY <2>1, <2>5 DEF Settle, vars, queueVars
  <2> QED
    BY <2>2, <2>3, <2>4, <2>5 DEF Next
<1> QED
  BY <1>1, <1>2, DuelTyped, NoQueueNoMatch, DuelHonest, PTL DEF Spec

-----------------------------------------------------------------------------
(* The program implements module Matchmaking.  What the mapping makes of the *)
(* accounts:                                                                 *)
Waiting == ToSet(entries)

Made ==
  [id \in DOMAIN events |->
     [player1 |-> events[id].player1, player2 |-> events[id].player2,
      elo1 |-> events[id].elo1, elo2 |-> events[id].elo2]]

Debt(pm) == [player |-> pm.player, match |-> pm.matchId]

Debts == {Debt(pm) : pm \in ToSet(pending)}

Outcome == [p \in Players |-> ticket[p].matchId]

LEMMA InitPromise ==
  ASSUME Init
  PROVE  Promise!Init
<1>1. Waiting = {} /\ Debts = {}
  BY DEF Init, Waiting, Debts, ToSet
<1>2. Made = <<>>
  BY DEF Init, Made
<1>3. Outcome = [p \in Players |-> 0]
  BY DEF Init, Outcome, Absent
<1> QED
  BY <1>1, <1>2, <1>3 DEF Promise!Init, Waiting, Made, Debts, Debt, Outcome

(* Steps that the promise says nothing about: on L1, of the queue's account, *)
(* of commits, of tickets that keep telling of no match.                     *)
LEMMA StutterPromise ==
  ASSUME UNCHANGED <<entries, pending, events>>, Outcome' = Outcome
  PROVE  UNCHANGED Promise!vars
BY DEF Promise!vars, Outcome

(* A ticket that says something else of no match tells of no match still.    *)
LEMMA SameOutcome ==
  ASSUME TypeOK, NEW p \in Players, NEW t, WriteTickets([ticket EXCEPT ![p] = t]),
         t.matchId = ticket[p].matchId
  PROVE  Outcome' = Outcome
<1>1. ticket' = [ticket EXCEPT ![p] = t] /\ ticket \in [Players -> Tickets]
  BY DEF WriteTickets, TypeOK
<1>2. \A x \in Players : ticket'[x].matchId = ticket[x].matchId
  BY <1>1
<1> QED
  BY <1>2 DEF Outcome

LEMMA ClosePromise ==
  ASSUME TypeOK, NEW p \in Players, CloseTicket(p)
  PROVE  Promise!Forget(p)
<1>1. /\ ticket' = [ticket EXCEPT ![p] = Absent] /\ ticket \in [Players -> Tickets]
      /\ UNCHANGED <<entries, pending, events>>
  BY DEF CloseTicket, WriteTickets, TypeOK, queueVars
<1>2. \A x \in Players : ticket'[x].matchId = IF x = p THEN 0 ELSE ticket[x].matchId
  BY <1>1 DEF Absent
<1>3. Outcome' = [Outcome EXCEPT ![p] = 0]
  BY <1>2 DEF Outcome
<1> QED
  BY <1>1, <1>3 DEF Promise!Forget, Outcome

(* Whoever finds nobody in the window waits.                                 *)
LEMMA WaitPromise ==
  ASSUME TypeOK, NEW p \in Players, NEW elo \in Elos, ticket[p] = Searching, Wait(p, elo)
  PROVE  Promise!Arrive(p, elo)
<1> DEFINE e == [player |-> p, elo |-> elo]
<1>1. /\ entries' = Append(entries, e) /\ Candidates(entries, elo, EloWindow) = {}
      /\ UNCHANGED <<pending, ticket, events>>
  BY DEF Wait
<1>2. e \in Entries
  BY DEF Entries
<1> HIDE DEF e
<1>3. Waiting' = Waiting \cup {e}
  <2>1. entries' \in Seq(Entries) /\ Len(entries') = Len(entries) + 1
    BY <1>1, <1>2, SequencesTyped, AppendProperties
  <2>2. DOMAIN entries' = 1..Len(entries) + 1
    BY <2>1, LenProperties
  <2>3. /\ \A k \in 1..Len(entries) : entries'[k] = entries[k]
        /\ entries'[Len(entries) + 1] = e
    BY <1>1, <1>2, SequencesTyped, AppendProperties
  <2>4. DOMAIN entries' = DOMAIN entries \cup {Len(entries) + 1}
    BY <2>2, SequencesTyped
  <2> QED
    BY <2>3, <2>4, SequencesTyped DEF Waiting, ToSet
<1>4. Outcome[p] = 0
  BY DEF Outcome, Searching
<1>5. \A w \in Waiting : ~ (Distance(w.elo, elo) <= EloWindow)
  BY <1>1 DEF Waiting, ToSet, Candidates, InWindow
<1> QED
  BY <1>1, <1>3, <1>4, <1>5
  DEF Promise!Arrive, Promise!Near, Promise!Distance, Distance, Waiting, Outcome, e

(* Taking an entry out of the queue takes it out of the set: two equal ones  *)
(* would have been matched with each other.                                  *)
LEMMA EntryLeaves ==
  ASSUME TypeOK, QueueSeparated, NEW i \in DOMAIN entries, entries' = RemoveAt(entries, i)
  PROVE  Waiting' = Waiting \ {entries[i]}
<1>1. i \in 1..Len(entries) /\ Len(entries) \in Nat /\ DOMAIN entries = 1..Len(entries)
  BY SequencesTyped
<1>2. /\ entries' \in Seq(Entries) /\ Len(entries') = Len(entries) - 1
      /\ \A j \in 1..Len(entries) - 1 :
           entries'[j] = IF j < i THEN entries[j] ELSE entries[j + 1]
  BY <1>1, SequencesTyped, RemoveAtProperties
<1>3. DOMAIN entries' = 1..Len(entries) - 1
  BY <1>2, LenProperties
<1>4. \A j \in DOMAIN entries : j # i => entries[j] # entries[i]
  <2> SUFFICES ASSUME NEW j \in DOMAIN entries, j # i, entries[j] = entries[i] PROVE FALSE
    OBVIOUS
  <2>1. Distance(entries[i].elo, entries[i].elo) > EloWindow
    BY DEF QueueSeparated
  <2>2. entries[i].elo \in Nat /\ EloWindow \in Nat
    BY EntryTyped, ElosAssumption
  <2> QED
    BY <2>1, <2>2 DEF Distance
<1>5. ASSUME NEW w \in Waiting' PROVE w \in Waiting \ {entries[i]}
  <2>1. PICK j \in DOMAIN entries' : w = entries'[j]
    BY <1>5 DEF Waiting, ToSet
  <2>2. PICK k \in DOMAIN entries : k # i /\ w = entries[k]
    <3>1. CASE j < i
      BY <2>1, <3>1, <1>1, <1>2, <1>3
    <3>2. CASE ~ (j < i)
      <4>1. j + 1 \in DOMAIN entries /\ j + 1 # i /\ w = entries[j + 1]
        BY <2>1, <3>2, <1>1, <1>2, <1>3
      <4> QED
        BY <4>1
    <3> QED
      BY <3>1, <3>2
  <2> QED
    BY <2>2, <1>4 DEF Waiting, ToSet
<1>6. ASSUME NEW w \in Waiting, w # entries[i] PROVE w \in Waiting'
  <2>1. PICK k \in DOMAIN entries : w = entries[k] /\ k # i
    BY <1>6 DEF Waiting, ToSet
  <2>2. CASE k < i
    <3>1. k \in DOMAIN entries' /\ entries'[k] = w
      BY <2>1, <2>2, <1>1, <1>2, <1>3
    <3> QED
      BY <3>1 DEF Waiting, ToSet
  <2>3. CASE ~ (k < i)
    <3>1. k - 1 \in 1..Len(entries) - 1 /\ ~ (k - 1 < i) /\ (k - 1) + 1 = k
      BY <2>1, <2>3, <1>1
    <3>2. k - 1 \in DOMAIN entries' /\ entries'[k - 1] = w
      BY <2>1, <3>1, <1>2, <1>3
    <3> QED
      BY <3>2 DEF Waiting, ToSet
  <2> QED
    BY <2>2, <2>3, <2>1, <1>1
<1> QED
  BY <1>5, <1>6

(* Whoever finds somebody is matched at once, and the other is owed it.      *)
LEMMA PairPromise ==
  ASSUME TypeOK, QueueSeparated, Ledger, NEW p \in Players, NEW elo \in Elos,
         NEW i \in DOMAIN entries, NEW listed \in BOOLEAN, ticket[p] = Searching,
         Pair(p, elo, i, listed)
  PROVE  \E w \in Waiting : Promise!Match(p, elo, w)
<1> DEFINE q == entries[i].player
           id == counter + 1
           pm == Owed(q, p, id)
           m == [player1 |-> p, player2 |-> q, elo1 |-> elo, elo2 |-> entries[i].elo]
<1>1. id \in 1..MaxMatches /\ id = Len(events) + 1
  BY BoundsAssumption DEF Pair, TypeOK, Ledger
<1>2. /\ entries' = RemoveAt(entries, i)
      /\ pending' = Append(pending, pm)
      /\ ticket' = [ticket EXCEPT ![p] = Matched(q, id)]
  BY PairRemoves DEF Pair, NewMatchId, WriteTickets
<1>3. Waiting' = Waiting \ {entries[i]} /\ entries[i] \in Waiting
  BY <1>2, EntryLeaves DEF Waiting, ToSet
<1>4. pm \in PendingMatches /\ Debt(pm) = [player |-> q, match |-> id]
  BY <1>1, EntryTyped DEF PendingMatches, Owed, Debt
<1>5. Outcome' = [Outcome EXCEPT ![p] = id] /\ Outcome[p] = 0
  <2>1. \A x \in Players : ticket'[x].matchId = IF x = p THEN id ELSE ticket[x].matchId
    BY <1>2 DEF TypeOK, Matched
  <2> HIDE DEF id
  <2>2. Outcome' = [Outcome EXCEPT ![p] = id]
    BY <2>1 DEF Outcome
  <2> QED
    BY <2>2 DEF Outcome, Searching
<1>6. Debts' = Debts \cup {[player |-> q, match |-> id]}
  <2> HIDE DEF pm
  <2>1. pending' \in Seq(PendingMatches) /\ Len(pending') = Len(pending) + 1
    BY <1>2, <1>4, SequencesTyped, AppendProperties
  <2>2. DOMAIN pending' = 1..Len(pending) + 1
    BY <2>1, LenProperties
  <2>3. /\ \A k \in 1..Len(pending) : pending'[k] = pending[k]
        /\ pending'[Len(pending) + 1] = pm
    BY <1>2, <1>4, SequencesTyped, AppendProperties
  <2>4. DOMAIN pending' = DOMAIN pending \cup {Len(pending) + 1}
    BY <2>2, SequencesTyped
  <2>5. ToSet(pending') = ToSet(pending) \cup {pm}
    BY <2>3, <2>4, SequencesTyped DEF ToSet
  <2> QED
    BY <2>5, <1>4 DEF Debts
<1>7. Made' = Append(Made, m) /\ Len(Made) + 1 = id
  <2> DEFINE Brief(ev) == [player1 |-> ev.player1, player2 |-> ev.player2,
                           elo1 |-> ev.elo1, elo2 |-> ev.elo2]
             Briefs == {Brief(ev) : ev \in Events}
  <2>1. Len(events) \in Nat /\ DOMAIN events = 1..Len(events)
    BY SequencesTyped
  <2>2. \A n \in DOMAIN events : events[n] \in Events
    BY SequencesTyped, ElementOfSeq
  <2>3. Made = [n \in 1..Len(events) |-> Brief(events[n])]
    BY <2>1 DEF Made
  <2>4. Made \in Seq(Briefs) /\ Len(Made) = Len(events)
    <3>1. Made \in [1..Len(events) -> Briefs]
      BY <2>1, <2>2, <2>3
    <3> QED
      BY <2>1, <3>1, LenProperties, SeqDef
  <2>5. /\ DOMAIN events' = 1..Len(events) + 1
        /\ \A n \in DOMAIN events : events'[n] = events[n]
        /\ Brief(events'[Len(events) + 1]) = m
        /\ events'[Len(events) + 1] \in Events
    <3>1. events' \in Seq(Events) /\ Len(events) + 1 \in DOMAIN events'
      BY <2>1, PairLogged
    <3> QED
      BY <3>1, PairLogged, ElementOfSeq
  <2>6. m \in Briefs
    BY <2>5
  <2> HIDE DEF m
  <2>7. Made' = [n \in 1..Len(events) + 1 |-> Brief(events'[n])]
    BY <2>5 DEF Made
  <2>8. \A n \in 1..Len(events) + 1 :
          Made'[n] = IF n = Len(events) + 1 THEN m ELSE Made[n]
    <3> SUFFICES ASSUME NEW n \in 1..Len(events) + 1
                 PROVE  Made'[n] = IF n = Len(events) + 1 THEN m ELSE Made[n]
      OBVIOUS
    <3>1. CASE n = Len(events) + 1
      BY <3>1, <2>5, <2>7
    <3>2. CASE n # Len(events) + 1
      <4>1. n \in DOMAIN events
        BY <3>2, <2>1
      <4> QED
        BY <3>2, <4>1, <2>1, <2>3, <2>5, <2>7
    <3> QED
      BY <3>1, <3>2
  <2> HIDE DEF Briefs, Brief
  <2>9. /\ Append(Made, m) \in Seq(Briefs) /\ Len(Append(Made, m)) = Len(events) + 1
        /\ \A n \in 1..Len(events) : Append(Made, m)[n] = Made[n]
        /\ Append(Made, m)[Len(events) + 1] = m
    BY <2>4, <2>6, AppendProperties
  <2>10. DOMAIN Append(Made, m) = 1..Len(events) + 1
    BY <2>9, LenProperties
  <2>11. Append(Made, m) = [n \in 1..Len(events) + 1 |-> Append(Made, m)[n]]
    BY <2>9, <2>10, LenProperties
  <2>12. \A n \in 1..Len(events) + 1 : Append(Made, m)[n] = Made'[n]
    BY <2>1, <2>8, <2>9
  <2> QED
    BY <2>4, <2>7, <2>11, <2>12, <1>1
<1>8. \A w \in Waiting :
        Distance(w.elo, elo) <= EloWindow =>
          Distance(entries[i].elo, elo) <= Distance(w.elo, elo)
  <2> SUFFICES ASSUME NEW j \in DOMAIN entries, Distance(entries[j].elo, elo) <= EloWindow
               PROVE  Distance(entries[i].elo, elo) <= Distance(entries[j].elo, elo)
    BY DEF Waiting, ToSet
  <2>1. Distance(entries[i].elo, elo) \in Nat /\ Distance(entries[j].elo, elo) \in Nat
    BY EntryTyped, ElosAssumption, DistanceProperties
  <2>2. j \in Candidates(entries, elo, EloWindow)
    BY DEF Candidates, InWindow
  <2> QED
    BY <2>1, <2>2 DEF Pair, IsBestMatch
<1>9. Distance(entries[i].elo, elo) <= EloWindow
  BY DEF Pair, IsBestMatch, Candidates, InWindow
<1> HIDE DEF id
<1>10. PICK w \in Waiting : w = entries[i]
  BY <1>3
<1>11. Promise!Match(p, elo, w)
  BY <1>3, <1>5, <1>6, <1>7, <1>8, <1>9, <1>10
  DEF Promise!Match, Promise!Near, Promise!Distance, Distance,
      Waiting, Made, Debts, Debt, Outcome
<1> QED
  BY <1>10, <1>11

(* A flush tells the first of those who are owed an outcome, each once.      *)
LEMMA FlushPromise ==
  ASSUME TypeOK, PendingHonest, NEW accounts \in SeqOf(Players, MaxAccounts),
         FlushMatches(accounts)
  PROVE  \E debts \in SUBSET Debts : Promise!Tell(debts)
<1>1. PICK n \in 1..Len(pending) :
        /\ pending' = SubSeq(pending, n + 1, Len(pending))
        /\ \A j, k \in 1..n : pending[j].player = pending[k].player => j = k
        /\ \A k \in 1..n :
             /\ ticket[pending[k].player] = Searching
             /\ ticket'[pending[k].player] =
                  Matched(pending[k].opponent, pending[k].matchId)
        /\ \A p \in Players :
             (\A k \in 1..n : pending[k].player # p) => ticket'[p] = ticket[p]
  BY FlushEffect
<1> DEFINE D(k) == Debt(pending[k])
           debts == {D(k) : k \in 1..n}
<1>2. /\ Len(pending) \in Nat /\ DOMAIN pending = 1..Len(pending)
      /\ n \in Nat /\ n <= Len(pending) /\ \A k \in 1..n : k \in DOMAIN pending
  BY SequencesTyped
<1>3. /\ DOMAIN pending' = 1..Len(pending) - n
      /\ \A k \in 1..Len(pending) - n :
           k + n \in DOMAIN pending /\ pending'[k] = pending[k + n]
  BY <1>1, SequencesTyped, RestProperties
<1>4. \A k \in DOMAIN pending :
        D(k).player = pending[k].player /\ D(k).match = pending[k].matchId
  BY DEF Debt
<1>5. Debts = {D(k) : k \in DOMAIN pending}
  BY DEF Debts, ToSet
<1>6. Debts' = {Debt(pending'[k]) : k \in DOMAIN pending'}
  BY DEF Debts, ToSet
<1>7. \A j, k \in DOMAIN pending : D(j) = D(k) => j = k
  <2> SUFFICES ASSUME NEW j \in DOMAIN pending, NEW k \in DOMAIN pending, D(j) = D(k)
               PROVE  j = k
    OBVIOUS
  <2>1. pending[j].matchId = pending[k].matchId /\ pending[k].matchId \in Int
    BY <1>4, PendingTyped
  <2>2. ~ (j < k) /\ ~ (k < j)
    BY <2>1 DEF PendingHonest
  <2> QED
    BY <2>2, <1>2
<1> HIDE DEF D
<1>8. debts \in SUBSET Debts
  BY <1>2, <1>5
<1>9. Debts' = Debts \ debts
  <2>1. ASSUME NEW d \in Debts' PROVE d \in Debts \ debts
    <3>1. PICK k \in DOMAIN pending' : d = Debt(pending'[k])
      BY <1>6
    <3>2. k + n \in DOMAIN pending /\ d = D(k + n)
      BY <3>1, <1>3 DEF D
    <3>3. k + n \notin 1..n
      BY <1>2, <1>3
    <3> QED
      BY <3>2, <3>3, <1>2, <1>5, <1>7
  <2>2. ASSUME NEW d \in Debts, d \notin debts PROVE d \in Debts'
    <3>1. PICK k \in DOMAIN pending : d = D(k)
      BY <1>5
    <3>2. k \notin 1..n
      BY <2>2, <3>1
    <3>3. k - n \in 1..Len(pending) - n /\ (k - n) + n = k
      BY <3>2, <1>2
    <3>4. k - n \in DOMAIN pending' /\ pending'[k - n] = pending[k]
      BY <3>3, <1>3
    <3> QED
      BY <3>1, <3>4, <1>6 DEF D
  <2> QED
    BY <2>1, <2>2
<1>10. \A d, e \in debts : d.player = e.player => d = e
  <2> SUFFICES ASSUME NEW j \in 1..n, NEW k \in 1..n, D(j).player = D(k).player
               PROVE  D(j) = D(k)
    OBVIOUS
  <2>1. pending[j].player = pending[k].player
    BY <1>2, <1>4
  <2> QED
    BY <1>1, <2>1
<1>11. \A d \in debts : Outcome[d.player] = 0
  <2> SUFFICES ASSUME NEW k \in 1..n PROVE Outcome[D(k).player] = 0
    OBVIOUS
  <2>1. D(k).player \in Players /\ ticket[D(k).player] = Searching
    BY <1>1, <1>2, <1>4, PendingTyped
  <2> QED
    BY <2>1 DEF Outcome, Searching
<1> DEFINE told(p) == IF \E d \in debts : d.player = p
                      THEN (CHOOSE d \in debts : d.player = p).match
                      ELSE Outcome[p]
<1>12. \A p \in Players : ticket'[p].matchId = told(p)
  <2> SUFFICES ASSUME NEW p \in Players PROVE ticket'[p].matchId = told(p)
    OBVIOUS
  <2>1. CASE \E d \in debts : d.player = p
    <3>1. PICK d \in debts : d = (CHOOSE e \in debts : e.player = p) /\ d.player = p
      BY <2>1
    <3>2. PICK k \in 1..n : d = D(k)
      BY <3>1
    <3>3. pending[k].player = p /\ d.match = pending[k].matchId
      BY <3>1, <3>2, <1>2, <1>4
    <3>4. ticket'[p] = Matched(pending[k].opponent, pending[k].matchId)
      BY <3>3, <1>1
    <3>5. ticket'[p].matchId = d.match
      BY <3>3, <3>4 DEF Matched
    <3> QED
      BY <2>1, <3>1, <3>5
  <2>2. CASE ~ \E d \in debts : d.player = p
    <3>1. \A k \in 1..n : pending[k].player # p
      BY <2>2, <1>2, <1>4
    <3>2. ticket'[p] = ticket[p]
      BY <3>1, <1>1
    <3> QED
      BY <2>2, <3>2 DEF Outcome
  <2> QED
    BY <2>1, <2>2
<1>13. Outcome' = [p \in Players |-> told(p)]
  BY <1>12 DEF Outcome
<1>14. UNCHANGED <<entries, events>>
  BY DEF FlushMatches
<1> HIDE DEF debts
<1>15. PICK ds \in SUBSET Debts : ds = debts
  BY <1>8
<1>16. Promise!Tell(ds)
  BY <1>8, <1>9, <1>10, <1>11, <1>13, <1>14, <1>15 DEF Promise!Tell, Debts, Debt, Outcome
<1> QED
  BY <1>16

(* What players are promised: a newcomer is matched with one who waits in    *)
(* its window, the two and no bystander leaving the queue, or waits; each is *)
(* told once of the match it is owed, and never of another; whatever layers, *)
(* cranks, commits and cancellations come between.                           *)
THEOREM ProgramKeepsPromise == Spec => KeepsPromise
<1>1. Init => Promise!Init
  BY InitPromise
<1>2. TypeOK /\ QueueSeparated /\ HonestInv /\ [Next]_vars => [Promise!Next]_(Promise!vars)
  <2> SUFFICES ASSUME TypeOK, QueueSeparated, HonestInv, [Next]_vars
               PROVE  Promise!Next \/ UNCHANGED Promise!vars
    OBVIOUS
  <2>1. ASSUME UNCHANGED <<entries, pending, events, ticket>> PROVE UNCHANGED Promise!vars
    <3>1. Outcome' = Outcome
      BY <2>1 DEF Outcome
    <3> QED
      BY <2>1, <3>1, StutterPromise
  <2>2. CASE Admin
    BY <2>1, <2>2 DEF Admin, InitializeTenant, InitializeQueue, DelegateQueue, queueVars, ticketVars
  <2>3. ASSUME NEW p \in Players, Player(p) PROVE Promise!Next \/ UNCHANGED Promise!vars
    <3>1. CASE CreateTicket(p)
      <4>1. Searching.matchId = Absent.matchId /\ ticket[p] = Absent
        BY <3>1 DEF CreateTicket, Searching, Absent
      <4>2. Outcome' = Outcome
        BY <3>1, <4>1, SameOutcome DEF CreateTicket
      <4> QED
        BY <3>1, <4>2, StutterPromise DEF CreateTicket, queueVars
    <3>2. CASE DelegateTicket(p)
      BY <2>1, <3>2 DEF DelegateTicket, queueVars
    <3>3. CASE CancelTicket(p)
      <4>1. Cancelled.matchId = Searching.matchId /\ ticket[p] = Searching
        BY <3>3 DEF CancelTicket, Cancelled, Searching
      <4>2. Outcome' = Outcome
        BY <3>3, <4>1, SameOutcome DEF CancelTicket
      <4> QED
        BY <3>3, <4>2, StutterPromise DEF CancelTicket, queueVars
    <3>4. CASE CloseTicket(p)
      BY <3>4, ClosePromise DEF Promise!Next
    <3>5. ASSUME NEW elo \in Elos, NEW listed \in BOOLEAN, JoinQueue(p, elo, listed)
          PROVE  Promise!Next
      <4>1. CASE Wait(p, elo)
        BY <3>5, <4>1, WaitPromise DEF JoinQueue, Promise!Next
      <4>2. ASSUME NEW i \in DOMAIN entries, Pair(p, elo, i, listed) PROVE Promise!Next
        <5>1. \E w \in Waiting : Promise!Match(p, elo, w)
          BY <3>5, <4>2, PairPromise DEF JoinQueue, HonestInv
        <5> QED
          BY <5>1 DEF Promise!Next, Waiting
      <4> QED
        BY <3>5, <4>1, <4>2 DEF JoinQueue
    <3> QED
      BY <2>3, <3>1, <3>2, <3>3, <3>4, <3>5 DEF Player
  <2>4. CASE Crank
    <3>1. ASSUME NEW accounts \in SeqOf(Players, MaxAccounts), FlushMatches(accounts)
          PROVE  Promise!Next
      BY <3>1, FlushPromise DEF HonestInv, Promise!Next, Debts, Debt
    <3>2. ASSUME NEW players \in SUBSET Players, CommitTickets(players)
          PROVE  UNCHANGED Promise!vars
      BY <2>1, <3>2 DEF CommitTickets, queueVars, ticketVars
    <3> QED
      BY <2>4, <3>1, <3>2 DEF Crank
  <2>5. CASE Settle \/ UNCHANGED vars
    BY <2>1, <2>5 DEF Settle, vars, queueVars, ticketVars
  <2> QED
    BY <2>2, <2>3, <2>4, <2>5 DEF Next
<1> QED
  BY <1>1, <1>2, DuelTyped, NoMatchLeftBehind, DuelHonest, PTL
  DEF Spec, KeepsPromise, Promise!Spec

-----------------------------------------------------------------------------
(* What L1 shows of tickets that are in the TEE, whatever is committed in   *)
(* whatever order, while players, cranks and the queue go on.               *)


(* A ticket on L1 is shown as it is, and no commit of it is on its way.     *)
SameOnL1 ==
  \A p \in Players \ delegated :
    /\ l1[p] = ticket[p]
    /\ \A k \in DOMAIN inflight : p \notin DOMAIN inflight[k]

(* A ticket in the TEE cannot be closed.                                    *)
StaysInTEE == \A p \in delegated : ticket[p] # Absent

(* Once an outcome is shown, or on its way, no later commit says Searching. *)
InOrder ==
  \A p \in delegated : \A k \in DOMAIN inflight :
    p \in DOMAIN inflight[k] =>
      /\ l1[p] # Searching => inflight[k][p] # Searching
      /\ \A j \in DOMAIN inflight :
           j < k /\ p \in DOMAIN inflight[j] /\ inflight[j][p] # Searching
             => inflight[k][p] # Searching

(* The inductive invariant.  SettledAgrees alone is not: a ticket that is   *)
(* delegated must come with no commit of an earlier life, and no delegated  *)
(* ticket may be created anew.                                              *)
Copies == SameOnL1 /\ StaysInTEE /\ SettledAgrees /\ InOrder

-----------------------------------------------------------------------------
(* Instructions that write tickets: of those in the TEE only one that is     *)
(* Searching may change, and it does not disappear.                          *)
LEMMA WriteCopies ==
  ASSUME TypeOK, Copies, UNCHANGED <<delegated, inflight>>,
         l1' = [p \in Players |-> IF p \in delegated THEN l1[p] ELSE ticket'[p]],
         \A p \in delegated :
           ticket'[p] # ticket[p] => ticket[p] = Searching /\ ticket'[p] # Absent
  PROVE  Copies'
<1>1. \A p \in Players : p \in delegated => l1'[p] = l1[p]
  OBVIOUS
<1>2. \A p \in delegated : p \in Players
  BY DEF TypeOK
<1>3. SameOnL1'
  BY DEF Copies, SameOnL1
<1>4. StaysInTEE'
  BY DEF Copies, StaysInTEE
<1>5. SettledAgrees'
  BY <1>1, <1>2 DEF Copies, SettledAgrees
<1>6. InOrder'
  BY <1>1, <1>2 DEF Copies, InOrder
<1> QED
  BY <1>3, <1>4, <1>5, <1>6 DEF Copies

(* A player's own instruction writes its ticket only.                        *)
LEMMA RewriteCopies ==
  ASSUME TypeOK, Copies, NEW p \in Players, NEW t,
         WriteTickets([ticket EXCEPT ![p] = t]), UNCHANGED <<delegated, inflight>>,
         p \in delegated => ticket[p] = Searching /\ t # Absent
  PROVE  Copies'
<1>1. /\ ticket' = [ticket EXCEPT ![p] = t]
      /\ l1' = [x \in Players |-> IF x \in delegated THEN l1[x] ELSE ticket'[x]]
  BY DEF WriteTickets
<1>2. \A x \in delegated :
        ticket'[x] # ticket[x] => ticket[x] = Searching /\ ticket'[x] # Absent
  BY <1>1 DEF TypeOK
<1> QED
  BY <1>1, <1>2, WriteCopies

LEMMA FlushCopies ==
  ASSUME TypeOK, Copies, NEW accounts \in SeqOf(Players, MaxAccounts),
         FlushMatches(accounts)
  PROVE  Copies'
<1>1. PICK n \in 1..Len(pending) :
        /\ \A k \in 1..n :
             /\ ticket[pending[k].player] = Searching
             /\ ticket'[pending[k].player] =
                  Matched(pending[k].opponent, pending[k].matchId)
        /\ \A p \in Players :
             (\A k \in 1..n : pending[k].player # p) => ticket'[p] = ticket[p]
        /\ l1' = [p \in Players |-> IF p \in delegated THEN l1[p] ELSE ticket'[p]]
  BY FlushEffect
<1>2. \A q, id : Matched(q, id) # Absent
  BY DEF Matched, Absent
<1>3. \A p \in delegated :
        ticket'[p] # ticket[p] => ticket[p] = Searching /\ ticket'[p] # Absent
  <2> SUFFICES ASSUME NEW p \in delegated, ticket'[p] # ticket[p]
               PROVE  ticket[p] = Searching /\ ticket'[p] # Absent
    OBVIOUS
  <2>1. PICK k \in 1..n : pending[k].player = p
    BY <1>1 DEF TypeOK
  <2>2. ticket[p] = Searching /\ ticket'[p] = Matched(pending[k].opponent, pending[k].matchId)
    BY <1>1, <2>1
  <2> QED
    BY <1>2, <2>2
<1>4. UNCHANGED <<delegated, inflight>>
  BY DEF FlushMatches
<1> QED
  BY <1>1, <1>3, <1>4, WriteCopies

(* A ticket that is delegated takes no earlier commit with it.               *)
LEMMA DelegateCopies ==
  ASSUME TypeOK, Copies, NEW p \in Players, DelegateTicket(p)
  PROVE  Copies'
<1>1. /\ delegated' = delegated \cup {p} /\ p \notin delegated /\ ticket[p] # Absent
      /\ UNCHANGED <<ticket, l1, inflight>>
  BY DEF DelegateTicket
<1>2. /\ l1[p] = ticket[p]
      /\ \A k \in DOMAIN inflight : p \notin DOMAIN inflight[k]
  BY <1>1 DEF Copies, SameOnL1
<1>3. SameOnL1'
  BY <1>1 DEF Copies, SameOnL1
<1>4. StaysInTEE'
  BY <1>1 DEF Copies, StaysInTEE
<1>5. SettledAgrees'
  BY <1>1, <1>2 DEF Copies, SettledAgrees
<1>6. InOrder'
  BY <1>1, <1>2 DEF Copies, InOrder
<1> QED
  BY <1>3, <1>4, <1>5, <1>6 DEF Copies

(* A commit is the newest copy there is.                                     *)
LEMMA CommitCopies ==
  ASSUME TypeOK, Copies, NEW players \in SUBSET Players, CommitTickets(players)
  PROVE  Copies'
<1> DEFINE copy == [p \in players |-> ticket[p]]
           n == Len(inflight)
<1>1. /\ inflight' = Append(inflight, copy) /\ players \subseteq delegated
      /\ UNCHANGED <<ticket, delegated, l1>>
  BY DEF CommitTickets, ticketVars
<1>2. copy \in Commits
  <2>1. copy \in [players -> Tickets]
    BY DEF TypeOK
  <2> QED
    BY <2>1 DEF Commits
<1>3. DOMAIN copy = players /\ \A p \in players : copy[p] = ticket[p]
  OBVIOUS
<1> HIDE DEF copy
<1>4. /\ n \in Nat /\ DOMAIN inflight = 1..n /\ DOMAIN inflight' = 1..n + 1
      /\ \A k \in 1..n : inflight'[k] = inflight[k]
      /\ inflight'[n + 1] = copy
  <2>1. inflight' \in Seq(Commits) /\ Len(inflight') = n + 1
    BY <1>1, <1>2, SequencesTyped, AppendProperties
  <2> QED
    BY <2>1, <1>1, <1>2, SequencesTyped, AppendProperties, LenProperties
<1> HIDE DEF n
<1>5. \A k \in DOMAIN inflight' :
        \/ k \in DOMAIN inflight /\ inflight'[k] = inflight[k]
        \/ k = n + 1 /\ inflight'[k] = copy
  BY <1>4
<1>6. SameOnL1'
  BY <1>1, <1>3, <1>5 DEF Copies, SameOnL1
<1>7. StaysInTEE'
  BY <1>1 DEF Copies, StaysInTEE
<1>8. SettledAgrees'
  BY <1>1, <1>3, <1>5 DEF Copies, SettledAgrees
<1>9. InOrder'
  <2> SUFFICES ASSUME NEW p \in delegated, NEW k \in DOMAIN inflight',
                      p \in DOMAIN inflight'[k]
               PROVE  /\ l1[p] # Searching => inflight'[k][p] # Searching
                      /\ \A j \in DOMAIN inflight' :
                           j < k /\ p \in DOMAIN inflight'[j] /\ inflight'[j][p] # Searching
                             => inflight'[k][p] # Searching
    BY <1>1 DEF InOrder
  <2>1. CASE k \in DOMAIN inflight /\ inflight'[k] = inflight[k]
    <3>1. \A j \in DOMAIN inflight' : j < k => j \in DOMAIN inflight /\ inflight'[j] = inflight[j]
      BY <2>1, <1>4
    <3> QED
      BY <2>1, <3>1 DEF Copies, InOrder
  <2>2. CASE k = n + 1 /\ inflight'[k] = copy
    <3>1. inflight'[k][p] = ticket[p]
      BY <2>2, <1>3
    <3>2. l1[p] # Searching => l1[p] = ticket[p]
      BY DEF Copies, SettledAgrees
    <3>3. \A j \in DOMAIN inflight' :
            j < k /\ p \in DOMAIN inflight'[j] /\ inflight'[j][p] # Searching
              => inflight'[j][p] = ticket[p]
      <4>1. \A j \in DOMAIN inflight' : j < k => j \in DOMAIN inflight /\ inflight'[j] = inflight[j]
        BY <2>2, <1>4
      <4> QED
        BY <4>1 DEF Copies, SettledAgrees
    <3> QED
      BY <3>1, <3>2, <3>3
  <2> QED
    BY <2>1, <2>2, <1>5
<1> QED
  BY <1>6, <1>7, <1>8, <1>9 DEF Copies

(* What Settle does: L1 takes the first commit, the others move up.          *)
LEMMA SettleEffect ==
  ASSUME TypeOK, Settle
  PROVE  /\ 1 \in DOMAIN inflight
         /\ \A p \in Players :
              l1'[p] = IF p \in DOMAIN inflight[1] THEN inflight[1][p] ELSE l1[p]
         /\ \A k \in DOMAIN inflight' :
              k \in Nat /\ k > 0 /\ k + 1 \in DOMAIN inflight /\ inflight'[k] = inflight[k + 1]
         /\ UNCHANGED <<ticket, delegated>>
<1>1. /\ inflight' = RemoveAt(inflight, 1)
      /\ UNCHANGED <<ticket, delegated>>
      /\ l1' = [p \in Players |-> IF p \in DOMAIN inflight[1] THEN inflight[1][p] ELSE l1[p]]
  BY DEF Settle, NextCommit
<1>2. 1 \in DOMAIN inflight /\ 1 \in 1..Len(inflight)
  BY SequencesTyped, EmptySeq DEF Settle
<1>3. /\ inflight' \in Seq(Commits) /\ Len(inflight') = Len(inflight) - 1
      /\ \A k \in 1..Len(inflight) - 1 :
           inflight'[k] = IF k < 1 THEN inflight[k] ELSE inflight[k + 1]
  BY <1>1, <1>2, SequencesTyped, RemoveAtProperties
<1>4. DOMAIN inflight' = 1..Len(inflight) - 1
  BY <1>3, LenProperties
<1>5. \A k \in DOMAIN inflight' :
        k \in Nat /\ k > 0 /\ k + 1 \in DOMAIN inflight /\ inflight'[k] = inflight[k + 1]
  BY <1>3, <1>4, SequencesTyped
<1> QED
  BY <1>1, <1>2, <1>5

LEMMA SettleCopies ==
  ASSUME TypeOK, Copies, Settle
  PROVE  Copies'
<1>1. \A p \in delegated : p \in Players
  BY DEF TypeOK
<1>2. SameOnL1'
  BY SettleEffect DEF Copies, SameOnL1
<1>3. StaysInTEE'
  BY SettleEffect DEF Copies, StaysInTEE
<1>4. SettledAgrees'
  BY <1>1, SettleEffect DEF Copies, SettledAgrees
<1>5. InOrder'
  <2> SUFFICES ASSUME NEW p \in delegated, NEW k \in DOMAIN inflight',
                      p \in DOMAIN inflight'[k]
               PROVE  /\ l1'[p] # Searching => inflight'[k][p] # Searching
                      /\ \A j \in DOMAIN inflight' :
                           j < k /\ p \in DOMAIN inflight'[j] /\ inflight'[j][p] # Searching
                             => inflight'[k][p] # Searching
    BY SettleEffect DEF InOrder
  <2>1. k + 1 \in DOMAIN inflight /\ inflight'[k] = inflight[k + 1] /\ k \in Nat /\ 1 < k + 1
    BY SettleEffect
  <2>2. ASSUME l1'[p] # Searching PROVE inflight'[k][p] # Searching
    <3>1. CASE p \in DOMAIN inflight[1]
      BY <1>1, <2>1, <2>2, <3>1, SettleEffect DEF Copies, InOrder
    <3>2. CASE p \notin DOMAIN inflight[1]
      BY <1>1, <2>1, <2>2, <3>2, SettleEffect DEF Copies, InOrder
    <3> QED
      BY <3>1, <3>2
  <2>3. ASSUME NEW j \in DOMAIN inflight', j < k, p \in DOMAIN inflight'[j],
               inflight'[j][p] # Searching
        PROVE  inflight'[k][p] # Searching
    <3>1. j + 1 \in DOMAIN inflight /\ inflight'[j] = inflight[j + 1] /\ j + 1 < k + 1
      BY <2>1, <2>3, SettleEffect
    <3> QED
      BY <2>1, <2>3, <3>1 DEF Copies, InOrder
  <2> QED
    BY <2>2, <2>3
<1> QED
  BY <1>2, <1>3, <1>4, <1>5 DEF Copies

-----------------------------------------------------------------------------
LEMMA CopiesKept == Spec => []Copies
<1>1. Init => Copies
  BY DEF Init, Copies, SameOnL1, StaysInTEE, SettledAgrees, InOrder
<1>2. TypeOK /\ Copies /\ [Next]_vars => Copies'
  <2> SUFFICES ASSUME TypeOK, Copies, [Next]_vars PROVE Copies'
    OBVIOUS
  <2>1. ASSUME UNCHANGED <<ticket, delegated, l1, inflight>> PROVE Copies'
    BY <2>1 DEF Copies, SameOnL1, StaysInTEE, SettledAgrees, InOrder
  <2>2. CASE Admin
    BY <2>1, <2>2 DEF Admin, InitializeTenant, InitializeQueue, DelegateQueue, ticketVars
  <2>3. ASSUME NEW p \in Players, Player(p) PROVE Copies'
    <3>1. Searching # Absent /\ Cancelled # Absent /\ \A q, id : Matched(q, id) # Absent
      BY DEF Searching, Cancelled, Absent, Matched
    <3>2. CASE CreateTicket(p)
      <4>1. p \notin delegated
        BY <3>2 DEF CreateTicket, Copies, StaysInTEE
      <4> QED
        BY <3>2, <4>1, RewriteCopies DEF CreateTicket
    <3>3. CASE DelegateTicket(p)
      BY <3>3, DelegateCopies
    <3>4. CASE CancelTicket(p)
      BY <3>1, <3>4, RewriteCopies DEF CancelTicket
    <3>5. CASE CloseTicket(p)
      BY <3>5, RewriteCopies DEF CloseTicket
    <3>6. ASSUME NEW elo \in Elos, NEW listed \in BOOLEAN, JoinQueue(p, elo, listed)
          PROVE  Copies'
      <4>1. CASE Wait(p, elo)
        BY <2>1, <3>6, <4>1 DEF JoinQueue, Wait
      <4>2. ASSUME NEW i \in DOMAIN entries, Pair(p, elo, i, listed) PROVE Copies'
        BY <3>1, <3>6, <4>2, RewriteCopies DEF JoinQueue, Pair
      <4> QED
        BY <3>6, <4>1, <4>2 DEF JoinQueue
    <3> QED
      BY <2>3, <3>2, <3>3, <3>4, <3>5, <3>6 DEF Player
  <2>4. CASE Crank
    BY <2>4, FlushCopies, CommitCopies DEF Crank
  <2>5. CASE Settle
    BY <2>5, SettleCopies
  <2>6. CASE UNCHANGED vars
    BY <2>1, <2>6 DEF vars, ticketVars
  <2> QED
    BY <2>2, <2>3, <2>4, <2>5, <2>6 DEF Next
<1> QED
  BY <1>1, <1>2, DuelTyped, PTL DEF Spec

(* Whatever L1 shows of a ticket in the TEE, and whatever commit of it is on *)
(* its way, says Searching or the outcome the ticket has: commit_tickets     *)
(* snapshots tickets at any time, of anybody.                                *)
THEOREM CommitsNeverStale == Spec => []SettledAgrees
<1>1. Copies => SettledAgrees
  BY DEF Copies
<1> QED
  BY <1>1, CopiesKept, PTL

(* An outcome shown of a ticket in the TEE stays.                            *)
LEMMA L1Stays ==
  ASSUME TypeOK, Copies, [Next]_vars, NEW p \in delegated
  PROVE  l1[p].status \in {"Matched", "Cancelled"} => l1'[p] = l1[p]
<1> DEFINE Stays(x) == l1[x].status \in {"Matched", "Cancelled"} => l1'[x] = l1[x]
<1> SUFFICES Stays(p)
  OBVIOUS
<1>1. p \in Players
  BY DEF TypeOK
<1>2. ASSUME NEW new, WriteTickets(new) PROVE Stays(p)
  BY <1>1, <1>2 DEF WriteTickets
<1>3. ASSUME UNCHANGED l1 PROVE Stays(p)
  BY <1>3
<1> HIDE DEF Stays
<1>4. CASE Admin
  BY <1>3, <1>4 DEF Admin, InitializeTenant, InitializeQueue, DelegateQueue, ticketVars
<1>5. ASSUME NEW x \in Players, Player(x) PROVE Stays(p)
  <2>1. ASSUME NEW elo \in Elos, NEW listed \in BOOLEAN, JoinQueue(x, elo, listed)
        PROVE  Stays(p)
    BY <1>2, <1>3, <2>1 DEF JoinQueue, Wait, Pair
  <2> QED
    BY <1>2, <1>3, <1>5, <2>1
    DEF Player, CreateTicket, DelegateTicket, CancelTicket, CloseTicket
<1>6. CASE Crank
  <2>1. ASSUME NEW accounts \in SeqOf(Players, MaxAccounts), FlushMatches(accounts)
        PROVE  Stays(p)
    BY <1>2, <2>1 DEF FlushMatches
  <2>2. ASSUME NEW players \in SUBSET Players, CommitTickets(players) PROVE Stays(p)
    BY <1>3, <2>2 DEF CommitTickets, ticketVars
  <2> QED
    BY <1>6, <2>1, <2>2 DEF Crank
<1>7. CASE Settle
  <2> SUFFICES ASSUME l1[p].status \in {"Matched", "Cancelled"} PROVE l1'[p] = l1[p]
    BY DEF Stays
  <2>1. l1[p] # Searching
    BY DEF Searching
  <2>2. CASE p \in DOMAIN inflight[1]
    <3>1. l1'[p] = inflight[1][p] /\ 1 \in DOMAIN inflight
      BY <1>1, <1>7, <2>2, SettleEffect
    <3>2. inflight[1][p] # Searching
      BY <2>1, <2>2, <3>1 DEF Copies, InOrder
    <3> QED
      BY <2>1, <2>2, <3>1, <3>2 DEF Copies, SettledAgrees
  <2>3. CASE p \notin DOMAIN inflight[1]
    BY <1>1, <1>7, <2>3, SettleEffect
  <2> QED
    BY <2>2, <2>3
<1>8. CASE UNCHANGED vars
  BY <1>3, <1>8 DEF vars, ticketVars
<1> QED
  BY <1>4, <1>5, <1>6, <1>7, <1>8 DEF Next

(* An outcome a player has read on L1 is never taken back by a later commit. *)
THEOREM L1IsFinal == Spec => L1NeverRetracts
<1>1. TypeOK /\ Copies /\ [Next]_vars =>
        [\A p \in delegated :
           l1[p].status \in {"Matched", "Cancelled"} => l1'[p] = l1[p]]_vars
  BY L1Stays
<1> QED
  BY <1>1, DuelTyped, CopiesKept, PTL DEF Spec, L1NeverRetracts
=============================================================================
