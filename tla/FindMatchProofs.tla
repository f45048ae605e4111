-------------------------- MODULE FindMatchProofs --------------------------
(***************************************************************************)
(* Theorems about the web client's searches, for any number of players,    *)
(* searches and transactions, which are executed in any order or lost.     *)
(***************************************************************************)
EXTENDS FindMatch, DuelPromiseProofs

(* The inductive form of FindTypeOK: what the searches keep and send.       *)
FindTyped ==
  /\ FindTypeOK
  /\ toFlush \in [Players -> Seq(Players)]
  /\ searches \in [Players -> Nat]
  /\ result \in [Players -> [opponent : Players \cup {Nobody}, matchId : 0..MaxMatches,
                             role : {"none", "player1", "player2"}]]
  /\ \A tx \in sent : tx.accounts \in Seq(Players) /\ Len(tx.accounts) <= MaxAccounts

-----------------------------------------------------------------------------
(* Every step of a search is one of the program, or none. *)

(* What is sent fits a transaction.                                         *)
LEMMA AccountsFit ==
  ASSUME FindTyped, NEW tx \in sent
  PROVE  tx.accounts \in SeqOf(Players, MaxAccounts)
<1>1. tx.accounts \in Seq(Players) /\ Len(tx.accounts) <= MaxAccounts
  BY DEF FindTyped
<1>2. Len(tx.accounts) \in Nat /\ MaxAccounts \in Nat
  BY <1>1, BoundsAssumption, LenProperties
<1>3. tx.accounts \in [1..Len(tx.accounts) -> Players] /\ Len(tx.accounts) \in 0..MaxAccounts
  BY <1>1, <1>2, LenProperties
<1> QED
  BY <1>3 DEF SeqOf

LEMMA ExecuteStep ==
  ASSUME FindTyped, NEW tx \in sent, Execute(tx)
  PROVE  Next
<1>1. /\ tx.by \in Players /\ tx.call \in Calls
      /\ tx.accounts \in Seq(Players) /\ Len(tx.accounts) <= MaxAccounts
  BY DEF FindTyped, FindTypeOK
<1> DEFINE p == tx.by
<1>2. CreateTicket(p) \/ DelegateTicket(p) \/ CloseTicket(p) \/ CancelTicket(p) => Next
  BY <1>1 DEF Next, Player
<1>3. ASSUME NEW elo \in Elos, JoinQueue(p, elo, TRUE) PROVE Next
  BY <1>1, <1>3 DEF Next, Player
<1>4. ASSUME FlushMatches(tx.accounts) PROVE Next
  <2>1. PICK a \in SeqOf(Players, MaxAccounts) : a = tx.accounts
    BY AccountsFit
  <2>2. FlushMatches(a)
    BY <1>4, <2>1
  <2> QED
    BY <2>2 DEF Next, Crank
<1>5. ASSUME CommitTickets(ToSet(tx.accounts)) PROVE Next
  <2>1. ToSet(tx.accounts) \in SUBSET Players
    <3>1. \A k \in DOMAIN tx.accounts : tx.accounts[k] \in Players
      BY <1>1, LenProperties, ElementOfSeq
    <3> QED
      BY <3>1 DEF ToSet
  <2>2. PICK players \in SUBSET Players : players = ToSet(tx.accounts)
    BY <2>1
  <2>3. CommitTickets(players)
    BY <1>5, <2>2
  <2> QED
    BY <2>3 DEF Next, Crank
<1> QED
  BY <1>1, <1>2, <1>3, <1>4, <1>5 DEF Execute, Calls

(* A search itself changes no account.                                      *)
LEMMA SearchStep ==
  ASSUME NEW p \in Players, Search(p) \/ GiveUp(p)
  PROVE  UNCHANGED vars
BY DEF Search, GiveUp, Begin, CleanUp, Look, Return, Enter, CrankDuty, ReadQueue, Throw, Report,
       TimeOut, CancelSearch, Send, Go

LEMMA ProgramStep ==
  ASSUME FindTyped, [FindNext]_findVars
  PROVE  [Next]_vars
<1>1. CASE Setup \/ Settlement
  BY <1>1 DEF Setup, Settlement, Next
<1>2. ASSUME NEW p \in Players, Search(p) \/ GiveUp(p) PROVE UNCHANGED vars
  BY <1>2, SearchStep
<1>3. ASSUME NEW tx \in sent, Executed(tx) PROVE Next
  BY <1>3, ExecuteStep DEF Executed
<1>4. ASSUME NEW tx \in sent, Dropped(tx) PROVE UNCHANGED vars
  BY <1>4 DEF Dropped
<1>5. CASE UNCHANGED findVars
  BY <1>5 DEF findVars
<1> QED
  BY <1>1, <1>2, <1>3, <1>4, <1>5 DEF FindNext

-----------------------------------------------------------------------------
(* Types. *)

(* Going on to a step that neither reports nor flushes.                      *)
LEMMA GoTyped ==
  ASSUME FindTyped, NEW p \in Players, NEW s \in Steps \ {"matched"},
         step[p] # "matched", step' = [step EXCEPT ![p] = s],
         s = "flush" => toFlush'[p] # <<>>,
         toFlush' \in [Players -> Seq(Players)],
         \A x \in Players : x # p => toFlush'[x] = toFlush[x],
         UNCHANGED <<result, searches>>,
         \A tx \in sent' : tx \in sent \/
           /\ tx.by \in Players /\ tx.call \in Calls
           /\ tx.accounts \in Seq(Players) /\ Len(tx.accounts) <= MaxAccounts
  PROVE  FindTyped'
<1>1. step' \in [Players -> Steps] /\ step'[p] = s /\ \A x \in Players : x # p => step'[x] = step[x]
  BY DEF FindTyped, FindTypeOK
<1>2. \A x \in Players :
        /\ step'[x] = "matched" <=> result'[x] # NoResult
        /\ step'[x] = "flush" => toFlush'[x] # <<>>
  BY <1>1 DEF FindTyped, FindTypeOK
<1>3. \A tx \in sent' :
        /\ tx.by \in Players /\ tx.call \in Calls
        /\ tx.accounts \in Seq(Players) /\ Len(tx.accounts) <= MaxAccounts
  BY DEF FindTyped, FindTypeOK
<1> QED
  BY <1>1, <1>2, <1>3 DEF FindTyped, FindTypeOK

LEMMA SendTyped ==
  ASSUME FindTyped, NEW p \in Players, NEW call \in Calls, NEW accounts \in Seq(Players),
         NEW s \in Steps \ {"matched", "flush"}, step[p] # "matched",
         Send(p, call, accounts, s)
  PROVE  FindTyped'
<1> DEFINE tx == [by |-> p, call |-> call, accounts |-> accounts]
<1>1. tx.by = p /\ tx.call = call /\ tx.accounts = accounts
  OBVIOUS
<1>2. sent' = sent \cup {tx} /\ Len(accounts) <= MaxAccounts
  BY DEF Send
<1> HIDE DEF tx
<1>3. /\ step' = [step EXCEPT ![p] = s] /\ UNCHANGED <<result, searches, toFlush>>
  BY DEF Send
<1>4. toFlush' \in [Players -> Seq(Players)]
  BY <1>3 DEF FindTyped
<1> QED
  BY <1>1, <1>2, <1>3, <1>4, GoTyped

(* What a search reads from the queue is a list of players, not empty if it  *)
(* goes on to flush it.                                                      *)
LEMMA ReadTyped ==
  ASSUME TypeOK, FindTyped, NEW p \in Players, ReadQueue(p)
  PROVE  FindTyped'
<1> DEFINE read == [k \in DOMAIN pending |-> pending[k].player]
<1>1. read \in [1..Len(pending) -> Players] /\ Len(pending) \in Nat
  BY SequencesTyped, PendingTyped
<1>2. read \in Seq(Players)
  BY <1>1, SeqDef
<1>3. ASSUME pending # <<>> PROVE read # <<>>
  <2>1. 1 \in DOMAIN pending
    BY <1>3, SequencesTyped, EmptySeq
  <2>2. DOMAIN read = DOMAIN pending
    OBVIOUS
  <2> HIDE DEF read
  <2> QED
    BY <2>1, <2>2, EmptySeq
<1>4. /\ step[p] = "read" /\ toFlush' = [toFlush EXCEPT ![p] = read]
      /\ step' = [step EXCEPT ![p] = AfterRead]
      /\ UNCHANGED <<result, searches, sent>>
  BY DEF ReadQueue
<1> HIDE DEF read
<1>5. /\ toFlush' \in [Players -> Seq(Players)] /\ toFlush'[p] = read
      /\ \A x \in Players : x # p => toFlush'[x] = toFlush[x]
  BY <1>2, <1>4 DEF FindTyped
<1>6. AfterRead \in Steps \ {"matched"} /\ (AfterRead = "flush" => read # <<>>)
  BY <1>3 DEF AfterRead, Steps
<1> QED
  BY <1>4, <1>5, <1>6, GoTyped

LEMMA SearchTyped ==
  ASSUME TypeOK, FindTyped, NEW p \in Players, Search(p) \/ GiveUp(p)
  PROVE  FindTyped'
<1>1. ASSUME NEW s \in Steps \ {"matched", "flush"}, step[p] # "matched", Go(p, s)
      PROVE  FindTyped'
  <2>1. /\ step' = [step EXCEPT ![p] = s]
        /\ UNCHANGED <<toFlush, result, searches, sent>>
    BY <1>1 DEF Go
  <2>2. toFlush' \in [Players -> Seq(Players)]
    BY <2>1 DEF FindTyped
  <2> QED
    BY <1>1, <2>1, <2>2, GoTyped
<1>2. <<>> \in Seq(Players) /\ <<p>> \in Seq(Players) /\ toFlush[p] \in Seq(Players)
      /\ <<p>> \o toFlush[p] \in Seq(Players)
  <2>1. <<>> \in Seq(Players) /\ <<p>> \in Seq(Players)
    BY EmptySeq
  <2>2. toFlush[p] \in Seq(Players)
    BY DEF FindTyped
  <2> QED
    BY <2>1, <2>2, ConcatProperties
<1>3. CASE Begin(p)
  <2>1. /\ step' = [step EXCEPT ![p] = "look"] /\ result' = [result EXCEPT ![p] = NoResult]
        /\ searches' = [searches EXCEPT ![p] = @ + 1] /\ searches[p] < MaxSearches[p]
        /\ UNCHANGED <<toFlush, sent>>
    BY <1>3 DEF Begin
  <2>2. step' \in [Players -> Steps] /\ step'[p] = "look"
    BY <2>1 DEF FindTyped, FindTypeOK, Steps
  <2>3. searches' \in [Players -> Nat] /\ searches'[p] \in 0..MaxSearches[p]
    <3>1. searches[p] \in Nat /\ MaxSearches[p] \in Nat
      BY SearchAssumption DEF FindTyped
    <3>2. searches[p] + 1 \in Nat /\ searches[p] + 1 \in 0..MaxSearches[p]
      BY <2>1, <3>1
    <3> QED
      BY <2>1, <3>2 DEF FindTyped
  <2>4. /\ result' \in [Players -> [opponent : Players \cup {Nobody}, matchId : 0..MaxMatches,
                                    role : {"none", "player1", "player2"}]]
        /\ result'[p] = NoResult
    <3>1. NoResult \in [opponent : Players \cup {Nobody}, matchId : 0..MaxMatches,
                        role : {"none", "player1", "player2"}]
      BY BoundsAssumption DEF NoResult
    <3> QED
      BY <2>1, <3>1 DEF FindTyped
  <2>5. \A x \in Players : x # p =>
          step'[x] = step[x] /\ result'[x] = result[x] /\ searches'[x] = searches[x]
    BY <2>1 DEF FindTyped, FindTypeOK
  <2> HIDE DEF NoResult
  <2>6. \A x \in Players :
          /\ step'[x] = "matched" <=> result'[x] # NoResult
          /\ step'[x] = "flush" => toFlush'[x] # <<>>
          /\ searches'[x] \in 0..MaxSearches[x]
    BY <2>1, <2>2, <2>3, <2>4, <2>5 DEF FindTyped, FindTypeOK
  <2>7. \A x \in Players : result'[x].matchId \in 0..MaxMatches /\ toFlush'[x] \in Seq(Players)
    BY <2>1, <2>4 DEF FindTyped
  <2> QED
    BY <2>1, <2>2, <2>3, <2>4, <2>6, <2>7 DEF FindTyped, FindTypeOK
<1>4. CASE CleanUp(p)
  <2>1. {"cancel", "return", "create", "commit"} \subseteq Steps \ {"matched", "flush"}
    BY DEF Steps
  <2>2. {"cancel", "commit", "close"} \subseteq Calls
    BY DEF Calls
  <2> QED
    BY <1>1, <1>2, <1>4, <2>1, <2>2, SendTyped DEF CleanUp, Look, Return
<1>5. CASE Enter(p)
  <2>1. {"delegate", "join", "read"} \subseteq Steps \ {"matched", "flush"}
    BY DEF Steps
  <2>2. {"create", "delegate", "join"} \subseteq Calls
    BY DEF Calls
  <2> QED
    BY <1>2, <1>5, <2>1, <2>2, SendTyped DEF Enter
<1>6. CASE CrankDuty(p)
  <2>1. {"settle", "poll"} \subseteq Steps \ {"matched", "flush"}
    BY DEF Steps
  <2>2. {"flush", "commit"} \subseteq Calls
    BY DEF Calls
  <2> QED
    BY <1>2, <1>6, <2>1, <2>2, ReadTyped, SendTyped DEF CrankDuty
<1>7. CASE GiveUp(p)
  <2>1. {"commit", "error", "return", "create", "poll", "idle"} \subseteq Steps \ {"matched", "flush"}
    BY DEF Steps
  <2>2. "cancel" \in Calls
    BY DEF Calls
  <2> QED
    BY <1>1, <1>2, <1>7, <2>1, <2>2, SendTyped DEF GiveUp, Throw, TimeOut, CancelSearch
<1>8. CASE Report(p)
  <2> DEFINE told == [opponent |-> l1[p].opponent, matchId |-> l1[p].matchId,
                      role |-> Role(p, l1[p].opponent)]
  <2>1. /\ step[p] = "poll" /\ step' = [step EXCEPT ![p] = "matched"]
        /\ result' = [result EXCEPT ![p] = told]
        /\ UNCHANGED <<toFlush, searches, sent>>
    BY <1>8 DEF Report
  <2>2. l1[p].opponent \in Players \cup {Nobody} /\ l1[p].matchId \in 0..MaxMatches
    <3>1. l1[p] \in Tickets /\ MaxMatches \in Nat
      BY BoundsAssumption DEF TypeOK
    <3> QED
      BY <3>1 DEF Tickets, Absent, Searching, Cancelled, Matched
  <2>3. told \in [opponent : Players \cup {Nobody}, matchId : 0..MaxMatches,
                  role : {"none", "player1", "player2"}]
    BY <2>2 DEF Role
  <2>4. told # NoResult
    <3>1. told.role # "none"
      BY DEF Role
    <3> QED
      BY <3>1 DEF NoResult
  <2> HIDE DEF told
  <2>5. step' \in [Players -> Steps] /\ step'[p] = "matched"
    BY <2>1 DEF FindTyped, FindTypeOK, Steps
  <2>6. /\ result' \in [Players -> [opponent : Players \cup {Nobody}, matchId : 0..MaxMatches,
                                    role : {"none", "player1", "player2"}]]
        /\ result'[p] = told
    BY <2>1, <2>3 DEF FindTyped
  <2>7. \A x \in Players : x # p => step'[x] = step[x] /\ result'[x] = result[x]
    BY <2>1 DEF FindTyped, FindTypeOK
  <2>8. \A x \in Players :
          /\ step'[x] = "matched" <=> result'[x] # NoResult
          /\ step'[x] = "flush" => toFlush'[x] # <<>>
    BY <2>1, <2>4, <2>5, <2>6, <2>7 DEF FindTyped, FindTypeOK
  <2>9. \A x \in Players : result'[x].matchId \in 0..MaxMatches
    BY <2>6
  <2> QED
    BY <2>1, <2>5, <2>6, <2>8, <2>9 DEF FindTyped, FindTypeOK
<1> QED
  BY <1>3, <1>4, <1>5, <1>6, <1>7, <1>8 DEF Search

THEOREM FindTypes == FindSpec => [](TypeOK /\ FindTyped)
<1>1. FindInit => TypeOK /\ FindTyped
  <2> SUFFICES ASSUME FindInit PROVE TypeOK /\ FindTyped
    OBVIOUS
  <2>1. TypeOK
    BY InitTyped DEF FindInit
  <2>2. NoResult \in [opponent : Players \cup {Nobody}, matchId : 0..MaxMatches,
                      role : {"none", "player1", "player2"}]
    BY BoundsAssumption DEF NoResult
  <2>3. \A p \in Players : 0 \in 0..MaxSearches[p] /\ NoResult.matchId \in 0..MaxMatches
    BY SearchAssumption, BoundsAssumption DEF NoResult
  <2> HIDE DEF NoResult
  <2>4. FindTyped
    BY <2>2, <2>3, EmptySeq DEF FindInit, FindTyped, FindTypeOK, Steps
  <2> QED
    BY <2>1, <2>4
<1>2. TypeOK /\ FindTyped /\ [FindNext]_findVars => TypeOK' /\ FindTyped'
  <2> SUFFICES ASSUME TypeOK, FindTyped, [FindNext]_findVars PROVE TypeOK' /\ FindTyped'
    OBVIOUS
  <2>1. TypeOK'
    BY ProgramStep, TypesKept
  <2>2. ASSUME UNCHANGED searchVars, sent' \subseteq sent PROVE FindTyped'
    BY <2>2 DEF FindTyped, FindTypeOK, searchVars
  <2>3. ASSUME Setup \/ Settlement \/ UNCHANGED findVars PROVE FindTyped'
    BY <2>2, <2>3 DEF Setup, Settlement, findVars
  <2>4. ASSUME NEW tx \in sent, Executed(tx) \/ Dropped(tx) PROVE FindTyped'
    <3>1. CASE Executed(tx)
      BY <2>2, <3>1 DEF Executed
    <3>2. CASE Dropped(tx)
      BY <2>2, <3>2 DEF Dropped
    <3> QED
      BY <2>4, <3>1, <3>2
  <2>5. FindTyped'
    BY <2>3, <2>4, SearchTyped DEF FindNext
  <2> QED
    BY <2>1, <2>5
<1> QED
  BY <1>1, <1>2, PTL DEF FindSpec

(* Searches, in whatever order their transactions are executed, do to the    *)
(* accounts only what the program allows.                                    *)
THEOREM SearchImplementsDuel == FindSpec => Spec
<1>1. FindInit => Init
  BY DEF FindInit
<1>2. FindTyped /\ [FindNext]_findVars => [Next]_vars
  BY ProgramStep
<1> QED
  BY <1>1, <1>2, FindTypes, PTL DEF FindSpec, Spec

(* A search reports exactly when it ends with a match, and flushes something. *)
THEOREM FindTypesHold == FindSpec => []FindTypeOK
<1>1. FindTyped => FindTypeOK
  BY DEF FindTyped
<1> QED
  BY <1>1, FindTypes, PTL
-----------------------------------------------------------------------------
(* Reports. *)

(* Matches are made and delivered in the TEE.                                *)
MatchedInTEE == \A p \in Players : ticket[p].status = "Matched" => p \in delegated

(* Both players of a match have it on their ticket, or are owed it.          *)
BothBound ==
  \A n \in DOMAIN events :
    LET p == events[n].player1  q == events[n].player2 IN
    /\ ticket[p] = Matched(q, n)
    /\ \/ ticket[q] = Matched(p, n)
       \/ [player |-> q, opponent |-> p, matchId |-> n] \in ToSet(pending)

(* What was reported is the outcome L1 shows of a ticket in the TEE.         *)
Reported ==
  \A p \in Players : result[p] # NoResult =>
    /\ p \in delegated
    /\ l1[p] = Matched(result[p].opponent, result[p].matchId)
    /\ result[p].role = Role(p, result[p].opponent)

(* The inductive invariant.                                                  *)
Bound == MatchedInTEE /\ BothBound /\ Reported

(* A ticket that exists on the layer of a queue in the TEE is delegated.     *)
LEMMA QueueInTEE ==
  ASSUME NEW p, queue = "TEE", WithQueue(p)
  PROVE  p \in delegated
BY DEF WithQueue, Layer

(* How a transaction can make a ticket say Matched: only in the TEE.         *)
LEMMA ExecuteMatches ==
  ASSUME TypeOK, FindTyped, MatchedInTEE, NEW tx \in sent, Execute(tx)
  PROVE  MatchedInTEE'
<1>1. Absent.status # "Matched" /\ Searching.status # "Matched" /\ Cancelled.status # "Matched"
  BY DEF Absent, Searching, Cancelled
<1>2. ASSUME NEW p \in Players, NEW t, WriteTickets([ticket EXCEPT ![p] = t]),
             delegated' = delegated, t.status = "Matched" => p \in delegated
      PROVE  MatchedInTEE'
  <2>1. ticket' = [ticket EXCEPT ![p] = t] /\ ticket \in [Players -> Tickets]
    BY <1>2 DEF WriteTickets, TypeOK
  <2>2. ticket'[p] = t /\ \A x \in Players : x # p => ticket'[x] = ticket[x]
    BY <2>1
  <2> QED
    BY <1>2, <2>2 DEF MatchedInTEE
<1>3. ASSUME ticket' = ticket, delegated \subseteq delegated' PROVE MatchedInTEE'
  BY <1>3 DEF MatchedInTEE
<1> DEFINE p == tx.by
<1>4. p \in Players /\ tx.call \in Calls
  BY DEF FindTyped, FindTypeOK
<1>5. CASE CreateTicket(p) \/ CancelTicket(p) \/ CloseTicket(p)
  BY <1>1, <1>2, <1>4, <1>5 DEF CreateTicket, CancelTicket, CloseTicket
<1>6. CASE DelegateTicket(p)
  BY <1>3, <1>6 DEF DelegateTicket
<1>7. ASSUME queue = "TEE", NEW elo \in Elos, JoinQueue(p, elo, TRUE) PROVE MatchedInTEE'
  <2>1. p \in delegated /\ delegated' = delegated
    BY <1>7, QueueInTEE DEF JoinQueue
  <2> QED
    BY <1>2, <1>3, <1>4, <1>7, <2>1 DEF JoinQueue, Wait, Pair
<1>8. ASSUME queue = "TEE", FlushMatches(tx.accounts) PROVE MatchedInTEE'
  <2>1. PICK a \in SeqOf(Players, MaxAccounts) : a = tx.accounts
    BY AccountsFit
  <2>2. FlushMatches(a)
    BY <1>8, <2>1
  <2>3. PICK n \in 1..Len(pending) :
          /\ \A k \in 1..n : ticket[pending[k].player] = Searching
          /\ \A x \in Players : (\A k \in 1..n : pending[k].player # x) => ticket'[x] = ticket[x]
          /\ \A k \in 1..n : WithQueue(pending[k].player)
    BY <2>2, FlushEffect
  <2>4. delegated' = delegated
    BY <1>8 DEF FlushMatches
  <2>5. \A k \in 1..n : pending[k].player \in delegated
    BY <1>8, <2>3, QueueInTEE
  <2> QED
    BY <2>3, <2>4, <2>5 DEF MatchedInTEE
<1>9. CASE CommitTickets(ToSet(tx.accounts))
  BY <1>3, <1>9 DEF CommitTickets, ticketVars
<1> QED
  BY <1>4, <1>5, <1>6, <1>7, <1>8, <1>9 DEF Execute, Calls

(* A ticket that names a match keeps naming it: it is in the TEE, where it    *)
(* cannot be closed.                                                         *)
LEMMA MatchedStays ==
  ASSUME TypeOK, MatchedInTEE, Copies', [Next]_vars, NEW p \in Players, NEW q, NEW n,
         ticket[p] = Matched(q, n)
  PROVE  ticket'[p] = Matched(q, n)
<1>1. ticket[p].status = "Matched"
  BY DEF Matched
<1>2. ticket'[p] \in {ticket[p], Absent}
  BY <1>1, OutcomeStays
<1>3. p \in delegated'
  BY <1>1, DelegatedStays DEF MatchedInTEE
<1> QED
  BY <1>2, <1>3 DEF Copies, StaysInTEE

(* A match is told to the one who made it and owed to the other, until it is *)
(* delivered.                                                                *)
LEMMA BothStayBound ==
  ASSUME TypeOK, Ledger, MatchedInTEE, BothBound, Copies', [Next]_vars
  PROVE  BothBound'
<1> DEFINE Due(p, q, n) == [player |-> q, opponent |-> p, matchId |-> n]
<1>1. \A n \in DOMAIN events : events[n].player1 \in Players /\ events[n].player2 \in Players
  <2> TAKE n \in DOMAIN events
  <2>1. events[n] \in Events
    BY SequencesTyped, ElementOfSeq
  <2> QED
    BY <2>1 DEF Events
<1>2. ASSUME NEW n \in DOMAIN events
      PROVE  LET p == events[n].player1  q == events[n].player2 IN
             /\ ticket'[p] = Matched(q, n)
             /\ ticket'[q] = Matched(p, n) \/ Due(p, q, n) \in ToSet(pending')
  <2> DEFINE p == events[n].player1
             q == events[n].player2
  <2>1. ticket'[p] = Matched(q, n)
    <3>1. p \in Players /\ ticket[p] = Matched(q, n)
      BY <1>1 DEF BothBound
    <3> HIDE DEF p, q
    <3> QED
      BY <3>1, MatchedStays
  <2>2. CASE ticket[q] = Matched(p, n)
    BY <1>1, <2>1, <2>2, MatchedStays
  <2>3. CASE Due(p, q, n) \in ToSet(pending)
    <3>1. PICK k \in DOMAIN pending : pending[k] = Due(p, q, n)
      BY <2>3 DEF ToSet
    <3>2. pending[k].player = q /\ pending[k].opponent = p /\ pending[k].matchId = n
      BY <3>1
    <3> QED
      BY <2>1, <3>1, <3>2, PendingStays
  <2> QED
    BY <2>2, <2>3 DEF BothBound
<1>3. CASE UNCHANGED events
  BY <1>2, <1>3 DEF BothBound
<1>4. ASSUME NEW p \in Players, NEW elo \in Elos, NEW listed \in BOOLEAN,
             NEW i \in DOMAIN entries, Pair(p, elo, i, listed)
      PROVE  BothBound'
  <2> DEFINE q == entries[i].player
             n == counter + 1
             owed == Owed(q, p, n)
  <2>1. /\ DOMAIN events' = 1..n /\ DOMAIN events = 1..counter /\ counter \in Nat
        /\ \A m \in DOMAIN events : events'[m] = events[m]
        /\ events'[n].player1 = p /\ events'[n].player2 = q
    BY <1>4, PairLogged, SequencesTyped DEF Ledger
  <2>2. ticket'[p] = Matched(q, n)
    BY <1>4 DEF Pair, NewMatchId, WriteTickets, TypeOK
  <2>3. pending' = Append(pending, owed) /\ pending' \in Seq(PendingMatches)
    BY <1>4, PairTyped DEF Pair, NewMatchId
  <2>4. owed = Due(p, q, n) /\ owed \in PendingMatches
    <3>1. n \in 1..MaxMatches /\ q \in Players
      BY <1>4, BoundsAssumption, EntryTyped DEF Pair, TypeOK
    <3> QED
      BY <3>1 DEF Owed, PendingMatches
  <2> HIDE DEF owed, n
  <2>5. owed \in ToSet(pending')
    <3>1. Len(pending') = Len(pending) + 1 /\ pending'[Len(pending) + 1] = owed
      BY <2>3, <2>4, SequencesTyped, AppendProperties
    <3>2. Len(pending) + 1 \in DOMAIN pending'
      BY <2>3, <3>1, SequencesTyped, LenProperties
    <3> QED
      BY <3>1, <3>2 DEF ToSet
  <2>6. \A m \in DOMAIN events' : m = n \/ m \in DOMAIN events
    BY <2>1 DEF n
  <2> SUFFICES ASSUME NEW m \in DOMAIN events'
               PROVE  LET x == events'[m].player1  y == events'[m].player2 IN
                      /\ ticket'[x] = Matched(y, m)
                      /\ ticket'[y] = Matched(x, m) \/ Due(x, y, m) \in ToSet(pending')
    BY DEF BothBound
  <2>7. CASE m = n
    BY <2>1, <2>2, <2>4, <2>5, <2>7
  <2>8. CASE m \in DOMAIN events
    BY <1>2, <2>1, <2>8
  <2> QED
    BY <2>6, <2>7, <2>8
<1> QED
  BY <1>3, <1>4, LogGrows

(* A search changes what it reported by beginning again or by reporting.      *)
LEMMA ResultStep ==
  ASSUME FindTyped, [FindNext]_findVars, NEW p \in Players
  PROVE  result'[p] = result[p] \/ result'[p] = NoResult \/ Report(p)
<1>1. CASE Setup \/ Settlement \/ UNCHANGED findVars
  BY <1>1 DEF Setup, Settlement, findVars, searchVars
<1>2. ASSUME NEW x \in Players, Search(x) \/ GiveUp(x)
      PROVE  result'[p] = result[p] \/ result'[p] = NoResult \/ Report(p)
  <2>1. CASE Begin(x)
    BY <2>1 DEF Begin, FindTyped
  <2>2. CASE Report(x)
    BY <2>2 DEF Report, FindTyped
  <2>3. CASE CleanUp(x) \/ Enter(x) \/ CrankDuty(x) \/ GiveUp(x)
    BY <2>3 DEF CleanUp, Look, Return, Enter, CrankDuty, ReadQueue, GiveUp, Throw, TimeOut,
                CancelSearch, Send, Go
  <2> QED
    BY <1>2, <2>1, <2>2, <2>3 DEF Search
<1>3. ASSUME NEW tx \in sent, Executed(tx) \/ Dropped(tx) PROVE result'[p] = result[p]
  <2>1. CASE Executed(tx)
    BY <2>1 DEF Executed, searchVars
  <2>2. CASE Dropped(tx)
    BY <2>2 DEF Dropped, searchVars
  <2> QED
    BY <1>3, <2>1, <2>2
<1> QED
  BY <1>1, <1>2, <1>3 DEF FindNext

LEMMA ReportedStays ==
  ASSUME TypeOK, FindTyped, Copies, MatchedInTEE, Reported, [FindNext]_findVars
  PROVE  Reported'
<1>1. [Next]_vars
  BY ProgramStep
<1> SUFFICES ASSUME NEW p \in Players, result'[p] # NoResult
             PROVE  /\ p \in delegated'
                    /\ l1'[p] = Matched(result'[p].opponent, result'[p].matchId)
                    /\ result'[p].role = Role(p, result'[p].opponent)
  BY DEF Reported
<1>2. CASE result'[p] = result[p]
  <2>1. p \in delegated /\ l1[p] = Matched(result[p].opponent, result[p].matchId)
        /\ result[p].role = Role(p, result[p].opponent)
    BY <1>2 DEF Reported
  <2>2. l1[p].status = "Matched"
    BY <2>1 DEF Matched
  <2>3. l1'[p] = l1[p] /\ p \in delegated'
    BY <1>1, <2>1, <2>2, L1Stays, DelegatedStays
  <2> QED
    BY <1>2, <2>1, <2>3
<1>3. CASE Report(p)
  <2>1. /\ l1[p].status = "Matched" /\ UNCHANGED <<l1, delegated>>
        /\ result' = [result EXCEPT ![p] =
             [opponent |-> l1[p].opponent, matchId |-> l1[p].matchId,
              role |-> Role(p, l1[p].opponent)]]
    BY <1>3 DEF Report, vars, ticketVars
  <2>2. /\ result'[p].opponent = l1[p].opponent /\ result'[p].matchId = l1[p].matchId
        /\ result'[p].role = Role(p, l1[p].opponent)
    BY <2>1 DEF FindTyped
  <2>3. l1[p] = Matched(l1[p].opponent, l1[p].matchId)
    <3>1. l1[p] \in Tickets
      BY DEF TypeOK
    <3> QED
      BY <2>1, <3>1, MatchedTicket
  <2>4. p \in delegated
    BY <2>1 DEF Copies, SameOnL1, MatchedInTEE
  <2> QED
    BY <2>1, <2>2, <2>3, <2>4
<1> QED
  BY <1>2, <1>3, ResultStep

LEMMA MatchedInTEEStays ==
  ASSUME TypeOK, FindTyped, MatchedInTEE, [FindNext]_findVars
  PROVE  MatchedInTEE'
<1>1. ASSUME UNCHANGED <<ticket, delegated>> PROVE MatchedInTEE'
  BY <1>1 DEF MatchedInTEE
<1>2. CASE Setup \/ Settlement \/ UNCHANGED findVars
  BY <1>1, <1>2 DEF Setup, Admin, InitializeTenant, InitializeQueue, DelegateQueue, Settlement,
                    Settle, findVars, vars, ticketVars
<1>3. ASSUME NEW p \in Players, Search(p) \/ GiveUp(p) PROVE MatchedInTEE'
  BY <1>1, <1>3, SearchStep DEF vars, ticketVars
<1>4. ASSUME NEW tx \in sent, Executed(tx) PROVE MatchedInTEE'
  BY <1>4, ExecuteMatches DEF Executed
<1>5. ASSUME NEW tx \in sent, Dropped(tx) PROVE MatchedInTEE'
  <2>1. UNCHANGED vars
    BY <1>5 DEF Dropped
  <2> QED
    BY <1>1, <2>1 DEF vars, ticketVars
<1> QED
  BY <1>2, <1>3, <1>4, <1>5 DEF FindNext

LEMMA BoundKept == FindSpec => [](Copies /\ HonestInv /\ Bound)
<1>1. FindInit => Bound
  <2> SUFFICES ASSUME FindInit PROVE Bound
    OBVIOUS
  <2>1. Absent.status # "Matched"
    BY DEF Absent
  <2> QED
    BY <2>1 DEF FindInit, Init, Bound, MatchedInTEE, BothBound, Reported
<1>2. /\ TypeOK /\ FindTyped /\ Copies /\ Copies' /\ HonestInv /\ Bound /\ [FindNext]_findVars
      => Bound'
  <2> SUFFICES ASSUME TypeOK, FindTyped, Copies, Copies', HonestInv, Bound, [FindNext]_findVars
               PROVE  Bound'
    OBVIOUS
  <2>1. MatchedInTEE' /\ Reported'
    BY MatchedInTEEStays, ReportedStays DEF Bound
  <2>2. BothBound'
    BY ProgramStep, BothStayBound DEF Bound, HonestInv
  <2> QED
    BY <2>1, <2>2 DEF Bound
<1>3. FindSpec => [](Copies /\ HonestInv)
  BY SearchImplementsDuel, CopiesKept, DuelHonest, PTL
<1> QED
  BY <1>1, <1>2, <1>3, FindTypes, PTL DEF FindSpec

(* What a search reported stays on L1, whatever old cancelTicket and         *)
(* closeTicket of the player are executed later.                             *)
THEOREM ReportsStand == FindSpec => []ReportStands
<1>1. Bound => ReportStands
  BY DEF Bound, Reported, ReportStands
<1> QED
  BY <1>1, BoundKept, PTL

(* What a ticket is told of a match by the search's report.                  *)
LEMMA ReportTrue ==
  ASSUME TypeOK, Copies, TicketsHonest, Reported, NEW p \in Players, result[p] # NoResult
  PROVE  LET n == result[p].matchId  q == result[p].opponent IN
         /\ n \in DOMAIN events
         /\ \/ events[n].player1 = p /\ events[n].player2 = q
            \/ events[n].player2 = p /\ events[n].player1 = q
<1>1. p \in delegated /\ l1[p] = Matched(result[p].opponent, result[p].matchId)
  BY DEF Reported
<1>2. /\ l1[p].status = "Matched" /\ l1[p].matchId = result[p].matchId
      /\ l1[p].opponent = result[p].opponent
  BY <1>1 DEF Matched
<1> QED
  BY <1>2 DEF TicketsHonest, TellsTruth

(* Whoever is told of a match is not the only one bound by it.               *)
THEOREM OpponentsBound == FindSpec => []OpponentBound
<1>1. TypeOK /\ Copies /\ HonestInv /\ Bound => OpponentBound
  <2> SUFFICES ASSUME TypeOK, Copies, TicketsHonest, Bound, NEW p \in Players,
                      result[p] # NoResult
               PROVE  LET q == result[p].opponent  n == result[p].matchId IN
                      \/ ticket[q] = Matched(p, n)
                      \/ [player |-> q, opponent |-> p, matchId |-> n] \in ToSet(pending)
    BY DEF OpponentBound, HonestInv
  <2> DEFINE q == result[p].opponent
             n == result[p].matchId
  <2>1. /\ n \in DOMAIN events
        /\ \/ events[n].player1 = p /\ events[n].player2 = q
           \/ events[n].player2 = p /\ events[n].player1 = q
    BY ReportTrue DEF Bound
  <2> QED
    BY <2>1 DEF Bound, BothBound
<1> QED
  BY <1>1, BoundKept, FindTypes, PTL

(* The two sides of a match derive the same session, and one of them starts  *)
(* it: addresses are different, so roles are.                                *)
THEOREM RolesAgree == FindSpec => []SidesAgree
<1>1. TypeOK /\ FindTyped /\ Copies /\ HonestInv /\ Bound => SidesAgree
  <2> SUFFICES ASSUME TypeOK, FindTyped, Copies, TicketsHonest, Bound,
                      NEW p \in Players, NEW q \in Players, p # q, result[p] # NoResult,
                      result[p].matchId = result[q].matchId
               PROVE  /\ result[p].opponent = q /\ result[q].opponent = p
                      /\ result[p].role # result[q].role
    BY DEF SidesAgree, HonestInv
  <2>1. /\ result[p].matchId \in DOMAIN events
        /\ \/ events[result[p].matchId].player1 = p
              /\ events[result[p].matchId].player2 = result[p].opponent
           \/ events[result[p].matchId].player2 = p
              /\ events[result[p].matchId].player1 = result[p].opponent
    BY ReportTrue DEF Bound
  <2>2. result[q] # NoResult
    <3>1. 0 \notin DOMAIN events
      BY SequencesTyped
    <3> QED
      BY <2>1, <3>1 DEF NoResult
  <2>3. \/ events[result[p].matchId].player1 = q
           /\ events[result[p].matchId].player2 = result[q].opponent
        \/ events[result[p].matchId].player2 = q
           /\ events[result[p].matchId].player1 = result[q].opponent
    BY <2>2, ReportTrue DEF Bound
  <2>4. result[p].opponent = q /\ result[q].opponent = p
    BY <2>1, <2>3
  <2>5. result[p].role = Role(p, q) /\ result[q].role = Role(q, p)
    BY <2>2, <2>4 DEF Bound, Reported
  <2>6. Role(p, q) # Role(q, p)
    <3>1. Address[p] \in Nat /\ Address[q] \in Nat /\ Address[p] # Address[q]
      BY AddressAssumption
    <3> QED
      BY <3>1 DEF Role
  <2> QED
    BY <2>4, <2>5, <2>6
<1> QED
  BY <1>1, BoundKept, FindTypes, PTL
=============================================================================
