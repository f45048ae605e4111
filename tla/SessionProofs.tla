--------------------------- MODULE SessionProofs ---------------------------
(***************************************************************************)
(* Theorems about SDK clients and operators, for any number of both, any   *)
(* of whose calls may fail, time out or be executed late.                  *)
(***************************************************************************)
EXTENDS Session, DuelPromiseProofs

(* The inductive form of SessionTypeOK.                                     *)
SessionTyped ==
  /\ SessionTypeOK
  /\ toFlush \in [Operators -> Seq(Players)]
  /\ toCommit \in [Operators -> SUBSET Players]

-----------------------------------------------------------------------------
(* Every step of a client or an operator is one of the program, or none.    *)

LEMMA ExecuteStep ==
  ASSUME NEW p \in Players, NEW call \in Calls, Execute(p, call)
  PROVE  [Next]_vars
<1>1. ASSUME NEW elo \in Elos, NEW listed \in BOOLEAN, JoinQueue(p, elo, listed)
      PROVE  Next
  BY <1>1 DEF Next, Player
<1>2. CreateTicket(p) \/ DelegateTicket(p) => Next
  BY DEF Next, Player
<1> QED
  BY <1>1, <1>2 DEF Execute, Calls

(* What an operator read fits the transaction it sends.                      *)
LEMMA FlushReadAccounts ==
  ASSUME SessionTyped, NEW o \in Operators, FlushRead(o)
  PROVE  \/ UNCHANGED vars
         \/ \E accounts \in SeqOf(Players, MaxAccounts) : FlushMatches(accounts)
<1>1. CASE FlushMatches(toFlush[o])
  <2> DEFINE accounts == toFlush[o]
  <2>1. /\ accounts \in Seq(Players) /\ Len(accounts) <= MaxAccounts
        /\ Len(accounts) \in Nat /\ MaxAccounts \in Nat
    BY BoundsAssumption, LenProperties DEF SessionTyped, FlushRead
  <2>2. accounts \in [1..Len(accounts) -> Players] /\ Len(accounts) \in 0..MaxAccounts
    BY <2>1, LenProperties
  <2>3. accounts \in SeqOf(Players, MaxAccounts)
    BY <2>2 DEF SeqOf
  <2>4. PICK a \in SeqOf(Players, MaxAccounts) : a = toFlush[o]
    BY <2>3
  <2>5. FlushMatches(a)
    BY <1>1, <2>4 DEF FlushMatches
  <2> QED
    BY <2>5
<1> QED
  BY <1>1 DEF FlushRead

LEMMA FlushReadStep ==
  ASSUME SessionTyped, NEW o \in Operators, FlushRead(o)
  PROVE  [Next]_vars
BY FlushReadAccounts DEF Next, Crank

LEMMA CommitReadStep ==
  ASSUME SessionTyped, NEW o \in Operators, CommitRead(o)
  PROVE  [Next]_vars
<1>1. PICK players \in SUBSET Players : players = toCommit[o]
  BY DEF SessionTyped
<1>2. CommitTickets(players)
  BY <1>1 DEF CommitRead, CommitTickets
<1> QED
  BY <1>2 DEF Next, Crank

LEMMA ProgramStep ==
  ASSUME SessionTyped, [SessionNext]_sessionVars
  PROVE  [Next]_vars
<1>1. CASE Setup
  BY <1>1 DEF Setup, Next
<1>2. ASSUME NEW p \in Players, Client(p) PROVE [Next]_vars
  <2>1. CASE Confirmed(p)
    BY <2>1, ExecuteStep DEF Confirmed
  <2>2. ASSUME NEW call \in Calls, LateExecution(p, call) PROVE [Next]_vars
    BY <2>2, ExecuteStep DEF LateExecution
  <2>3. CASE CancelSearch(p)
    BY <2>3 DEF CancelSearch, Next, Player
  <2>4. CASE \/ Rejected(p) \/ ConfirmationTimeout(p) \/ PollFinds(p) \/ PollTimesOut(p)
             \/ \E call \in Calls : LateDrop(p, call)
    BY <2>4 DEF Rejected, ConfirmationTimeout, PollFinds, PollTimesOut, LateDrop
  <2> QED
    BY <1>2, <2>1, <2>2, <2>3, <2>4 DEF Client
<1>3. ASSUME NEW o \in Operators, Operator(o) PROVE [Next]_vars
  BY <1>3, FlushReadStep, CommitReadStep
  DEF Operator, FlushConfirmed, FlushUnconfirmed, ReadPending, ResolveThrows
<1>4. CASE Settlement
  BY <1>4 DEF Settlement, Next
<1>5. CASE UNCHANGED sessionVars
  BY <1>5 DEF sessionVars
<1> QED
  BY <1>1, <1>2, <1>3, <1>4, <1>5 DEF SessionNext

-----------------------------------------------------------------------------
(* Types. *)

(* A client's next stage is one there is.                                   *)
LEMMA StageTyped ==
  ASSUME NEW p, NEW call \in Calls
  PROVE  Following(call) \in Stages
BY DEF Following, Calls, Stages

LEMMA ClientTyped ==
  ASSUME TypeOK, SessionTyped, NEW p \in Players, Client(p)
  PROVE  SessionTyped'
<1>1. \A x \in Stages : [stage EXCEPT ![p] = x] \in [Players -> Stages]
  BY DEF SessionTyped, SessionTypeOK
<1>2. ASSUME UNCHANGED <<found, operatorVars>>, late' \subseteq Players \X Calls,
             NEW x \in Stages, stage' = [stage EXCEPT ![p] = x]
      PROVE  SessionTyped'
  BY <1>1, <1>2 DEF SessionTyped, SessionTypeOK, operatorVars
<1>3. late \subseteq Players \X Calls
  BY DEF SessionTyped, SessionTypeOK
<1>4. AfterFailure(p) \in Stages /\ {"poll", "found", "timedOut", "left"} \subseteq Stages
  BY DEF AfterFailure, Stages, Calls
<1>5. CASE Confirmed(p)
  BY <1>2, <1>3, <1>5, StageTyped DEF Confirmed
<1>6. CASE Rejected(p)
  BY <1>2, <1>3, <1>4, <1>6 DEF Rejected
<1>7. CASE ConfirmationTimeout(p)
  <2>1. late' \subseteq Players \X Calls
    BY <1>3, <1>7 DEF ConfirmationTimeout
  <2> QED
    BY <1>2, <1>4, <1>7, <2>1 DEF ConfirmationTimeout
<1>8. ASSUME NEW call \in Calls, LateExecution(p, call) \/ LateDrop(p, call)
      PROVE  SessionTyped'
  <2>1. late' \subseteq Players \X Calls
    BY <1>3, <1>8 DEF LateExecution, LateDrop
  <2> QED
    BY <1>8, <2>1 DEF LateExecution, LateDrop, SessionTyped, SessionTypeOK, operatorVars
<1>9. CASE PollFinds(p)
  <2>1. found' \in [Players -> Tickets] /\ stage' \in [Players -> Stages]
    BY <1>1, <1>4, <1>9 DEF PollFinds, SessionTyped, SessionTypeOK, TypeOK
  <2> QED
    BY <1>9, <2>1 DEF PollFinds, SessionTyped, SessionTypeOK, operatorVars
<1>10. CASE PollTimesOut(p)
  BY <1>2, <1>3, <1>4, <1>10 DEF PollTimesOut
<1>11. CASE CancelSearch(p)
  BY <1>2, <1>3, <1>4, <1>11 DEF CancelSearch
<1> QED
  BY <1>5, <1>6, <1>7, <1>8, <1>9, <1>10, <1>11 DEF Client

(* Operators flush and commit something: whoever was matched is committed.   *)
LEMMA OperatorTyped ==
  ASSUME TypeOK, SessionTyped, NEW o \in Operators, Operator(o)
  PROVE  SessionTyped'
<1>1. CASE ReadPending(o)
  <2> DEFINE read == [k \in DOMAIN pending |-> pending[k].player]
  <2>1. /\ read \in Seq(Players)
        /\ pending # <<>> => read # <<>>
    <3>1. read \in [1..Len(pending) -> Players] /\ Len(pending) \in Nat
      BY SequencesTyped, PendingTyped
    <3>2. read \in Seq(Players)
      BY <3>1, SeqDef
    <3>3. ASSUME pending # <<>> PROVE read # <<>>
      <4>1. 1 \in DOMAIN pending
        BY <3>3, SequencesTyped, EmptySeq
      <4>2. DOMAIN read = DOMAIN pending
        OBVIOUS
      <4> HIDE DEF read
      <4> QED
        BY <4>1, <4>2, EmptySeq
    <3> QED
      BY <3>2, <3>3
  <2>2. Participants \subseteq Players /\ Participants # {}
    <3>1. \A n \in DOMAIN events :
            events[n].player1 \in Players /\ events[n].player2 \in Players
      <4> TAKE n \in DOMAIN events
      <4>1. events[n] \in Events
        BY SequencesTyped, ElementOfSeq
      <4> QED
        BY <4>1 DEF Events
    <3>2. 1 \in DOMAIN events
      BY <1>1, SequencesTyped, EmptySeq DEF ReadPending
    <3> QED
      BY <3>1, <3>2 DEF Participants
  <2>3. /\ toFlush' = [toFlush EXCEPT ![o] = read]
        /\ toCommit' = [toCommit EXCEPT ![o] = Participants]
        /\ resolving' = [resolving EXCEPT ![o] = AfterReading]
        /\ UNCHANGED clientVars
    BY <1>1 DEF ReadPending
  <2>4. /\ AfterReading \in {"flush", "commit"}
        /\ AfterReading = "flush" => read # <<>>
    BY <2>1 DEF AfterReading
  <2> HIDE DEF read
  <2>5. /\ toFlush' \in [Operators -> Seq(Players)]
        /\ toCommit' \in [Operators -> SUBSET Players]
        /\ resolving' \in [Operators -> {"idle", "flush", "commit"}]
    BY <2>1, <2>2, <2>3, <2>4 DEF SessionTyped, SessionTypeOK
  <2>6. \A x \in Operators :
          /\ resolving'[x] = "flush" => toFlush'[x] # <<>>
          /\ resolving'[x] # "idle" => toCommit'[x] # {}
    BY <2>2, <2>3, <2>4 DEF SessionTyped, SessionTypeOK
  <2> QED
    BY <2>3, <2>5, <2>6 DEF SessionTyped, SessionTypeOK, clientVars
<1>2. ASSUME UNCHANGED <<clientVars, toFlush, toCommit>>, resolving[o] # "idle",
             NEW r \in {"idle", "commit"}, resolving' = [resolving EXCEPT ![o] = r]
      PROVE  SessionTyped'
  <2>1. resolving' \in [Operators -> {"idle", "flush", "commit"}]
    BY <1>2 DEF SessionTyped, SessionTypeOK
  <2>2. \A x \in Operators :
          /\ resolving'[x] = "flush" => toFlush[x] # <<>>
          /\ resolving'[x] # "idle" => toCommit[x] # {}
    BY <1>2 DEF SessionTyped, SessionTypeOK
  <2> QED
    BY <1>2, <2>1, <2>2 DEF SessionTyped, SessionTypeOK, clientVars
<1> QED
  BY <1>1, <1>2
  DEF Operator, FlushConfirmed, FlushUnconfirmed, FlushRead, CommitRead, ResolveThrows

(* Clients and operators keep what their code may hold: no operator sends an *)
(* empty flush or commit.                                                    *)
THEOREM SessionTypes == SessionSpec => [](TypeOK /\ SessionTyped)
<1>1. SessionInit => TypeOK /\ SessionTyped
  <2> SUFFICES ASSUME SessionInit PROVE TypeOK /\ SessionTyped
    OBVIOUS
  <2>1. TypeOK
    BY InitTyped DEF SessionInit
  <2>2. SessionTyped
    BY TicketKinds, EmptySeq DEF SessionInit, SessionTyped, SessionTypeOK, Stages, Calls
  <2> QED
    BY <2>1, <2>2
<1>2. TypeOK /\ SessionTyped /\ [SessionNext]_sessionVars => TypeOK' /\ SessionTyped'
  <2> SUFFICES ASSUME TypeOK, SessionTyped, [SessionNext]_sessionVars
               PROVE  TypeOK' /\ SessionTyped'
    OBVIOUS
  <2>1. TypeOK'
    BY ProgramStep, TypesKept
  <2>2. SessionTyped'
    <3>1. ASSUME UNCHANGED <<clientVars, operatorVars>> PROVE SessionTyped'
      BY <3>1 DEF SessionTyped, SessionTypeOK, clientVars, operatorVars
    <3> QED
      BY <3>1, ClientTyped, OperatorTyped DEF SessionNext, Setup, Settlement, sessionVars
  <2> QED
    BY <2>1, <2>2
<1> QED
  BY <1>1, <1>2, PTL DEF SessionSpec

(* Clients and operators do nothing to the accounts that the program does    *)
(* not allow anybody to do: whatever holds of the program holds around them. *)
THEOREM SessionImplementsDuel == SessionSpec => Spec
<1>1. SessionInit => Init
  BY DEF SessionInit
<1>2. SessionTyped /\ [SessionNext]_sessionVars => [Next]_vars
  BY ProgramStep
<1> QED
  BY <1>1, <1>2, SessionTypes, PTL DEF SessionSpec, Spec

THEOREM SessionTypesHold == SessionSpec => []SessionTypeOK
<1>1. SessionTyped => SessionTypeOK
  BY DEF SessionTyped
<1> QED
  BY <1>1, SessionTypes, PTL
-----------------------------------------------------------------------------
(* One match per player who does not retry. *)

(* p's client, or a call it gave up on, can still join the queue.            *)
Joinable(p) ==
  \/ stage[p] \in {"create", "setup", "permit", "delegate", "join"}
  \/ <<p, "join">> \in late

(* Who does not retry sends joinQueue once.                                  *)
SentOnce ==
  \A p \in Players \ Retrying :
    /\ stage[p] # "rejoin" /\ <<p, "rejoin">> \notin late
    /\ <<p, "join">> \in late =>
         stage[p] \notin {"create", "setup", "permit", "delegate", "join"}

(* Who waits or is matched does not join again, waits in one entry, and does *)
(* not wait once matched.                                                    *)
QueuedOnce ==
  \A p \in Players \ Retrying :
    /\ \A i \in DOMAIN entries : entries[i].player = p => ~ Joinable(p)
    /\ \A i, j \in DOMAIN entries : entries[i].player = p /\ entries[j].player = p => i = j
    /\ \A n \in DOMAIN events :
         p \in {events[n].player1, events[n].player2} =>
           ~ Joinable(p) /\ \A i \in DOMAIN entries : entries[i].player # p

(* The inductive invariant: OneMatchEach alone does not say why a matched    *)
(* player cannot be matched again.                                           *)
Once == SentOnce /\ QueuedOnce /\ OneMatchEach

(* A client's step touches the queue and the log only by joining, which it    *)
(* cannot do again, and never gets able to join.                             *)
LEMMA ClientOnce ==
  ASSUME SessionTyped, SentOnce, NEW p \in Players, Client(p)
  PROVE  /\ SentOnce'
         /\ \A x \in Players : Joinable(x)' => Joinable(x)
         /\ \/ UNCHANGED <<entries, events>>
            \/ \E elo \in Elos, listed \in BOOLEAN :
                 /\ JoinQueue(p, elo, listed)
                 /\ p \notin Retrying => Joinable(p) /\ ~ Joinable(p)'
<1>1. stage \in [Players -> Stages]
  BY DEF SessionTyped, SessionTypeOK
<1>2. ASSUME NEW call \in Calls, Execute(p, call)
      PROVE  \/ UNCHANGED <<entries, events>>
             \/ /\ call \in {"join", "rejoin"}
                /\ \E elo \in Elos, listed \in BOOLEAN : JoinQueue(p, elo, listed)
  BY <1>2 DEF Execute, Calls, CreateTicket, DelegateTicket, vars, queueVars
<1>3. CASE Confirmed(p)
  <2>1. /\ stage[p] \in Calls /\ Execute(p, stage[p])
        /\ stage' = [stage EXCEPT ![p] = Following(stage[p])] /\ late' = late
    BY <1>3 DEF Confirmed
  <2>2. stage'[p] # "rejoin" /\ \A x \in Players : x # p => stage'[x] = stage[x]
    BY <1>1, <2>1 DEF Following, Calls
  <2>3. stage'[p] \in {"create", "setup", "permit", "delegate", "join"} =>
          stage[p] \in {"create", "setup", "permit", "delegate"}
    BY <1>1, <2>1 DEF Following, Calls
  <2>4. SentOnce'
    BY <2>1, <2>2, <2>3 DEF SentOnce
  <2>5. \A x \in Players : Joinable(x)' => Joinable(x)
    BY <2>1, <2>2, <2>3 DEF Joinable
  <2>6. stage[p] \in {"join", "rejoin"} /\ p \notin Retrying => Joinable(p) /\ ~ Joinable(p)'
    BY <1>1, <2>1 DEF Following, Joinable, SentOnce
  <2> QED
    BY <1>2, <2>1, <2>4, <2>5, <2>6
<1>4. CASE Rejected(p) \/ ConfirmationTimeout(p)
  <2>1. /\ stage[p] \in Calls /\ stage' = [stage EXCEPT ![p] = AfterFailure(p)]
        /\ late' = late \/ late' = late \cup {<<p, stage[p]>>}
        /\ UNCHANGED <<entries, events>>
    BY <1>4 DEF Rejected, ConfirmationTimeout, vars, queueVars
  <2>2. /\ stage'[p] \in {"failed", "rejoin"}
        /\ p \notin Retrying => stage'[p] = "failed"
        /\ \A x \in Players : x # p => stage'[x] = stage[x]
    BY <1>1, <2>1 DEF AfterFailure
  <2>3. \A x, call : <<x, call>> \in late' =>
          <<x, call>> \in late \/ (x = p /\ call = stage[p])
    BY <2>1
  <2>4. SentOnce'
    <3> SUFFICES ASSUME NEW x \in Players \ Retrying
                 PROVE  /\ stage'[x] # "rejoin" /\ <<x, "rejoin">> \notin late'
                        /\ <<x, "join">> \in late' =>
                             stage'[x] \notin {"create", "setup", "permit", "delegate", "join"}
      BY DEF SentOnce
    <3>1. CASE x = p
      BY <2>2, <2>3, <3>1 DEF SentOnce
    <3>2. CASE x # p
      BY <2>2, <2>3, <3>2 DEF SentOnce
    <3> QED
      BY <3>1, <3>2
  <2>5. \A x \in Players : Joinable(x)' => Joinable(x)
    BY <2>2, <2>3 DEF Joinable
  <2> QED
    BY <2>1, <2>4, <2>5
<1>5. ASSUME NEW call \in Calls, LateExecution(p, call) \/ LateDrop(p, call)
      PROVE  /\ SentOnce'
             /\ \A x \in Players : Joinable(x)' => Joinable(x)
             /\ \/ UNCHANGED <<entries, events>>
                \/ \E elo \in Elos, listed \in BOOLEAN :
                     /\ JoinQueue(p, elo, listed)
                     /\ p \notin Retrying => Joinable(p) /\ ~ Joinable(p)'
  <2>1. /\ <<p, call>> \in late /\ late' = late \ {<<p, call>>} /\ stage' = stage
        /\ Execute(p, call) \/ UNCHANGED <<entries, events>>
    BY <1>5 DEF LateExecution, LateDrop, vars, queueVars
  <2>2. SentOnce' /\ \A x \in Players : Joinable(x)' => Joinable(x)
    BY <2>1 DEF SentOnce, Joinable
  <2>3. call \in {"join", "rejoin"} /\ p \notin Retrying => Joinable(p) /\ ~ Joinable(p)'
    BY <2>1 DEF SentOnce, Joinable
  <2> QED
    BY <1>2, <2>1, <2>2, <2>3
<1>6. CASE PollFinds(p) \/ PollTimesOut(p) \/ CancelSearch(p)
  <2>1. /\ UNCHANGED <<late, entries, events>>
        /\ \E s \in {"found", "timedOut", "left"} : stage' = [stage EXCEPT ![p] = s]
    BY <1>6 DEF PollFinds, PollTimesOut, CancelSearch, CancelTicket, vars, queueVars
  <2>2. /\ stage'[p] \in {"found", "timedOut", "left"}
        /\ \A x \in Players : x # p => stage'[x] = stage[x]
    BY <1>1, <2>1
  <2> QED
    BY <2>1, <2>2 DEF SentOnce, Joinable
<1> QED
  BY <1>3, <1>4, <1>5, <1>6 DEF Client

(* Somebody who has not joined before waits.                                 *)
LEMMA WaitOnce ==
  ASSUME TypeOK, Once, NEW p \in Players, NEW elo \in Elos, Wait(p, elo),
         p \notin Retrying => Joinable(p) /\ ~ Joinable(p)',
         \A x \in Players : Joinable(x)' => Joinable(x)
  PROVE  QueuedOnce' /\ OneMatchEach'
<1>1. /\ Len(entries) \in Nat /\ DOMAIN entries = 1..Len(entries)
      /\ DOMAIN entries' = 1..Len(entries) + 1
      /\ \A i \in 1..Len(entries) : entries'[i] = entries[i]
      /\ entries'[Len(entries) + 1].player = p
  BY WaitQueued
<1>2. events' = events
  BY DEF Wait
<1>3. \A i \in DOMAIN entries' : entries'[i].player # p =>
        i \in DOMAIN entries /\ entries[i] = entries'[i]
  BY <1>1
<1>4. OneMatchEach'
  BY <1>2 DEF Once, OneMatchEach
<1>5. QueuedOnce'
  <2> SUFFICES ASSUME NEW x \in Players \ Retrying
               PROVE  /\ \A i \in DOMAIN entries' : entries'[i].player = x => ~ Joinable(x)'
                      /\ \A i, j \in DOMAIN entries' :
                           entries'[i].player = x /\ entries'[j].player = x => i = j
                      /\ \A n \in DOMAIN events' :
                           x \in {events'[n].player1, events'[n].player2} =>
                             ~ Joinable(x)' /\ \A i \in DOMAIN entries' : entries'[i].player # x
    BY DEF QueuedOnce
  <2>1. CASE x # p
    BY <1>2, <1>3, <2>1 DEF Once, QueuedOnce
  <2>2. CASE x = p
    <3>1. \A i \in DOMAIN entries : entries[i].player # x
      BY <2>2 DEF Once, QueuedOnce
    <3>2. \A n \in DOMAIN events : x \notin {events[n].player1, events[n].player2}
      BY <2>2 DEF Once, QueuedOnce
    <3>3. \A i \in DOMAIN entries' : entries'[i].player = x => i = Len(entries) + 1
      BY <1>1, <3>1
    <3> QED
      BY <1>2, <2>2, <3>2, <3>3
  <2> QED
    BY <2>1, <2>2
<1> QED
  BY <1>4, <1>5

(* Somebody who has not joined before is matched with somebody who waits.    *)
LEMMA PairOnce ==
  ASSUME TypeOK, Once, NEW p \in Players, NEW elo \in Elos, NEW i \in DOMAIN entries,
         NEW listed \in BOOLEAN, Pair(p, elo, i, listed),
         p \notin Retrying => Joinable(p) /\ ~ Joinable(p)',
         \A x \in Players : Joinable(x)' => Joinable(x)
  PROVE  QueuedOnce' /\ OneMatchEach'
<1> DEFINE q == entries[i].player
           n == Len(events) + 1
           Plays(x, m) == x \in {events[m].player1, events[m].player2}
           Told(x, m) == x \in {events'[m].player1, events'[m].player2}
<1>1. /\ DOMAIN events' = 1..n /\ DOMAIN events = 1..Len(events) /\ Len(events) \in Nat
      /\ \A m \in DOMAIN events : events'[m] = events[m]
      /\ events'[n].player1 = p /\ events'[n].player2 = q
  BY PairLogged, SequencesTyped
<1>2. \A m \in DOMAIN events' : m = n \/ (m \in DOMAIN events /\ events'[m] = events[m])
  BY <1>1
<1>3. \A x : Told(x, n) <=> x = p \/ x = q
  BY <1>1
<1>4. \A j \in DOMAIN entries' : \E k \in DOMAIN entries :
        /\ k # i /\ entries'[j] = entries[k]
        /\ k = IF j < i THEN j ELSE j + 1
  <2>1. /\ DOMAIN entries' = 1..Len(entries) - 1
        /\ \A j \in DOMAIN entries' :
             entries'[j] = IF j < i THEN entries[j] ELSE entries[j + 1]
        /\ DOMAIN entries = 1..Len(entries) /\ Len(entries) \in Nat
    BY PairLeaves, SequencesTyped
  <2> SUFFICES ASSUME NEW j \in DOMAIN entries'
               PROVE  \E k \in DOMAIN entries :
                        /\ k # i /\ entries'[j] = entries[k]
                        /\ k = IF j < i THEN j ELSE j + 1
    OBVIOUS
  <2>2. CASE j < i
    BY <2>1, <2>2
  <2>3. CASE ~ (j < i)
    <3>1. j + 1 \in DOMAIN entries /\ j + 1 # i /\ entries'[j] = entries[j + 1]
      BY <2>1, <2>3
    <3> QED
      BY <2>3, <3>1
  <2> QED
    BY <2>2, <2>3
<1>5. \A j \in DOMAIN entries' : j \in Nat
  BY PairLeaves
<1>6. i \in Nat
  BY SequencesTyped
<1>7. p \notin Retrying =>
        /\ \A j \in DOMAIN entries : entries[j].player # p
        /\ \A m \in DOMAIN events : ~ Plays(p, m)
  BY DEF Once, QueuedOnce
<1>8. q \notin Retrying => \A m \in DOMAIN events : ~ Plays(q, m)
  BY EntryTyped DEF Once, QueuedOnce
<1> HIDE DEF n
<1>9. QueuedOnce'
  <2> SUFFICES ASSUME NEW x \in Players \ Retrying
               PROVE  /\ \A j \in DOMAIN entries' : entries'[j].player = x => ~ Joinable(x)'
                      /\ \A j, k \in DOMAIN entries' :
                           entries'[j].player = x /\ entries'[k].player = x => j = k
                      /\ \A m \in DOMAIN events' : Told(x, m) =>
                           ~ Joinable(x)' /\ \A j \in DOMAIN entries' : entries'[j].player # x
    BY DEF QueuedOnce
  <2>1. \A j \in DOMAIN entries' : entries'[j].player = x => ~ Joinable(x)'
    BY <1>4 DEF Once, QueuedOnce
  <2>2. ASSUME NEW j \in DOMAIN entries', NEW k \in DOMAIN entries',
               entries'[j].player = x, entries'[k].player = x
        PROVE  j = k
    <3>1. (IF j < i THEN j ELSE j + 1) = (IF k < i THEN k ELSE k + 1)
      BY <1>4, <2>2 DEF Once, QueuedOnce
    <3> QED
      BY <1>5, <1>6, <3>1
  <2>3. ASSUME NEW m \in DOMAIN events', Told(x, m)
        PROVE  ~ Joinable(x)' /\ \A j \in DOMAIN entries' : entries'[j].player # x
    <3>1. CASE m # n
      <4>1. m \in DOMAIN events /\ Plays(x, m)
        BY <1>2, <2>3, <3>1
      <4> QED
        BY <1>4, <4>1 DEF Once, QueuedOnce
    <3>2. CASE m = n /\ x = p
      BY <1>4, <1>7, <3>2
    <3>3. CASE m = n /\ x = q
      BY <1>4, <3>3 DEF Once, QueuedOnce
    <3> QED
      BY <1>3, <2>3, <3>1, <3>2, <3>3
  <2> QED
    BY <2>1, <2>2, <2>3
<1>10. OneMatchEach'
  <2> SUFFICES ASSUME NEW x \in Players \ Retrying, NEW k \in DOMAIN events',
                      NEW m \in DOMAIN events'
               PROVE  /\ ~ (events'[m].player1 = x /\ events'[m].player2 = x)
                      /\ Told(x, k) /\ Told(x, m) => k = m
    BY DEF OneMatchEach
  <2>1. x = p \/ x = q => \A l \in DOMAIN events : ~ Plays(x, l)
    BY <1>7, <1>8
  <2>2. ~ (events'[m].player1 = x /\ events'[m].player2 = x)
    <3>1. CASE m = n
      BY <1>1, <1>7, <3>1
    <3>2. CASE m # n
      BY <1>2, <3>2 DEF Once, OneMatchEach
    <3> QED
      BY <3>1, <3>2
  <2>3. ASSUME Told(x, k), Told(x, m) PROVE k = m
    <3>1. CASE k # n /\ m # n
      BY <1>2, <2>3, <3>1 DEF Once, OneMatchEach
    <3>2. CASE k = n \/ m = n
      BY <1>2, <1>3, <2>1, <2>3, <3>2
    <3> QED
      BY <3>1, <3>2
  <2> QED
    BY <2>2, <2>3
<1> QED
  BY <1>9, <1>10

LEMMA OnceKept == SessionSpec => []Once
<1>1. SessionInit => Once
  BY DEF SessionInit, Init, Once, SentOnce, QueuedOnce, OneMatchEach
<1>2. TypeOK /\ SessionTyped /\ Once /\ [SessionNext]_sessionVars => Once'
  <2> SUFFICES ASSUME TypeOK, SessionTyped, Once, [SessionNext]_sessionVars PROVE Once'
    OBVIOUS
  <2>1. ASSUME UNCHANGED <<entries, events>>, SentOnce',
               \A x \in Players : Joinable(x)' => Joinable(x)
        PROVE  Once'
    BY <2>1 DEF Once, QueuedOnce, OneMatchEach
  <2>2. ASSUME UNCHANGED <<entries, events, clientVars>> PROVE Once'
    BY <2>2 DEF Once, SentOnce, QueuedOnce, OneMatchEach, Joinable, clientVars
  <2>3. CASE Setup
    BY <2>2, <2>3 DEF Setup, Admin, InitializeTenant, InitializeQueue, DelegateQueue, queueVars
  <2>4. ASSUME NEW p \in Players, Client(p) PROVE Once'
    <3>1. SentOnce' /\ \A x \in Players : Joinable(x)' => Joinable(x)
      BY <2>4, ClientOnce DEF Once
    <3>2. CASE UNCHANGED <<entries, events>>
      BY <2>1, <3>1, <3>2
    <3>3. ASSUME NEW elo \in Elos, NEW listed \in BOOLEAN, JoinQueue(p, elo, listed),
                 p \notin Retrying => Joinable(p) /\ ~ Joinable(p)'
          PROVE  Once'
      <4>1. CASE Wait(p, elo)
        BY <3>1, <3>3, <4>1, WaitOnce DEF Once
      <4>2. ASSUME NEW i \in DOMAIN entries, Pair(p, elo, i, listed) PROVE Once'
        BY <3>1, <3>3, <4>2, PairOnce DEF Once
      <4> QED
        BY <3>3, <4>1, <4>2 DEF JoinQueue
    <3> QED
      BY <2>4, <3>2, <3>3, ClientOnce DEF Once
  <2>5. ASSUME NEW o \in Operators, Operator(o) PROVE Once'
    <3>1. UNCHANGED <<entries, events, clientVars>>
      BY <2>5 DEF Operator, ReadPending, FlushConfirmed, FlushUnconfirmed, FlushRead,
                  FlushMatches, CommitRead, CommitTickets, ResolveThrows, vars, queueVars
    <3> QED
      BY <2>2, <3>1
  <2>6. CASE Settlement
    BY <2>2, <2>6 DEF Settlement, Settle, queueVars
  <2>7. CASE UNCHANGED sessionVars
    BY <2>2, <2>7 DEF sessionVars, vars, queueVars
  <2> QED
    BY <2>3, <2>4, <2>5, <2>6, <2>7 DEF SessionNext
<1> QED
  BY <1>1, <1>2, SessionTypes, PTL DEF SessionSpec

(* Who does not retry a failed joinQueue is in one match at most, however    *)
(* late its calls are executed and whatever the others do.                   *)
THEOREM OneMatchPerPlayer == SessionSpec => []OneMatchEach
<1>1. Once => OneMatchEach
  BY DEF Once
<1> QED
  BY <1>1, OnceKept, PTL

-----------------------------------------------------------------------------
(* What clients are told. *)

(* A match that a client was told of is the outcome of its ticket.           *)
FoundStays ==
  \A p \in Players :
    found[p] # Searching => found[p].status = "Matched" /\ found[p] = ticket[p]

(* No client closes a ticket: one that names a match keeps naming it.        *)
LEMMA MatchStays ==
  ASSUME TypeOK, SessionTyped, [SessionNext]_sessionVars, NEW p \in Players,
         ticket[p].status = "Matched"
  PROVE  ticket'[p] = ticket[p]
<1>1. ticket[p] # Absent /\ ticket[p] # Searching
  BY DEF Absent, Searching
<1>2. ASSUME NEW x \in Players, NEW t, WriteTickets([ticket EXCEPT ![x] = t]),
             ticket[x] = Absent \/ ticket[x] = Searching
      PROVE  ticket'[p] = ticket[p]
  BY <1>1, <1>2 DEF WriteTickets
<1>3. ASSUME NEW x \in Players, NEW call \in Calls, Execute(x, call)
      PROVE  ticket'[p] = ticket[p]
  <2>1. CASE CreateTicket(x)
    BY <1>2, <2>1 DEF CreateTicket
  <2>2. CASE DelegateTicket(x) \/ UNCHANGED vars
    BY <2>2 DEF DelegateTicket, vars, ticketVars
  <2>3. ASSUME NEW elo \in Elos, NEW listed \in BOOLEAN, JoinQueue(x, elo, listed)
        PROVE  ticket'[p] = ticket[p]
    BY <1>2, <2>3 DEF JoinQueue, Wait, Pair
  <2> QED
    BY <1>3, <2>1, <2>2, <2>3 DEF Execute, Calls
<1>4. ASSUME NEW x \in Players, Client(x) PROVE ticket'[p] = ticket[p]
  <2>1. CASE Confirmed(x)
    BY <1>3, <2>1 DEF Confirmed
  <2>2. ASSUME NEW call \in Calls, LateExecution(x, call) PROVE ticket'[p] = ticket[p]
    BY <1>3, <2>2 DEF LateExecution
  <2>3. CASE CancelSearch(x)
    BY <1>2, <2>3 DEF CancelSearch, CancelTicket
  <2>4. CASE \/ Rejected(x) \/ ConfirmationTimeout(x) \/ PollFinds(x) \/ PollTimesOut(x)
             \/ \E call \in Calls : LateDrop(x, call)
    BY <2>4 DEF Rejected, ConfirmationTimeout, PollFinds, PollTimesOut, LateDrop, vars,
                ticketVars
  <2> QED
    BY <1>4, <2>1, <2>2, <2>3, <2>4 DEF Client
<1>5. ASSUME NEW accounts \in SeqOf(Players, MaxAccounts), FlushMatches(accounts)
      PROVE  ticket'[p] = ticket[p]
  BY <1>1, <1>5, FlushEffect
<1>6. CASE Setup \/ Settlement \/ UNCHANGED sessionVars
  BY <1>6 DEF Setup, Admin, InitializeTenant, InitializeQueue, DelegateQueue, Settlement, Settle,
              sessionVars, vars, ticketVars
<1>7. ASSUME NEW o \in Operators, Operator(o) PROVE ticket'[p] = ticket[p]
  <2>1. CASE FlushRead(o)
    BY <1>5, <2>1, FlushReadAccounts DEF FlushRead, vars, ticketVars
  <2>2. CASE ReadPending(o) \/ CommitRead(o) \/ ResolveThrows(o)
    BY <2>2 DEF ReadPending, CommitRead, CommitTickets, ResolveThrows, vars, ticketVars
  <2> QED
    BY <1>7, <2>1, <2>2 DEF Operator, FlushConfirmed, FlushUnconfirmed
<1> QED
  BY <1>4, <1>6, <1>7 DEF SessionNext

LEMMA FoundKept == SessionSpec => []FoundStays
<1>1. SessionInit => FoundStays
  BY DEF SessionInit, FoundStays
<1>2. TypeOK /\ SessionTyped /\ Copies /\ FoundStays /\ [SessionNext]_sessionVars => FoundStays'
  <2> SUFFICES ASSUME TypeOK, SessionTyped, Copies, FoundStays, [SessionNext]_sessionVars
               PROVE  FoundStays'
    OBVIOUS
  <2>1. ASSUME UNCHANGED found PROVE FoundStays'
    BY <2>1, MatchStays DEF FoundStays
  <2>2. ASSUME NEW x \in Players, PollFinds(x) PROVE FoundStays'
    <3>1. /\ l1[x].status = "Matched" /\ found' = [found EXCEPT ![x] = l1[x]]
          /\ ticket' = ticket
      BY <2>2 DEF PollFinds, vars, ticketVars
    <3>2. l1[x] = ticket[x]
      <4>1. l1[x] # Searching
        BY <3>1 DEF Searching
      <4> QED
        BY <4>1 DEF Copies, SameOnL1, SettledAgrees
    <3>3. found \in [Players -> Tickets]
      BY DEF SessionTyped, SessionTypeOK
    <3>4. found'[x] = l1[x] /\ \A p \in Players : p # x => found'[p] = found[p]
      BY <3>1, <3>3
    <3> QED
      BY <3>1, <3>2, <3>4 DEF FoundStays
  <2>3. ASSUME NEW x \in Players, Client(x), ~ PollFinds(x) PROVE UNCHANGED found
    BY <2>3 DEF Client, Confirmed, Rejected, ConfirmationTimeout, LateExecution, LateDrop,
                PollTimesOut, CancelSearch
  <2>4. ASSUME NEW o \in Operators, Operator(o) PROVE UNCHANGED found
    BY <2>4 DEF Operator, ReadPending, FlushConfirmed, FlushUnconfirmed, FlushRead,
                CommitRead, ResolveThrows, clientVars
  <2>5. CASE Setup \/ Settlement \/ UNCHANGED sessionVars
    BY <2>1, <2>5 DEF Setup, Settlement, sessionVars, clientVars
  <2> QED
    BY <2>1, <2>2, <2>3, <2>4, <2>5 DEF SessionNext
<1>3. SessionSpec => []Copies
  BY SessionImplementsDuel, CopiesKept, PTL
<1> QED
  BY <1>1, <1>2, <1>3, SessionTypes, PTL DEF SessionSpec

(* Clients that are told of a match, and did not retry, are told of the same *)
(* match and of one another.                                                 *)
THEOREM ClientsAgree == SessionSpec => []FoundMutual
<1>1. TypeOK /\ TicketsHonest /\ OneMatchEach /\ FoundStays => FoundMutual
  <2> SUFFICES ASSUME TypeOK, TicketsHonest, OneMatchEach, FoundStays,
                      NEW p \in Players \ Retrying, found[p] # Searching
               PROVE  LET q == found[p].opponent IN
                      /\ found[p] = ticket[p]
                      /\ q # p
                      /\ q \notin Retrying /\ found[q] # Searching =>
                           found[q] = Matched(p, found[p].matchId)
    BY DEF FoundMutual
  <2> DEFINE q == found[p].opponent
             n == found[p].matchId
  <2>1. found[p] = ticket[p] /\ ticket[p].status = "Matched"
    BY DEF FoundStays
  <2>2. /\ n \in DOMAIN events
        /\ \/ events[n].player1 = p /\ events[n].player2 = q
           \/ events[n].player2 = p /\ events[n].player1 = q
    BY <2>1 DEF TicketsHonest, TellsTruth
  <2>3. q # p
    BY <2>2 DEF OneMatchEach
  <2>4. ASSUME q \notin Retrying, found[q] # Searching PROVE found[q] = Matched(p, n)
    <3>1. q \in Players
      <4>1. events[n] \in Events
        BY <2>2, SequencesTyped, ElementOfSeq
      <4> QED
        BY <2>2, <4>1 DEF Events
    <3> DEFINE m == found[q].matchId
    <3>2. found[q] = ticket[q] /\ ticket[q].status = "Matched" /\ ticket[q] \in Tickets
      BY <2>4, <3>1 DEF FoundStays, TypeOK
    <3>3. /\ m \in DOMAIN events
          /\ \/ events[m].player1 = q /\ events[m].player2 = found[q].opponent
             \/ events[m].player2 = q /\ events[m].player1 = found[q].opponent
      BY <3>1, <3>2 DEF TicketsHonest, TellsTruth
    <3>4. m = n
      BY <2>2, <2>4, <3>1, <3>3 DEF OneMatchEach
    <3>5. found[q].opponent = p
      BY <2>2, <2>3, <3>3, <3>4
    <3> QED
      BY <3>2, <3>4, <3>5, MatchedTicket
  <2> QED
    BY <2>1, <2>3, <2>4
<1>2. SessionSpec => []TicketsHonest
  BY SessionImplementsDuel, TicketsNeverLie, PTL
<1> QED
  BY <1>1, <1>2, SessionTypes, OneMatchPerPlayer, FoundKept, PTL
=============================================================================
