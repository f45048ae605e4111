--------------------------- MODULE PlayGameProofs ---------------------------
(***************************************************************************)
(* Theorems about module PlayGame, for any players, sessions, tickets,     *)
(* boards and bounds: the web client plays by the rules of the game        *)
(* program, its boards never contradict one another, the choice shown is   *)
(* the one that counted, and the menu takes nobody out of a game who did   *)
(* not click a Continue twice.                                             *)
(***************************************************************************)
EXTENDS PlayGame, RpsGameProofs

(* What a transaction says. *)
Txs ==
  {tx \in [call : {"start", "delegate", "choose", "persist"},
           game : Games, choice : Choice \cup {"None"}] :
     tx.call = "choose" => tx.choice # "None"}

BoardsTyped ==
  /\ page \in [Players -> Nat] /\ \A p \in Players : page[p] <= MaxOpens[p]
  /\ at \in [Boards -> Stages]
  /\ game \in [Boards -> Games \cup {NoGame}]
  /\ chosen \in [Boards -> Choice \cup {"None"}]
  /\ shown \in [Boards -> {"None", "Tie", "player1", "player2"}]
  /\ timers \in [Boards -> Nat] /\ clicks \in [Boards -> Nat]
  /\ faulty \subseteq Players

SentTyped == sent \in [Players -> Seq(Txs)]

(* What a board is about, and what it has come to. *)
BoardsAgree ==
  \A b \in Boards :
    /\ at[b] = "unopened" <=> game[b] = NoGame
    /\ game[b] # NoGame => b[1] \in {game[b][1], game[b][2]}
    /\ at[b] \in {"submit", "resolving", "complete", "persisting"} => chosen[b] # "None"
    /\ at[b] \in {"complete", "persisting"} => shown[b] # "None"

(* A board that waits no longer is about a session in the TEE; a result that *)
(* is shown is the session's.                                                *)
Reached ==
  \A b \in Boards : at[b] \in {"ready", "submit", "resolving"} => game[b] \in delegated

Held ==
  \A b \in Boards : shown[b] # "None" =>
    /\ game[b] \in Games
    /\ account[game[b]] # Absent
    /\ account[game[b]].result = shown[b]

(* Every timer is of a click of its own, which is over once the timer runs.  *)
Clicked ==
  \A b \in Boards :
    /\ timers[b] <= clicks[b] /\ clicks[b] <= MaxClicks[b]
    /\ at[b] = "persisting" => timers[b] < clicks[b]

(* p never clicked a Continue twice. *)
Calm(p) == \A c \in Boards : c[1] = p => clicks[c] <= 1

(* Such a player sees the board that is over until its timer runs out.       *)
Due ==
  \A b \in Boards : Calm(b[1]) =>
    /\ timers[b] > 0 => at[b] = "complete" /\ Displayed(b)
    /\ at[b] = "persisting" => Displayed(b)

Boarded == BoardsTyped /\ SentTyped /\ BoardsAgree /\ Reached /\ Held /\ Clicked /\ Due

LEMMA BoardKinds ==
  /\ \A b \in Boards : b[1] \in Players /\ b[2] \in Nat /\ b[2] # 0 /\ b[2] <= MaxOpens[b[1]]
  /\ \A b, c \in Boards : b[1] = c[1] /\ b[2] = c[2] => b = c
  /\ NoGame \notin Games
<1>1. MaxOpens \in [Players -> Nat]
  BY PlayAssumption
<1>2. \A b \in Boards : b[1] \in Players /\ b[2] \in Nat /\ b[2] # 0 /\ b[2] <= MaxOpens[b[1]]
  BY <1>1 DEF Boards
<1>3. \A b, c \in Boards : b[1] = c[1] /\ b[2] = c[2] => b = c
  BY DEF Boards
<1>4. NoGame \notin Games
  BY GamesAssumption DEF NoGame
<1> QED
  BY <1>2, <1>3, <1>4

(* Removing an element of a sequence leaves a sequence. *)
LEMMA RemoveTyped ==
  ASSUME NEW S, NEW s \in Seq(S), NEW k \in DOMAIN s
  PROVE  RemoveAt(s, k) \in Seq(S) /\ s[k] \in S
<1>1. Len(s) \in Nat /\ DOMAIN s = 1..Len(s) /\ k \in 1..Len(s)
  BY LenProperties
<1>2. \A j \in 1..Len(s) : s[j] \in S
  BY ElementOfSeq
<1>3. SubSeq(s, 1, k - 1) \in Seq(S)
  BY <1>1, <1>2, SubSeqProperties
<1>4. SubSeq(s, k + 1, Len(s)) \in Seq(S)
  BY <1>1, <1>2, SubSeqProperties
<1> QED
  BY <1>1, <1>2, <1>3, <1>4, ConcatProperties DEF RemoveAt

(* A transaction that is executed is a step of the game program. *)
LEMMA ExecuteSteps ==
  ASSUME NEW p \in Players, NEW tx \in Txs, Execute(p, tx)
  PROVE  Next
<1>1. /\ tx.game \in Games /\ tx.call \in {"start", "delegate", "choose", "persist"}
      /\ tx.call = "choose" => tx.choice \in Choice
  BY DEF Txs
<1>2. CASE tx.call = "start"
  BY <1>1, <1>2 DEF Execute, Next
<1>3. CASE tx.call = "delegate"
  BY <1>1, <1>3, AccountKinds DEF Execute, Next
<1>4. CASE tx.call = "choose"
  BY <1>1, <1>4 DEF Execute, Next
<1>5. CASE tx.call = "persist"
  <2>1. <<tx.game[1], tx.game[2]>> \in Passed
    BY <1>1, PlayAssumption
  <2>2. PersistResults(tx.game, <<tx.game[1], tx.game[2]>>[1], <<tx.game[1], tx.game[2]>>[2])
    BY <1>5 DEF Execute
  <2> QED
    BY <1>1, <2>1, <2>2 DEF Next
<1> QED
  BY <1>1, <1>2, <1>3, <1>4, <1>5

(* Every step of the web clients is one of the game program, or none. *)
LEMMA StepRefines ==
  ASSUME SentTyped, [PlayNext]_playVars
  PROVE  [Next]_vars
<1>1. CASE UNCHANGED playVars
  BY <1>1 DEF playVars
<1>2. ASSUME NEW b \in Boards, NEW g \in Games, Open(b, g)
      PROVE  UNCHANGED vars
  BY <1>2 DEF Open
<1>3. ASSUME NEW b \in Boards, Goes(b)
      PROVE  UNCHANGED vars
  BY <1>3 DEF Goes, StartGameCall, DelegateSession, Click, Submit, Resolve, Persist, Moves
<1>4. ASSUME NEW b \in Boards, Continue(b) \/ Leave(b) \/ Fail(b) \/ BackToMenu(b)
      PROVE  UNCHANGED vars
  BY <1>4 DEF Continue, Leave, Fail, Throws, BackToMenu
<1>5. ASSUME NEW x \in Accounts, Profile(x)
      PROVE  Next
  BY <1>5 DEF Profile, Next
<1>6. ASSUME NEW p \in Players, Refused(p)
      PROVE  UNCHANGED vars
  BY <1>6 DEF Refused
<1>7. ASSUME NEW p \in Players, NEW k \in 1..MaxSent, Executed(p, k)
      PROVE  Next
  <2>1. sent[p] \in Seq(Txs) /\ k \in DOMAIN sent[p]
    BY <1>7 DEF SentTyped, Executed
  <2>2. sent[p][k] \in Txs
    BY <2>1, RemoveTyped
  <2> QED
    BY <1>7, <2>2, ExecuteSteps DEF Executed
<1>8. ASSUME NEW p \in Players, NEW k \in 1..MaxSent, Lost(p, k)
      PROVE  UNCHANGED vars
  BY <1>8 DEF Lost
<1>9. ASSUME Settlement
      PROVE  Next
  BY <1>9 DEF Settlement, Next
<1>10. CASE PlayNext
  BY <1>2, <1>3, <1>4, <1>5, <1>6, <1>7, <1>8, <1>9, <1>10 DEF PlayNext
<1> QED
  BY <1>1, <1>10


-----------------------------------------------------------------------------
(* The game program below the boards. *)

(* Two choices end a game. *)
Ends ==
  \A g \in Games :
    /\ account[g] # Absent
    /\ "None" \notin {account[g].choice1, account[g].choice2}
    => account[g].result # "None"

Below == Typed /\ Resolved(account) /\ Present(account) /\ Chain /\ Ends

(* Choices are made by make_choice only, which decides the game at once. *)
LEMMA EndsStep ==
  ASSUME Below, [Next]_vars
  PROVE  Ends'
<1>1. AccountsTyped(account) /\ delegated \subseteq Accounts
  BY DEF Below, Typed, TypeOK
<1>2. ASSUME \A g \in Games : account'[g] = account[g]
      PROVE  Ends'
  BY <1>2 DEF Below, Ends
<1>3. ASSUME NEW p \in Players, InitializePlayer(p) \/ ClosePlayer(p)
      PROVE  Ends'
  BY <1>1, <1>2, <1>3, AccountKinds DEF InitializePlayer, ClosePlayer, Write, AccountsTyped
<1>4. ASSUME NEW g \in Games, StartGame(g)
      PROVE  Ends'
  <2>1. \A h \in Games : account'[h] = IF h = g THEN NewSession ELSE account[h]
    BY <1>1, <1>4, AccountKinds DEF StartGame, Write, AccountsTyped
  <2> QED
    BY <2>1 DEF Below, Ends, NewSession
<1>5. ASSUME NEW g \in Games, NEW p \in Players, NEW choice \in Choice,
             MakeChoice(g, p, choice)
      PROVE  Ends'
  <2> DEFINE session == Choose(account[g], g, p, choice)
             result == Outcome(session.choice1, session.choice2)
  <2>1. account[g] \in Sessions /\ account[g[1]] \in Profiles /\ account[g[2]] \in Profiles
    BY <1>1, <1>5, AccountKinds DEF MakeChoice, AccountsTyped
  <2>2. session \in Sessions /\ account' = AfterChoice(g, session)
    BY <1>5, <2>1, ChooseTyped DEF MakeChoice, Write
  <2>3. result # "None" /\ [session EXCEPT !.result = result].result = result
    BY <2>2 DEF Outcome, Sessions
  <2> HIDE DEF session
  <2>4. \A h \in Games : account'[h] =
          IF h # g THEN account[h]
          ELSE IF "None" \in {session.choice1, session.choice2} THEN session
          ELSE [session EXCEPT !.result = result]
    BY <1>1, <2>1, <2>2, AfterChoiceAt
  <2>5. ASSUME NEW h \in Games, account'[h] # Absent,
               "None" \notin {account'[h].choice1, account'[h].choice2}
        PROVE  account'[h].result # "None"
    BY <2>3, <2>4, <2>5 DEF Below, Ends
  <2> QED
    BY <2>5 DEF Ends
<1>6. CASE Next
  BY <1>2, <1>3, <1>4, <1>5, <1>6
    DEF Next, StartGameWithTicket, DelegatePda, PersistResults, Settle
<1>7. CASE UNCHANGED vars
  BY <1>2, <1>7 DEF vars
<1> QED
  BY <1>6, <1>7

(* A step of the game program keeps all that, what sessions hold, and what  *)
(* is delegated.                                                             *)
LEMMA BelowStep ==
  ASSUME Below, [Next]_vars
  PROVE  /\ Below'
         /\ \A g \in Games : Keeps(account[g], account'[g])
         /\ delegated \subseteq delegated'
<1>1. Typed' /\ Resolved(account)' /\ Present(account)'
  BY TypedStep DEF Below
<1>2. Chain' /\ \A g \in Games : Keeps(account[g], account'[g])
  BY ChainStep DEF Below, Final, Follows, Lasting
<1>3. delegated \subseteq delegated'
  <2>1. CASE Next
    <3>1. \/ \E new : Advance(account, new) /\ Write(new) /\ UNCHANGED <<delegated, inflight>>
          \/ \E x \in Accounts : DelegatePda(x)
          \/ \E g \in Games, x, y \in Accounts : PersistResults(g, x, y)
          \/ Settle
      BY <2>1, Steps DEF Below, Typed, TypeOK
    <3> QED
      BY <3>1 DEF DelegatePda, PersistResults, Settle
  <2> QED
    BY <2>1 DEF vars
<1> QED
  BY <1>1, <1>2, <1>3, EndsStep DEF Below

LEMMA BelowInit ==
  ASSUME Init
  PROVE  Below
<1>1. \A g \in Games : account[g] = Absent
  BY AccountKinds DEF Init
<1> QED
  BY <1>1, TypedInit, ChainInit DEF Below, Ends

-----------------------------------------------------------------------------
(* The boards. *)

LEMMA BoardedInit ==
  ASSUME PlayInit
  PROVE  Boarded
<1>1. BoardsTyped
  BY BoardKinds, PlayAssumption DEF PlayInit, BoardsTyped, Stages
<1>2. SentTyped
  BY EmptySeq DEF PlayInit, SentTyped
<1>3. BoardsAgree /\ Reached /\ Held /\ Clicked /\ Due
  BY BoardKinds, PlayAssumption DEF PlayInit, BoardsAgree, Reached, Held, Clicked, Due
<1> QED
  BY <1>1, <1>2, <1>3 DEF Boarded

(* The game program moves below boards that stay as they are. *)
LEMMA ProgramMoves ==
  ASSUME Boarded, Below, [Next]_vars, UNCHANGED <<page, boardVars, dueVars>>,
         sent' \in [Players -> Seq(Txs)], faulty' \subseteq Players
  PROVE  Boarded'
<1>1. \A g \in Games : Keeps(account[g], account'[g])
  BY BelowStep
<1>2. delegated \subseteq delegated'
  BY BelowStep
<1>3. BoardsTyped' /\ SentTyped'
  BY DEF Boarded, BoardsTyped, SentTyped, boardVars, dueVars
<1>4. BoardsAgree' /\ Clicked' /\ Due'
  BY DEF Boarded, BoardsAgree, Clicked, Calm, Due, boardVars, dueVars, Displayed
<1>5. Reached'
  BY <1>2 DEF Boarded, Reached, boardVars
<1>6. Held'
  BY <1>1 DEF Boarded, Held, Keeps, boardVars
<1> QED
  BY <1>3, <1>4, <1>5, <1>6 DEF Boarded

(* A transaction is added to those of a player. *)
LEMMA SendsTyped ==
  ASSUME Boarded, NEW b \in Boards, game[b] \in Games,
         NEW call \in {"start", "delegate", "choose", "persist"}, Sends(b, call),
         call = "choose" => chosen[b] # "None"
  PROVE  sent' \in [Players -> Seq(Txs)]
<1> DEFINE tx == [call |-> call, game |-> game[b], choice |-> chosen[b]]
<1>1. b[1] \in Players
  BY BoardKinds
<1>2. tx \in Txs
  BY DEF Txs, Boarded, BoardsTyped
<1>3. Append(sent[b[1]], tx) \in Seq(Txs)
  BY <1>1, <1>2, AppendProperties DEF Boarded, SentTyped
<1>4. sent' = [sent EXCEPT ![b[1]] = Append(@, tx)]
  BY DEF Sends
<1> HIDE DEF tx
<1> QED
  BY <1>1, <1>3, <1>4 DEF Boarded, SentTyped

(* A transaction leaves those of a player. *)
LEMMA PendingTyped ==
  ASSUME Boarded, NEW p \in Players, NEW k \in DOMAIN sent[p], sent' = Pending(p, k)
  PROVE  sent' \in [Players -> Seq(Txs)]
<1>1. RemoveAt(sent[p], k) \in Seq(Txs)
  BY RemoveTyped DEF Boarded, SentTyped
<1> QED
  BY <1>1 DEF Pending, Boarded, SentTyped

(* A board goes on to a stage that promises no more than it has come to.    *)
LEMMA Moved ==
  ASSUME Boarded, NEW b \in Boards, NEW next \in Stages \ {"unopened"},
         at[b] # "unopened", at' = [at EXCEPT ![b] = next],
         UNCHANGED <<vars, page, game>>,
         chosen' \in [Boards -> Choice \cup {"None"}],
         shown' \in [Boards -> {"None", "Tie", "player1", "player2"}],
         sent' \in [Players -> Seq(Txs)], faulty' \subseteq Players,
         timers' \in [Boards -> Nat], clicks' \in [Boards -> Nat],
         \A c \in Boards \ {b} : timers'[c] = timers[c] /\ clicks'[c] = clicks[c],
         clicks[b] <= clicks'[b], clicks'[b] <= MaxClicks[b], timers'[b] <= clicks'[b],
         next = "persisting" => timers'[b] < clicks'[b],
         \A c \in Boards \ {b} : chosen'[c] = chosen[c] /\ shown'[c] = shown[c],
         next \in {"submit", "resolving", "complete", "persisting"} => chosen'[b] # "None",
         next \in {"complete", "persisting"} => shown'[b] # "None",
         next \in {"ready", "submit", "resolving"} => game[b] \in delegated,
         \/ shown'[b] = shown[b]
         \/ account[game[b]] # Absent /\ shown'[b] = account[game[b]].result,
         Calm(b[1]) /\ clicks'[b] <= 1 =>
           /\ timers'[b] > 0 => next = "complete" /\ Displayed(b)
           /\ next = "persisting" => Displayed(b)
  PROVE  Boarded'
<1>1. /\ at \in [Boards -> Stages]
      /\ \A c \in Boards : at'[c] = IF c = b THEN next ELSE at[c]
  BY DEF Boarded, BoardsTyped
<1>2. game[b] \in Games /\ game[b] # NoGame
  BY BoardKinds DEF Boarded, BoardsTyped, BoardsAgree
<1>3. BoardsTyped' /\ SentTyped'
  BY DEF Boarded, BoardsTyped, SentTyped
<1>4. BoardsAgree'
  BY <1>1, <1>2 DEF Boarded, BoardsAgree
<1>5. Reached'
  BY <1>1 DEF Boarded, Reached, vars
<1>6. Held'
  BY <1>2 DEF Boarded, Held, vars
<1>7. Clicked'
  BY <1>1 DEF Boarded, Clicked
<1>8. \A p : Calm(p)' => Calm(p) /\ (b[1] = p => clicks'[b] <= 1)
  <2>1. /\ \A c \in Boards : clicks[c] \in Nat
        /\ \A c \in Boards \ {b} : clicks'[c] = clicks[c]
        /\ clicks'[b] \in Nat /\ clicks[b] <= clicks'[b]
    BY DEF Boarded, BoardsTyped
  <2>2. ASSUME NEW p, Calm(p)', NEW c \in Boards, c[1] = p
        PROVE  clicks[c] <= 1 /\ clicks'[c] <= 1
    <3>1. clicks'[c] <= 1
      BY <2>2 DEF Calm
    <3>2. CASE c = b
      BY <2>1, <3>1, <3>2
    <3>3. CASE c # b
      BY <2>1, <3>1, <3>3
    <3> QED
      BY <3>1, <3>2, <3>3
  <2> QED
    BY <2>2 DEF Calm
<1>9. Due'
  BY <1>1, <1>8 DEF Boarded, Due, Displayed
<1> QED
  BY <1>3, <1>4, <1>5, <1>6, <1>7, <1>9 DEF Boarded

(* The same, of a board that is not over and that nobody clicks Continue on. *)
LEMMA MovedOn ==
  ASSUME Boarded, NEW b \in Boards, NEW next \in Stages \ {"unopened", "persisting"},
         at[b] \notin {"unopened", "complete", "persisting"}, at' = [at EXCEPT ![b] = next],
         UNCHANGED <<vars, page, game, dueVars>>,
         chosen' \in [Boards -> Choice \cup {"None"}],
         shown' \in [Boards -> {"None", "Tie", "player1", "player2"}],
         sent' \in [Players -> Seq(Txs)], faulty' \subseteq Players,
         \A c \in Boards \ {b} : chosen'[c] = chosen[c] /\ shown'[c] = shown[c],
         next \in {"submit", "resolving", "complete"} => chosen'[b] # "None",
         next = "complete" => shown'[b] # "None",
         next \in {"ready", "submit", "resolving"} => game[b] \in delegated,
         \/ shown'[b] = shown[b]
         \/ account[game[b]] # Absent /\ shown'[b] = account[game[b]].result
  PROVE  Boarded'
<1>1. /\ timers \in [Boards -> Nat] /\ clicks \in [Boards -> Nat]
      /\ timers' = timers /\ clicks' = clicks
  BY DEF Boarded, BoardsTyped, dueVars
<1>2. timers[b] <= clicks[b] /\ clicks[b] <= MaxClicks[b] /\ clicks[b] <= clicks'[b]
  BY <1>1 DEF Boarded, Clicked
<1>3. Calm(b[1]) => ~ (timers[b] > 0)
  BY DEF Boarded, Due
<1>4. next \in Stages \ {"unopened"} /\ next # "persisting"
  OBVIOUS
<1> QED
  BY <1>1, <1>2, <1>3, <1>4, Moved

(* A match opens a board. *)
LEMMA OpenStep ==
  ASSUME Boarded, NEW b \in Boards, NEW g \in Games, Open(b, g)
  PROVE  Boarded'
<1> DEFINE next == IF b[1] = g[1] THEN "starting" ELSE "waiting"
<1>1. /\ page' = [page EXCEPT ![b[1]] = b[2]] /\ page[b[1]] = 0
      /\ game' = [game EXCEPT ![b] = g] /\ at' = [at EXCEPT ![b] = next]
      /\ at[b] = "unopened" /\ b[1] \in {g[1], g[2]}
      /\ UNCHANGED <<vars, chosen, shown, timers, clicks, sent, faulty>>
  BY DEF Open, dueVars
<1>2. next \in {"starting", "waiting"}
  OBVIOUS
<1> HIDE DEF next
<1>3. /\ at' \in [Boards -> Stages] /\ game' \in [Boards -> Games \cup {NoGame}]
      /\ \A c \in Boards : at'[c] = IF c = b THEN next ELSE at[c]
      /\ \A c \in Boards : game'[c] = IF c = b THEN g ELSE game[c]
  BY <1>1, <1>2 DEF Boarded, BoardsTyped, Stages
<1>4. /\ page' \in [Players -> Nat]
      /\ \A p \in Players : page'[p] = IF p = b[1] THEN b[2] ELSE page[p]
      /\ \A c \in Boards : page'[c[1]] = IF c[1] = b[1] THEN b[2] ELSE page[c[1]]
  BY <1>1, BoardKinds DEF Boarded, BoardsTyped
<1>5. BoardsTyped' /\ SentTyped'
  BY <1>1, <1>3, <1>4, BoardKinds DEF Boarded, BoardsTyped, SentTyped
<1>6. BoardsAgree' /\ Reached'
  BY <1>1, <1>2, <1>3, BoardKinds DEF Boarded, BoardsAgree, Reached, vars
<1>7. Held'
  <2>1. game[b] \notin Games
    BY <1>1, BoardKinds DEF Boarded, BoardsAgree
  <2> QED
    BY <1>1, <1>3, <2>1 DEF Boarded, Held, vars
<1>8. Clicked'
  BY <1>1, <1>2, <1>3 DEF Boarded, Clicked
<1>9. Due'
  <2>1. \A c \in Boards : Displayed(c) => c[1] # b[1]
    BY <1>1, BoardKinds DEF Displayed
  <2>2. \A p : Calm(p)' => Calm(p)
    BY <1>1 DEF Calm
  <2> QED
    BY <1>1, <1>2, <1>3, <1>4, <2>1, <2>2 DEF Boarded, Due, Displayed
<1> QED
  BY <1>5, <1>6, <1>7, <1>8, <1>9 DEF Boarded

(* A board that is open is about a session. *)
LEMMA OpenBoards ==
  ASSUME Boarded, NEW b \in Boards, at[b] # "unopened"
  PROVE  game[b] \in Games /\ b[1] \in {game[b][1], game[b][2]}
BY DEF Boarded, BoardsTyped, BoardsAgree

(* player1 starts the session, delegates it, and both wait for it. *)
LEMMA StartStep ==
  ASSUME Boarded, NEW b \in Boards, StartGameCall(b)
  PROVE  Boarded'
<1>1. CASE /\ at[b] = "starting" /\ Sends(b, "start") /\ Moves(b, "delegate")
           /\ UNCHANGED <<chosen, shown>>
  BY <1>1, OpenBoards, SendsTyped, MovedOn DEF Boarded, BoardsTyped, Moves, Stages
<1>2. CASE /\ at[b] = "delegate" /\ Sends(b, "delegate") /\ Moves(b, "waiting")
           /\ UNCHANGED <<chosen, shown>>
  BY <1>2, OpenBoards, SendsTyped, MovedOn DEF Boarded, BoardsTyped, Moves, Stages
<1>3. CASE at[b] = "delegate" /\ Moves(b, "error") /\ UNCHANGED <<chosen, shown, sent>>
  BY <1>3, MovedOn DEF Boarded, BoardsTyped, SentTyped, Moves, Stages
<1>4. CASE /\ at[b] = "waiting" /\ game[b] \in delegated
           /\ Moves(b, "ready") /\ UNCHANGED <<chosen, shown, sent>>
  BY <1>4, MovedOn DEF Boarded, BoardsTyped, SentTyped, Moves, Stages
<1> QED
  BY <1>1, <1>2, <1>3, <1>4 DEF StartGameCall, DelegateSession

(* A choice is clicked, sent, and the result waited for. *)
LEMMA ChoiceStep ==
  ASSUME Boarded, Below, NEW b \in Boards
  PROVE  /\ \A choice \in Choice : Click(b, choice) => Boarded'
         /\ Submit(b) => Boarded'
         /\ Resolve(b) => Boarded'
<1>1. ASSUME NEW choice \in Choice, Click(b, choice)
      PROVE  Boarded'
  <2>1. /\ chosen' \in [Boards -> Choice \cup {"None"}] /\ chosen'[b] = choice
        /\ \A c \in Boards \ {b} : chosen'[c] = chosen[c]
        /\ choice # "None"
    BY <1>1 DEF Click, Boarded, BoardsTyped, Choice
  <2> QED
    BY <1>1, <2>1, MovedOn
      DEF Click, MayClick, Boarded, BoardsTyped, SentTyped, Reached, Moves, Stages
<1>2. ASSUME Submit(b)
      PROVE  Boarded'
  BY <1>2, OpenBoards, SendsTyped, MovedOn
    DEF Submit, Boarded, BoardsTyped, BoardsAgree, Reached, Moves, Stages
<1>3. ASSUME Resolve(b)
      PROVE  Boarded'
  <2> DEFINE s == account[game[b]]
  <2>1. game[b] \in Games /\ game[b] \in delegated /\ at[b] = "resolving"
    BY <1>3, OpenBoards DEF Resolve, Boarded, Reached
  <2>2. s # Absent /\ s \in Sessions
    BY <2>1, AccountKinds DEF Below, Typed, TypeOK, AccountsTyped, Present
  <2>3. s.result \in {"Tie", "player1", "player2"}
    BY <1>3, <2>1, <2>2 DEF Resolve, BothChose, Below, Ends, Sessions
  <2>4. /\ shown' \in [Boards -> {"None", "Tie", "player1", "player2"}] /\ shown'[b] = s.result
        /\ \A c \in Boards \ {b} : shown'[c] = shown[c]
    BY <1>3, <2>3 DEF Resolve, Boarded, BoardsTyped
  <2> HIDE DEF s
  <2>5. chosen[b] # "None"
    BY <2>1 DEF Boarded, BoardsAgree
  <2> QED
    BY <1>3, <2>1, <2>2, <2>3, <2>4, <2>5, MovedOn
      DEF s, Resolve, Boarded, BoardsTyped, SentTyped, Moves, Stages
<1> QED
  BY <1>1, <1>2, <1>3

(* Continue is clicked, and the results are sent. *)
LEMMA PersistStep ==
  ASSUME Boarded, NEW b \in Boards
  PROVE  /\ Continue(b) => Boarded'
         /\ Persist(b) => Boarded'
<1>1. /\ timers \in [Boards -> Nat] /\ clicks \in [Boards -> Nat]
      /\ timers[b] <= clicks[b] /\ clicks[b] <= MaxClicks[b] /\ MaxClicks[b] \in Nat
  BY PlayAssumption DEF Boarded, BoardsTyped, Clicked
<1>2. ASSUME Continue(b)
      PROVE  Boarded'
  <2>1. /\ at[b] = "complete" /\ Displayed(b) /\ clicks[b] < MaxClicks[b]
        /\ at' = [at EXCEPT ![b] = "persisting"] /\ clicks' = [clicks EXCEPT ![b] = @ + 1]
        /\ UNCHANGED <<vars, page, game, chosen, shown, timers, sent, faulty>>
    BY <1>2 DEF Continue
  <2>2. chosen[b] # "None" /\ shown[b] # "None"
    BY <2>1 DEF Boarded, BoardsAgree
  <2>3. /\ clicks' \in [Boards -> Nat] /\ timers' = timers /\ clicks'[b] = clicks[b] + 1
        /\ clicks'[b] <= MaxClicks[b] /\ timers'[b] < clicks'[b]
        /\ clicks[b] <= clicks'[b] /\ timers'[b] <= clicks'[b]
        /\ \A c \in Boards \ {b} : clicks'[c] = clicks[c]
        /\ clicks'[b] <= 1 => ~ (timers[b] > 0)
    BY <1>1, <2>1
  <2> QED
    BY <1>1, <2>1, <2>2, <2>3, Moved DEF Boarded, BoardsTyped, SentTyped, Stages
<1>3. ASSUME Persist(b)
      PROVE  Boarded'
  <2>1. /\ at[b] = "persisting" /\ Sends(b, "persist")
        /\ at' = [at EXCEPT ![b] = "complete"] /\ timers' = [timers EXCEPT ![b] = @ + 1]
        /\ UNCHANGED <<vars, page, game, chosen, shown, clicks, faulty>>
    BY <1>3 DEF Persist
  <2>2. chosen[b] # "None" /\ shown[b] # "None"
    BY <2>1 DEF Boarded, BoardsAgree
  <2>3. Calm(b[1]) => Displayed(b)
    BY <2>1 DEF Boarded, Due
  <2>4. sent' \in [Players -> Seq(Txs)]
    BY <2>1, OpenBoards, SendsTyped
  <2>5. timers[b] < clicks[b]
    BY <2>1 DEF Boarded, Clicked
  <2>6. /\ timers' \in [Boards -> Nat] /\ clicks' = clicks /\ timers'[b] <= clicks'[b]
        /\ clicks[b] <= clicks'[b] /\ clicks'[b] <= MaxClicks[b]
        /\ \A c \in Boards \ {b} : timers'[c] = timers[c]
    BY <1>1, <2>1, <2>5
  <2> QED
    BY <1>1, <2>1, <2>2, <2>3, <2>4, <2>6, Moved DEF Boarded, BoardsTyped, Stages
<1> QED
  BY <1>2, <1>3

(* A call of a board fails, before or after its transaction was sent. *)
LEMMA FailStep ==
  ASSUME Boarded, NEW b \in Boards, Fail(b)
  PROVE  Boarded'
<1>1. /\ at[b] \in {"starting", "delegate", "waiting", "submit", "resolving", "persisting"}
      /\ at' = [at EXCEPT ![b] = "error"] /\ faulty' = faulty \cup {b[1]}
      /\ UNCHANGED <<vars, page, game, chosen, shown, timers, clicks>>
  BY DEF Fail, Throws
<1>2. sent' \in [Players -> Seq(Txs)]
  <2>1. CASE UNCHANGED sent
    BY <2>1 DEF Boarded, SentTyped
  <2>2. CASE Sends(b, "start") \/ Sends(b, "delegate") \/ Sends(b, "persist")
    BY <1>1, <2>2, OpenBoards, SendsTyped
  <2>3. CASE at[b] = "submit" /\ Sends(b, "choose")
    BY <1>1, <2>3, OpenBoards, SendsTyped DEF Boarded, BoardsAgree
  <2> QED
    BY <2>1, <2>2, <2>3 DEF Fail, Throws
<1>3. /\ timers \in [Boards -> Nat] /\ clicks \in [Boards -> Nat]
      /\ timers[b] <= clicks[b] /\ clicks[b] <= MaxClicks[b] /\ clicks[b] <= clicks'[b]
  BY <1>1 DEF Boarded, BoardsTyped, Clicked
<1>4. Calm(b[1]) => ~ (timers[b] > 0)
  <2>1. CASE at[b] = "persisting"
    <3>1. timers[b] < clicks[b] /\ (Calm(b[1]) => clicks[b] <= 1)
      BY <2>1 DEF Boarded, Clicked, Calm
    <3> QED
      BY <1>3, <3>1
  <2>2. CASE at[b] # "persisting"
    BY <1>1, <2>2 DEF Boarded, Due
  <2> QED
    BY <2>1, <2>2
<1> QED
  BY <1>1, <1>2, <1>3, <1>4, BoardKinds, Moved DEF Boarded, BoardsTyped, Stages

(* The menu comes back, by a timer or from an error: no other board of a     *)
(* player who never clicked twice was due.                                   *)
LEMMA MenuStep ==
  ASSUME Boarded, NEW b \in Boards, Leave(b) \/ BackToMenu(b)
  PROVE  Boarded'
<1>1. timers \in [Boards -> Nat] /\ clicks \in [Boards -> Nat]
  BY DEF Boarded, BoardsTyped
<1>2. /\ page' = [page EXCEPT ![b[1]] = 0]
      /\ UNCHANGED <<vars, boardVars, clicks, sent, faulty>>
      /\ \/ timers[b] > 0 /\ timers' = [timers EXCEPT ![b] = @ - 1]
         \/ at[b] = "error" /\ Displayed(b) /\ timers' = timers
  BY DEF Leave, BackToMenu, dueVars
<1>3. /\ timers' \in [Boards -> Nat]
      /\ \A c \in Boards : timers'[c] <= timers[c]
      /\ timers'[b] < timers[b] \/ (at[b] = "error" /\ Displayed(b))
  BY <1>1, <1>2
<1>4. /\ page' \in [Players -> Nat]
      /\ \A p \in Players : page'[p] = IF p = b[1] THEN 0 ELSE page[p]
      /\ \A c \in Boards : c[1] \in Players
  BY <1>2, BoardKinds DEF Boarded, BoardsTyped
<1>5. BoardsTyped' /\ SentTyped'
  BY <1>2, <1>3, <1>4, PlayAssumption DEF Boarded, BoardsTyped, SentTyped, boardVars
<1>6. BoardsAgree' /\ Reached' /\ Held'
  BY <1>2 DEF Boarded, BoardsAgree, Reached, Held, boardVars, vars
<1>7. Clicked'
  <2>1. \A c \in Boards : timers[c] \in Nat /\ timers'[c] \in Nat /\ clicks[c] \in Nat
    BY <1>1, <1>3
  <2> QED
    BY <1>2, <1>3, <2>1 DEF Boarded, Clicked, boardVars
<1>8. Due'
  <2>1. ASSUME NEW c \in Boards, Calm(c[1])', timers'[c] > 0 \/ at'[c] = "persisting"
        PROVE  c[1] # b[1]
    <3>1. /\ Calm(c[1]) /\ clicks[c] <= 1 /\ clicks[b] \in Nat /\ clicks[c] \in Nat
          /\ timers[b] \in Nat /\ timers[c] \in Nat /\ timers'[c] \in Nat /\ timers'[b] \in Nat
      BY <1>1, <1>2, <1>3, <2>1 DEF Calm
    <3>2. timers[c] > 0 \/ at[c] = "persisting"
      BY <1>2, <1>3, <2>1, <3>1 DEF boardVars
    <3>3. Displayed(c) /\ at[c] \in {"complete", "persisting"} /\ timers[c] <= clicks[c]
          /\ (at[c] = "persisting" => timers[c] < clicks[c])
      BY <3>1, <3>2 DEF Boarded, Due, Clicked
    <3>4. CASE c = b
      BY <1>2, <1>3, <2>1, <3>1, <3>3, <3>4 DEF boardVars
    <3>5. ASSUME c[1] = b[1], c # b
          PROVE  FALSE
      <4>1. ~ Displayed(b)
        BY <3>3, <3>5, BoardKinds DEF Displayed
      <4>2. timers[b] > 0
        BY <1>2, <4>1
      <4> QED
        BY <3>1, <3>5, <4>1, <4>2 DEF Boarded, Due
    <3> QED
      BY <3>4, <3>5
  <2>2. \A c \in Boards : Calm(c[1])' => Calm(c[1])
    BY <1>2 DEF Calm
  <2>3. \A c \in Boards : timers'[c] > 0 => timers[c] > 0
    BY <1>1, <1>3
  <2> QED
    BY <1>2, <1>4, <2>1, <2>2, <2>3 DEF Boarded, Due, Displayed, boardVars
<1> QED
  BY <1>5, <1>6, <1>7, <1>8 DEF Boarded

LEMMA BoardedStep ==
  ASSUME Boarded, Below, [PlayNext]_playVars
  PROVE  Boarded'
<1>1. [Next]_vars
  BY StepRefines DEF Boarded
<1>2. CASE UNCHANGED playVars
  BY <1>1, <1>2, ProgramMoves DEF playVars, Boarded, BoardsTyped, SentTyped
<1>3. ASSUME NEW b \in Boards, NEW g \in Games, Open(b, g)
      PROVE  Boarded'
  BY <1>3, OpenStep
<1>4. ASSUME NEW b \in Boards, Goes(b)
      PROVE  Boarded'
  BY <1>4, StartStep, ChoiceStep, PersistStep DEF Goes
<1>5. ASSUME NEW b \in Boards, Continue(b) \/ Leave(b) \/ Fail(b) \/ BackToMenu(b)
      PROVE  Boarded'
  BY <1>5, PersistStep, FailStep, MenuStep
<1>6. ASSUME NEW x \in Accounts, Profile(x)
      PROVE  Boarded'
  BY <1>1, <1>6, ProgramMoves DEF Profile, Boarded, BoardsTyped, SentTyped
<1>7. ASSUME NEW p \in Players, Refused(p)
      PROVE  Boarded'
  <2>1. 1 \in DOMAIN sent[p]
    BY <1>7, RestOfSeq DEF Refused, Boarded, SentTyped
  <2> QED
    BY <1>1, <1>7, <2>1, PendingTyped, ProgramMoves DEF Refused, Boarded, BoardsTyped
<1>8. ASSUME NEW p \in Players, NEW k \in 1..MaxSent, Executed(p, k) \/ Lost(p, k)
      PROVE  Boarded'
  <2>1. sent' \in [Players -> Seq(Txs)]
    BY <1>8, PendingTyped DEF Executed, Lost
  <2> QED
    BY <1>1, <1>8, <2>1, ProgramMoves DEF Executed, Lost, Boarded, BoardsTyped
<1>9. ASSUME Settlement
      PROVE  Boarded'
  BY <1>1, <1>9, ProgramMoves DEF Settlement, Boarded, BoardsTyped, SentTyped
<1>10. CASE PlayNext
  BY <1>3, <1>4, <1>5, <1>6, <1>7, <1>8, <1>9, <1>10 DEF PlayNext
<1> QED
  BY <1>2, <1>10

(* What the boards and the program below them are in every state. *)
Playable == Boarded /\ Below

LEMMA PlayableAlways == PlaySpec => []Playable
<1>1. PlayInit => Playable
  BY BoardedInit, BelowInit DEF PlayInit, Playable
<1>2. Playable /\ [PlayNext]_playVars => Playable'
  <2>1. ASSUME Playable, [PlayNext]_playVars
        PROVE  Boarded' /\ [Next]_vars
    BY <2>1, BoardedStep, StepRefines DEF Playable, Boarded
  <2> QED
    BY <2>1, BelowStep DEF Playable
<1> QED
  BY <1>1, <1>2, PTL DEF PlaySpec

-----------------------------------------------------------------------------
(* The theorems. *)

(* A board shows a session, a choice and a result when and only when it has  *)
(* come to them (useGameSession.ts, GameBoard.tsx).                          *)
THEOREM PlayTyped == PlaySpec => []PlayTypeOK
<1>1. Playable => PlayTypeOK
  BY PlayAssumption DEF Playable, Boarded, BoardsTyped, BoardsAgree, Clicked, PlayTypeOK
<1> QED
  BY <1>1, PlayableAlways, PTL

(* Whatever the web clients send, late, out of order or not at all, is play  *)
(* by the rules of the game program (useGameSession.ts over rps-game's       *)
(* lib.rs): module PlayGame implements module RpsGame.                       *)
THEOREM PlayImplementsRps == PlaySpec => Spec
<1>1. PlayInit => Init
  BY DEF PlayInit
<1>2. Playable /\ [PlayNext]_playVars => [Next]_vars
  BY StepRefines DEF Playable, Boarded
<1> QED
  BY <1>1, <1>2, PlayableAlways, PTL DEF PlaySpec, Spec

(* So no board, however late its calls, takes back a choice or a result.     *)
THEOREM PlayFinal == PlaySpec => GamesFinal
BY PlayImplementsRps, RpsFinal, PTL

(* Two players who are shown the outcome of one session are shown opposite   *)
(* verdicts, which the session holds (GameBoard.tsx:120-140).                *)
THEOREM PlayVerdicts == PlaySpec => []VerdictsAgree
<1>1. ASSUME Playable
      PROVE  VerdictsAgree
  <2>1. SUFFICES ASSUME NEW b \in Boards, NEW c \in Boards,
                        b[1] # c[1], game[b] = game[c], Shows(b)
                 PROVE  /\ shown[b] = account[game[b]].result
                        /\ Shows(c) => Verdict(c) = Opposite(Verdict(b))
    BY DEF VerdictsAgree
  <2>2. /\ shown[b] = account[game[b]].result
        /\ game[b] # NoGame /\ shown[b] \in {"Tie", "player1", "player2"}
        /\ Shows(c) => shown[c] = shown[b]
    BY <1>1, <2>1, BoardKinds DEF Playable, Boarded, BoardsTyped, Held, Shows
  <2>3. {b[1], c[1]} = {game[b][1], game[b][2]} /\ game[b][1] # game[b][2]
    BY <1>1, <2>1, <2>2 DEF Playable, Boarded, BoardsAgree
  <2>4. ASSUME Shows(c)
        PROVE  Verdict(c) = Opposite(Verdict(b))
    BY <2>1, <2>2, <2>3, <2>4 DEF Verdict, Opposite, Winner, Opponent
  <2> QED
    BY <2>2, <2>4
<1> QED
  BY <1>1, PlayableAlways, PTL

(* The menu takes nobody out of a game who did not click a Continue twice,   *)
(* although its timers are never cleared (page.tsx:31-36, GameBoard.tsx:45-52 *)
(* and 149-154).                                                             *)
THEOREM PlayStays == PlaySpec => BoardStays
<1> DEFINE Stay == \A b \in Boards :
             Displayed(b) /\ ~ Displayed(b)' =>
               \/ at[b] \in {"complete", "persisting", "error"}
               \/ \E c \in Boards : c[1] = b[1] /\ clicks[c] > 1
<1>1. Playable /\ [PlayNext]_playVars => [Stay]_playVars
  <2>1. SUFFICES ASSUME Playable, PlayNext, NEW b \in Boards,
                        Displayed(b), ~ Displayed(b)',
                        \A c \in Boards : c[1] = b[1] => ~ (clicks[c] > 1)
                 PROVE  at[b] \in {"complete", "persisting", "error"}
    OBVIOUS
  <2>2. PICK c \in Boards : (\E g \in Games : Open(c, g)) \/ Leave(c) \/ BackToMenu(c)
    BY <2>1 DEF PlayNext, Goes, StartGameCall, DelegateSession, Click, Submit, Resolve, Persist,
                Moves, Continue, Fail, Throws, Profile, Refused, Executed, Lost, Settlement, Displayed
  <2>3. c[1] = b[1]
    BY <2>1, <2>2, BoardKinds
      DEF Open, Leave, BackToMenu, Displayed, Playable, Boarded, BoardsTyped
  <2>4. CASE \E g \in Games : Open(c, g)
    BY <2>1, <2>3, <2>4, BoardKinds DEF Open, Displayed
  <2>5. CASE Leave(c)
    <3>1. \A d \in Boards : clicks[d] \in Nat
      BY <2>1 DEF Playable, Boarded, BoardsTyped
    <3>2. Calm(b[1])
      BY <2>1, <3>1 DEF Calm
    <3>3. Displayed(c) /\ at[c] = "complete"
      BY <2>1, <2>3, <2>5, <3>2 DEF Leave, Playable, Boarded, Due
    <3> QED
      BY <2>1, <2>3, <3>3, BoardKinds DEF Displayed
  <2>6. CASE BackToMenu(c)
    BY <2>1, <2>3, <2>6, BoardKinds DEF BackToMenu, Displayed
  <2> QED
    BY <2>2, <2>4, <2>5, <2>6
<1> HIDE DEF Stay
<1>2. PlaySpec => [][Stay]_playVars
  BY <1>1, PlayableAlways, PTL DEF PlaySpec
<1> QED
  BY <1>2 DEF Stay, BoardStays

-----------------------------------------------------------------------------
(* The choice that counts. *)

(* b is the only board its player opened, and no choice was made on it that *)
(* could be on its way.                                                     *)
Sole(b) == \A c \in Boards : c[1] = b[1] /\ c # b => at[c] = "unopened"

Early(b) == at[b] \in {"unopened", "starting", "delegate", "waiting", "ready", "submit"}

(* The choice was made on board b.                                          *)
MadeOn(b, g, choice) == ~ Early(b) /\ game[b] = g /\ chosen[b] = choice

SentBy(p) == {sent[p][k] : k \in DOMAIN sent[p]}

Mine(p, g) == IF p = g[1] THEN "choice1" ELSE "choice2"

Chose(p, g) ==
  p \in {g[1], g[2]} /\ account[g] # Absent /\ account[g][Mine(p, g)] # "None"

(* What a player with one board chose, on its way or executed, is what was   *)
(* clicked there.                                                           *)
OwnChoice ==
  \A b \in Boards : Sole(b) =>
    /\ \A tx \in SentBy(b[1]) : tx.call = "choose" => MadeOn(b, tx.game, tx.choice)
    /\ \A g \in Games : Chose(b[1], g) => MadeOn(b, g, account[g][Mine(b[1], g)])

(* Boards stay opened, and past the choice they keep session and choice.     *)
LEMMA BoardGoesOn ==
  ASSUME Boarded, [PlayNext]_playVars, NEW b \in Boards
  PROVE  /\ at[b] # "unopened" => at'[b] # "unopened"
         /\ ~ Early(b) => ~ Early(b)' /\ game'[b] = game[b] /\ chosen'[b] = chosen[b]
<1>1. at \in [Boards -> Stages] /\ game \in [Boards -> Games \cup {NoGame}]
      /\ chosen \in [Boards -> Choice \cup {"None"}]
  BY DEF Boarded, BoardsTyped
<1>2. ASSUME NEW c \in Boards, NEW g \in Games, Open(c, g)
      PROVE  /\ at[b] # "unopened" => at'[b] # "unopened"
             /\ ~ Early(b) => ~ Early(b)' /\ game'[b] = game[b] /\ chosen'[b] = chosen[b]
  BY <1>1, <1>2 DEF Open, Early
<1>3. ASSUME NEW c \in Boards, Goes(c)
      PROVE  /\ at[b] # "unopened" => at'[b] # "unopened"
             /\ ~ Early(b) => ~ Early(b)' /\ game'[b] = game[b] /\ chosen'[b] = chosen[b]
  <2>1. CASE StartGameCall(c)
    BY <1>1, <2>1 DEF StartGameCall, DelegateSession, Moves, Early
  <2>2. ASSUME NEW choice \in Choice, Click(c, choice)
        PROVE  /\ at[b] # "unopened" => at'[b] # "unopened"
               /\ ~ Early(b) => ~ Early(b)' /\ game'[b] = game[b] /\ chosen'[b] = chosen[b]
    BY <1>1, <2>2 DEF Click, MayClick, Moves, Early
  <2>3. CASE Submit(c) \/ Resolve(c)
    BY <1>1, <2>3 DEF Submit, Resolve, Moves, Early
  <2>4. CASE Persist(c)
    BY <1>1, <2>4 DEF Persist, Early
  <2> QED
    BY <1>3, <2>1, <2>2, <2>3, <2>4 DEF Goes
<1>4. ASSUME NEW c \in Boards, Continue(c) \/ Leave(c) \/ Fail(c) \/ BackToMenu(c)
      PROVE  /\ at[b] # "unopened" => at'[b] # "unopened"
             /\ ~ Early(b) => ~ Early(b)' /\ game'[b] = game[b] /\ chosen'[b] = chosen[b]
  BY <1>1, <1>4 DEF Continue, Leave, Fail, Throws, BackToMenu, Early, boardVars
<1>5. CASE UNCHANGED boardVars
  BY <1>5 DEF boardVars, Early
<1>6. ASSUME NEW p \in Players,
             Refused(p) \/ \E k \in 1..MaxSent : Executed(p, k) \/ Lost(p, k)
      PROVE  UNCHANGED boardVars
  BY <1>6 DEF Refused, Executed, Lost
<1>7. ASSUME Settlement \/ UNCHANGED playVars \/ \E x \in Accounts : Profile(x)
      PROVE  UNCHANGED boardVars
  BY <1>7 DEF Settlement, playVars, Profile
<1> QED
  BY <1>2, <1>3, <1>4, <1>5, <1>6, <1>7 DEF PlayNext

(* What is left in a sequence was in it.                                    *)
LEMMA RemoveElements ==
  ASSUME NEW S, NEW s \in Seq(S), NEW k \in DOMAIN s
  PROVE  \A j \in DOMAIN RemoveAt(s, k) : \E i \in DOMAIN s : RemoveAt(s, k)[j] = s[i]
<1> DEFINE T == {s[i] : i \in DOMAIN s}
<1>1. s \in Seq(T)
  <2>1. \A i \in 1..Len(s) : s[i] \in T
    BY LenProperties
  <2>2. Len(s) \in Nat /\ DOMAIN s = 1..Len(s) /\ s = [i \in 1..Len(s) |-> s[i]]
    BY LenProperties
  <2> HIDE DEF T
  <2> QED
    BY <2>1, <2>2
<1>2. \A x \in T : \E i \in DOMAIN s : x = s[i]
  OBVIOUS
<1> HIDE DEF T
<1>3. RemoveAt(s, k) \in Seq(T)
  BY <1>1, RemoveTyped
<1>4. \A j \in DOMAIN RemoveAt(s, k) : RemoveAt(s, k)[j] \in T
  BY <1>3, ElementOfSeq, LenProperties
<1> QED
  BY <1>2, <1>4

(* The same, of one that is appended.                                       *)
LEMMA AppendElements ==
  ASSUME NEW S, NEW s \in Seq(S), NEW x
  PROVE  \A j \in DOMAIN Append(s, x) :
           Append(s, x)[j] = x \/ \E i \in DOMAIN s : Append(s, x)[j] = s[i]
<1>1. s \in Seq(S \cup {x}) /\ x \in S \cup {x}
  <2>1. \A k \in 1..Len(s) : s[k] \in S \cup {x}
    BY ElementOfSeq
  <2>2. Len(s) \in Nat /\ DOMAIN s = 1..Len(s) /\ s = [k \in 1..Len(s) |-> s[k]]
    BY LenProperties
  <2> QED
    BY <2>1, <2>2
<1>2. /\ Len(s) \in Nat /\ DOMAIN s = 1..Len(s)
      /\ DOMAIN Append(s, x) = 1..Len(s) + 1
      /\ \A j \in 1..Len(s) : Append(s, x)[j] = s[j]
      /\ Append(s, x)[Len(s) + 1] = x
  BY <1>1, AppendProperties, LenProperties
<1>3. \A j \in 1..Len(s) + 1 : j = Len(s) + 1 \/ j \in 1..Len(s)
  BY <1>2
<1> QED
  BY <1>2, <1>3

(* Transactions that are removed or added, as sets.                         *)
LEMMA SentSets ==
  ASSUME Boarded
  PROVE  /\ \A p \in Players : \A k \in DOMAIN sent[p] :
              sent' = Pending(p, k) => \A q \in Players : SentBy(q)' \subseteq SentBy(q)
         /\ \A b \in Boards : \A call :
              Sends(b, call) => \A q \in Players :
                SentBy(q)' \subseteq SentBy(q) \cup
                  (IF q = b[1]
                   THEN {[call |-> call, game |-> game[b], choice |-> chosen[b]]} ELSE {})
<1>1. sent \in [Players -> Seq(Txs)]
  BY DEF Boarded, SentTyped
<1>2. ASSUME NEW p \in Players, NEW k \in DOMAIN sent[p], sent' = Pending(p, k),
             NEW q \in Players
      PROVE  SentBy(q)' \subseteq SentBy(q)
  <2>1. sent'[q] = IF q = p THEN RemoveAt(sent[p], k) ELSE sent[q]
    BY <1>1, <1>2 DEF Pending
  <2>2. \A j \in DOMAIN RemoveAt(sent[p], k) : \E i \in DOMAIN sent[p] :
          RemoveAt(sent[p], k)[j] = sent[p][i]
    <3> DEFINE s == sent[p]
    <3>1. s \in Seq(Txs) /\ k \in DOMAIN s
      BY <1>1, <1>2
    <3> HIDE DEF s
    <3>2. \A j \in DOMAIN RemoveAt(s, k) : \E i \in DOMAIN s : RemoveAt(s, k)[j] = s[i]
      BY <3>1, RemoveElements
    <3> QED
      BY <3>2 DEF s
  <2> QED
    BY <2>1, <2>2 DEF SentBy
<1>3. ASSUME NEW b \in Boards, NEW call, Sends(b, call), NEW q \in Players
      PROVE  SentBy(q)' \subseteq SentBy(q) \cup
               (IF q = b[1]
                THEN {[call |-> call, game |-> game[b], choice |-> chosen[b]]} ELSE {})
  <2> DEFINE tx == [call |-> call, game |-> game[b], choice |-> chosen[b]]
  <2>1. sent'[q] = IF q = b[1] THEN Append(sent[q], tx) ELSE sent[q]
    BY <1>1, <1>3 DEF Sends
  <2>2. sent[q] \in Seq(Txs)
    BY <1>1
  <2> HIDE DEF tx
  <2>3. \A j \in DOMAIN Append(sent[q], tx) :
          Append(sent[q], tx)[j] = tx \/ \E i \in DOMAIN sent[q] : Append(sent[q], tx)[j] = sent[q][i]
    BY <2>2, AppendElements
  <2> QED
    BY <2>1, <2>3 DEF SentBy, tx
<1> QED
  BY <1>2, <1>3

(* A choice that is sent is the one shown.                                  *)
LEMMA NewSent ==
  ASSUME Boarded, [PlayNext]_playVars, NEW b \in Boards, Sole(b),
         NEW tx \in SentBy(b[1])', tx.call = "choose"
  PROVE  tx \in SentBy(b[1]) \/ MadeOn(b, tx.game, tx.choice)'
<1>1. b[1] \in Players /\ at \in [Boards -> Stages] /\ sent \in [Players -> Seq(Txs)]
  BY BoardKinds DEF Boarded, BoardsTyped, SentTyped
<1>2. ASSUME UNCHANGED sent
      PROVE  tx \in SentBy(b[1])
  BY <1>2 DEF SentBy
<1>3. ASSUME NEW p \in Players, NEW k \in DOMAIN sent[p], sent' = Pending(p, k)
      PROVE  tx \in SentBy(b[1])
  BY <1>1, <1>3, SentSets
<1>4. ASSUME NEW c \in Boards, NEW call, Sends(c, call), call # "choose"
      PROVE  tx \in SentBy(b[1])
  BY <1>1, <1>4, SentSets
<1>5. ASSUME NEW c \in Boards, Sends(c, "choose"), at[c] = "submit",
             at'[c] \in {"resolving", "error"}, UNCHANGED <<game, chosen>>
      PROVE  tx \in SentBy(b[1]) \/ MadeOn(b, tx.game, tx.choice)'
  <2>1. SentBy(b[1])' \subseteq SentBy(b[1]) \cup
          (IF b[1] = c[1]
           THEN {[call |-> "choose", game |-> game[c], choice |-> chosen[c]]} ELSE {})
    BY <1>1, <1>5, SentSets
  <2>2. CASE b[1] = c[1]
    <3>1. c = b
      BY <1>5, <2>2 DEF Sole
    <3> QED
      BY <1>5, <2>1, <2>2, <3>1 DEF MadeOn, Early
  <2>3. CASE b[1] # c[1]
    BY <2>1, <2>3
  <2> QED
    BY <2>2, <2>3
<1>6. ASSUME NEW c \in Boards, NEW g \in Games, Open(c, g)
      PROVE  tx \in SentBy(b[1])
  BY <1>2, <1>6 DEF Open
<1>7. ASSUME NEW c \in Boards, StartGameCall(c)
      PROVE  tx \in SentBy(b[1])
  BY <1>2, <1>4, <1>7 DEF StartGameCall, DelegateSession
<1>8. ASSUME NEW c \in Boards, NEW choice \in Choice, Click(c, choice)
      PROVE  tx \in SentBy(b[1])
  BY <1>2, <1>8 DEF Click
<1>9. ASSUME NEW c \in Boards, Submit(c)
      PROVE  tx \in SentBy(b[1]) \/ MadeOn(b, tx.game, tx.choice)'
  BY <1>1, <1>5, <1>9 DEF Submit, Moves
<1>10. ASSUME NEW c \in Boards, Resolve(c) \/ Persist(c)
       PROVE  tx \in SentBy(b[1])
  BY <1>2, <1>4, <1>10 DEF Resolve, Persist
<1>11. ASSUME NEW c \in Boards, Fail(c)
       PROVE  tx \in SentBy(b[1]) \/ MadeOn(b, tx.game, tx.choice)'
  BY <1>1, <1>2, <1>4, <1>5, <1>11 DEF Fail, Throws
<1>12. ASSUME NEW c \in Boards, Continue(c) \/ Leave(c) \/ BackToMenu(c)
       PROVE  tx \in SentBy(b[1])
  BY <1>2, <1>12 DEF Continue, Leave, BackToMenu
<1>13. ASSUME NEW x \in Accounts, Profile(x)
       PROVE  tx \in SentBy(b[1])
  BY <1>2, <1>13 DEF Profile
<1>14. ASSUME NEW p \in Players, Refused(p)
       PROVE  tx \in SentBy(b[1])
  <2>1. 1 \in DOMAIN sent[p]
    BY <1>1, <1>14, RestOfSeq DEF Refused
  <2> QED
    BY <1>3, <1>14, <2>1 DEF Refused
<1>15. ASSUME NEW p \in Players, NEW k \in 1..MaxSent, Executed(p, k) \/ Lost(p, k)
       PROVE  tx \in SentBy(b[1])
  BY <1>3, <1>15 DEF Executed, Lost
<1>16. ASSUME Settlement \/ UNCHANGED playVars
       PROVE  tx \in SentBy(b[1])
  BY <1>2, <1>16 DEF Settlement, playVars
<1>17. ASSUME NEW c \in Boards, Goes(c)
       PROVE  tx \in SentBy(b[1]) \/ MadeOn(b, tx.game, tx.choice)'
  BY <1>7, <1>8, <1>9, <1>10, <1>17 DEF Goes
<1> QED
  BY <1>6, <1>11, <1>12, <1>13, <1>14, <1>15, <1>16, <1>17 DEF PlayNext

(* A choice in a session is the one of the transaction that made it.        *)
LEMMA NewChoice ==
  ASSUME Boarded, Below, [PlayNext]_playVars, NEW p \in Players, NEW g \in Games, Chose(p, g)'
  PROVE  \/ Chose(p, g) /\ account'[g][Mine(p, g)] = account[g][Mine(p, g)]
         \/ \E tx \in SentBy(p) :
              tx.call = "choose" /\ tx.game = g /\ tx.choice = account'[g][Mine(p, g)]
<1>1. AccountsTyped(account) /\ delegated \subseteq Accounts /\ DOMAIN account = Accounts
  BY DEF Below, Typed, TypeOK, AccountsTyped
<1>2. /\ p \in {g[1], g[2]} /\ account'[g] # Absent /\ account'[g][Mine(p, g)] # "None"
  BY DEF Chose, Mine
<1>3. ASSUME account'[g] = account[g]
      PROVE  Chose(p, g) /\ account'[g][Mine(p, g)] = account[g][Mine(p, g)]
  BY <1>2, <1>3 DEF Chose
<1>4. ASSUME NEW h \in Games, StartGame(h)
      PROVE  account'[g] = account[g]
  <2>1. account'[g] = IF h = g THEN NewSession ELSE account[g]
    BY <1>1, <1>4, AccountKinds DEF StartGame, Write
  <2> QED
    BY <1>2, <2>1 DEF NewSession, Mine
<1>5. ASSUME NEW q \in Players, NEW tx \in SentBy(q), tx \in Txs, Execute(q, tx)
      PROVE  \/ account'[g] = account[g]
             \/ Chose(p, g) /\ account'[g][Mine(p, g)] = account[g][Mine(p, g)]
             \/ tx.call = "choose" /\ tx.game = g /\ p = q /\ tx.choice = account'[g][Mine(p, g)]
  <2>1. tx.game \in Games /\ (tx.call = "choose" => tx.choice \in Choice)
    BY <1>5 DEF Txs
  <2>2. CASE tx.call = "start" /\ StartGameWithTicket(tx.game)
    BY <1>4, <2>1, <2>2 DEF StartGameWithTicket
  <2>3. CASE DelegatePda(tx.game) \/ PersistResults(tx.game, tx.game[1], tx.game[2])
    BY <2>3 DEF DelegatePda, PersistResults
  <2>4. CASE tx.call = "choose" /\ MakeChoice(tx.game, q, tx.choice)
    <3> DEFINE old == account[tx.game]
               session == Choose(old, tx.game, q, tx.choice)
               over == [session EXCEPT !.result = Outcome(session.choice1, session.choice2)]
    <3>1. /\ old \in Sessions /\ account[tx.game[1]] \in Profiles
          /\ account[tx.game[2]] \in Profiles /\ q \in {tx.game[1], tx.game[2]}
      BY <1>1, <2>1, <2>4, AccountKinds DEF MakeChoice, AccountsTyped
    <3>2. session \in Sessions
      BY <2>1, <2>4, <3>1, ChooseTyped
    <3>3. account' = AfterChoice(tx.game, session)
      BY <2>4 DEF MakeChoice, Write
    <3>4. over.choice1 = session.choice1 /\ over.choice2 = session.choice2
      BY <3>2 DEF Sessions
    <3>5. /\ session.choice1 = IF tx.game[1] = q THEN tx.choice ELSE old.choice1
          /\ session.choice2 = IF tx.game[1] = q THEN old.choice2 ELSE tx.choice
      BY <3>1 DEF Choose, Sessions
    <3> HIDE DEF session, over
    <3>6. account'[g] = IF g # tx.game THEN account[g]
                        ELSE IF "None" \in {session.choice1, session.choice2} THEN session ELSE over
      BY <1>1, <2>1, <3>1, <3>2, <3>3, AfterChoiceAt DEF over
    <3>7. CASE g # tx.game
      BY <3>6, <3>7
    <3>8. CASE g = tx.game
      <4>1. account'[g].choice1 = session.choice1 /\ account'[g].choice2 = session.choice2
        BY <3>4, <3>6, <3>8
      <4>2. CASE p = q
        BY <1>2, <2>4, <3>1, <3>5, <3>8, <4>1, <4>2 DEF Mine
      <4>3. CASE p # q
        <5>1. account'[g][Mine(p, g)] = old[Mine(p, g)]
          BY <1>2, <3>1, <3>5, <3>8, <4>1, <4>3 DEF Mine
        <5>2. old # Absent
          BY <3>1, AbsentIsNone
        <5> QED
          BY <1>2, <3>8, <5>1, <5>2 DEF Chose
      <4> QED
        BY <4>2, <4>3
    <3> QED
      BY <3>7, <3>8
  <2> QED
    BY <1>5, <2>2, <2>3, <2>4 DEF Execute
<1>6. ASSUME NEW q \in Players, NEW k \in 1..MaxSent, Executed(q, k)
      PROVE  \/ Chose(p, g) /\ account'[g][Mine(p, g)] = account[g][Mine(p, g)]
             \/ \E tx \in SentBy(p) :
                  tx.call = "choose" /\ tx.game = g /\ tx.choice = account'[g][Mine(p, g)]
  <2> DEFINE tx == sent[q][k]
  <2>1. Execute(q, tx) /\ tx \in SentBy(q)
    BY <1>6 DEF Executed, SentBy
  <2>2. tx \in Txs
    BY <1>6, RemoveTyped DEF Executed, Boarded, SentTyped
  <2> HIDE DEF tx
  <2> QED
    BY <1>3, <1>5, <2>1, <2>2
<1>7. ASSUME UNCHANGED account \/ Settlement
      PROVE  account'[g] = account[g]
  BY <1>7 DEF Settlement, Settle
<1>8. ASSUME NEW x \in Accounts, Profile(x)
      PROVE  account'[g] = account[g]
  BY <1>1, <1>8, AccountKinds DEF Profile, InitializePlayer, Write, DelegatePda
<1>9. ASSUME NEW b \in Boards,
             (\E h \in Games : Open(b, h)) \/ Goes(b) \/ Continue(b) \/ Leave(b) \/ Fail(b) \/ BackToMenu(b)
      PROVE  UNCHANGED account
  BY <1>9 DEF Open, Goes, StartGameCall, DelegateSession, Click, Submit, Resolve, Persist,
              Continue, Leave, Fail, Throws, BackToMenu, Moves, vars
<1>10. ASSUME NEW q \in Players, Refused(q) \/ \E k \in 1..MaxSent : Lost(q, k)
       PROVE  UNCHANGED account
  BY <1>10 DEF Refused, Lost, vars
<1>11. ASSUME UNCHANGED playVars
       PROVE  UNCHANGED account
  BY <1>11 DEF playVars, vars
<1> QED
  BY <1>3, <1>6, <1>7, <1>8, <1>9, <1>10, <1>11 DEF PlayNext

(* So OwnChoice is inductive.                                               *)
LEMMA OwnChoiceStep ==
  ASSUME Boarded, Below, OwnChoice, [PlayNext]_playVars
  PROVE  OwnChoice'
<1> SUFFICES ASSUME NEW b \in Boards, Sole(b)'
             PROVE  /\ \A tx \in SentBy(b[1])' : tx.call = "choose" => MadeOn(b, tx.game, tx.choice)'
                    /\ \A g \in Games : Chose(b[1], g)' => MadeOn(b, g, account[g][Mine(b[1], g)])'
  BY DEF OwnChoice
<1>1. Sole(b)
  BY BoardGoesOn DEF Sole
<1>2. \A g, choice : MadeOn(b, g, choice) =>
        ~ Early(b)' /\ game'[b] = g /\ chosen'[b] = choice
  BY BoardGoesOn DEF MadeOn
<1>3. b[1] \in Players
  BY BoardKinds
<1>4. ASSUME NEW tx \in SentBy(b[1])', tx.call = "choose"
      PROVE  MadeOn(b, tx.game, tx.choice)'
  <2>1. CASE tx \in SentBy(b[1])
    <3>1. MadeOn(b, tx.game, tx.choice)
      BY <1>1, <1>4, <2>1 DEF OwnChoice
    <3> QED
      BY <1>2, <3>1 DEF MadeOn
  <2> QED
    BY <1>1, <1>4, <2>1, NewSent
<1>5. ASSUME NEW g \in Games, Chose(b[1], g)'
      PROVE  MadeOn(b, g, account[g][Mine(b[1], g)])'
  <2> DEFINE choice == account'[g][Mine(b[1], g)]
  <2>1. MadeOn(b, g, choice)
    <3>1. CASE Chose(b[1], g) /\ choice = account[g][Mine(b[1], g)]
      BY <1>1, <3>1 DEF OwnChoice
    <3>2. ASSUME NEW tx \in SentBy(b[1]), tx.call = "choose", tx.game = g, tx.choice = choice
          PROVE  MadeOn(b, g, choice)
      BY <1>1, <3>2 DEF OwnChoice
    <3> QED
      BY <1>3, <1>5, <3>1, <3>2, NewChoice
  <2> HIDE DEF choice
  <2>2. ~ Early(b)' /\ game'[b] = g /\ chosen'[b] = choice
    BY <1>2, <2>1
  <2> QED
    BY <2>2 DEF MadeOn, Mine, choice
<1> QED
  BY <1>4, <1>5

(* Whoever opened one board only is shown the choice that decided the game   *)
(* (makeChoice, useGameSession.ts; "Your Choice:", GameBoard.tsx:144).       *)
THEOREM PlayChoices == PlaySpec => []ChoiceCounts
<1>1. PlayInit => OwnChoice
  <2> SUFFICES ASSUME PlayInit PROVE OwnChoice
    OBVIOUS
  <2>1. \A p \in Players : SentBy(p) = {}
    BY DEF PlayInit, SentBy
  <2>2. \A g \in Games : account[g] = Absent
    BY AccountKinds DEF PlayInit, Init
  <2> QED
    BY <2>1, <2>2, BoardKinds DEF OwnChoice, Chose
<1>2. Playable /\ OwnChoice /\ [PlayNext]_playVars => OwnChoice'
  BY OwnChoiceStep DEF Playable
<1>3. Playable /\ OwnChoice => ChoiceCounts
  <2> SUFFICES ASSUME Playable, OwnChoice, NEW b \in Boards, Shows(b), Sole(b)
               PROVE  chosen[b] = account[game[b]][IF b[1] = game[b][1] THEN "choice1" ELSE "choice2"]
    BY DEF ChoiceCounts, Sole
  <2>1. game[b] \in Games /\ IsDecided(account, game[b])
    BY DEF Shows, Playable, Boarded, Held, IsDecided
  <2>2. "None" \notin {account[game[b]].choice1, account[game[b]].choice2}
    BY <2>1 DEF Playable, Below, Resolved
  <2>3. b[1] \in {game[b][1], game[b][2]}
    BY <2>1, BoardKinds DEF Playable, Boarded, BoardsAgree
  <2>4. Chose(b[1], game[b])
    BY <2>1, <2>2, <2>3 DEF Chose, Mine, IsDecided
  <2> QED
    BY <2>1, <2>4 DEF OwnChoice, MadeOn, Mine
<1> QED
  BY <1>1, <1>2, <1>3, PlayableAlways, PTL DEF PlaySpec
=============================================================================
