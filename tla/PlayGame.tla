------------------------------ MODULE PlayGame ------------------------------
(***************************************************************************)
(* A matched game in the web client: useGameSession.ts, GameBoard.tsx and  *)
(* the menu of page.tsx, against the accounts of module RpsGame.           *)
(*                                                                         *)
(* A match opens a board.  Player1 starts the session and delegates it,    *)
(* both wait for it in the TEE, choose, poll for the result, and persist   *)
(* it.  As in module FindMatch a transaction is sent and the client goes   *)
(* on: it is executed later, in any order, or refused, or lost.  A board   *)
(* that is no longer shown still finishes the call it is in, and the timer *)
(* that leads back to the menu is never cleared.                           *)
(*                                                                         *)
(* The web client delegates no profile; anybody may delegate any account of *)
(* the game program (Elsewhere).                                           *)
(*                                                                         *)
(* startGame passes the account type {__kind, fields: [...]} to delegate_pda *)
(* (useGameSession.ts:118), while the encoder of that variant reads p1, p2 *)
(* and id beside __kind and throws: in the code Encodes is {FALSE}.  With   *)
(* TRUE in it the module says what follows also once that is put right.    *)
(***************************************************************************)
EXTENDS RpsGame

CONSTANTS
  Encodes,    \* whether the account type startGame passes may be encoded
  Elsewhere,  \* the accounts somebody else delegates, as the tests do
  MaxOpens,   \* bound: how often each player opens a board
  MaxClicks,  \* bound: how often Continue is clicked on each board
  MaxSent     \* bound: transactions of one player on their way

(* The boards of p are numbered in the order they were opened. *)
Boards == UNION {{p} \X (1..MaxOpens[p]) : p \in Players}

ASSUME PlayAssumption ==
  /\ Encodes \subseteq BOOLEAN /\ Elsewhere \subseteq Accounts
  /\ MaxOpens \in [Players -> Nat] /\ MaxClicks \in [Boards -> Nat] /\ MaxSent \in Nat
  /\ \A g \in Games : <<g[1], g[2]>> \in Passed

VARIABLES
  page,     \* the board each player is shown, 0 for the menu
  at,       \* where each board is
  game,     \* the session each board is about
  chosen,   \* playerChoice, as each board shows it
  shown,    \* result, as each board shows it
  timers,   \* how many ways back to the menu are due from each board
  clicks,   \* history: how often Continue was clicked on each board
  sent,     \* the transactions of each player neither executed nor lost yet
  faulty    \* history: players who met a failure, a loss, a swap or a time-out

boardVars == <<at, game, chosen, shown>>
dueVars == <<timers, clicks>>
playVars == <<vars, page, boardVars, dueVars, sent, faulty>>

NoGame == <<>>

Stages == {"unopened", "starting", "delegate", "waiting", "ready", "submit",
          "resolving", "complete", "persisting", "error"}

Displayed(b) == page[b[1]] = b[2]

-----------------------------------------------------------------------------
(* Transactions. *)

(* start_game_with_ticket and delegate_pda go to L1, the others to the TEE. *)
Execute(p, tx) ==
  LET g == tx.game IN
  \/ tx.call = "start" /\ StartGameWithTicket(g)
  \/ tx.call = "delegate" /\ DelegatePda(g)
  \/ tx.call = "choose" /\ g \in delegated /\ MakeChoice(g, p, tx.choice)
  \/ tx.call = "persist" /\ PersistResults(g, g[1], g[2])

Pending(p, k) == [sent EXCEPT ![p] = RemoveAt(@, k)]

(* A transaction that overtakes an earlier one counts as a fault. *)
Executed(p, k) ==
  /\ k \in DOMAIN sent[p]
  /\ Execute(p, sent[p][k])
  /\ sent' = Pending(p, k)
  /\ faulty' = IF k = 1 THEN faulty ELSE faulty \cup {p}
  /\ UNCHANGED <<page, boardVars, dueVars>>

(* The program refuses the first transaction; the bound on commits in flight *)
(* is none of the program's.                                                 *)
Refused(p) ==
  /\ sent[p] # <<>>
  /\ Len(inflight) < MaxInflight
  /\ ~ ENABLED Execute(p, sent[p][1])
  /\ sent' = Pending(p, 1)
  /\ UNCHANGED <<vars, page, boardVars, dueVars, faulty>>

Lost(p, k) ==
  /\ k \in DOMAIN sent[p]
  /\ sent' = Pending(p, k)
  /\ faulty' = faulty \cup {p}
  /\ UNCHANGED <<vars, page, boardVars, dueVars>>

Sends(b, call) ==
  /\ Len(sent[b[1]]) < MaxSent
  /\ sent' = [sent EXCEPT ![b[1]] =
       Append(@, [call |-> call, game |-> game[b], choice |-> chosen[b]])]

Moves(b, next) ==
  /\ at' = [at EXCEPT ![b] = next]
  /\ UNCHANGED <<vars, page, game, dueVars, faulty>>

-----------------------------------------------------------------------------
(* The board. *)

(* A match is found, which takes profiles of both players: a new board       *)
(* starts the game as the role demands.                                      *)
Open(b, g) ==
  LET p == b[1] IN
  /\ page[p] = 0
  /\ Absent \notin {l1[g[1]], l1[g[2]]}
  /\ at[b] = "unopened" /\ \A c \in Boards : c[1] = p /\ c[2] < b[2] => at[c] # "unopened"
  /\ p \in {g[1], g[2]}
  /\ page' = [page EXCEPT ![p] = b[2]]
  /\ game' = [game EXCEPT ![b] = g]
  /\ at' = [at EXCEPT ![b] = IF p = g[1] THEN "starting" ELSE "waiting"]
  /\ UNCHANGED <<vars, chosen, shown, dueVars, sent, faulty>>

DelegateSession(b) ==
  /\ at[b] = "delegate"
  /\ \/ TRUE \in Encodes /\ Sends(b, "delegate") /\ Moves(b, "waiting")
     \/ FALSE \in Encodes /\ Moves(b, "error") /\ UNCHANGED sent
  /\ UNCHANGED <<chosen, shown>>

StartGameCall(b) ==
  \/ at[b] = "starting" /\ Sends(b, "start") /\ Moves(b, "delegate") /\ UNCHANGED <<chosen, shown>>
  \/ DelegateSession(b)
  \/ /\ at[b] = "waiting" /\ game[b] \in delegated
     /\ Moves(b, "ready") /\ UNCHANGED <<chosen, shown, sent>>

(* Sensitivity variant: the choices stay clickable once one is made. *)
MayClickAlways(b) == at[b] \in {"ready", "submit", "resolving"}

MayClick(b) == at[b] = "ready"

Click(b, choice) ==
  /\ Displayed(b)
  /\ MayClick(b)
  /\ chosen' = [chosen EXCEPT ![b] = choice]
  /\ Moves(b, "submit") /\ UNCHANGED <<shown, sent>>

Submit(b) ==
  /\ at[b] = "submit"
  /\ Sends(b, "choose") /\ Moves(b, "resolving") /\ UNCHANGED <<chosen, shown>>

(* Sensitivity variant: one choice is taken for both. *)
EitherChose(s) == s.choice1 # "None" \/ s.choice2 # "None"

(* pollForGameResult: both choices are there. *)
BothChose(s) == s.choice1 # "None" /\ s.choice2 # "None"

Resolve(b) ==
  /\ at[b] = "resolving"
  /\ BothChose(account[game[b]])
  /\ shown' = [shown EXCEPT ![b] = account[game[b]].result]
  /\ Moves(b, "complete") /\ UNCHANGED <<chosen, sent>>

(* The button is there as long as the board is, while the menu is due too.   *)
Continue(b) ==
  /\ Displayed(b)
  /\ at[b] = "complete"
  /\ clicks[b] < MaxClicks[b]
  /\ at' = [at EXCEPT ![b] = "persisting"]
  /\ clicks' = [clicks EXCEPT ![b] = @ + 1]
  /\ UNCHANGED <<vars, page, game, chosen, shown, timers, sent, faulty>>

(* Sensitivity variant: the menu is due without the results being sent. *)
PersistNothing(b) ==
  /\ at[b] = "persisting"
  /\ at' = [at EXCEPT ![b] = "complete"]
  /\ timers' = [timers EXCEPT ![b] = @ + 1]
  /\ UNCHANGED <<vars, page, game, chosen, shown, clicks, sent, faulty>>

(* The results are sent, and the menu is due in two seconds. *)
Persist(b) ==
  /\ at[b] = "persisting"
  /\ Sends(b, "persist")
  /\ at' = [at EXCEPT ![b] = "complete"]
  /\ timers' = [timers EXCEPT ![b] = @ + 1]
  /\ UNCHANGED <<vars, page, game, chosen, shown, clicks, faulty>>

(* onGameComplete, whichever board is shown by then. *)
Leave(b) ==
  /\ timers[b] > 0
  /\ timers' = [timers EXCEPT ![b] = @ - 1]
  /\ page' = [page EXCEPT ![b[1]] = 0]
  /\ UNCHANGED <<vars, boardVars, clicks, sent, faulty>>

(* A call throws, before or after its transaction was sent, or a wait ends. *)
Throws(b) ==
  /\ \/ at[b] \in {"starting", "delegate", "waiting", "submit", "resolving", "persisting"}
        /\ UNCHANGED sent
     \/ at[b] = "starting" /\ Sends(b, "start")
     \/ at[b] = "delegate" /\ TRUE \in Encodes /\ Sends(b, "delegate")
     \/ at[b] = "submit" /\ Sends(b, "choose")
     \/ at[b] = "persisting" /\ Sends(b, "persist")
  /\ at' = [at EXCEPT ![b] = "error"]
  /\ faulty' = faulty \cup {b[1]}
  /\ UNCHANGED <<vars, page, game, chosen, shown, clicks>>

(* Sensitivity variant: the menu is due although the results were not sent. *)
FailFinally(b) ==
  /\ Throws(b)
  /\ timers' = [timers EXCEPT ![b] = @ + IF at[b] = "persisting" THEN 1 ELSE 0]

Fail(b) == Throws(b) /\ UNCHANGED timers

BackToMenu(b) ==
  /\ Displayed(b)
  /\ at[b] = "error"
  /\ page' = [page EXCEPT ![b[1]] = 0]
  /\ UNCHANGED <<vars, boardVars, dueVars, sent, faulty>>

-----------------------------------------------------------------------------
PlayInit ==
  /\ Init
  /\ page = [p \in Players |-> 0]
  /\ at = [b \in Boards |-> "unopened"]
  /\ game = [b \in Boards |-> NoGame]
  /\ chosen = [b \in Boards |-> "None"]
  /\ shown = [b \in Boards |-> "None"]
  /\ timers = [b \in Boards |-> 0]
  /\ clicks = [b \in Boards |-> 0]
  /\ sent = [p \in Players |-> <<>>]
  /\ faulty = {}

(* What a board does by itself, or its player without delay. *)
Goes(b) ==
  \/ StartGameCall(b)
  \/ \E choice \in Choice : Click(b, choice)
  \/ Submit(b)
  \/ Resolve(b)
  \/ Persist(b)

(* Profiles are created on the page; somebody may delegate them, or a        *)
(* session.                                                                  *)
Profile(x) ==
  /\ (x \in Players /\ InitializePlayer(x)) \/ (x \in Elsewhere /\ DelegatePda(x))
  /\ UNCHANGED <<page, boardVars, dueVars, sent, faulty>>

Settlement == Settle /\ UNCHANGED <<page, boardVars, dueVars, sent, faulty>>

PlayNext ==
  \/ \E b \in Boards :
       \/ \E g \in Games : Open(b, g)
       \/ Goes(b)
       \/ Continue(b) \/ Leave(b) \/ Fail(b) \/ BackToMenu(b)
  \/ \E x \in Accounts : Profile(x)
  \/ \E p \in Players :
       \/ Refused(p)
       \/ \E k \in 1..MaxSent : Executed(p, k) \/ Lost(p, k)
  \/ Settlement

PlaySpec == PlayInit /\ [][PlayNext]_playVars

(* A board whose Continue was clicked goes on, transactions are executed or  *)
(* refused, L1 applies commits.  Nothing is assumed of the players.          *)
FairPlay ==
  /\ PlaySpec
  /\ \A b \in Boards : WF_playVars(Persist(b))
  /\ \A p \in Players : WF_playVars(Executed(p, 1)) /\ WF_playVars(Refused(p))
  /\ WF_playVars(Settlement)
-----------------------------------------------------------------------------
(* Properties. *)

(* The types, and that a board shows a session, a choice and a result when   *)
(* and only when it has come to them.                                        *)
PlayTypeOK ==
  /\ \A p \in Players : page[p] \in 0..MaxOpens[p]
  /\ at \in [Boards -> Stages]
  /\ game \in [Boards -> Games \cup {NoGame}]
  /\ chosen \in [Boards -> Choice \cup {"None"}]
  /\ shown \in [Boards -> {"None", "Tie", "player1", "player2"}]
  /\ \A b \in Boards : timers[b] \in 0..clicks[b] /\ clicks[b] \in 0..MaxClicks[b]
  /\ faulty \subseteq Players
  /\ \A b \in Boards :
       /\ at[b] = "unopened" <=> game[b] = NoGame
       /\ at[b] \in {"submit", "resolving", "complete", "persisting"} => chosen[b] # "None"
       /\ at[b] \in {"complete", "persisting"} => shown[b] # "None"

(* What the board tells its player (GameBoard.tsx:120-140).                  *)
Winner(g, result) == IF result = "player1" THEN g[1] ELSE g[2]

Opponent(b) == IF game[b][1] = b[1] THEN game[b][2] ELSE game[b][1]

(* Sensitivity variant: player1 is taken for the winner's opponent. *)
VerdictForFirst(b) ==
  IF shown[b] = "Tie" THEN "tie"
  ELSE IF shown[b] = "player1" THEN "lost" ELSE "won"

Verdict(b) ==
  IF shown[b] = "Tie" THEN "tie"
  ELSE IF Winner(game[b], shown[b]) = Opponent(b) THEN "lost" ELSE "won"

Opposite(verdict) ==
  CASE verdict = "won" -> "lost" [] verdict = "lost" -> "won" [] verdict = "tie" -> "tie"

Shows(b) == shown[b] # "None"

(* Two players who are shown the outcome of one session are shown opposite   *)
(* verdicts, and none that the session does not hold, then or later, however *)
(* often each of them failed and opened the board again.                     *)
VerdictsAgree ==
  \A b, c \in Boards :
    b[1] # c[1] /\ game[b] = game[c] /\ Shows(b) =>
      /\ shown[b] = account[game[b]].result
      /\ Shows(c) => Verdict(c) = Opposite(Verdict(b))

(* Whoever opened one board only is shown the choice that decided the game   *)
(* ("Your Choice:", GameBoard.tsx:144), although the choice was sent without *)
(* waiting for it.  After a second board this need not be so: a choice of    *)
(* the first one may be executed late, and the second one refused.           *)
ChoiceCounts ==
  \A b \in Boards :
    /\ Shows(b)
    /\ \A c \in Boards : c[1] = b[1] /\ c # b => at[c] = "unopened"
    => chosen[b] = account[game[b]][IF b[1] = game[b][1] THEN "choice1" ELSE "choice2"]

(* A board is taken away in the middle of a game only from a player who      *)
(* clicked a Continue twice: the timer that leads back to the menu is never  *)
(* cleared, and the button stays live while it runs (handlePersist,          *)
(* GameBoard.tsx:45-52 and 149-154; page.tsx:31-36).                         *)
BoardStays ==
  [][\A b \in Boards :
       Displayed(b) /\ ~ Displayed(b)' =>
         \/ at[b] \in {"complete", "persisting", "error"}
         \/ \E c \in Boards : c[1] = b[1] /\ clicks[c] > 1]_playVars

(* A board shows an error only to a player whom the network or the wallet    *)
(* let down: a call that failed, a loss or a time-out (startGame, "Delegate  *)
(* game session to TEE", useGameSession.ts:111).                             *)
ErrorsHaveCause == \A b \in Boards : at[b] = "error" => b[1] \in faulty

(* Whoever clicks Continue finds the result on L1, unless a call failed      *)
(* (persistResults, "Results persisted", useGameSession.ts:220).             *)
ContinuePersists ==
  \A b \in Boards :
    at[b] = "persisting" ~>
      ((\E g \in Games : game[b] = g /\ IsDecided(l1, g)) \/ b[1] \in faulty)
=============================================================================
