------------------------------ MODULE RpsGame ------------------------------
(***************************************************************************)
(* The example game program, src/programs/rps-game/src/lib.rs: player      *)
(* profiles with an ELO, and sessions of rock-paper-scissors that change   *)
(* them.  As in module Duel an account lives on L1 until it is delegated   *)
(* to the TEE, an instruction is atomic and writes accounts of one layer   *)
(* only, and a failing call is a stuttering step.                          *)
(*                                                                         *)
(* A session is addressed by its two players and a game id, so it is       *)
(* identified with the tuple <<player1, player2, id>>.                     *)
(***************************************************************************)
EXTENDS Integers, SequencesExt

CONSTANTS
  Players,
  Games,        \* the sessions that may be started: <<player1, player2, id>>
  Tickets,      \* <<player, opponent>>: the matches L1 shows on a ticket
  Closing,      \* players who may close their profile
  StartElo,     \* ELO of a new profile (1000)
  EloStep,      \* points a game moves (10)
  MaxInflight,  \* bound: commits on their way to L1
  Passed        \* bound: the pairs of accounts passed as profiles to be persisted

ASSUME GamesAssumption ==
  /\ Games \subseteq Players \X Players \X Nat
  /\ Players \cap Games = {}
  /\ Tickets \subseteq Players \X Players /\ Closing \subseteq Players
ASSUME EloAssumption == StartElo \in Nat /\ EloStep \in Nat
ASSUME InflightAssumption ==
  /\ MaxInflight \in Nat
  /\ Passed \subseteq (Players \cup Games) \X (Players \cup Games)

VARIABLES
  account,    \* the authoritative copy of each profile and session
  delegated,  \* the accounts that live in the TEE
  l1,         \* the copy of each account that L1 shows
  inflight    \* commits not yet applied on L1

vars == <<account, delegated, l1, inflight>>

Accounts == Players \cup Games
Choice == {"Rock", "Paper", "Scissors"}

Absent == [exists |-> FALSE]

Profiles == [exists : {TRUE}, elo : Nat, played : Nat, won : Nat]

Sessions == [exists : {TRUE}, choice1 : Choice \cup {"None"},
             choice2 : Choice \cup {"None"},
             result : {"None", "Tie", "player1", "player2"}]

NewProfile == [exists |-> TRUE, elo |-> StartElo, played |-> 0, won |-> 0]

NewSession == [exists |-> TRUE, choice1 |-> "None", choice2 |-> "None", result |-> "None"]

Layer(x) == IF x \in delegated THEN "TEE" ELSE "L1"

(* The accounts become `new': L1 sees at once what is not delegated. *)
Write(new) ==
  /\ account' = new
  /\ l1' = [x \in Accounts |-> IF x \in delegated THEN l1[x] ELSE new[x]]

-----------------------------------------------------------------------------
(* Profiles, and the start of a game. *)

InitializePlayer(p) ==
  /\ account[p] = Absent
  /\ Write([account EXCEPT ![p] = NewProfile])
  /\ UNCHANGED <<delegated, inflight>>

(* Only an account the program owns can be closed: never a delegated one. *)
ClosePlayer(p) ==
  /\ p \in Closing
  /\ account[p] # Absent
  /\ p \notin delegated
  /\ Write([account EXCEPT ![p] = Absent])
  /\ UNCHANGED <<delegated, inflight>>

StartGame(g) ==
  /\ account[g] = Absent
  /\ Write([account EXCEPT ![g] = NewSession])
  /\ UNCHANGED <<delegated, inflight>>

(* The ticket shown must be Matched with this opponent; nothing says whose   *)
(* it is.                                                                    *)
StartGameWithTicket(g) == (\E p \in Players : <<p, g[2]>> \in Tickets) /\ StartGame(g)

DelegatePda(x) ==
  /\ account[x] # Absent
  /\ x \notin delegated
  /\ delegated' = delegated \cup {x}
  /\ UNCHANGED <<account, l1, inflight>>

-----------------------------------------------------------------------------
(* make_choice. *)

Beats == {<<"Rock", "Scissors">>, <<"Paper", "Rock">>, <<"Scissors", "Paper">>}

Outcome(choice1, choice2) ==
  IF <<choice1, choice2>> \in Beats THEN "player1"
  ELSE IF <<choice2, choice1>> \in Beats THEN "player2" ELSE "Tie"

(* Sensitivity variant: a subtraction that does not stop at zero. *)
LoseUnsaturated(elo) == elo - EloStep

(* saturating_sub *)
Lose(elo) == IF elo >= EloStep THEN elo - EloStep ELSE 0

(* saturating_add, the top of u64 being out of reach *)
Win(elo) == elo + EloStep

(* Sensitivity variant: the winner is not told from the sides. *)
AfterGameWon(profile, side, result) ==
  [exists |-> TRUE,
   elo |-> IF result = "Tie" THEN profile.elo ELSE Win(profile.elo),
   played |-> profile.played + 1,
   won |-> IF result = side THEN profile.won + 1 ELSE profile.won]

(* A profile after a game its owner played as `side'. *)
AfterGame(profile, side, result) ==
  [exists |-> TRUE,
   elo |-> IF result = "Tie" THEN profile.elo
           ELSE IF result = side THEN Win(profile.elo) ELSE Lose(profile.elo),
   played |-> profile.played + 1,
   won |-> IF result = side THEN profile.won + 1 ELSE profile.won]

(* Sensitivity variant: the AlreadyChose check left out. *)
MayChooseAgain(session, side) == TRUE

MayChoose(session, side) == session[side] = "None"

(* Sensitivity variant: every choice is taken for player1's. *)
ChooseFirst(session, g, p, choice) == [session EXCEPT !.choice1 = choice]

(* The choice of the caller's side; player1's if the caller is both. *)
Choose(session, g, p, choice) ==
  IF g[1] = p THEN [session EXCEPT !.choice1 = choice]
              ELSE [session EXCEPT !.choice2 = choice]

(* The accounts once g's choices are those of `session': the second choice   *)
(* decides the game and updates both profiles at once.                       *)
AfterChoice(g, session) ==
  LET result == Outcome(session.choice1, session.choice2)
  IN IF "None" \in {session.choice1, session.choice2}
     THEN [account EXCEPT ![g] = session]
     ELSE [account EXCEPT ![g] = [session EXCEPT !.result = result],
                          ![g[1]] = AfterGame(account[g[1]], "player1", result),
                          ![g[2]] = AfterGame(account[g[2]], "player2", result)]

MakeChoice(g, p, choice) ==
  /\ p \in {g[1], g[2]}
  /\ \A x \in {g, g[1], g[2]} : account[x] # Absent /\ Layer(x) = Layer(g)
  /\ MayChoose(account[g], IF g[1] = p THEN "choice1" ELSE "choice2")
  /\ Write(AfterChoice(g, Choose(account[g], g, p, choice)))
  /\ UNCHANGED <<delegated, inflight>>

-----------------------------------------------------------------------------
(* persist_results. *)

(* Anyone may call it, with any two accounts in the place of the profiles    *)
(* ("CHECK: Manual verify", and nothing verifies them).                      *)
PersistResults(g, x, y) ==
  /\ {g, x, y} \subseteq delegated
  /\ Len(inflight) < MaxInflight
  /\ inflight' = Append(inflight, [z \in {g, x, y} |-> account[z]])
  /\ UNCHANGED <<account, delegated, l1>>

(* Sensitivity variant: the newest commit applied first. *)
NextCommitNewest == Len(inflight)

(* L1 applies the commits in the order they were made. *)
NextCommit == 1

Settle ==
  /\ inflight # <<>>
  /\ l1' = [x \in Accounts |->
              IF x \in DOMAIN inflight[NextCommit] THEN inflight[NextCommit][x] ELSE l1[x]]
  /\ inflight' = RemoveAt(inflight, NextCommit)
  /\ UNCHANGED <<account, delegated>>

-----------------------------------------------------------------------------
Init ==
  /\ account = [x \in Accounts |-> Absent]
  /\ delegated = {}
  /\ l1 = account
  /\ inflight = <<>>

Next ==
  \/ \E p \in Players : InitializePlayer(p) \/ ClosePlayer(p)
  \/ \E x \in Accounts : DelegatePda(x)
  \/ \E g \in Games :
       \/ StartGame(g)
       \/ StartGameWithTicket(g)
       \/ \E pair \in Passed : PersistResults(g, pair[1], pair[2])
       \/ \E p \in Players, choice \in Choice : MakeChoice(g, p, choice)
  \/ Settle

Spec == Init /\ [][Next]_vars

(* Players make the choices they can make. *)
FairSpec ==
  /\ Spec
  /\ \A g \in Games, p \in Players :
       WF_vars(\E choice \in Choice : MakeChoice(g, p, choice))
-----------------------------------------------------------------------------
(* Properties. *)

AccountsTyped(f) ==
  /\ f \in [Accounts -> {Absent} \cup Profiles \cup Sessions]
  /\ \A p \in Players : f[p] \in {Absent} \cup Profiles
  /\ \A g \in Games : f[g] \in {Absent} \cup Sessions

TypeOK ==
  /\ AccountsTyped(account)
  /\ AccountsTyped(l1)
  /\ delegated \subseteq Accounts
  /\ \A k \in DOMAIN inflight :
       /\ DOMAIN inflight[k] \subseteq Accounts
       /\ \A x \in DOMAIN inflight[k] :
            inflight[k][x] \in IF x \in Players THEN Profiles ELSE Sessions

(* The games of p that are decided according to the copies f, and those of   *)
(* them that p won.                                                          *)
IsDecided(f, g) == f[g] # Absent /\ f[g].result # "None"

Decided(f, p) == {g \in Games : p \in {g[1], g[2]} /\ IsDecided(f, g)}

WonBy(f, p) ==
  {g \in Decided(f, p) : f[g].result = IF p = g[1] THEN "player1" ELSE "player2"}

LostBy(f, p) == {g \in Decided(f, p) : f[g].result # "Tie"} \ WonBy(f, p)

(* A profile that was never closed counts every decided game of its player   *)
(* exactly once, and its ELO is what those games can have made of it: never   *)
(* more than the games won allow, never less than those lost take away       *)
(* (make_choice, lines 78-102; at zero the loser loses nothing).             *)
ProfilesAgree ==
  \A p \in Players \ Closing : account[p] # Absent =>
    LET won == Cardinality(WonBy(account, p))
        lost == Cardinality(LostBy(account, p))
    IN /\ account[p].played = Cardinality(Decided(account, p))
       /\ account[p].won = won
       /\ account[p].elo <= StartElo + EloStep * won
       /\ account[p].elo >= StartElo + EloStep * (won - lost)

(* What session s holds, session t still holds: what was chosen, and how the *)
(* game ended.                                                               *)
Keeps(s, t) ==
  s # Absent =>
    /\ t # Absent
    /\ \A part \in {"choice1", "choice2", "result"} :
         s[part] # "None" => t[part] = s[part]

(* A choice once made and a result once reached never change, in the TEE or  *)
(* on L1, whatever is started, delegated, committed or played next.          *)
GamesFinal ==
  [][\A g \in Games : Keeps(account[g], account'[g]) /\ Keeps(l1[g], l1'[g])]_vars

(* Profile s may have become t by games of its player. *)
Grows(s, t) ==
  s # Absent => t # Absent /\ t.played >= s.played /\ t.won >= s.won

(* The games and wins L1 shows of a profile that is never closed only grow,  *)
(* whoever persists which sessions with which profiles, and however many of  *)
(* these commits are on their way at once (persist_results, lines 108-121    *)
(* and 314-327).                                                             *)
L1NeverBack ==
  [][\A p \in Players \ Closing : Grows(l1[p], l1'[p])]_vars

(* A game of two different players is decided once its session and their     *)
(* profiles are in the TEE (lines 49-105; the session of a player against    *)
(* itself is not: only player1's branch is ever taken).                      *)
GamesEnd ==
  \A g \in Games : g[1] # g[2] =>
    ({g, g[1], g[2]} \subseteq delegated ~> IsDecided(account, g))
=============================================================================
