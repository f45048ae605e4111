--------------------------- MODULE RpsGameProofs ---------------------------
(***************************************************************************)
(* Theorems about module RpsGame, for any players, sessions and bounds.    *)
(***************************************************************************)
EXTENDS RpsGame, SequenceTheorems, FiniteSetTheorems, TLAPS

(* Players and sessions are different accounts, and a session has two       *)
(* players.                                                                 *)
LEMMA AccountKinds ==
  /\ \A g \in Games : g \in Accounts /\ g \notin Players /\ g[1] \in Players /\ g[2] \in Players
  /\ \A p \in Players : p \in Accounts /\ p \notin Games
BY GamesAssumption DEF Accounts

(* A new or a used profile is a profile. *)
LEMMA ProfileTyped ==
  /\ NewProfile \in Profiles
  /\ \A profile \in Profiles : \A side, result :
       AfterGame(profile, side, result) \in Profiles
<1>1. NewProfile \in Profiles
  BY EloAssumption DEF NewProfile, Profiles
<1>2. \A elo \in Nat : Win(elo) \in Nat /\ Lose(elo) \in Nat
  BY EloAssumption DEF Win, Lose
<1>3. ASSUME NEW profile \in Profiles, NEW side, NEW result
      PROVE  AfterGame(profile, side, result) \in Profiles
  <2> DEFINE e == IF result = "Tie" THEN profile.elo
                  ELSE IF result = side THEN Win(profile.elo) ELSE Lose(profile.elo)
             w == IF result = side THEN profile.won + 1 ELSE profile.won
  <2>1. /\ profile = [exists |-> TRUE, elo |-> profile.elo,
                      played |-> profile.played, won |-> profile.won]
        /\ profile.elo \in Nat /\ profile.played \in Nat /\ profile.won \in Nat
    BY DEF Profiles
  <2>2. e \in Nat /\ w \in Nat /\ profile.played + 1 \in Nat
    BY <2>1, <1>2
  <2>3. AfterGame(profile, side, result) =
          [exists |-> TRUE, elo |-> e, played |-> profile.played + 1, won |-> w]
    BY <2>1 DEF AfterGame
  <2> HIDE DEF e, w
  <2> QED
    BY <2>2, <2>3 DEF Profiles
<1> QED
  BY <1>1, <1>3

(* Absent accounts are told from the others. *)
LEMMA AbsentIsNone == Absent \notin Profiles /\ Absent \notin Sessions
<1>1. Absent.exists = FALSE
  BY DEF Absent
<1>2. \A x \in Profiles \cup Sessions : x.exists = TRUE
  BY DEF Profiles, Sessions
<1> QED
  BY <1>1, <1>2

(* A profile only gains by a game. *)
LEMMA GrowsSame == \A s \in {Absent} \cup Profiles : Grows(s, s)
<1>1. \A s \in Profiles : s.played \in Nat /\ s.won \in Nat
  BY DEF Profiles
<1> QED
  BY <1>1 DEF Grows

LEMMA GameGrows ==
  ASSUME NEW profile \in Profiles, NEW side, NEW result
  PROVE  Grows(profile, AfterGame(profile, side, result))
<1>1. AfterGame(profile, side, result) \in Profiles
  BY ProfileTyped
<1>2. AfterGame(profile, side, result) # Absent
  BY <1>1, AbsentIsNone
<1>3. profile.played \in Nat /\ profile.won \in Nat
  BY DEF Profiles
<1> QED
  BY <1>2, <1>3 DEF Grows, AfterGame

(* A new session, and one in which somebody has chosen, are sessions. *)
LEMMA ChooseTyped ==
  /\ NewSession \in Sessions
  /\ \A session \in Sessions, choice \in Choice : \A g, p :
       Choose(session, g, p, choice) \in Sessions
BY DEF NewSession, Sessions, Choose, Choice

(* So is a decided one. *)
LEMMA OutcomeTyped ==
  \A session \in Sessions : \A choice1, choice2 :
    [session EXCEPT !.result = Outcome(choice1, choice2)] \in Sessions
<1>1. \A choice1, choice2 : Outcome(choice1, choice2) \in {"Tie", "player1", "player2"}
  BY DEF Outcome
<1> QED
  BY <1>1 DEF Sessions

(* Writing typed accounts leaves both copies typed. *)
LEMMA WriteTyped ==
  ASSUME AccountsTyped(l1), NEW new, AccountsTyped(new), Write(new)
  PROVE  AccountsTyped(account') /\ AccountsTyped(l1')
<1>1. \A x \in Accounts : l1'[x] = IF x \in delegated THEN l1[x] ELSE new[x]
  BY DEF Write
<1>2. DOMAIN l1' = Accounts /\ l1' = [x \in Accounts |-> l1'[x]]
  BY DEF Write
<1> QED
  BY <1>1, <1>2, AccountKinds DEF Write, AccountsTyped

(* One account may be replaced by one of its kind. *)
LEMMA ReplaceTyped ==
  ASSUME NEW f, AccountsTyped(f), NEW x \in Accounts, NEW v \in {Absent} \cup Profiles \cup Sessions,
         x \in Players => v \in {Absent} \cup Profiles,
         x \in Games => v \in {Absent} \cup Sessions
  PROVE  AccountsTyped([f EXCEPT ![x] = v])
BY DEF AccountsTyped, Accounts

(* A result stands only beside two choices. *)
Resolved(f) ==
  \A g \in Games : IsDecided(f, g) => "None" \notin {f[g].choice1, f[g].choice2}

(* No account in the TEE is absent. *)
Present(f) == \A x \in delegated : f[x] # Absent

(* Sessions, and the profiles that are never closed, only gain.             *)
Lasting == Games \cup (Players \ Closing)

Follows(x, s, t) == IF x \in Games THEN Keeps(s, t) ELSE Grows(s, t)

(* What account x can be. *)
Kind(x) == {Absent} \cup IF x \in Players THEN Profiles ELSE Sessions

(* The accounts f may become those of `new'. *)
Advance(f, new) ==
  /\ AccountsTyped(new)
  /\ Resolved(new)
  /\ Present(new)
  /\ \A x \in Lasting : Follows(x, f[x], new[x])

-----------------------------------------------------------------------------
(* make_choice *)

(* The accounts after a choice, one by one. *)
LEMMA AfterChoiceAt ==
  ASSUME AccountsTyped(account), delegated \subseteq Accounts,
         NEW g \in Games, NEW session \in Sessions,
         account[g[1]] \in Profiles, account[g[2]] \in Profiles
  PROVE  /\ AccountsTyped(AfterChoice(g, session))
         /\ Present(account) => Present(AfterChoice(g, session))
         /\ \A h \in Games : AfterChoice(g, session)[h] =
              IF h # g THEN account[h]
              ELSE IF "None" \in {session.choice1, session.choice2} THEN session
              ELSE [session EXCEPT !.result = Outcome(session.choice1, session.choice2)]
         /\ \A p \in Players : Grows(account[p], AfterChoice(g, session)[p])
<1> DEFINE result == Outcome(session.choice1, session.choice2)
           over == [session EXCEPT !.result = result]
           first == AfterGame(account[g[1]], "player1", result)
           second == AfterGame(account[g[2]], "player2", result)
<1>1. over \in Sessions
  BY OutcomeTyped
<1>2. /\ first \in Profiles /\ second \in Profiles
      /\ Grows(account[g[1]], first) /\ Grows(account[g[2]], second)
  BY ProfileTyped, GameGrows
<1>3. AfterChoice(g, session) =
        IF "None" \in {session.choice1, session.choice2}
        THEN [account EXCEPT ![g] = session]
        ELSE [account EXCEPT ![g] = over, ![g[1]] = first, ![g[2]] = second]
  BY DEF AfterChoice
<1> HIDE DEF over, first, second
<1>4. AccountsTyped([account EXCEPT ![g] = session])
  BY AccountKinds, ReplaceTyped
<1>5. AccountsTyped([account EXCEPT ![g] = over])
  BY <1>1, AccountKinds, ReplaceTyped
<1>6. AccountsTyped([account EXCEPT ![g] = over, ![g[1]] = first])
  BY <1>2, <1>5, AccountKinds, ReplaceTyped
<1>7. AccountsTyped([account EXCEPT ![g] = over, ![g[1]] = first, ![g[2]] = second])
  BY <1>2, <1>6, AccountKinds, ReplaceTyped
<1>8. \A h \in Games :
        /\ [account EXCEPT ![g] = session][h] = IF h # g THEN account[h] ELSE session
        /\ [account EXCEPT ![g] = over, ![g[1]] = first, ![g[2]] = second][h] =
              IF h # g THEN account[h] ELSE over
  BY AccountKinds DEF AccountsTyped
<1>9. ASSUME NEW x \in Accounts, account[x] # Absent
      PROVE  /\ [account EXCEPT ![g] = session][x] # Absent
             /\ [account EXCEPT ![g] = over, ![g[1]] = first, ![g[2]] = second][x] # Absent
  BY <1>1, <1>2, <1>9, AbsentIsNone DEF AccountsTyped
<1>10. ASSUME Present(account) PROVE Present(AfterChoice(g, session))
  BY <1>3, <1>9, <1>10 DEF Present
<1>11. ASSUME NEW p \in Players
       PROVE  Grows(account[p], AfterChoice(g, session)[p])
  <2>1. Grows(account[p], account[p])
    BY GrowsSame DEF AccountsTyped
  <2>2. [account EXCEPT ![g] = session][p] = account[p]
    BY AccountKinds DEF AccountsTyped
  <2>3. [account EXCEPT ![g] = over, ![g[1]] = first, ![g[2]] = second][p] =
          IF p = g[2] THEN second ELSE IF p = g[1] THEN first ELSE account[p]
    BY AccountKinds DEF AccountsTyped
  <2> QED
    BY <1>2, <1>3, <2>1, <2>2, <2>3
<1> QED
  BY <1>3, <1>4, <1>7, <1>8, <1>10, <1>11 DEF over

-----------------------------------------------------------------------------
(* The type invariant. *)

(* What a commit carries: copies of some accounts. *)
Commits ==
  {c \in UNION {[S -> Profiles \cup Sessions] : S \in SUBSET Accounts} :
     \A x \in DOMAIN c : c[x] \in IF x \in Players THEN Profiles ELSE Sessions}

(* TypeOK with the commits as a sequence. *)
Typed == TypeOK /\ inflight \in Seq(Commits)

LEMMA CommitCopies ==
  ASSUME NEW c \in Commits
  PROVE  /\ DOMAIN c \subseteq Accounts
         /\ \A x \in DOMAIN c : c[x] \in IF x \in Players THEN Profiles ELSE Sessions
BY DEF Commits

(* TypeOK follows from its parts, the commits being a sequence of commits. *)
LEMMA TypedParts ==
  ASSUME AccountsTyped(account), AccountsTyped(l1), delegated \subseteq Accounts,
         inflight \in Seq(Commits)
  PROVE  Typed
<1>1. \A k \in DOMAIN inflight : inflight[k] \in Commits
  BY ElementOfSeq, LenProperties
<1> QED
  BY <1>1, CommitCopies DEF Typed, TypeOK

(* The same, of the next state. *)
LEMMA TypedPartsNext ==
  ASSUME AccountsTyped(account'), AccountsTyped(l1'), delegated' \subseteq Accounts,
         inflight' \in Seq(Commits)
  PROVE  Typed'
<1>1. \A k \in DOMAIN inflight' : inflight'[k] \in Commits
  BY ElementOfSeq, LenProperties
<1> QED
  BY <1>1, CommitCopies DEF Typed, TypeOK, AccountsTyped

(* Removing the first element keeps the others, in order. *)
LEMMA RestOfSeq ==
  ASSUME NEW S, NEW s \in Seq(S), s # <<>>
  PROVE  /\ 1 \in DOMAIN s /\ DOMAIN s = 1..Len(s) /\ s[1] \in S
         /\ RemoveAt(s, 1) \in Seq(S)
         /\ DOMAIN RemoveAt(s, 1) = 1..Len(s) - 1
         /\ \A j \in 1..Len(s) - 1 : RemoveAt(s, 1)[j] = s[j + 1]
<1> DEFINE rest == SubSeq(s, 2, Len(s))
<1>1. Len(s) \in Nat /\ Len(s) >= 1 /\ DOMAIN s = 1..Len(s)
  BY EmptySeq, LenProperties
<1>2. 1 \in DOMAIN s /\ s[1] \in S
  BY <1>1, ElementOfSeq
<1>3. /\ rest \in Seq(S) /\ Len(rest) = Len(s) - 1
      /\ \A j \in 1..Len(s) - 1 : rest[j] = s[j + 1]
  BY <1>1, SubSeqProperties
<1>4. SubSeq(s, 1, 0) = <<>>
  BY <1>1, SubSeqProperties, EmptySeq
<1> HIDE DEF rest
<1>5. <<>> \o rest = rest
  BY <1>3, ConcatEmptySeq
<1>6. RemoveAt(s, 1) = rest
  BY <1>4, <1>5 DEF RemoveAt, rest
<1> QED
  BY <1>1, <1>2, <1>3, <1>6, LenProperties

-----------------------------------------------------------------------------
(* Writes.  Every action but delegate_pda, persist_results and the           *)
(* settlement on L1 replaces the accounts by others that keep what the       *)
(* sessions hold.                                                            *)

LEMMA FollowsProperties ==
  ASSUME NEW x \in Lasting
  PROVE  /\ \A s \in Kind(x) : Follows(x, s, s) /\ Follows(x, Absent, s)
         /\ \A r, s, t \in Kind(x) :
              Follows(x, r, s) /\ Follows(x, s, t) => Follows(x, r, t)
<1>1. CASE x \in Games
  BY <1>1 DEF Follows, Keeps
<1>2. CASE x \notin Games
  <2>1. x \in Players
    BY <1>2 DEF Lasting
  <2>2. \A s \in Kind(x) : s # Absent => s.played \in Nat /\ s.won \in Nat
    BY <2>1 DEF Kind, Profiles
  <2>3. \A s \in Kind(x) : Follows(x, s, s) /\ Follows(x, Absent, s)
    BY <1>2, <2>2 DEF Follows, Grows
  <2>4. \A r, s, t \in Kind(x) :
          Follows(x, r, s) /\ Follows(x, s, t) => Follows(x, r, t)
    BY <1>2, <2>2 DEF Follows, Grows
  <2> QED
    BY <2>3, <2>4
<1> QED
  BY <1>1, <1>2

(* Every copy of an account is of its kind. *)
LEMMA Lasts ==
  ASSUME NEW f, AccountsTyped(f), NEW x \in Lasting
  PROVE  x \in Accounts /\ f[x] \in Kind(x)
BY AccountKinds DEF AccountsTyped, Lasting, Kind, Accounts

(* Profiles are opened and closed beside the sessions. *)
LEMMA ProfileAdvance ==
  ASSUME AccountsTyped(account), Resolved(account), Present(account),
         delegated \subseteq Accounts,
         NEW p \in Players, NEW v \in {Absent} \cup Profiles,
         p \notin delegated \/ v # Absent,
         p \in Closing \/ account[p] = Absent
  PROVE  Advance(account, [account EXCEPT ![p] = v])
<1>1. AccountsTyped([account EXCEPT ![p] = v])
  BY AccountKinds, ReplaceTyped
<1>2. \A g \in Games : [account EXCEPT ![p] = v][g] = account[g]
  BY AccountKinds DEF AccountsTyped
<1>3. Present([account EXCEPT ![p] = v])
  BY AccountKinds DEF Present, AccountsTyped
<1>4. Resolved([account EXCEPT ![p] = v])
  BY <1>2 DEF Resolved, IsDecided
<1>5. ASSUME NEW x \in Lasting
      PROVE  Follows(x, account[x], [account EXCEPT ![p] = v][x])
  <2>1. account[x] \in Kind(x) /\ [account EXCEPT ![p] = v][x] \in Kind(x)
    BY <1>1, Lasts
  <2>2. CASE x = p
    BY <2>1, <2>2, AccountKinds, FollowsProperties DEF Lasting
  <2>3. CASE x # p
    BY <2>1, <2>3, Lasts, FollowsProperties DEF AccountsTyped
  <2> QED
    BY <2>2, <2>3
<1> QED
  BY <1>1, <1>3, <1>4, <1>5 DEF Advance

(* A session is started where there was none. *)
LEMMA StartAdvance ==
  ASSUME AccountsTyped(account), Resolved(account), Present(account),
         delegated \subseteq Accounts,
         NEW g \in Games, account[g] = Absent
  PROVE  Advance(account, [account EXCEPT ![g] = NewSession])
<1>1. AccountsTyped([account EXCEPT ![g] = NewSession])
  BY AccountKinds, ChooseTyped, ReplaceTyped
<1>2. \A h \in Games :
        [account EXCEPT ![g] = NewSession][h] = IF h = g THEN NewSession ELSE account[h]
  BY AccountKinds DEF AccountsTyped
<1>3. NewSession.result = "None"
  BY DEF NewSession
<1>4. Present([account EXCEPT ![g] = NewSession])
  BY AbsentIsNone, ChooseTyped DEF Present, AccountsTyped
<1>5. Resolved([account EXCEPT ![g] = NewSession])
  BY <1>2, <1>3 DEF Resolved, IsDecided
<1>6. ASSUME NEW x \in Lasting
      PROVE  Follows(x, account[x], [account EXCEPT ![g] = NewSession][x])
  <2>1. account[x] \in Kind(x) /\ [account EXCEPT ![g] = NewSession][x] \in Kind(x)
    BY <1>1, Lasts
  <2>2. CASE x = g
    BY <2>1, <2>2, FollowsProperties
  <2>3. CASE x # g
    BY <2>1, <2>3, Lasts, FollowsProperties DEF AccountsTyped
  <2> QED
    BY <2>2, <2>3
<1> QED
  BY <1>1, <1>4, <1>5, <1>6 DEF Advance

(* A choice is made where there was none, and decides an undecided game. *)
LEMMA ChoiceAdvance ==
  ASSUME AccountsTyped(account), Resolved(account), Present(account),
         delegated \subseteq Accounts,
         NEW g \in Games, NEW p \in Players, NEW choice \in Choice,
         \A x \in {g, g[1], g[2]} : account[x] # Absent,
         MayChoose(account[g], IF g[1] = p THEN "choice1" ELSE "choice2")
  PROVE  Advance(account, AfterChoice(g, Choose(account[g], g, p, choice)))
<1> DEFINE old == account[g]
           session == Choose(old, g, p, choice)
           over == [session EXCEPT !.result = Outcome(session.choice1, session.choice2)]
           new == AfterChoice(g, session)
<1>1. old \in Sessions /\ account[g[1]] \in Profiles /\ account[g[2]] \in Profiles
  BY AccountKinds DEF AccountsTyped
<1>2. session \in Sessions
  BY <1>1, ChooseTyped
<1>3. old # Absent /\ session # Absent
  BY <1>1, <1>2, AbsentIsNone
<1>4. old.result = "None"
  BY <1>3 DEF Resolved, IsDecided, MayChoose
<1>5. /\ session.result = old.result
      /\ old.choice1 # "None" => session.choice1 = old.choice1
      /\ old.choice2 # "None" => session.choice2 = old.choice2
  BY <1>1 DEF Choose, MayChoose, Sessions
<1>6. /\ over \in Sessions
      /\ over.choice1 = session.choice1 /\ over.choice2 = session.choice2
  <2>1. over \in Sessions
    BY <1>2, OutcomeTyped
  <2>2. over.choice1 = session.choice1 /\ over.choice2 = session.choice2
    BY <1>2 DEF Sessions
  <2> QED
    BY <2>1, <2>2
<1>7. /\ AccountsTyped(new)
      /\ \A h \in Games : new[h] =
           IF h # g THEN account[h]
           ELSE IF "None" \in {session.choice1, session.choice2} THEN session ELSE over
      /\ Present(new)
      /\ \A q \in Players : Grows(account[q], new[q])
  BY <1>1, <1>2, AfterChoiceAt
<1> HIDE DEF over, session, new
<1>8. over # Absent
  BY <1>6, AbsentIsNone
<1>9. Keeps(old, session) /\ Keeps(old, over)
  BY <1>3, <1>4, <1>5, <1>6, <1>8 DEF Keeps
<1> HIDE DEF old
<1>10. ASSUME NEW x \in Lasting
       PROVE  Follows(x, account[x], new[x])
  <2>1. CASE x \in Games
    BY <1>7, <1>9, <2>1 DEF old, Follows, Keeps
  <2>2. CASE x \notin Games
    BY <1>7, <2>2 DEF Lasting, Follows
  <2> QED
    BY <2>1, <2>2
<1>11. Resolved(new)
  BY <1>4, <1>5, <1>6, <1>7 DEF Resolved, IsDecided
<1>12. Advance(account, new)
  BY <1>7, <1>10, <1>11 DEF Advance
<1> QED
  BY <1>12 DEF new, session, old

(* A step of the system: the program advances, an account moves to the TEE,  *)
(* a commit leaves it, or L1 applies one.                                    *)
LEMMA Steps ==
  ASSUME AccountsTyped(account), Resolved(account), Present(account),
         delegated \subseteq Accounts, Next
  PROVE  \/ \E new : /\ Advance(account, new) /\ Write(new)
                     /\ UNCHANGED <<delegated, inflight>>
         \/ \E x \in Accounts : DelegatePda(x)
         \/ \E g \in Games, x, y \in Accounts : PersistResults(g, x, y)
         \/ Settle
<1>1. ASSUME NEW p \in Players, InitializePlayer(p)
      PROVE  \E new : Advance(account, new) /\ Write(new) /\ UNCHANGED <<delegated, inflight>>
  <2>1. Advance(account, [account EXCEPT ![p] = NewProfile])
    BY <1>1, ProfileTyped, AbsentIsNone, ProfileAdvance DEF InitializePlayer
  <2> QED
    BY <1>1, <2>1 DEF InitializePlayer
<1>2. ASSUME NEW p \in Players, ClosePlayer(p)
      PROVE  \E new : Advance(account, new) /\ Write(new) /\ UNCHANGED <<delegated, inflight>>
  <2>1. Advance(account, [account EXCEPT ![p] = Absent])
    BY <1>2, ProfileAdvance DEF ClosePlayer
  <2> QED
    BY <1>2, <2>1 DEF ClosePlayer
<1>3. ASSUME NEW g \in Games, StartGame(g)
      PROVE  \E new : Advance(account, new) /\ Write(new) /\ UNCHANGED <<delegated, inflight>>
  <2>1. Advance(account, [account EXCEPT ![g] = NewSession])
    BY <1>3, StartAdvance DEF StartGame
  <2> QED
    BY <1>3, <2>1 DEF StartGame
<1>4. ASSUME NEW g \in Games, NEW p \in Players, NEW choice \in Choice, MakeChoice(g, p, choice)
      PROVE  \E new : Advance(account, new) /\ Write(new) /\ UNCHANGED <<delegated, inflight>>
  <2>1. Advance(account, AfterChoice(g, Choose(account[g], g, p, choice)))
    BY <1>4, ChoiceAdvance DEF MakeChoice
  <2> QED
    BY <1>4, <2>1 DEF MakeChoice
<1>5. ASSUME NEW g \in Games, NEW pair \in Passed, PersistResults(g, pair[1], pair[2])
      PROVE  \E h \in Games, x, y \in Accounts : PersistResults(h, x, y)
  BY <1>5, InflightAssumption DEF Accounts
<1> QED
  BY <1>1, <1>2, <1>3, <1>4, <1>5 DEF Next, StartGameWithTicket

LEMMA TypedInit ==
  ASSUME Init
  PROVE  Typed /\ Resolved(account) /\ Present(account)
<1>1. AccountsTyped(account) /\ AccountsTyped(l1)
  BY AccountKinds DEF Init, AccountsTyped
<1>2. delegated \subseteq Accounts /\ inflight \in Seq(Commits)
  BY EmptySeq DEF Init
<1>3. Resolved(account) /\ Present(account)
  BY AccountKinds DEF Init, Resolved, IsDecided, Present
<1> QED
  BY <1>1, <1>2, <1>3, TypedParts

(* The commit persist_results makes: the session and two other accounts. *)
LEMMA PersistedCommit ==
  ASSUME Typed, Present(account), NEW g \in Games, NEW x \in Accounts, NEW y \in Accounts,
         PersistResults(g, x, y)
  PROVE  [z \in {g, x, y} |-> account[z]] \in Commits
<1> DEFINE S == {g, x, y}
           c == [z \in S |-> account[z]]
<1>1. S \subseteq Accounts /\ S \subseteq delegated
  BY DEF PersistResults, Typed, TypeOK
<1>2. \A z \in S : account[z] \in IF z \in Players THEN Profiles ELSE Sessions
  BY <1>1, AccountKinds DEF Typed, TypeOK, AccountsTyped, Present, Accounts
<1> HIDE DEF S
<1>3. c \in [S -> Profiles \cup Sessions]
  BY <1>2
<1>4. c \in Commits
  BY <1>1, <1>2, <1>3 DEF Commits
<1> QED
  BY <1>4 DEF S

(* TypeOK is inductive with Resolved and Present. *)
LEMMA TypedStep ==
  ASSUME Typed, Resolved(account), Present(account), [Next]_vars
  PROVE  Typed' /\ Resolved(account)' /\ Present(account)'
<1>1. /\ AccountsTyped(account) /\ AccountsTyped(l1)
      /\ delegated \subseteq Accounts /\ inflight \in Seq(Commits)
  BY DEF Typed, TypeOK
<1>2. ASSUME NEW new, Advance(account, new), Write(new), UNCHANGED <<delegated, inflight>>
      PROVE  Typed' /\ Resolved(account)' /\ Present(account)'
  <2>1. AccountsTyped(account') /\ AccountsTyped(l1')
    BY <1>1, <1>2, WriteTyped DEF Advance
  <2>2. Resolved(account)' /\ Present(account)'
    BY <1>2 DEF Advance, Write, Resolved, IsDecided, Present
  <2>3. delegated' \subseteq Accounts /\ inflight' \in Seq(Commits)
    BY <1>1, <1>2
  <2> QED
    BY <2>1, <2>2, <2>3, TypedPartsNext
<1>3. ASSUME NEW x \in Accounts, DelegatePda(x)
      PROVE  Typed' /\ Resolved(account)' /\ Present(account)'
  <2>1. AccountsTyped(account') /\ AccountsTyped(l1')
    BY <1>1, <1>3 DEF DelegatePda
  <2>2. Resolved(account)' /\ Present(account)'
    BY <1>3 DEF DelegatePda, Resolved, IsDecided, Present
  <2>3. delegated' \subseteq Accounts /\ inflight' \in Seq(Commits)
    BY <1>1, <1>3 DEF DelegatePda
  <2> QED
    BY <2>1, <2>2, <2>3, TypedPartsNext
<1>4. ASSUME NEW g \in Games, NEW x \in Accounts, NEW y \in Accounts, PersistResults(g, x, y)
      PROVE  Typed' /\ Resolved(account)' /\ Present(account)'
  <2>1. inflight' \in Seq(Commits)
    BY <1>1, <1>4, PersistedCommit, AppendProperties DEF PersistResults
  <2>2. Resolved(account)' /\ Present(account)'
    BY <1>4 DEF PersistResults, Resolved, IsDecided, Present
  <2>3. AccountsTyped(account') /\ AccountsTyped(l1') /\ delegated' \subseteq Accounts
    BY <1>1, <1>4 DEF PersistResults
  <2> QED
    BY <2>1, <2>2, <2>3, TypedPartsNext
<1>5. ASSUME Settle
      PROVE  Typed' /\ Resolved(account)' /\ Present(account)'
  <2>1. inflight[1] \in Commits /\ inflight' \in Seq(Commits)
    BY <1>1, <1>5, RestOfSeq DEF Settle, NextCommit
  <2>2. \A x \in Accounts : l1'[x] = IF x \in DOMAIN inflight[1] THEN inflight[1][x] ELSE l1[x]
    BY <1>5 DEF Settle, NextCommit
  <2>3. \A x \in DOMAIN inflight[1] :
          inflight[1][x] \in IF x \in Players THEN Profiles ELSE Sessions
    BY <2>1, CommitCopies
  <2>4. l1' = [x \in Accounts |-> l1'[x]]
    BY <1>5 DEF Settle
  <2>5. AccountsTyped(l1')
    BY <1>1, <2>2, <2>3, <2>4, AccountKinds DEF AccountsTyped
  <2>6. Resolved(account)' /\ Present(account)'
    BY <1>5 DEF Settle, Resolved, IsDecided, Present
  <2>7. AccountsTyped(account') /\ delegated' \subseteq Accounts
    BY <1>1, <1>5 DEF Settle
  <2> QED
    BY <2>1, <2>5, <2>6, <2>7, TypedPartsNext
<1>6. CASE UNCHANGED vars
  BY <1>1, <1>6, TypedPartsNext DEF vars, Resolved, IsDecided, Present
<1>7. CASE Next
  BY <1>1, <1>2, <1>3, <1>4, <1>5, <1>7, Steps
<1> QED
  BY <1>6, <1>7

(* Every account is absent, a profile or a session of its kind, in the TEE   *)
(* and on L1, and a commit carries profiles and sessions that exist.         *)
THEOREM RpsTyped == Spec => []TypeOK
<1>1. Init => Typed /\ Resolved(account) /\ Present(account)
  BY TypedInit
<1>2. Typed /\ Resolved(account) /\ Present(account) /\ [Next]_vars
        => (Typed /\ Resolved(account) /\ Present(account))'
  BY TypedStep
<1>3. Typed => TypeOK
  BY DEF Typed
<1> QED
  BY <1>1, <1>2, <1>3, PTL DEF Spec

-----------------------------------------------------------------------------
(* Finality. *)

(* From what L1 shows, over the commits in their order, to what the TEE      *)
(* holds, a session or a profile only gains: this is why applying a commit   *)
(* never takes anything back, whatever was committed together.               *)
OnL1 ==
  \A x \in Lasting \ delegated :
    l1[x] = account[x] /\ \A k \in DOMAIN inflight : x \notin DOMAIN inflight[k]

FromL1 == \A x \in Lasting : Follows(x, l1[x], account[x])

Between ==
  \A x \in Lasting, k \in DOMAIN inflight : x \in DOMAIN inflight[k] =>
    Follows(x, l1[x], inflight[k][x]) /\ Follows(x, inflight[k][x], account[x])

InOrder ==
  \A x \in Lasting, j, k \in DOMAIN inflight :
    j < k /\ x \in DOMAIN inflight[j] /\ x \in DOMAIN inflight[k] =>
      Follows(x, inflight[j][x], inflight[k][x])

Chain == OnL1 /\ FromL1 /\ Between /\ InOrder

(* The actions of GamesFinal and L1NeverBack. *)
Final ==
  \A x \in Lasting : Follows(x, account[x], account'[x]) /\ Follows(x, l1[x], l1'[x])

(* Every copy of a lasting account is of its kind. *)
LEMMA CopiesTyped ==
  ASSUME Typed, NEW x \in Lasting
  PROVE  /\ x \in Accounts /\ account[x] \in Kind(x) /\ l1[x] \in Kind(x)
         /\ \A k \in DOMAIN inflight : x \in DOMAIN inflight[k] => inflight[k][x] \in Kind(x)
<1>1. x \in Accounts /\ account[x] \in Kind(x) /\ l1[x] \in Kind(x)
  BY Lasts DEF Typed, TypeOK
<1>2. \A k \in DOMAIN inflight : x \in DOMAIN inflight[k] => inflight[k][x] \in Kind(x)
  BY DEF Typed, TypeOK, Kind
<1> QED
  BY <1>1, <1>2

LEMMA ChainInit ==
  ASSUME Init
  PROVE  Chain
<1>1. \A x \in Lasting : Follows(x, Absent, Absent)
  BY FollowsProperties DEF Kind
<1>2. \A x \in Lasting : account[x] = Absent /\ l1[x] = Absent
  BY DEF Init, Lasting, Accounts
<1>3. DOMAIN inflight = {}
  BY DEF Init
<1> QED
  BY <1>1, <1>2, <1>3 DEF Chain, OnL1, FromL1, Between, InOrder

(* What L1 shows of an account follows the TEE at once, or not at all. *)
LEMMA WriteChain ==
  ASSUME Typed, Chain, NEW new, Advance(account, new), Write(new),
         UNCHANGED <<delegated, inflight>>
  PROVE  Chain' /\ Final
<1>1. /\ account' = new
      /\ \A x \in Lasting : l1'[x] = IF x \in delegated THEN l1[x] ELSE new[x]
  BY CopiesTyped DEF Write
<1>2. \A x \in Lasting : Follows(x, account[x], new[x]) /\ new[x] \in Kind(x)
  BY Lasts DEF Advance
<1>3. OnL1'
  BY <1>1 DEF Chain, OnL1
<1>4. FromL1' /\ Final
  <2> SUFFICES ASSUME NEW x \in Lasting
               PROVE  /\ Follows(x, l1'[x], account'[x])
                      /\ Follows(x, account[x], account'[x]) /\ Follows(x, l1[x], l1'[x])
    BY DEF FromL1, Final
  <2>1. Follows(x, l1[x], account[x]) /\ Follows(x, account[x], new[x])
    BY <1>2 DEF Chain, FromL1
  <2>2. account[x] \in Kind(x) /\ l1[x] \in Kind(x) /\ new[x] \in Kind(x)
    BY <1>2, CopiesTyped
  <2>3. /\ Follows(x, l1[x], new[x]) /\ Follows(x, new[x], new[x])
        /\ Follows(x, l1[x], l1[x])
    BY <2>1, <2>2, FollowsProperties
  <2> QED
    BY <1>1, <2>1, <2>3
<1>5. Between'
  <2> SUFFICES ASSUME NEW x \in Lasting, NEW k \in DOMAIN inflight, x \in DOMAIN inflight[k]
               PROVE  /\ Follows(x, l1'[x], inflight[k][x])
                      /\ Follows(x, inflight[k][x], account'[x])
    BY DEF Between
  <2>1. x \in delegated
    BY DEF Chain, OnL1
  <2>2. Follows(x, l1[x], inflight[k][x]) /\ Follows(x, inflight[k][x], account[x])
    BY DEF Chain, Between
  <2>3. account[x] \in Kind(x) /\ inflight[k][x] \in Kind(x)
    BY CopiesTyped
  <2>4. Follows(x, inflight[k][x], new[x])
    BY <1>2, <2>2, <2>3, FollowsProperties
  <2> QED
    BY <1>1, <2>1, <2>2, <2>4
<1>6. InOrder'
  BY DEF Chain, InOrder
<1> QED
  BY <1>3, <1>4, <1>5, <1>6 DEF Chain

(* A commit is made of what the TEE holds: it joins the end of the line. *)
LEMMA PersistChain ==
  ASSUME Typed, Present(account), Chain,
         NEW g \in Games, NEW v \in Accounts, NEW w \in Accounts, PersistResults(g, v, w)
  PROVE  Chain' /\ Final
<1> DEFINE S == {g, v, w}
           c == [x \in S |-> account[x]]
<1>1. /\ inflight' = Append(inflight, c)
      /\ UNCHANGED <<account, delegated, l1>>
      /\ S \subseteq delegated
  BY DEF PersistResults
<1>2. DOMAIN c = S /\ \A x \in S : c[x] = account[x]
  OBVIOUS
<1>3. c \in Commits /\ inflight \in Seq(Commits)
  BY PersistedCommit DEF Typed
<1> HIDE DEF S, c
<1>4. /\ DOMAIN inflight = 1..Len(inflight) /\ Len(inflight) \in Nat
      /\ DOMAIN inflight' = 1..Len(inflight) + 1
      /\ \A k \in 1..Len(inflight) : inflight'[k] = inflight[k]
      /\ inflight'[Len(inflight) + 1] = c
  BY <1>1, <1>3, AppendProperties, LenProperties
<1>5. \A k \in DOMAIN inflight' :
        \/ k \in DOMAIN inflight /\ inflight'[k] = inflight[k]
        \/ k = Len(inflight) + 1 /\ inflight'[k] = c
  BY <1>4
<1>6. OnL1'
  BY <1>1, <1>2, <1>5 DEF Chain, OnL1
<1>7. \A x \in Lasting : Follows(x, account[x], account[x]) /\ Follows(x, l1[x], l1[x])
  BY CopiesTyped, FollowsProperties
<1>8. FromL1' /\ Final
  BY <1>1, <1>7 DEF Chain, FromL1, Final
<1>9. Between'
  <2> SUFFICES ASSUME NEW x \in Lasting, NEW k \in DOMAIN inflight', x \in DOMAIN inflight'[k]
               PROVE  /\ Follows(x, l1[x], inflight'[k][x])
                      /\ Follows(x, inflight'[k][x], account[x])
    BY <1>1 DEF Between
  <2>1. CASE k \in DOMAIN inflight /\ inflight'[k] = inflight[k]
    BY <2>1 DEF Chain, Between
  <2>2. CASE inflight'[k] = c
    BY <2>2, <1>2, <1>7 DEF Chain, FromL1
  <2> QED
    BY <1>5, <2>1, <2>2
<1>10. InOrder'
  <2>1. SUFFICES ASSUME NEW h \in Lasting, NEW j \in DOMAIN inflight', NEW k \in DOMAIN inflight',
                        j < k, h \in DOMAIN inflight'[j], h \in DOMAIN inflight'[k]
                 PROVE  Follows(h, inflight'[j][h], inflight'[k][h])
    BY DEF InOrder
  <2>2. j \in DOMAIN inflight /\ inflight'[j] = inflight[j]
    BY <2>1, <1>4
  <2>3. CASE k \in DOMAIN inflight /\ inflight'[k] = inflight[k]
    BY <2>1, <2>2, <2>3 DEF Chain, InOrder
  <2>4. CASE inflight'[k] = c
    BY <2>1, <2>2, <2>4, <1>2 DEF Chain, Between
  <2> QED
    BY <2>3, <2>4, <1>5
<1> QED
  BY <1>6, <1>8, <1>9, <1>10 DEF Chain

(* L1 applies the commit at the head of the line. *)
LEMMA SettleChain ==
  ASSUME Typed, Chain, Settle
  PROVE  Chain' /\ Final
<1>1. /\ inflight # <<>> /\ inflight' = RemoveAt(inflight, 1)
      /\ UNCHANGED <<account, delegated>>
      /\ \A x \in Lasting : l1'[x] = IF x \in DOMAIN inflight[1] THEN inflight[1][x] ELSE l1[x]
  BY CopiesTyped DEF Settle, NextCommit
<1>2. /\ 1 \in DOMAIN inflight
      /\ \A k \in DOMAIN inflight' : k + 1 \in DOMAIN inflight /\ inflight'[k] = inflight[k + 1]
      /\ \A k \in DOMAIN inflight' : k \in Nat /\ 1 < k + 1
  BY <1>1, RestOfSeq, LenProperties DEF Typed
<1>3. OnL1'
  BY <1>1, <1>2 DEF Chain, OnL1
<1>4. FromL1'
  BY <1>1, <1>2 DEF Chain, FromL1, Between
<1>5. Between'
  BY <1>1, <1>2 DEF Chain, Between, InOrder
<1>6. InOrder'
  BY <1>1, <1>2 DEF Chain, InOrder
<1>7. \A x \in Lasting : Follows(x, account[x], account[x]) /\ Follows(x, l1[x], l1[x])
  BY CopiesTyped, FollowsProperties
<1>8. Final
  BY <1>1, <1>2, <1>7 DEF Chain, Final, Between
<1> QED
  BY <1>3, <1>4, <1>5, <1>6, <1>8 DEF Chain

LEMMA ChainStep ==
  ASSUME Typed, Resolved(account), Present(account), Chain, [Next]_vars
  PROVE  Chain' /\ Final
<1>1. \A x \in Lasting : Follows(x, account[x], account[x]) /\ Follows(x, l1[x], l1[x])
  BY CopiesTyped, FollowsProperties
<1>2. CASE UNCHANGED vars
  BY <1>1, <1>2 DEF vars, Chain, OnL1, FromL1, Between, InOrder, Final
<1>3. ASSUME NEW x \in Accounts, DelegatePda(x)
      PROVE  Chain' /\ Final
  BY <1>1, <1>3 DEF DelegatePda, Chain, OnL1, FromL1, Between, InOrder, Final
<1>4. CASE Next
  BY <1>3, <1>4, Steps, WriteChain, PersistChain, SettleChain DEF Typed, TypeOK
<1> QED
  BY <1>2, <1>4

(* What follows holds from the first state on.                              *)
LEMMA ChainKept ==
  Spec => [](Typed /\ Resolved(account) /\ Present(account) /\ Chain)
<1> DEFINE I == Typed /\ Resolved(account) /\ Present(account) /\ Chain
<1>1. Init => I
  BY TypedInit, ChainInit
<1>2. I /\ [Next]_vars => I'
  BY TypedStep, ChainStep
<1> HIDE DEF I
<1>3. Spec => []I
  BY <1>1, <1>2, PTL DEF Spec
<1> QED
  BY <1>3 DEF I

(* A choice once made and a result once reached never change, in the TEE or  *)
(* on L1 (make_choice, lines 53-62 and 66-74; persist_results, lines         *)
(* 108-121).                                                                 *)
THEOREM RpsFinal == Spec => GamesFinal
<1>1. Typed /\ Resolved(account) /\ Present(account) /\ Chain /\ [Next]_vars =>
        [\A g \in Games : Keeps(account[g], account'[g]) /\ Keeps(l1[g], l1'[g])]_vars
  BY ChainStep DEF Final, Follows, Lasting
<1> QED
  BY <1>1, ChainKept, PTL DEF Spec, GamesFinal

(* The games and wins L1 shows of a profile that is never closed only grow,  *)
(* whoever persists which sessions with which profiles.                      *)
THEOREM L1OnlyGrows == Spec => L1NeverBack
<1>1. Typed /\ Resolved(account) /\ Present(account) /\ Chain /\ [Next]_vars =>
        [\A p \in Players \ Closing : Grows(l1[p], l1'[p])]_vars
  BY ChainStep, AccountKinds DEF Final, Follows, Lasting
<1> QED
  BY <1>1, ChainKept, PTL DEF Spec, L1NeverBack

-----------------------------------------------------------------------------
(* What profiles count.                                                     *)

(* The games of p in D, those of them won in W and those lost in L are what *)
(* the profile counts.                                                      *)
Tally(profile, D, W, L) ==
  /\ profile.played = Cardinality(D)
  /\ profile.won = Cardinality(W)
  /\ profile.elo <= StartElo + EloStep * Cardinality(W)
  /\ profile.elo >= StartElo + EloStep * (Cardinality(W) - Cardinality(L))

(* Every profile counts the decided games of its player, and who has no     *)
(* profile yet has played none.                                             *)
Counts(f) ==
  \A p \in Players \ Closing :
    /\ IsFiniteSet(Decided(f, p))
    /\ f[p] = Absent => Decided(f, p) = {}
    /\ f[p] # Absent => Tally(f[p], Decided(f, p), WonBy(f, p), LostBy(f, p))

(* In a session with oneself player2 never chooses.                         *)
SoloOpen(f) ==
  \A g \in Games : g[1] = g[2] /\ f[g] # Absent => f[g].choice2 = "None"

(* These are the conjuncts of ProfilesAgree.                                *)
LEMMA CountsIsAgreement == Counts(account) => ProfilesAgree
BY DEF Counts, Tally, ProfilesAgree

(* A factor one higher or lower.                                            *)
LEMMA OneMore ==
  /\ \A x \in Nat, m \in Int : x * m \in Int /\ x * (m + 1) = x * m + x /\ x * (m - 1) = x * m - x
  /\ \A x \in Nat, n \in Nat : x * n \in Nat
OBVIOUS

(* One more game changes the tally as make_choice changes the profile.      *)
LEMMA TallyGame ==
  ASSUME NEW profile \in Profiles, NEW D, IsFiniteSet(D),
         NEW W \in SUBSET D, NEW L \in SUBSET D, NEW g, g \notin D,
         NEW side \in {"player1", "player2"},
         NEW result \in {"Tie", "player1", "player2"},
         Tally(profile, D, W, L)
  PROVE  Tally(AfterGame(profile, side, result), D \cup {g},
               IF result = side THEN W \cup {g} ELSE W,
               IF result \notin {"Tie", side} THEN L \cup {g} ELSE L)
<1> DEFINE w == Cardinality(W)
           l == Cardinality(L)
<1>1. /\ IsFiniteSet(W) /\ IsFiniteSet(L)
      /\ Cardinality(D) \in Nat /\ w \in Nat /\ l \in Nat
  BY FS_Subset, FS_CardinalityType
<1>2. /\ Cardinality(D \cup {g}) = Cardinality(D) + 1
      /\ Cardinality(W \cup {g}) = w + 1
      /\ Cardinality(L \cup {g}) = l + 1
  <2>1. g \notin W /\ g \notin L
    OBVIOUS
  <2> QED
    BY <1>1, <2>1, FS_AddElement
<1>3. /\ profile.elo \in Nat
      /\ profile.played = Cardinality(D) /\ profile.won = w
      /\ profile.elo <= StartElo + EloStep * w
      /\ profile.elo >= StartElo + EloStep * (w - l)
  BY DEF Tally, Profiles
<1> HIDE DEF w, l
<1>4. StartElo \in Nat /\ EloStep \in Nat
  BY EloAssumption
<1>5. /\ EloStep * (w + 1) = EloStep * w + EloStep
      /\ EloStep * ((w + 1) - l) = EloStep * (w - l) + EloStep
      /\ EloStep * (w - (l + 1)) = EloStep * (w - l) - EloStep
      /\ EloStep * w \in Nat /\ EloStep * (w - l) \in Int
  <2>1. /\ w \in Nat /\ l \in Nat /\ w \in Int /\ w - l \in Int
        /\ (w + 1) - l = (w - l) + 1 /\ w - (l + 1) = (w - l) - 1
    BY <1>1 DEF w, l
  <2> QED
    BY <1>4, <2>1, OneMore
<1>6. CASE result = "Tie"
  <2>1. /\ AfterGame(profile, side, result).elo = profile.elo
        /\ AfterGame(profile, side, result).played = profile.played + 1
        /\ AfterGame(profile, side, result).won = profile.won
    BY <1>6 DEF AfterGame
  <2> QED
    BY <1>2, <1>3, <1>6, <2>1 DEF Tally, w, l
<1>7. CASE result = side
  <2>1. /\ AfterGame(profile, side, result).elo = profile.elo + EloStep
        /\ AfterGame(profile, side, result).played = profile.played + 1
        /\ AfterGame(profile, side, result).won = profile.won + 1
    BY <1>7 DEF AfterGame, Win
  <2>2. /\ profile.elo + EloStep <= StartElo + EloStep * (w + 1)
        /\ profile.elo + EloStep >= StartElo + EloStep * ((w + 1) - l)
    BY <1>1, <1>3, <1>4, <1>5
  <2> QED
    BY <1>2, <1>3, <1>7, <2>1, <2>2 DEF Tally, w, l
<1>8. CASE result \notin {"Tie", side}
  <2>1. /\ AfterGame(profile, side, result).elo = Lose(profile.elo)
        /\ AfterGame(profile, side, result).played = profile.played + 1
        /\ AfterGame(profile, side, result).won = profile.won
    BY <1>8 DEF AfterGame
  <2>2. /\ Lose(profile.elo) <= StartElo + EloStep * w
        /\ Lose(profile.elo) >= StartElo + EloStep * (w - (l + 1))
    BY <1>1, <1>3, <1>4, <1>5 DEF Lose
  <2> QED
    BY <1>2, <1>3, <1>8, <2>1, <2>2 DEF Tally, w, l
<1> QED
  BY <1>6, <1>7, <1>8

(* The sets of games depend on results only.                                *)
LEMMA SameGames ==
  ASSUME NEW f, NEW new, NEW p,
         \A g \in Games : IsDecided(f, g) <=> IsDecided(new, g),
         \A g \in Games : IsDecided(f, g) => new[g].result = f[g].result
  PROVE  /\ Decided(new, p) = Decided(f, p)
         /\ WonBy(new, p) = WonBy(f, p)
         /\ LostBy(new, p) = LostBy(f, p)
<1>1. Decided(new, p) = Decided(f, p)
  BY DEF Decided
<1>2. \A g \in Decided(f, p) : new[g].result = f[g].result
  BY DEF Decided
<1>3. WonBy(new, p) = WonBy(f, p)
  BY <1>1, <1>2 DEF WonBy
<1> QED
  BY <1>1, <1>2, <1>3 DEF LostBy

(* A step that decides no game, and of profiles that count only opens some,  *)
(* leaves the counts as they are.                                           *)
LEMMA QuietCounts ==
  ASSUME NEW new, Counts(account),
         \A g \in Games : IsDecided(account, g) <=> IsDecided(new, g),
         \A g \in Games : IsDecided(account, g) => new[g].result = account[g].result,
         \A p \in Players \ Closing :
           new[p] = account[p] \/ (account[p] = Absent /\ new[p] = NewProfile)
  PROVE  Counts(new)
<1> DEFINE same(p) == /\ Decided(new, p) = Decided(account, p)
                      /\ WonBy(new, p) = WonBy(account, p)
                      /\ LostBy(new, p) = LostBy(account, p)
<1>0. \A p : same(p)
  BY SameGames
<1> HIDE DEF same
<1>1. ASSUME NEW p \in Players \ Closing, account[p] = Absent, new[p] = NewProfile
      PROVE  Tally(new[p], Decided(new, p), WonBy(new, p), LostBy(new, p))
  <2>1. Decided(new, p) = {} /\ WonBy(new, p) = {} /\ LostBy(new, p) = {}
    <3>1. Decided(account, p) = {}
      BY <1>1 DEF Counts
    <3>2. WonBy(account, p) = {} /\ LostBy(account, p) = {}
      BY <3>1 DEF WonBy, LostBy
    <3> QED
      BY <1>0, <3>1, <3>2 DEF same
  <2>2. EloStep * 0 = 0 /\ EloStep * (0 - 0) = 0 /\ StartElo \in Nat
    BY EloAssumption
  <2>3. Cardinality({}) = 0
    BY FS_EmptySet
  <2> QED
    BY <1>1, <2>1, <2>2, <2>3 DEF Tally, NewProfile
<1>2. ASSUME NEW p \in Players \ Closing
      PROVE  /\ IsFiniteSet(Decided(new, p))
             /\ new[p] = Absent => Decided(new, p) = {}
             /\ new[p] # Absent => Tally(new[p], Decided(new, p), WonBy(new, p), LostBy(new, p))
  <2>1. CASE new[p] = account[p]
    BY <1>0, <2>1 DEF Counts, same
  <2>2. CASE account[p] = Absent /\ new[p] = NewProfile
    <3>1. new[p] # Absent
      BY <2>2, AbsentIsNone, ProfileTyped
    <3> QED
      BY <1>0, <1>1, <2>2, <3>1 DEF Counts, same
  <2> QED
    BY <2>1, <2>2
<1> QED
  BY <1>2 DEF Counts

(* The accounts of the players when a game is decided.                      *)
LEMMA DecidedAt ==
  ASSUME AccountsTyped(account),
         NEW g \in Games, NEW session \in Sessions, g[1] # g[2],
         "None" \notin {session.choice1, session.choice2}
  PROVE  LET result == Outcome(session.choice1, session.choice2)
             new == AfterChoice(g, session)
         IN /\ new[g[1]] = AfterGame(account[g[1]], "player1", result)
            /\ new[g[2]] = AfterGame(account[g[2]], "player2", result)
            /\ \A p \in Players \ {g[1], g[2]} : new[p] = account[p]
<1> DEFINE result == Outcome(session.choice1, session.choice2)
           over == [session EXCEPT !.result = result]
           first == AfterGame(account[g[1]], "player1", result)
           second == AfterGame(account[g[2]], "player2", result)
<1>1. AfterChoice(g, session) =
        [account EXCEPT ![g] = over, ![g[1]] = first, ![g[2]] = second]
  BY DEF AfterChoice
<1>2. first = AfterGame(account[g[1]], "player1", result)
  OBVIOUS
<1>3. second = AfterGame(account[g[2]], "player2", result)
  OBVIOUS
<1>4. DOMAIN account = Accounts
  BY DEF AccountsTyped
<1> HIDE DEF over, first, second
<1>5. /\ AfterChoice(g, session)[g[1]] = first
      /\ AfterChoice(g, session)[g[2]] = second
      /\ \A p \in Players \ {g[1], g[2]} : AfterChoice(g, session)[p] = account[p]
  BY <1>1, <1>4, AccountKinds
<1> QED
  BY <1>2, <1>3, <1>5

(* What the game g, decided in `new', adds to the sets of games.            *)
Adds(g, f, new) ==
  /\ \A p \in {g[1], g[2]} :
       LET side == IF p = g[1] THEN "player1" ELSE "player2" IN
       /\ g \notin Decided(f, p)
       /\ Decided(new, p) = Decided(f, p) \cup {g}
       /\ WonBy(new, p) = IF new[g].result = side
                          THEN WonBy(f, p) \cup {g} ELSE WonBy(f, p)
       /\ LostBy(new, p) = IF new[g].result \notin {"Tie", side}
                           THEN LostBy(f, p) \cup {g} ELSE LostBy(f, p)
  /\ \A p : p \notin {g[1], g[2]} =>
       /\ Decided(new, p) = Decided(f, p)
       /\ WonBy(new, p) = WonBy(f, p)
       /\ LostBy(new, p) = LostBy(f, p)

(* Deciding one game adds it, for its two players only.                      *)
LEMMA OneMoreGame ==
  ASSUME NEW f, NEW new, NEW g \in Games, ~ IsDecided(f, g), IsDecided(new, g),
         \A h \in Games \ {g} : new[h] = f[h]
  PROVE  Adds(g, f, new)
<1>1. \A h \in Games \ {g} : IsDecided(new, h) <=> IsDecided(f, h)
  BY DEF IsDecided
<1>2. ASSUME NEW p \in {g[1], g[2]}
      PROVE  g \notin Decided(f, p) /\ Decided(new, p) = Decided(f, p) \cup {g}
  BY <1>1 DEF Decided
<1>3. ASSUME NEW p, p \notin {g[1], g[2]}
      PROVE  Decided(new, p) = Decided(f, p) /\ g \notin Decided(f, p)
  BY <1>1, <1>3 DEF Decided
<1>4. \A p : \A h \in Decided(f, p) : h # g => new[h] = f[h]
  BY DEF Decided
<1>5. ASSUME NEW p \in {g[1], g[2]}
      PROVE  LET side == IF p = g[1] THEN "player1" ELSE "player2" IN
             /\ WonBy(new, p) = IF new[g].result = side
                                THEN WonBy(f, p) \cup {g} ELSE WonBy(f, p)
             /\ LostBy(new, p) = IF new[g].result \notin {"Tie", side}
                                 THEN LostBy(f, p) \cup {g} ELSE LostBy(f, p)
  <2>1. WonBy(new, p) = IF new[g].result = IF p = g[1] THEN "player1" ELSE "player2"
                        THEN WonBy(f, p) \cup {g} ELSE WonBy(f, p)
    BY <1>2, <1>4 DEF WonBy
  <2>2. g \notin WonBy(f, p) /\ g \notin LostBy(f, p)
    BY <1>2 DEF WonBy, LostBy
  <2>3. \A h : h \in LostBy(new, p) <=>
               h \in Decided(new, p) /\ new[h].result # "Tie" /\ h \notin WonBy(new, p)
    BY DEF LostBy
  <2>4. \A h : h \in LostBy(f, p) <=>
               h \in Decided(f, p) /\ f[h].result # "Tie" /\ h \notin WonBy(f, p)
    BY DEF LostBy
  <2>5. \A h : h # g => (h \in LostBy(new, p) <=> h \in LostBy(f, p))
    BY <1>2, <1>4, <2>1, <2>3, <2>4
  <2>6. g \in LostBy(new, p) <=>
          new[g].result \notin {"Tie", IF p = g[1] THEN "player1" ELSE "player2"}
    BY <1>2, <2>1, <2>2, <2>3
  <2> QED
    BY <2>1, <2>2, <2>5, <2>6
<1>6. ASSUME NEW p, p \notin {g[1], g[2]}
      PROVE  WonBy(new, p) = WonBy(f, p) /\ LostBy(new, p) = LostBy(f, p)
  BY <1>3, <1>4, <1>6 DEF WonBy, LostBy
<1> QED
  BY <1>2, <1>3, <1>5, <1>6 DEF Adds

(* make_choice counts the game it decides, in both profiles.                *)
LEMMA ChoiceCounted ==
  ASSUME AccountsTyped(account), Resolved(account), delegated \subseteq Accounts,
         Counts(account), SoloOpen(account),
         NEW g \in Games, NEW p \in Players, NEW choice \in Choice, MakeChoice(g, p, choice)
  PROVE  Counts(account') /\ SoloOpen(account')
<1> DEFINE old == account[g]
           session == Choose(old, g, p, choice)
           over == [session EXCEPT !.result = Outcome(session.choice1, session.choice2)]
           new == AfterChoice(g, session)
<1>1. /\ old \in Sessions /\ account[g[1]] \in Profiles /\ account[g[2]] \in Profiles
      /\ session \in Sessions
      /\ account' = new /\ p \in {g[1], g[2]}
  <2>1. old # Absent /\ account[g[1]] # Absent /\ account[g[2]] # Absent
    BY DEF MakeChoice
  <2>2. old \in Sessions /\ account[g[1]] \in Profiles /\ account[g[2]] \in Profiles
    BY <2>1, AccountKinds DEF AccountsTyped
  <2> QED
    BY <2>2, ChooseTyped DEF MakeChoice, Write
<1>2. /\ old.result = "None" /\ session.result = "None"
      /\ g[1] = g[2] => session.choice2 = "None"
  <2>1. old # Absent
    BY <1>1, AbsentIsNone
  <2>2. old.result = "None"
    BY <2>1 DEF Resolved, IsDecided, MayChoose, MakeChoice
  <2>3. session.result = old.result /\ (g[1] = p => session.choice2 = old.choice2)
    BY <1>1 DEF Choose, Sessions
  <2> QED
    BY <1>1, <2>1, <2>2, <2>3 DEF SoloOpen
<1>3. /\ over \in Sessions /\ over.choice2 = session.choice2
      /\ over.result = Outcome(session.choice1, session.choice2)
      /\ over.result \in {"Tie", "player1", "player2"}
  <2>1. over \in Sessions
    BY <1>1, OutcomeTyped
  <2>2. over.choice2 = session.choice2
        /\ over.result = Outcome(session.choice1, session.choice2)
    BY <1>1 DEF Sessions
  <2> QED
    BY <2>1, <2>2 DEF Outcome
<1>4. /\ AccountsTyped(new)
      /\ \A h \in Games : new[h] =
           IF h # g THEN account[h]
           ELSE IF "None" \in {session.choice1, session.choice2} THEN session ELSE over
  BY <1>1, AfterChoiceAt
<1> HIDE DEF over
<1>5. SoloOpen(new)
  BY <1>2, <1>3, <1>4 DEF SoloOpen
<1>6. CASE "None" \in {session.choice1, session.choice2}
  <2>1. new = [account EXCEPT ![g] = session]
    BY <1>6 DEF AfterChoice
  <2>2. \A x \in Players : new[x] = account[x]
    BY <2>1, AccountKinds DEF AccountsTyped
  <2>3. session # Absent /\ ~ IsDecided(account, g)
    BY <1>1, <1>2, AbsentIsNone DEF IsDecided
  <2> HIDE DEF old, session, new
  <2>4. \A h \in Games : IsDecided(account, h) <=> IsDecided(new, h)
    BY <1>2, <1>4, <1>6, <2>3 DEF IsDecided
  <2>5. \A h \in Games : IsDecided(account, h) => new[h].result = account[h].result
    BY <1>4, <2>3
  <2>6. Counts(new)
    BY <2>2, <2>4, <2>5, QuietCounts
  <2> QED
    BY <1>1, <1>5, <2>6
<1>7. CASE "None" \notin {session.choice1, session.choice2}
  <2>1. g[1] # g[2]
    BY <1>2, <1>7
  <2>2. over # Absent /\ new[g] = over /\ ~ IsDecided(account, g) /\ IsDecided(new, g)
    BY <1>2, <1>3, <1>4, <1>7, AbsentIsNone DEF IsDecided
  <2>3. \A h \in Games \ {g} : new[h] = account[h]
    BY <1>4
  <2>4. /\ new[g[1]] = AfterGame(account[g[1]], "player1", over.result)
        /\ new[g[2]] = AfterGame(account[g[2]], "player2", over.result)
        /\ \A x \in Players \ {g[1], g[2]} : new[x] = account[x]
    BY <1>1, <1>3, <1>7, <2>1, DecidedAt
  <2> HIDE DEF old, session, new
  <2>5. Adds(g, account, new)
    BY <2>2, <2>3, OneMoreGame
  <2>6. ASSUME NEW x \in Players \ Closing
        PROVE  /\ IsFiniteSet(Decided(new, x))
               /\ new[x] = Absent => Decided(new, x) = {}
               /\ new[x] # Absent => Tally(new[x], Decided(new, x), WonBy(new, x), LostBy(new, x))
    <3>1. CASE x \notin {g[1], g[2]}
      BY <2>4, <2>5, <3>1 DEF Adds, Counts
    <3>2. CASE x \in {g[1], g[2]}
      <4> DEFINE side == IF x = g[1] THEN "player1" ELSE "player2"
                 D == Decided(account, x)
                 W == WonBy(account, x)
                 L == LostBy(account, x)
      <4>1. /\ g \notin D
            /\ Decided(new, x) = D \cup {g}
            /\ WonBy(new, x) = IF over.result = side THEN W \cup {g} ELSE W
            /\ LostBy(new, x) = IF over.result \notin {"Tie", side} THEN L \cup {g} ELSE L
        BY <2>2, <2>5, <3>2 DEF Adds
      <4>2. new[x] = AfterGame(account[x], side, over.result) /\ account[x] \in Profiles
        BY <1>1, <2>1, <2>4, <3>2
      <4>3. IsFiniteSet(D) /\ Tally(account[x], D, W, L)
        BY <4>2, AbsentIsNone DEF Counts
      <4>4. W \in SUBSET D /\ L \in SUBSET D
        BY DEF WonBy, LostBy
      <4>5. side \in {"player1", "player2"}
        OBVIOUS
      <4> HIDE DEF side, D, W, L
      <4>6. Tally(new[x], Decided(new, x), WonBy(new, x), LostBy(new, x))
        <5> DEFINE result == over.result
                   profile == account[x]
        <5>1. /\ result \in {"Tie", "player1", "player2"} /\ profile \in Profiles
              /\ IsFiniteSet(D) /\ Tally(profile, D, W, L) /\ g \notin D
          BY <1>3, <4>1, <4>2, <4>3
        <5> HIDE DEF result, profile
        <5>2. Tally(AfterGame(profile, side, result), D \cup {g},
                    IF result = side THEN W \cup {g} ELSE W,
                    IF result \notin {"Tie", side} THEN L \cup {g} ELSE L)
          BY <4>4, <4>5, <5>1, TallyGame
        <5> QED
          BY <4>1, <4>2, <5>2 DEF result, profile
      <4>7. IsFiniteSet(Decided(new, x))
        BY <4>1, <4>3, FS_AddElement
      <4>8. new[x] # Absent
        BY <4>2, ProfileTyped, AbsentIsNone
      <4> QED
        BY <4>6, <4>7, <4>8
    <3> QED
      BY <3>1, <3>2
  <2>7. Counts(new)
    BY <2>6 DEF Counts
  <2> QED
    BY <1>1, <1>5, <2>7
<1> QED
  BY <1>6, <1>7

(* No other step decides a game or touches a profile that counts.           *)
LEMMA CountsStep ==
  ASSUME Typed, Resolved(account), Present(account),
         Counts(account), SoloOpen(account), [Next]_vars
  PROVE  Counts(account') /\ SoloOpen(account')
<1>1. AccountsTyped(account) /\ delegated \subseteq Accounts /\ DOMAIN account = Accounts
  BY DEF Typed, TypeOK, AccountsTyped
<1>2. CASE UNCHANGED account
  BY <1>2
<1>3. ASSUME NEW p \in Players, NEW v, account' = [account EXCEPT ![p] = v],
             p \in Closing \/ (account[p] = Absent /\ v = NewProfile)
      PROVE  Counts(account') /\ SoloOpen(account')
  <2>1. \A g \in Games : account'[g] = account[g]
    BY <1>1, <1>3, AccountKinds
  <2>2. \A x \in Players \ Closing :
          account'[x] = account[x] \/ (account[x] = Absent /\ account'[x] = NewProfile)
    BY <1>1, <1>3, AccountKinds
  <2>3. SoloOpen(account')
    BY <2>1 DEF SoloOpen
  <2>4. Counts(account')
    <3> DEFINE new == account'
    <3>1. /\ \A g \in Games : IsDecided(account, g) <=> IsDecided(new, g)
          /\ \A g \in Games : IsDecided(account, g) => new[g].result = account[g].result
      BY <2>1 DEF IsDecided
    <3> QED
      BY <2>2, <3>1, QuietCounts
  <2> QED
    BY <2>3, <2>4
<1>4. ASSUME NEW g \in Games, StartGame(g)
      PROVE  Counts(account') /\ SoloOpen(account')
  <2>1. /\ \A h \in Games : account'[h] = IF h = g THEN NewSession ELSE account[h]
        /\ \A x \in Players : account'[x] = account[x]
        /\ account[g] = Absent
    BY <1>1, <1>4, AccountKinds DEF StartGame, Write
  <2>2. SoloOpen(account')
    BY <2>1 DEF SoloOpen, NewSession
  <2>3. Counts(account')
    <3>1. /\ \A h \in Games : IsDecided(account, h) <=> IsDecided(account', h)
          /\ \A h \in Games : IsDecided(account, h) => account'[h].result = account[h].result
      BY <2>1 DEF IsDecided, NewSession
    <3> QED
      BY <2>1, <3>1, QuietCounts
  <2> QED
    BY <2>2, <2>3
<1>5. ASSUME NEW g \in Games, NEW p \in Players, NEW choice \in Choice, MakeChoice(g, p, choice)
      PROVE  Counts(account') /\ SoloOpen(account')
  BY <1>1, <1>5, ChoiceCounted
<1>6. CASE Next
  <2>1. ASSUME NEW p \in Players, InitializePlayer(p) \/ ClosePlayer(p)
        PROVE  Counts(account') /\ SoloOpen(account')
    BY <1>3, <2>1 DEF InitializePlayer, ClosePlayer, Write
  <2>2. ASSUME NEW x \in Accounts, DelegatePda(x)
        PROVE  UNCHANGED account
    BY <2>2 DEF DelegatePda
  <2>3. ASSUME NEW g \in Games, NEW x, NEW y, PersistResults(g, x, y)
        PROVE  UNCHANGED account
    BY <2>3 DEF PersistResults
  <2>4. ASSUME Settle
        PROVE  UNCHANGED account
    BY <2>4 DEF Settle
  <2> QED
    BY <1>2, <1>4, <1>5, <1>6, <2>1, <2>2, <2>3, <2>4 DEF Next, StartGameWithTicket
<1> QED
  BY <1>2, <1>6 DEF vars

(* At first nobody has a profile and nothing is decided.                    *)
LEMMA CountsInit ==
  ASSUME Init
  PROVE  Counts(account) /\ SoloOpen(account)
<1>1. \A x \in Accounts : account[x] = Absent
  BY DEF Init
<1>2. SoloOpen(account)
  BY <1>1, AccountKinds DEF SoloOpen
<1>3. \A p \in Players : account[p] = Absent /\ Decided(account, p) = {}
  BY <1>1, AccountKinds DEF Decided, IsDecided
<1> QED
  BY <1>2, <1>3, FS_EmptySet DEF Counts

(* The inductive invariant: a game is counted once because it is undecided   *)
(* before the choice that decides it (Resolved), for two players because no  *)
(* session with oneself is decided.                                         *)
Counting ==
  Typed /\ Resolved(account) /\ Present(account) /\ Counts(account) /\ SoloOpen(account)

(* It holds in every state.                                                 *)
LEMMA CountingKept == Spec => []Counting
<1>1. Init => Counting
  BY TypedInit, CountsInit DEF Counting
<1>2. Counting /\ [Next]_vars => Counting'
  <2> SUFFICES ASSUME Counting, [Next]_vars PROVE Counting'
    OBVIOUS
  <2>1. Typed' /\ Resolved(account)' /\ Present(account)'
    BY TypedStep DEF Counting
  <2>2. Counts(account') /\ SoloOpen(account')
    BY CountsStep DEF Counting
  <2>3. Counts(account)' /\ SoloOpen(account)'
    BY <2>2 DEF Counts, SoloOpen, Tally, Decided, WonBy, LostBy, IsDecided
  <2> QED
    BY <2>1, <2>3 DEF Counting
<1> QED
  BY <1>1, <1>2, PTL DEF Spec

(* A profile that was never closed counts every decided game of its player   *)
(* once, and its ELO is within what these games allow (make_choice, lines    *)
(* 66-105).                                                                 *)
THEOREM ProfilesCount == Spec => []ProfilesAgree
<1>1. Counting => ProfilesAgree
  BY CountsIsAgreement DEF Counting
<1> QED
  BY <1>1, CountingKept, PTL

=============================================================================
