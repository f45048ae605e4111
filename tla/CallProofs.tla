----------------------------- MODULE CallProofs -----------------------------
(***************************************************************************)
(* Every call the clients build has the form its program asks for, or is   *)
(* malformed for a reason that is named, and is read back as it was built: *)
(* for every deployment of the duel program, every tenant, queue and       *)
(* profile, and whatever was called before.                                *)
(***************************************************************************)
EXTENDS LaunchProofs

(* The arguments of a call as its builder encodes them: the kind of an      *)
(* account is replaced by its place in the enum.                            *)
EncodedArgs(call) ==
  IF "accountType" \in DOMAIN call.args
  THEN [call.args EXCEPT !.accountType = EncodedKind(AccountTypes(call), @)]
  ELSE call.args

(* The address a call has for an account.                                   *)
At(call, name) == Resolved(call.b, call.program, call.given, EncodedArgs(call), name)

(* A builder and a handler list the same accounts in the same order, and    *)
(* the builder asks for every privilege the handler checks.                 *)
Matched(b, h, n) ==
  /\ n \in Nat
  /\ DOMAIN b.accounts = 1..n /\ DOMAIN h.accounts = 1..n /\ Len(h.accounts) = n
  /\ \A k \in 1..n :
       /\ b.accounts[k].name = h.accounts[k].name
       /\ h.accounts[k].writable => b.accounts[k].writable
       /\ h.accounts[k].signer => b.accounts[k].signer
  /\ \A j, k \in 1..n : h.accounts[j].name = h.accounts[k].name => j = k

(* At most one account follows those of the builder, and it does not sign.  *)
Extended(call) == \/ call.rest = <<>>
                  \/ \E address, writable : call.rest = <<Also(address, writable)>>

(* A sequence with at most one element after it.                            *)
LEMMA ConcatParts ==
  ASSUME NEW T, NEW s \in Seq(T), NEW t, t = <<>> \/ \E x : t = <<x>>
  PROVE  /\ DOMAIN (s \o t) = 1..Len(s) + Len(t)
         /\ Len(s \o t) = Len(s) + Len(t)
         /\ \A k \in 1..Len(s) : (s \o t)[k] = s[k]
         /\ \A k \in 1..Len(s) + Len(t) : k \notin 1..Len(s) => (s \o t)[k] = t[1]
<1>1. CASE t = <<>>
  <2>1. t \in Seq(T)
    BY <1>1
  <2> QED
    BY <1>1, <2>1
<1>2. ASSUME NEW x, t = <<x>> PROVE
         /\ DOMAIN (s \o t) = 1..Len(s) + Len(t)
         /\ Len(s \o t) = Len(s) + Len(t)
         /\ \A k \in 1..Len(s) : (s \o t)[k] = s[k]
         /\ \A k \in 1..Len(s) + Len(t) : k \notin 1..Len(s) => (s \o t)[k] = t[1]
  <2> DEFINE U == T \cup {x}
  <2>1. s \in Seq(U) /\ t \in Seq(U) /\ Len(t) = 1
    BY <1>2
  <2> HIDE DEF U
  <2>2. /\ Len(s \o t) = Len(s) + 1 /\ Len(s) \in Nat
        /\ \A k \in 1..Len(s) + 1 :
             (s \o t)[k] = IF k <= Len(s) THEN s[k] ELSE t[k - Len(s)]
        /\ s \o t \in Seq(U)
    <3>1. Len(s) \in Nat /\ s \o t \in Seq(U)
      BY <2>1, ConcatProperties, LenProperties
    <3> QED
      BY <2>1, <3>1, ConcatProperties
  <2>3. DOMAIN (s \o t) = 1..Len(s) + 1
    BY <2>2, LenProperties
  <2>4. \A k \in 1..Len(s) + 1 : k \notin 1..Len(s) => k - Len(s) = 1 /\ ~ (k <= Len(s))
    BY <2>2
  <2>5. \A k \in 1..Len(s) : k \in 1..Len(s) + 1 /\ k <= Len(s)
    BY <2>2
  <2> QED
    BY <2>1, <2>2, <2>3, <2>4, <2>5
<1> QED
  BY <1>1, <1>2

(* The accounts of an instruction: the builder's, then those that follow.   *)
LEMMA BuiltCall ==
  ASSUME NEW call, NEW n \in Nat, DOMAIN call.b.accounts = 1..n, Extended(call)
  PROVE  LET ins == Instruction(call) IN
         /\ ins.name = call.b.name /\ ins.program = call.program
         /\ Len(ins.accounts) \in Nat /\ Len(ins.accounts) >= n
         /\ DOMAIN ins.accounts = 1..Len(ins.accounts)
         /\ \A k \in 1..n :
              /\ ins.accounts[k].address = At(call, call.b.accounts[k].name)
              /\ ins.accounts[k].writable = call.b.accounts[k].writable
              /\ ins.accounts[k].signer = call.b.accounts[k].signer
         /\ \A k \in DOMAIN ins.accounts : k \notin 1..n => ~ ins.accounts[k].signer
         /\ ins.args = [k \in DOMAIN call.b.args |-> EncodedArgs(call)[call.b.args[k]]]
<1> DEFINE ins == Instruction(call)
           account(k) == [address |-> At(call, call.b.accounts[k].name),
                          writable |-> call.b.accounts[k].writable,
                          signer |-> call.b.accounts[k].signer]
           s == [k \in 1..n |-> account(k)]
           T == {account(k) : k \in 1..n}
<1>1. /\ ins.name = call.b.name /\ ins.program = call.program
      /\ ins.accounts = s \o call.rest
      /\ ins.args = [k \in DOMAIN call.b.args |-> EncodedArgs(call)[call.b.args[k]]]
  BY DEF Instruction, Build, At, EncodedArgs
<1>0. \A k \in 1..n :
        /\ account(k).address = At(call, call.b.accounts[k].name)
        /\ account(k).writable = call.b.accounts[k].writable
        /\ account(k).signer = call.b.accounts[k].signer
  OBVIOUS
<1> HIDE DEF account
<1>2. s \in [1..n -> T]
  OBVIOUS
<1>3. \A k \in 1..n : s[k] = account(k)
  OBVIOUS
<1> HIDE DEF s, T, ins
<1>4. s \in Seq(T) /\ Len(s) = n
  BY <1>2
<1>5. /\ call.rest = <<>> \/ \E x : call.rest = <<x>>
      /\ Len(call.rest) \in {0, 1}
      /\ Len(call.rest) = 1 => ~ call.rest[1].signer
  <2>1. \A address, writable : ~ Also(address, writable).signer
    BY DEF Also
  <2>2. CASE call.rest = <<>>
    BY <2>2
  <2>3. ASSUME NEW address, NEW writable, call.rest = <<Also(address, writable)>>
        PROVE  /\ \E x : call.rest = <<x>>
               /\ Len(call.rest) = 1 /\ call.rest[1] = Also(address, writable)
    BY <2>3
  <2> QED
    BY <2>1, <2>2, <2>3 DEF Extended
<1>6. /\ DOMAIN ins.accounts = 1..n + Len(call.rest)
      /\ Len(ins.accounts) = n + Len(call.rest)
      /\ \A k \in 1..n : ins.accounts[k] = s[k]
      /\ \A k \in 1..n + Len(call.rest) : k \notin 1..n => ins.accounts[k] = call.rest[1]
  <2> DEFINE t == call.rest
  <2>1. ins.accounts = s \o t /\ (t = <<>> \/ \E x : t = <<x>>)
    BY <1>1, <1>5
  <2> HIDE DEF t
  <2>2. /\ DOMAIN (s \o t) = 1..Len(s) + Len(t)
        /\ Len(s \o t) = Len(s) + Len(t)
        /\ \A k \in 1..Len(s) : (s \o t)[k] = s[k]
        /\ \A k \in 1..Len(s) + Len(t) : k \notin 1..Len(s) => (s \o t)[k] = t[1]
    BY <1>4, <2>1, ConcatParts
  <2> QED
    BY <1>4, <2>1, <2>2 DEF t
<1>7. \A k \in DOMAIN ins.accounts : k \notin 1..n => ~ ins.accounts[k].signer
  BY <1>5, <1>6
<1> QED
  BY <1>0, <1>1, <1>3, <1>5, <1>6, <1>7 DEF ins

(* The accounts a builder names, ...                                        *)
NamesOf(b) == {b.accounts[k].name : k \in DOMAIN b.accounts}
(* ... and those it asks a signature of.                                    *)
SignersOf(b) == {b.accounts[k].name : k \in {j \in DOMAIN b.accounts : b.accounts[j].signer}}

(* What a program makes of a call whose builder matches its handler.        *)
LEMMA MatchedCall ==
  ASSUME NEW call, NEW h, NEW n, Matched(call.b, h, n), Extended(call)
  PROVE  LET ins == Instruction(call) IN
         /\ ~ FewAccounts(h, ins) /\ ~ Unprivileged(h, ins)
         /\ \A name \in NamesOf(call.b) : Bound(h, ins)[name] = At(call, name)
<1> DEFINE ins == Instruction(call)
<1>1. /\ n \in Nat /\ DOMAIN call.b.accounts = 1..n
      /\ DOMAIN h.accounts = 1..n /\ Len(h.accounts) = n
      /\ \A k \in 1..n :
           /\ call.b.accounts[k].name = h.accounts[k].name
           /\ h.accounts[k].writable => call.b.accounts[k].writable
           /\ h.accounts[k].signer => call.b.accounts[k].signer
      /\ \A j, k \in 1..n : h.accounts[j].name = h.accounts[k].name => j = k
  BY DEF Matched
<1>2. n \in Nat /\ DOMAIN call.b.accounts = 1..n
  BY <1>1
<1>3. /\ Len(ins.accounts) \in Nat /\ Len(ins.accounts) >= n
      /\ \A k \in 1..n :
           /\ ins.accounts[k].address = At(call, call.b.accounts[k].name)
           /\ ins.accounts[k].writable = call.b.accounts[k].writable
           /\ ins.accounts[k].signer = call.b.accounts[k].signer
  BY <1>2, BuiltCall, Zenon
<1> HIDE DEF ins
<1>4. ~ FewAccounts(h, ins)
  BY <1>1, <1>3 DEF FewAccounts
<1>5. ~ Unprivileged(h, ins)
  BY <1>1, <1>3 DEF Unprivileged
<1>6. ASSUME NEW k \in 1..n
      PROVE  Bound(h, ins)[call.b.accounts[k].name] = At(call, call.b.accounts[k].name)
  <2>1. Bound(h, ins)[h.accounts[k].name] = ins.accounts[k].address
    <3>1. (CHOOSE j \in DOMAIN h.accounts : h.accounts[j].name = h.accounts[k].name) = k
      BY <1>1
    <3>2. h.accounts[k].name \in {h.accounts[j].name : j \in DOMAIN h.accounts}
      BY <1>1
    <3> QED
      BY <3>1, <3>2 DEF Bound
  <2> QED
    BY <2>1, <1>1, <1>3
<1> QED
  BY <1>1, <1>4, <1>5, <1>6 DEF ins, NamesOf

(* Such a call has no problem of form when its addresses are the right ones. *)
LEMMA Formed ==
  ASSUME NEW call, NEW h, NEW n, Matched(call.b, h, n), Extended(call),
         Encodes(call), call.program \in {duel, RpsProgram, PermissionProgram},
         HandlerOf(Instruction(call)) = h,
         \A name \in SignersOf(call.b) : At(call, name) = call.signer,
         ~ Misaddressed(h, Instruction(call), chain),
         SignsForPda(Instruction(call), Bound(h, Instruction(call))),
         PermissionFits(Instruction(call), Bound(h, Instruction(call)))
  PROVE  ~ FormProblem(call)
<1> DEFINE ins == Instruction(call)
<1>1. n \in Nat /\ DOMAIN call.b.accounts = 1..n
  BY DEF Matched
<1>2. /\ ins.program = call.program
      /\ \A k \in 1..n : ins.accounts[k].signer = call.b.accounts[k].signer
                         /\ ins.accounts[k].address = At(call, call.b.accounts[k].name)
      /\ \A k \in DOMAIN ins.accounts : k \notin 1..n => ~ ins.accounts[k].signer
  BY <1>1, BuiltCall
<1>3. ~ FewAccounts(h, ins) /\ ~ Unprivileged(h, ins)
  BY MatchedCall
<1> HIDE DEF ins
<1>4. Deployed(ins)
  BY <1>2 DEF Deployed
<1>5. \A k \in DOMAIN ins.accounts :
        ins.accounts[k].signer => ins.accounts[k].address = call.signer
  <2> SUFFICES ASSUME NEW k \in DOMAIN ins.accounts, ins.accounts[k].signer
               PROVE  ins.accounts[k].address = call.signer
    OBVIOUS
  <2>1. k \in 1..n /\ call.b.accounts[k].signer
    BY <1>2
  <2>2. call.b.accounts[k].name \in SignersOf(call.b)
    BY <1>1, <2>1 DEF SignersOf
  <2> QED
    BY <1>2, <2>1, <2>2
<1> QED
  BY <1>3, <1>4, <1>5 DEF FormProblem, ins

-----------------------------------------------------------------------------
(* A fixed address is that address, whatever else is passed.                *)
LEMMA FixedRule ==
  ASSUME NEW x, NEW p, NEW a, NEW args, NEW c
  PROVE  /\ AddressBy(Fixed(x), p, a, args, c) = Program(x, p)
         /\ HasFields(Fixed(x), a, c)
BY DEF AddressBy, Fixed, HasFields

(* What the four kinds of accounts require; what an account holds does not  *)
(* change it.                                                               *)
LEMMA DescribedBy ==
  ASSUME NEW name, NEW type
  PROVE  /\ R(name).name = name /\ ~ R(name).writable /\ ~ R(name).signer
         /\ W(name).name = name /\ W(name).writable /\ ~ W(name).signer
         /\ S(name).name = name /\ ~ S(name).writable /\ S(name).signer
         /\ WS(name).name = name /\ WS(name).writable /\ WS(name).signer
         /\ LET x == Holding(R(name), type)
            IN  x.name = name /\ ~ x.writable /\ ~ x.signer
         /\ LET x == Holding(W(name), type) IN x.name = name /\ x.writable /\ ~ x.signer
         /\ LET x == New(W(name), type) IN x.name = name /\ x.writable /\ ~ x.signer
<1>1. /\ R(name).name = name /\ ~ R(name).writable /\ ~ R(name).signer
      /\ W(name).name = name /\ W(name).writable /\ ~ W(name).signer
      /\ S(name).name = name /\ ~ S(name).writable /\ S(name).signer
      /\ WS(name).name = name /\ WS(name).writable /\ WS(name).signer
  BY DEF R, W, S, WS, Described
<1>2. LET x == Holding(R(name), type) IN x.name = name /\ ~ x.writable /\ ~ x.signer
  BY DEF R, Holding, Described
<1>3. LET x == Holding(W(name), type) IN x.name = name /\ x.writable /\ ~ x.signer
  BY DEF W, Holding, Described
<1>4. LET x == New(W(name), type) IN x.name = name /\ x.writable /\ ~ x.signer
  BY DEF W, New, Described
<1> QED
  BY <1>1, <1>2, <1>3, <1>4

(* Every builder lists the accounts its handler expects.                    *)
LEMMA BuildersMatch ==
  /\ Matched(InitializeTenantBuilder, InitializeTenant, 3)
  /\ Matched(InitializeQueueBuilder, InitializeQueue, 4)
  /\ Matched(CreateTicketBuilder, CreateTicket, 4)
  /\ Matched(SetupQueuePermissionBuilder, SetupQueuePermission, 5)
  /\ Matched(SetupTicketPermissionBuilder, SetupTicketPermission, 6)
  /\ Matched(CancelTicketBuilder, CancelTicket, 3)
  /\ Matched(CloseTicketBuilder, CloseTicket, 3)
  /\ Matched(JoinQueueBuilder, JoinQueue, 5)
  /\ Matched(FlushMatchesBuilder, FlushMatches, 3)
  /\ Matched(CommitTicketsBuilder, CommitTickets, 4)
  /\ Matched(InitializePlayerBuilder, InitializePlayer, 4)
  /\ Matched(StartGameBuilder, StartGame, 3)
  /\ Matched(StartGameWithTicketBuilder, StartGameWithTicket, 4)
  /\ Matched(MakeChoiceBuilder, MakeChoice, 4)
  /\ Matched(PersistResultsBuilder, PersistResults, 6)
  /\ Matched(ClosePlayerBuilder, ClosePlayer, 3)
  /\ Matched(OnMatchFoundBuilder, OnMatchFound, 1)
<1> USE DescribedBy DEF Matched, Builder, Handler
<1>1. Matched(InitializeTenantBuilder, InitializeTenant, 3)
  BY DEF InitializeTenantBuilder, InitializeTenant
<1>2. Matched(InitializeQueueBuilder, InitializeQueue, 4)
  BY DEF InitializeQueueBuilder, InitializeQueue
<1>3. Matched(CreateTicketBuilder, CreateTicket, 4)
  BY DEF CreateTicketBuilder, CreateTicket
<1>4. Matched(SetupQueuePermissionBuilder, SetupQueuePermission, 5)
  BY DEF SetupQueuePermissionBuilder, SetupQueuePermission
<1>5. Matched(SetupTicketPermissionBuilder, SetupTicketPermission, 6)
  <2> DEFINE b == SetupTicketPermissionBuilder.accounts
             h == SetupTicketPermission.accounts
             names == <<"ticket", "tenant", "player", "permission", "permissionProgram",
                        "systemProgram">>
  <2>1. DOMAIN b = 1..6 /\ DOMAIN h = 1..6 /\ Len(h) = 6
    BY DEF SetupTicketPermissionBuilder, SetupTicketPermission
  <2>2. \A k \in 1..6 : b[k].name = names[k] /\ h[k].name = names[k]
    <3>1. \A k \in 1..6 : b[k].name = names[k]
      BY DEF SetupTicketPermissionBuilder
    <3>2. \A k \in 1..6 : h[k].name = names[k]
      BY DEF SetupTicketPermission
    <3> QED
      BY <3>1, <3>2
  <2>3. \A k \in 1..6 : (h[k].writable => b[k].writable) /\ (h[k].signer => b[k].signer)
    BY DEF SetupTicketPermissionBuilder, SetupTicketPermission
  <2>4. \A j, k \in 1..6 : names[j] = names[k] => j = k
    OBVIOUS
  <2> HIDE DEF b, h, names
  <2>5. /\ \A k \in 1..6 : b[k].name = h[k].name
        /\ \A j, k \in 1..6 : h[j].name = h[k].name => j = k
    BY <2>2, <2>4
  <2> QED
    BY <2>1, <2>3, <2>5 DEF b, h
<1>6. Matched(CancelTicketBuilder, CancelTicket, 3)
  BY DEF CancelTicketBuilder, CancelTicket
<1>7. Matched(CloseTicketBuilder, CloseTicket, 3)
  BY DEF CloseTicketBuilder, CloseTicket
<1>8. Matched(JoinQueueBuilder, JoinQueue, 5)
  BY DEF JoinQueueBuilder, JoinQueue
<1>9. Matched(FlushMatchesBuilder, FlushMatches, 3)
  BY DEF FlushMatchesBuilder, FlushMatches
<1>10. Matched(CommitTicketsBuilder, CommitTickets, 4)
  BY DEF CommitTicketsBuilder, CommitTickets
<1>11. Matched(InitializePlayerBuilder, InitializePlayer, 4)
  BY DEF InitializePlayerBuilder, InitializePlayer
<1>12. Matched(StartGameBuilder, StartGame, 3)
  BY DEF StartGameBuilder, StartGame
<1>13. Matched(StartGameWithTicketBuilder, StartGameWithTicket, 4)
  BY DEF StartGameWithTicketBuilder, StartGameWithTicket
<1>14. Matched(MakeChoiceBuilder, MakeChoice, 4)
  BY DEF MakeChoiceBuilder, MakeChoice
<1>15. Matched(PersistResultsBuilder, PersistResults, 6)
  BY DEF PersistResultsBuilder, PersistResults
<1>16. Matched(ClosePlayerBuilder, ClosePlayer, 3)
  BY DEF ClosePlayerBuilder, ClosePlayer
<1>17. Matched(OnMatchFoundBuilder, OnMatchFound, 1)
  BY DEF OnMatchFoundBuilder, OnMatchFound
<1> QED
  BY <1>1, <1>2, <1>3, <1>4, <1>5, <1>6, <1>7, <1>8, <1>9, <1>10, <1>11, <1>12, <1>13,
     <1>14, <1>15, <1>16, <1>17

(* The accounts of builders by name, and those that sign.                   *)
LEMMA BuildersList ==
  /\ NamesOf(InitializeTenantBuilder) = {"tenant", "authority", "systemProgram"}
  /\ SignersOf(InitializeTenantBuilder) = {"authority"}
  /\ NamesOf(InitializeQueueBuilder) = {"queue", "tenant", "authority", "systemProgram"}
  /\ SignersOf(InitializeQueueBuilder) = {"authority"}
  /\ NamesOf(CreateTicketBuilder) = {"ticket", "tenant", "player", "systemProgram"}
  /\ SignersOf(CreateTicketBuilder) = {"player"}
  /\ NamesOf(SetupQueuePermissionBuilder) = {"queue", "authority", "permission",
                                             "permissionProgram", "systemProgram"}
  /\ SignersOf(SetupQueuePermissionBuilder) = {"authority"}
  /\ NamesOf(SetupTicketPermissionBuilder) = {"ticket", "tenant", "player",
                                              "permission", "permissionProgram", "systemProgram"}
  /\ SignersOf(SetupTicketPermissionBuilder) = {"player"}
  /\ NamesOf(CancelTicketBuilder) = {"ticket", "tenant", "player"}
  /\ SignersOf(CancelTicketBuilder) = {"player"}
  /\ NamesOf(CloseTicketBuilder) = {"ticket", "tenant", "player"}
  /\ SignersOf(CloseTicketBuilder) = {"player"}
  /\ NamesOf(JoinQueueBuilder) = {"queue", "tenant", "playerData", "playerTicket",
                                  "signer"}
  /\ SignersOf(JoinQueueBuilder) = {"signer"}
  /\ NamesOf(FlushMatchesBuilder) = {"queue", "tenant", "signer"}
  /\ SignersOf(FlushMatchesBuilder) = {"signer"}
  /\ NamesOf(CommitTicketsBuilder) = {"tenant", "payer", "magicProgram", "magicContext"}
  /\ SignersOf(CommitTicketsBuilder) = {"payer"}
  /\ NamesOf(InitializePlayerBuilder) = {"profile", "player", "payer", "systemProgram"}
  /\ SignersOf(InitializePlayerBuilder) = {"player", "payer"}
  /\ NamesOf(StartGameBuilder) = {"gameSession", "player", "systemProgram"}
  /\ SignersOf(StartGameBuilder) = {"player"}
  /\ NamesOf(StartGameWithTicketBuilder) = {"gameSession", "player", "matchTicket",
                                            "systemProgram"}
  /\ SignersOf(StartGameWithTicketBuilder) = {"player"}
  /\ NamesOf(MakeChoiceBuilder) = {"gameSession", "player1Profile", "player2Profile",
                                   "player"}
  /\ SignersOf(MakeChoiceBuilder) = {"player"}
  /\ NamesOf(PersistResultsBuilder) = {"gameSession", "player1Profile",
                                       "player2Profile", "payer",
                                       "magicProgram", "magicContext"}
  /\ SignersOf(PersistResultsBuilder) = {"payer"}
  /\ NamesOf(ClosePlayerBuilder) = {"profile", "player", "payer"}
  /\ SignersOf(ClosePlayerBuilder) = {"player"}
  /\ NamesOf(OnMatchFoundBuilder) = {"signer"}
  /\ SignersOf(OnMatchFoundBuilder) = {"signer"}
<1> USE DEF NamesOf, SignersOf, Builder, W, R, S, WS, Described
<1>1. /\ NamesOf(InitializeTenantBuilder) = {"tenant", "authority", "systemProgram"}
      /\ SignersOf(InitializeTenantBuilder) = {"authority"}
  BY DEF InitializeTenantBuilder
<1>2. /\ NamesOf(InitializeQueueBuilder) = {"queue", "tenant", "authority",
                                            "systemProgram"}
      /\ SignersOf(InitializeQueueBuilder) = {"authority"}
  BY DEF InitializeQueueBuilder
<1>3. /\ NamesOf(CreateTicketBuilder) = {"ticket", "tenant", "player", "systemProgram"}
      /\ SignersOf(CreateTicketBuilder) = {"player"}
  BY DEF CreateTicketBuilder
<1>4. /\ NamesOf(SetupQueuePermissionBuilder) = {"queue", "authority", "permission",
                                                 "permissionProgram", "systemProgram"}
      /\ SignersOf(SetupQueuePermissionBuilder) = {"authority"}
  BY DEF SetupQueuePermissionBuilder
<1>5. /\ NamesOf(SetupTicketPermissionBuilder) = {"ticket", "tenant", "player",
                                                  "permission",
                                                  "permissionProgram", "systemProgram"}
      /\ SignersOf(SetupTicketPermissionBuilder) = {"player"}
  BY DEF SetupTicketPermissionBuilder
<1>6. /\ NamesOf(CancelTicketBuilder) = {"ticket", "tenant", "player"}
      /\ SignersOf(CancelTicketBuilder) = {"player"}
  BY DEF CancelTicketBuilder
<1>7. /\ NamesOf(CloseTicketBuilder) = {"ticket", "tenant", "player"}
      /\ SignersOf(CloseTicketBuilder) = {"player"}
  BY DEF CloseTicketBuilder
<1>8. /\ NamesOf(JoinQueueBuilder) = {"queue", "tenant", "playerData", "playerTicket",
                                      "signer"}
      /\ SignersOf(JoinQueueBuilder) = {"signer"}
  BY DEF JoinQueueBuilder
<1>9. /\ NamesOf(FlushMatchesBuilder) = {"queue", "tenant", "signer"}
      /\ SignersOf(FlushMatchesBuilder) = {"signer"}
  BY DEF FlushMatchesBuilder
<1>10. /\ NamesOf(CommitTicketsBuilder) = {"tenant", "payer", "magicProgram",
                                           "magicContext"}
      /\ SignersOf(CommitTicketsBuilder) = {"payer"}
  BY DEF CommitTicketsBuilder
<1>11. /\ NamesOf(InitializePlayerBuilder) = {"profile", "player", "payer",
                                              "systemProgram"}
      /\ SignersOf(InitializePlayerBuilder) = {"player", "payer"}
  BY DEF InitializePlayerBuilder
<1>12. /\ NamesOf(StartGameBuilder) = {"gameSession", "player", "systemProgram"}
      /\ SignersOf(StartGameBuilder) = {"player"}
  BY DEF StartGameBuilder
<1>13. /\ NamesOf(StartGameWithTicketBuilder) = {"gameSession", "player", "matchTicket",
                                                 "systemProgram"}
      /\ SignersOf(StartGameWithTicketBuilder) = {"player"}
  BY DEF StartGameWithTicketBuilder
<1>14. /\ NamesOf(MakeChoiceBuilder) = {"gameSession", "player1Profile",
                                        "player2Profile", "player"}
      /\ SignersOf(MakeChoiceBuilder) = {"player"}
  BY DEF MakeChoiceBuilder
<1>15. /\ NamesOf(PersistResultsBuilder) = {"gameSession", "player1Profile",
                                            "player2Profile", "payer",
                                            "magicProgram", "magicContext"}
      /\ SignersOf(PersistResultsBuilder) = {"payer"}
  BY DEF PersistResultsBuilder
<1>16. /\ NamesOf(ClosePlayerBuilder) = {"profile", "player", "payer"}
      /\ SignersOf(ClosePlayerBuilder) = {"player"}
  BY DEF ClosePlayerBuilder
<1>17. /\ NamesOf(OnMatchFoundBuilder) = {"signer"}
      /\ SignersOf(OnMatchFoundBuilder) = {"signer"}
  BY DEF OnMatchFoundBuilder
<1> QED
  BY <1>1, <1>2, <1>3, <1>4, <1>5, <1>6, <1>7, <1>8, <1>9, <1>10, <1>11, <1>12, <1>13,
     <1>14, <1>15, <1>16, <1>17

(* The mark of the called program is not the name of a program.             *)
LEMMA SelfApart ==
  Self \notin {SystemProgram, DelegationProgram, MagicProgram, MagicContext,
              RpsProgram, DuelProgram, PermissionProgram}
BY DEF Self, SystemProgram, DelegationProgram, MagicProgram, MagicContext, RpsProgram,
       DuelProgram, PermissionProgram, Key

(* It stands for the called program, and every other name for itself.       *)
LEMMA ProgramOf ==
  ASSUME NEW p
  PROVE  /\ Program(Self, p) = p
         /\ \A x \in {SystemProgram, DelegationProgram, MagicProgram, MagicContext,
                     RpsProgram, DuelProgram, PermissionProgram} : Program(x, p) = x
BY SelfApart DEF Program

(* An address under a program from a text and one account.                  *)
LEMMA PairDerived ==
  ASSUME NEW program, NEW text, NEW name, NEW p, NEW a, NEW args, NEW c
  PROVE  AddressBy(Derived(program, <<Text(text), Of(name)>>), p, a, args, c) =
           Pda(Program(program, p), <<Key(text), a[name]>>)
<1> DEFINE r == Derived(program, <<Text(text), Of(name)>>)
<1>1. /\ "address" \notin DOMAIN r /\ r.program = program
      /\ r.seeds = <<Text(text), Of(name)>>
  BY DEF Derived
<1> HIDE DEF r
<1>2. Seed(Text(text), a, args, c) = Key(text) /\ Seed(Of(name), a, args, c) = a[name]
  BY DEF Seed, Text, Of
<1>3. [k \in DOMAIN r.seeds |-> Seed(r.seeds[k], a, args, c)] = <<Key(text), a[name]>>
  BY <1>1, <1>2
<1> QED
  BY <1>1, <1>3 DEF AddressBy, r

(* The queue of an authority, and the ticket of a player.                   *)
LEMMA RulesDerive ==
  ASSUME NEW p, NEW a, NEW args, NEW c
  PROVE  /\ AddressBy(QueueSeeds, p, a, args, c) = QueuePda(p, a.authority)
         /\ AddressBy(TicketSeeds, p, a, args, c) = TicketPda(p, a.player, a.tenant)
<1>1. AddressBy(QueueSeeds, p, a, args, c) = QueuePda(p, a.authority)
  BY PairDerived, ProgramOf DEF QueueSeeds, QueuePda
<1> DEFINE r == TicketSeeds
<1>2. /\ "address" \notin DOMAIN r /\ r.program = Self
      /\ r.seeds = <<Text("ticket"), Of("player"), Of("tenant")>>
  BY DEF TicketSeeds, Derived
<1> HIDE DEF r
<1>3. /\ Seed(Text("ticket"), a, args, c) = Key("ticket")
      /\ \A name : Seed(Of(name), a, args, c) = a[name]
  BY DEF Seed, Text, Of
<1>4. [k \in DOMAIN r.seeds |-> Seed(r.seeds[k], a, args, c)] =
        <<Key("ticket"), a.player, a.tenant>>
  BY <1>2, <1>3
<1>5. AddressBy(r, p, a, args, c) = TicketPda(p, a.player, a.tenant)
  BY <1>2, <1>4, ProgramOf DEF AddressBy, TicketPda
<1> QED
  BY <1>1, <1>5 DEF r

(* An account that is given is passed as it is; ...                         *)
LEMMA GivenAt ==
  ASSUME NEW call, NEW name \in DOMAIN call.given
  PROVE  At(call, name) = call.given[name]
BY DEF At, Resolved

(* ... one that is not has the address its builder derives.                 *)
LEMMA DefaultAt ==
  ASSUME NEW call, NEW name \in DOMAIN call.b.defaults, name \notin DOMAIN call.given
  PROVE  At(call, name) =
           AddressBy(call.b.defaults[name], call.program, call.given, EncodedArgs(call),
                     <<>>)
BY DEF At, Resolved

(* The rules of a handler that creates an account.                          *)
LEMMA SystemRules ==
  ASSUME NEW rules
  PROVE  /\ DOMAIN System(rules) = DOMAIN rules \cup {"systemProgram"}
         /\ System(rules)["systemProgram"] = Fixed(SystemProgram)
BY DEF System

(* The program that is called handles the call.                             *)
LEMMA HandledBy ==
  ASSUME NEW call, duel \in Deployments
  PROVE  /\ call.program = duel => HandlerOf(Instruction(call)) = DuelHandlers[call.b.name]
         /\ call.program = RpsProgram => HandlerOf(Instruction(call)) = RpsHandlers[call.b.name]
         /\ call.program = PermissionProgram => HandlerOf(Instruction(call)) = PermissionHandler
<1>1. Instruction(call).program = call.program /\ Instruction(call).name = call.b.name
  BY DEF Instruction, Build
<1>2. duel # RpsProgram /\ duel # PermissionProgram
  BY LaunchAssumption
<1> QED
  BY <1>1, <1>2, Programs DEF HandlerOf

-----------------------------------------------------------------------------
(* Builders that fill in what handlers derive. *)

(* Two rules mean the same when the program p is called.                    *)
SameRule(r, d, p) ==
  IF "address" \in DOMAIN r
  THEN "address" \in DOMAIN d /\ Program(r.address, p) = Program(d.address, p)
  ELSE "address" \notin DOMAIN d /\ Program(r.program, p) = Program(d.program, p)
       /\ r.seeds = d.seeds

(* A seed both sides know: a text, an account that was given, an argument.  *)
Known(seed, b, given) ==
  \/ seed[1] = "text"
  \/ seed[1] = "account" /\ seed[2] \in given \cap NamesOf(b)
  \/ seed[1] = "arg" /\ \E k \in DOMAIN b.args : b.args[k] = seed[2]

(* Of every account the handler has a rule for, the builder's default, when *)
(* no address is given, is that rule, from seeds both sides know.           *)
Fills(b, h, given, p) ==
  \A name \in DOMAIN h.rules :
    /\ name \in NamesOf(b) /\ name \in DOMAIN b.defaults /\ name \notin given
    /\ SameRule(h.rules[name], b.defaults[name], p)
    /\ "address" \notin DOMAIN h.rules[name] =>
         \A k \in DOMAIN h.rules[name].seeds : Known(h.rules[name].seeds[k], b, given)

(* A builder and a handler list the same arguments in the same order.       *)
SameArgs(b, h) ==
  /\ h.args = b.args
  /\ \A j, k \in DOMAIN b.args : b.args[j] = b.args[k] => j = k

(* What the handler decodes under a name is what was encoded under it.      *)
LEMMA ArgsKept ==
  ASSUME NEW call, NEW h, SameArgs(call.b, h), NEW k \in DOMAIN call.b.args
  PROVE  Args(h, Instruction(call))[call.b.args[k]] = EncodedArgs(call)[call.b.args[k]]
<1>1. Instruction(call).args = [j \in DOMAIN call.b.args |-> EncodedArgs(call)[call.b.args[j]]]
  BY DEF Instruction, Build, EncodedArgs
<1>2. (CHOOSE j \in DOMAIN h.args : h.args[j] = call.b.args[k]) = k
  BY DEF SameArgs
<1>3. call.b.args[k] \in {h.args[j] : j \in DOMAIN h.args}
  BY DEF SameArgs
<1> QED
  BY <1>1, <1>2, <1>3 DEF Args

(* A builder that fills in addresses by the handler's rules finds the       *)
(* addresses the handler finds.                                             *)
LEMMA FilledRight ==
  ASSUME NEW call, NEW h, NEW n, Matched(call.b, h, n), Extended(call),
         SameArgs(call.b, h), Fills(call.b, h, DOMAIN call.given, call.program)
  PROVE  ~ Misaddressed(h, Instruction(call), chain)
<1> DEFINE ins == Instruction(call)
           a == Bound(h, ins)
           args == Args(h, ins)
           p == call.program
<1>1. ins.program = p
  BY DEF Instruction, Build
<1>2. \A name \in NamesOf(call.b) : a[name] = At(call, name)
  BY MatchedCall
<1>3. \A k \in DOMAIN call.b.args :
        args[call.b.args[k]] = EncodedArgs(call)[call.b.args[k]]
  BY ArgsKept
<1> HIDE DEF ins, a, args
<1>4. ASSUME NEW name \in DOMAIN h.rules
      PROVE  a[name] = AddressBy(h.rules[name], p, a, args, chain)
  <2> DEFINE r == h.rules[name]
             d == call.b.defaults[name]
  <2>1. /\ name \in NamesOf(call.b)
        /\ name \in DOMAIN call.b.defaults /\ name \notin DOMAIN call.given
        /\ SameRule(r, d, p)
        /\ "address" \notin DOMAIN r =>
             \A k \in DOMAIN r.seeds : Known(r.seeds[k], call.b, DOMAIN call.given)
    BY DEF Fills
  <2>2. a[name] = AddressBy(d, p, call.given, EncodedArgs(call), <<>>)
    BY <1>2, <2>1, DefaultAt
  <2> HIDE DEF r, d
  <2>3. CASE "address" \in DOMAIN r
    BY <2>1, <2>2, <2>3 DEF SameRule, AddressBy, r
  <2>4. CASE "address" \notin DOMAIN r
    <3>1. ASSUME NEW k \in DOMAIN r.seeds
          PROVE  Seed(r.seeds[k], call.given, EncodedArgs(call), <<>>) =
                   Seed(r.seeds[k], a, args, chain)
      <4> DEFINE seed == r.seeds[k]
      <4>1. Known(seed, call.b, DOMAIN call.given)
        BY <2>1, <2>4
      <4> HIDE DEF seed
      <4>2. CASE seed[1] = "text"
        BY <4>2 DEF Seed, seed
      <4>3. CASE seed[1] = "account" /\ seed[2] \in DOMAIN call.given \cap NamesOf(call.b)
        <5>1. a[seed[2]] = call.given[seed[2]]
          BY <1>2, <4>3, GivenAt
        <5> QED
          BY <4>3, <5>1 DEF Seed, seed
      <4>4. CASE seed[1] = "arg" /\ \E j \in DOMAIN call.b.args : call.b.args[j] = seed[2]
        <5>1. args[seed[2]] = EncodedArgs(call)[seed[2]]
          BY <1>3, <4>4
        <5> QED
          BY <4>4, <5>1 DEF Seed, seed
      <4> QED
        BY <4>1, <4>2, <4>3, <4>4 DEF Known
    <3>2. [k \in DOMAIN r.seeds |-> Seed(r.seeds[k], call.given, EncodedArgs(call),
                                         <<>>)] =
            [k \in DOMAIN r.seeds |-> Seed(r.seeds[k], a, args, chain)]
      BY <3>1
    <3>3. AddressBy(d, p, call.given, EncodedArgs(call), <<>>) =
            Pda(Program(r.program, p),
                [k \in DOMAIN r.seeds |-> Seed(r.seeds[k], call.given,
                                               EncodedArgs(call), <<>>)])
      BY <2>1, <2>4 DEF SameRule, AddressBy
    <3>4. AddressBy(r, p, a, args, chain) =
            Pda(Program(r.program, p),
                [k \in DOMAIN r.seeds |-> Seed(r.seeds[k], a, args, chain)])
      BY <2>4 DEF AddressBy
    <3> QED
      BY <2>2, <3>2, <3>3, <3>4 DEF r
  <2> QED
    BY <2>3, <2>4
<1> QED
  BY <1>1, <1>4 DEF Misaddressed, ins, a, args

(* Builders and handlers agree about arguments, ...                         *)
LEMMA BuildersEncode ==
  /\ SameArgs(InitializeTenantBuilder, InitializeTenant)
  /\ SameArgs(InitializeQueueBuilder, InitializeQueue)
  /\ SameArgs(CreateTicketBuilder, CreateTicket)
  /\ SameArgs(SetupQueuePermissionBuilder, SetupQueuePermission)
  /\ SameArgs(SetupTicketPermissionBuilder, SetupTicketPermission)
  /\ SameArgs(CancelTicketBuilder, CancelTicket)
  /\ SameArgs(CloseTicketBuilder, CloseTicket)
  /\ SameArgs(JoinQueueBuilder, JoinQueue)
  /\ SameArgs(FlushMatchesBuilder, FlushMatches)
  /\ SameArgs(CommitTicketsBuilder, CommitTickets)
  /\ SameArgs(InitializePlayerBuilder, InitializePlayer)
  /\ SameArgs(StartGameBuilder, StartGame)
  /\ SameArgs(StartGameWithTicketBuilder, StartGameWithTicket)
  /\ SameArgs(PersistResultsBuilder, PersistResults)
  /\ SameArgs(ClosePlayerBuilder, ClosePlayer)
  /\ SameArgs(OnMatchFoundBuilder, OnMatchFound)
  /\ SameArgs(MakeChoiceBuilder, MakeChoice)
<1> USE DEF SameArgs, Builder, Handler
<1>1. SameArgs(InitializeTenantBuilder, InitializeTenant)
  BY DEF InitializeTenantBuilder, InitializeTenant
<1>2. SameArgs(InitializeQueueBuilder, InitializeQueue)
  BY DEF InitializeQueueBuilder, InitializeQueue
<1>3. SameArgs(CreateTicketBuilder, CreateTicket)
  BY DEF CreateTicketBuilder, CreateTicket
<1>4. SameArgs(SetupQueuePermissionBuilder, SetupQueuePermission)
  BY DEF SetupQueuePermissionBuilder, SetupQueuePermission
<1>5. SameArgs(SetupTicketPermissionBuilder, SetupTicketPermission)
  BY DEF SetupTicketPermissionBuilder, SetupTicketPermission
<1>6. SameArgs(CancelTicketBuilder, CancelTicket)
  BY DEF CancelTicketBuilder, CancelTicket
<1>7. SameArgs(CloseTicketBuilder, CloseTicket)
  BY DEF CloseTicketBuilder, CloseTicket
<1>8. SameArgs(JoinQueueBuilder, JoinQueue)
  BY DEF JoinQueueBuilder, JoinQueue
<1>9. SameArgs(FlushMatchesBuilder, FlushMatches)
  BY DEF FlushMatchesBuilder, FlushMatches
<1>10. SameArgs(CommitTicketsBuilder, CommitTickets)
  BY DEF CommitTicketsBuilder, CommitTickets
<1>11. SameArgs(InitializePlayerBuilder, InitializePlayer)
  BY DEF InitializePlayerBuilder, InitializePlayer
<1>12. SameArgs(StartGameBuilder, StartGame)
  BY DEF StartGameBuilder, StartGame
<1>13. SameArgs(StartGameWithTicketBuilder, StartGameWithTicket)
  BY DEF StartGameWithTicketBuilder, StartGameWithTicket
<1>14. SameArgs(PersistResultsBuilder, PersistResults)
  BY DEF PersistResultsBuilder, PersistResults
<1>15. SameArgs(ClosePlayerBuilder, ClosePlayer)
  BY DEF ClosePlayerBuilder, ClosePlayer
<1>16. SameArgs(OnMatchFoundBuilder, OnMatchFound)
  BY DEF OnMatchFoundBuilder, OnMatchFound
<1>17. SameArgs(MakeChoiceBuilder, MakeChoice)
  BY DEF MakeChoiceBuilder, MakeChoice
<1> QED
  BY <1>1, <1>2, <1>3, <1>4, <1>5, <1>6, <1>7, <1>8, <1>9, <1>10, <1>11, <1>12, <1>13,
     <1>14, <1>15, <1>16, <1>17

(* ... and builders fill in what clients leave out of a call.               *)
LEMMA BuildersFill ==
  ASSUME NEW p
  PROVE  /\ Fills(InitializeTenantBuilder, InitializeTenant, {"authority"}, p)
         /\ Fills(InitializeQueueBuilder, InitializeQueue, {"authority", "tenant"}, p)
         /\ Fills(CreateTicketBuilder, CreateTicket, {"player", "tenant"}, p)
         /\ Fills(SetupQueuePermissionBuilder, SetupQueuePermission,
                  {"authority", "permission", "permissionProgram"}, p)
         /\ Fills(SetupTicketPermissionBuilder, SetupTicketPermission,
                  {"player", "tenant", "permission", "permissionProgram"}, p)
         /\ Fills(CancelTicketBuilder, CancelTicket, {"player", "tenant"}, p)
         /\ Fills(CloseTicketBuilder, CloseTicket, {"player", "tenant"}, p)
         /\ Fills(JoinQueueBuilder, JoinQueue,
                  {"queue", "tenant", "playerData", "signer"}, p)
         /\ Fills(FlushMatchesBuilder, FlushMatches, {"queue", "tenant", "signer"}, p)
         /\ Fills(CommitTicketsBuilder, CommitTickets, {"tenant", "payer"}, p)
         /\ Fills(InitializePlayerBuilder, InitializePlayer, {"player", "payer"}, p)
         /\ Fills(StartGameBuilder, StartGame, {"player"}, p)
         /\ Fills(StartGameWithTicketBuilder, StartGameWithTicket,
                  {"player", "matchTicket"}, p)
         /\ Fills(PersistResultsBuilder, PersistResults,
                  {"gameSession", "player1Profile", "player2Profile", "payer"}, p)
         /\ Fills(ClosePlayerBuilder, ClosePlayer, {"player", "payer"}, p)
         /\ Fills(OnMatchFoundBuilder, OnMatchFound, {"signer"}, p)
<1>1. Fills(InitializeTenantBuilder, InitializeTenant, {"authority"}, p)
  <2>1. /\ DOMAIN InitializeTenant.rules = {"tenant", "systemProgram"}
        /\ InitializeTenant.rules["tenant"] = TenantSeeds
        /\ InitializeTenant.rules["systemProgram"] = Fixed(SystemProgram)
    BY SystemRules, SystemRule DEF InitializeTenant, Handler
  <2>2. /\ DOMAIN InitializeTenantBuilder.defaults = {"tenant", "systemProgram"}
        /\ InitializeTenantBuilder.defaults["tenant"] = TenantSeeds
        /\ InitializeTenantBuilder.defaults["systemProgram"] = Fixed(SystemProgram)
    BY DEF InitializeTenantBuilder, Builder, SystemDefault, TenantSeeds
  <2> QED
    BY <2>1, <2>2, BuildersList
    DEF Fills, SameRule, Known, Fixed, Derived, Text, Of, TenantSeeds
<1>2. Fills(InitializeQueueBuilder, InitializeQueue, {"authority", "tenant"}, p)
  <2>1. /\ DOMAIN InitializeQueue.rules = {"queue", "systemProgram"}
        /\ InitializeQueue.rules["queue"] = QueueSeeds
        /\ InitializeQueue.rules["systemProgram"] = Fixed(SystemProgram)
    BY SystemRules, SystemRule DEF InitializeQueue, Handler
  <2>2. /\ DOMAIN InitializeQueueBuilder.defaults = {"queue", "systemProgram"}
        /\ InitializeQueueBuilder.defaults["queue"] = QueueSeeds
        /\ InitializeQueueBuilder.defaults["systemProgram"] = Fixed(SystemProgram)
    BY DEF InitializeQueueBuilder, Builder, SystemDefault, QueueSeeds
  <2> QED
    BY <2>1, <2>2, BuildersList
    DEF Fills, SameRule, Known, Fixed, Derived, Text, Of, QueueSeeds
<1>3. Fills(CreateTicketBuilder, CreateTicket, {"player", "tenant"}, p)
  <2>1. /\ DOMAIN CreateTicket.rules = {"ticket", "systemProgram"}
        /\ CreateTicket.rules["ticket"] = TicketSeeds
        /\ CreateTicket.rules["systemProgram"] = Fixed(SystemProgram)
    BY SystemRules, SystemRule DEF CreateTicket, Handler
  <2>2. /\ DOMAIN CreateTicketBuilder.defaults = {"ticket", "systemProgram"}
        /\ CreateTicketBuilder.defaults["ticket"] = TicketSeeds
        /\ CreateTicketBuilder.defaults["systemProgram"] = Fixed(SystemProgram)
    BY DEF CreateTicketBuilder, Builder, SystemDefault, TicketSeeds, TicketDefault
  <2> QED
    BY <2>1, <2>2, BuildersList
    DEF Fills, SameRule, Known, Fixed, Derived, Text, Of, TicketSeeds
<1>4. Fills(SetupQueuePermissionBuilder, SetupQueuePermission,
            {"authority", "permission", "permissionProgram"}, p)
  <2>1. /\ DOMAIN SetupQueuePermission.rules = {"queue", "systemProgram"}
        /\ SetupQueuePermission.rules["queue"] = QueueSeeds
        /\ SetupQueuePermission.rules["systemProgram"] = Fixed(SystemProgram)
    BY SystemRules, SystemRule DEF SetupQueuePermission, Handler
  <2>2. /\ DOMAIN SetupQueuePermissionBuilder.defaults = {"queue", "systemProgram"}
        /\ SetupQueuePermissionBuilder.defaults["queue"] = QueueSeeds
        /\ SetupQueuePermissionBuilder.defaults["systemProgram"] = Fixed(SystemProgram)
    BY DEF SetupQueuePermissionBuilder, Builder, SystemDefault, QueueSeeds
  <2> QED
    BY <2>1, <2>2, BuildersList
    DEF Fills, SameRule, Known, Fixed, Derived, Text, Of, QueueSeeds
<1>5. Fills(SetupTicketPermissionBuilder, SetupTicketPermission,
            {"player", "tenant", "permission", "permissionProgram"}, p)
  <2>1. /\ DOMAIN SetupTicketPermission.rules = {"ticket", "systemProgram"}
        /\ SetupTicketPermission.rules["ticket"] = TicketSeeds
        /\ SetupTicketPermission.rules["systemProgram"] = Fixed(SystemProgram)
    BY SystemRules, SystemRule DEF SetupTicketPermission, Handler
  <2>2. /\ DOMAIN SetupTicketPermissionBuilder.defaults = {"ticket", "systemProgram"}
        /\ SetupTicketPermissionBuilder.defaults["ticket"] = TicketSeeds
        /\ SetupTicketPermissionBuilder.defaults["systemProgram"] = Fixed(SystemProgram)
    BY DEF SetupTicketPermissionBuilder, Builder, SystemDefault, TicketSeeds, TicketDefault
  <2> QED
    BY <2>1, <2>2, BuildersList
    DEF Fills, SameRule, Known, Fixed, Derived, Text, Of, TicketSeeds
<1>6. Fills(CancelTicketBuilder, CancelTicket, {"player", "tenant"}, p)
  <2>1. CancelTicket.rules = [ticket |-> TicketSeeds]
    BY DEF CancelTicket, Handler
  <2>2. CancelTicketBuilder.defaults = [ticket |-> TicketSeeds]
    BY DEF CancelTicketBuilder, Builder, TicketSeeds, TicketDefault
  <2> QED
    BY <2>1, <2>2, BuildersList DEF Fills, SameRule, Known, Derived, Text, Of, TicketSeeds
<1>7. Fills(CloseTicketBuilder, CloseTicket, {"player", "tenant"}, p)
  <2>1. CloseTicket.rules = [ticket |-> TicketSeeds]
    BY DEF CloseTicket, Handler
  <2>2. CloseTicketBuilder.defaults = [ticket |-> TicketSeeds]
    BY DEF CloseTicketBuilder, Builder, TicketSeeds, TicketDefault
  <2> QED
    BY <2>1, <2>2, BuildersList DEF Fills, SameRule, Known, Derived, Text, Of, TicketSeeds
<1>8. Fills(JoinQueueBuilder, JoinQueue, {"queue", "tenant", "playerData", "signer"}, p)
  <2> DEFINE rule == Derived(Self, <<Text("ticket"), Of("signer"), Of("tenant")>>)
  <2>1. JoinQueue.rules = [playerTicket |-> rule]
    BY DEF JoinQueue, Handler
  <2>2. JoinQueueBuilder.defaults = [playerTicket |-> rule]
    BY DEF JoinQueueBuilder, Builder
  <2> QED
    BY <2>1, <2>2, BuildersList DEF Fills, SameRule, Known, Derived, Text, Of
<1>9. Fills(FlushMatchesBuilder, FlushMatches, {"queue", "tenant", "signer"}, p)
  BY BuildersList
  DEF FlushMatchesBuilder, FlushMatches, Builder, Handler, Fills, SameRule, Known,
      Fixed, Derived, Text, Of
<1>10. Fills(CommitTicketsBuilder, CommitTickets, {"tenant", "payer"}, p)
  BY BuildersList
  DEF CommitTicketsBuilder, CommitTickets, Builder, Handler, Fills, SameRule, Known,
      Fixed, Derived, Text, Of
<1>11. Fills(InitializePlayerBuilder, InitializePlayer, {"player", "payer"}, p)
  <2>1. /\ DOMAIN InitializePlayer.rules = {"profile", "systemProgram"}
        /\ InitializePlayer.rules["profile"] = ProfileDefault
        /\ InitializePlayer.rules["systemProgram"] = Fixed(SystemProgram)
    BY SystemRules, SystemRule DEF InitializePlayer, Handler, ProfileDefault
  <2>2. /\ DOMAIN InitializePlayerBuilder.defaults = {"profile", "systemProgram"}
        /\ InitializePlayerBuilder.defaults["profile"] = ProfileDefault
        /\ InitializePlayerBuilder.defaults["systemProgram"] = Fixed(SystemProgram)
    BY DEF InitializePlayerBuilder, Builder, SystemDefault, ProfileDefault
  <2> QED
    BY <2>1, <2>2, BuildersList
    DEF Fills, SameRule, Known, Fixed, Derived, Text, Of, ProfileDefault
<1>12. Fills(StartGameBuilder, StartGame, {"player"}, p)
  <2>1. /\ DOMAIN StartGame.rules = {"gameSession", "systemProgram"}
        /\ StartGame.rules["gameSession"] = SessionSeeds
        /\ StartGame.rules["systemProgram"] = Fixed(SystemProgram)
    <3>1. StartGame.rules = System([gameSession |-> SessionSeeds])
      BY DEF StartGame, Handler
    <3> QED
      BY <3>1, SystemRules, SystemRule
  <2>2. /\ DOMAIN StartGameBuilder.defaults = {"gameSession", "systemProgram"}
        /\ StartGameBuilder.defaults["gameSession"] = SessionSeeds
        /\ StartGameBuilder.defaults["systemProgram"] = Fixed(SystemProgram)
    BY DEF StartGameBuilder, Builder, SystemDefault, SessionSeeds, SessionDefault
  <2> QED
    BY <2>1, <2>2, BuildersList
    DEF Fills, SameRule, Known, Fixed, Derived, Text, Of, SessionSeeds, Arg,
        StartGameBuilder, Builder
<1>13. Fills(StartGameWithTicketBuilder, StartGameWithTicket, {"player", "matchTicket"},
             p)
  <2>1. /\ DOMAIN StartGameWithTicket.rules = {"gameSession", "systemProgram"}
        /\ StartGameWithTicket.rules["gameSession"] = SessionSeeds
        /\ StartGameWithTicket.rules["systemProgram"] = Fixed(SystemProgram)
    <3>1. StartGameWithTicket.rules = System([gameSession |-> SessionSeeds])
      BY DEF StartGameWithTicket, Handler
    <3> QED
      BY <3>1, SystemRules, SystemRule
  <2>2. /\ DOMAIN StartGameWithTicketBuilder.defaults = {"gameSession", "systemProgram"}
        /\ StartGameWithTicketBuilder.defaults["gameSession"] = SessionSeeds
        /\ StartGameWithTicketBuilder.defaults["systemProgram"] = Fixed(SystemProgram)
    BY DEF StartGameWithTicketBuilder, Builder, SystemDefault, SessionSeeds, SessionDefault
  <2> QED
    BY <2>1, <2>2, BuildersList
    DEF Fills, SameRule, Known, Fixed, Derived, Text, Of, SessionSeeds, Arg,
        StartGameWithTicketBuilder, Builder
<1>14. Fills(PersistResultsBuilder, PersistResults,
             {"gameSession", "player1Profile", "player2Profile", "payer"}, p)
  BY BuildersList
  DEF PersistResultsBuilder, PersistResults, Builder, Handler, Fills, SameRule, Known,
      Fixed, Derived, Text, Of
<1>15. Fills(ClosePlayerBuilder, ClosePlayer, {"player", "payer"}, p)
  BY BuildersList
  DEF ClosePlayerBuilder, ClosePlayer, ProfileDefault, Builder, Handler, Fills,
      SameRule, Known, Fixed, Derived, Text, Of
<1>16. Fills(OnMatchFoundBuilder, OnMatchFound, {"signer"}, p)
  BY BuildersList
  DEF OnMatchFoundBuilder, OnMatchFound, Builder, Handler, Fills, SameRule, Known,
      Fixed, Derived, Text, Of
<1> QED
  BY <1>1, <1>2, <1>3, <1>4, <1>5, <1>6, <1>7, <1>8, <1>9, <1>10, <1>11, <1>12, <1>13,
     <1>14, <1>15, <1>16

-----------------------------------------------------------------------------
(* The calls that have no problem of form. *)

(* Most calls delegate nothing and set up no permission.                    *)
LEMMA PlainFormed ==
  ASSUME NEW call, NEW h, NEW n, Matched(call.b, h, n), Extended(call),
         SameArgs(call.b, h),
         Fills(call.b, h, DOMAIN call.given, call.program),
         "accountType" \notin DOMAIN call.args,
         call.b.name \notin Delegations \cup PermissionSetups, duel \in Deployments,
         \/ call.program = duel /\ DuelHandlers[call.b.name] = h
         \/ call.program = RpsProgram /\ RpsHandlers[call.b.name] = h,
         \A name \in SignersOf(call.b) :
           name \in DOMAIN call.given /\ call.given[name] = call.signer
  PROVE  ~ FormProblem(call)
<1> DEFINE ins == Instruction(call)
<1>1. Encodes(call)
  BY DEF Encodes
<1>2. ins.name = call.b.name /\ ins.program = call.program
  BY DEF Instruction, Build
<1>3. HandlerOf(ins) = h
  BY HandledBy
<1>4. ~ Misaddressed(h, ins, chain)
  BY FilledRight
<1>5. SignsForPda(ins, Bound(h, ins)) /\ PermissionFits(ins, Bound(h, ins))
  BY <1>2 DEF SignsForPda, PermissionFits
<1>6. \A name \in SignersOf(call.b) : At(call, name) = call.signer
  BY GivenAt
<1> QED
  BY <1>1, <1>3, <1>4, <1>5, <1>6, Formed

(* initializeTenant, as the set-up script and the integrator call it.       *)
LEMMA TenantFormed ==
  ASSUME NEW o, duel \in Deployments
  PROVE  ~ FormProblem(TenantCall(o))
<1> DEFINE call == TenantCall(o)
<1>1. /\ call.b = InitializeTenantBuilder /\ call.program = duel /\ call.signer = Operator
      /\ call.given = [authority |-> Operator]
      /\ call.rest = <<>> /\ "accountType" \notin DOMAIN call.args
  BY DEF TenantCall, Call
<1> HIDE DEF call
<1>2. /\ Matched(call.b, InitializeTenant, 3) /\ SameArgs(call.b, InitializeTenant)
      /\ Fills(call.b, InitializeTenant, DOMAIN call.given, call.program)
      /\ \A name \in SignersOf(call.b) :
           name \in DOMAIN call.given /\ call.given[name] = call.signer
  BY <1>1, BuildersMatch, BuildersEncode, BuildersFill, BuildersList DEF mine, JoinGiven
<1>3. /\ DuelHandlers[call.b.name] = InitializeTenant
      /\ call.b.name \notin Delegations \cup PermissionSetups
  <2>1. call.b.name = "initializeTenant"
    BY <1>1 DEF InitializeTenantBuilder, Builder
  <2> QED
    BY <2>1 DEF DuelHandlers, Delegations, PermissionSetups
<1>4. Extended(call)
  BY <1>1 DEF Extended, CommittedTicket
<1> QED
  BY <1>1, <1>2, <1>3, <1>4, PlainFormed DEF call

(* initializeQueue, as the set-up script calls it.                          *)
LEMMA QueueFormed ==
  ASSUME duel \in Deployments
  PROVE  ~ FormProblem(QueueCall)
<1> DEFINE call == QueueCall
<1>1. /\ call.b = InitializeQueueBuilder /\ call.program = duel /\ call.signer = Operator
      /\ call.given = [authority |-> Operator, tenant |-> tenantPda]
      /\ call.rest = <<>> /\ "accountType" \notin DOMAIN call.args
  BY DEF QueueCall, Call
<1> HIDE DEF call
<1>2. /\ Matched(call.b, InitializeQueue, 4) /\ SameArgs(call.b, InitializeQueue)
      /\ Fills(call.b, InitializeQueue, DOMAIN call.given, call.program)
      /\ \A name \in SignersOf(call.b) :
           name \in DOMAIN call.given /\ call.given[name] = call.signer
  BY <1>1, BuildersMatch, BuildersEncode, BuildersFill, BuildersList DEF mine, JoinGiven
<1>3. /\ DuelHandlers[call.b.name] = InitializeQueue
      /\ call.b.name \notin Delegations \cup PermissionSetups
  <2>1. call.b.name = "initializeQueue"
    BY <1>1 DEF InitializeQueueBuilder, Builder
  <2> QED
    BY <2>1 DEF DuelHandlers, Delegations, PermissionSetups
<1>4. Extended(call)
  BY <1>1 DEF Extended, CommittedTicket
<1> QED
  BY <1>1, <1>2, <1>3, <1>4, PlainFormed DEF call

(* createTicket, as players call it.                                        *)
LEMMA CreateTicketFormed ==
  ASSUME NEW by, CalledProgram(by, CreateTicketBuilder) = duel, duel \in Deployments
  PROVE  ~ FormProblem(CreateTicketCall(by))
<1> DEFINE call == CreateTicketCall(by)
<1>1. /\ call.b = CreateTicketBuilder /\ call.program = duel /\ call.signer = Player
      /\ call.given = mine
      /\ call.rest = <<>> /\ "accountType" \notin DOMAIN call.args
  BY DEF CreateTicketCall, PlayerCall, Call
<1> HIDE DEF call
<1>2. /\ Matched(call.b, CreateTicket, 4) /\ SameArgs(call.b, CreateTicket)
      /\ Fills(call.b, CreateTicket, DOMAIN call.given, call.program)
      /\ \A name \in SignersOf(call.b) :
           name \in DOMAIN call.given /\ call.given[name] = call.signer
  BY <1>1, BuildersMatch, BuildersEncode, BuildersFill, BuildersList DEF mine, JoinGiven
<1>3. /\ DuelHandlers[call.b.name] = CreateTicket
      /\ call.b.name \notin Delegations \cup PermissionSetups
  <2>1. call.b.name = "createTicket"
    BY <1>1 DEF CreateTicketBuilder, Builder
  <2> QED
    BY <2>1 DEF DuelHandlers, Delegations, PermissionSetups
<1>4. Extended(call)
  BY <1>1 DEF Extended, CommittedTicket
<1> QED
  BY <1>1, <1>2, <1>3, <1>4, PlainFormed DEF call

(* cancelTicket, as players call it.                                        *)
LEMMA CancelTicketFormed ==
  ASSUME NEW by, CalledProgram(by, CancelTicketBuilder) = duel, duel \in Deployments
  PROVE  ~ FormProblem(CancelTicketCall(by))
<1> DEFINE call == CancelTicketCall(by)
<1>1. /\ call.b = CancelTicketBuilder /\ call.program = duel /\ call.signer = Player
      /\ call.given = mine
      /\ call.rest = <<>> /\ "accountType" \notin DOMAIN call.args
  BY DEF CancelTicketCall, PlayerCall, Call
<1> HIDE DEF call
<1>2. /\ Matched(call.b, CancelTicket, 3) /\ SameArgs(call.b, CancelTicket)
      /\ Fills(call.b, CancelTicket, DOMAIN call.given, call.program)
      /\ \A name \in SignersOf(call.b) :
           name \in DOMAIN call.given /\ call.given[name] = call.signer
  BY <1>1, BuildersMatch, BuildersEncode, BuildersFill, BuildersList DEF mine, JoinGiven
<1>3. /\ DuelHandlers[call.b.name] = CancelTicket
      /\ call.b.name \notin Delegations \cup PermissionSetups
  <2>1. call.b.name = "cancelTicket"
    BY <1>1 DEF CancelTicketBuilder, Builder
  <2> QED
    BY <2>1 DEF DuelHandlers, Delegations, PermissionSetups
<1>4. Extended(call)
  BY <1>1 DEF Extended, CommittedTicket
<1> QED
  BY <1>1, <1>2, <1>3, <1>4, PlainFormed DEF call

(* closeTicket, as players call it.                                         *)
LEMMA CloseTicketFormed ==
  ASSUME NEW by, CalledProgram(by, CloseTicketBuilder) = duel, duel \in Deployments
  PROVE  ~ FormProblem(CloseTicketCall(by))
<1> DEFINE call == CloseTicketCall(by)
<1>1. /\ call.b = CloseTicketBuilder /\ call.program = duel /\ call.signer = Player
      /\ call.given = mine
      /\ call.rest = <<>> /\ "accountType" \notin DOMAIN call.args
  BY DEF CloseTicketCall, PlayerCall, Call
<1> HIDE DEF call
<1>2. /\ Matched(call.b, CloseTicket, 3) /\ SameArgs(call.b, CloseTicket)
      /\ Fills(call.b, CloseTicket, DOMAIN call.given, call.program)
      /\ \A name \in SignersOf(call.b) :
           name \in DOMAIN call.given /\ call.given[name] = call.signer
  BY <1>1, BuildersMatch, BuildersEncode, BuildersFill, BuildersList DEF mine, JoinGiven
<1>3. /\ DuelHandlers[call.b.name] = CloseTicket
      /\ call.b.name \notin Delegations \cup PermissionSetups
  <2>1. call.b.name = "closeTicket"
    BY <1>1 DEF CloseTicketBuilder, Builder
  <2> QED
    BY <2>1 DEF DuelHandlers, Delegations, PermissionSetups
<1>4. Extended(call)
  BY <1>1 DEF Extended, CommittedTicket
<1> QED
  BY <1>1, <1>2, <1>3, <1>4, PlainFormed DEF call

(* joinQueue: the ticket the builder derives from the signer and the        *)
(* tenant is the one the handler asks for.                                  *)
LEMMA JoinQueueFormed ==
  ASSUME NEW by, CalledProgram(by, JoinQueueBuilder) = duel, duel \in Deployments
  PROVE  ~ FormProblem(JoinQueueCall(by))
<1> DEFINE call == JoinQueueCall(by)
<1>1. /\ call.b = JoinQueueBuilder /\ call.program = duel /\ call.signer = Player
      /\ call.given = JoinGiven
      /\ call.rest = <<Also(RpsProgram, FALSE)>>
      /\ "accountType" \notin DOMAIN call.args
  <2>1. /\ call.b = JoinQueueBuilder
        /\ call.program = CalledProgram(by, JoinQueueBuilder)
        /\ call.signer = Player /\ call.given = JoinGiven /\ call.args = <<>>
        /\ call.rest = <<Also(RpsProgram, FALSE)>>
    BY Zenon DEF JoinQueueCall, PlayerCall, Call
  <2>2. "accountType" \notin DOMAIN <<>>
    OBVIOUS
  <2> HIDE DEF call
  <2> QED
    BY <2>1, <2>2
<1> HIDE DEF call
<1>2. /\ Matched(call.b, JoinQueue, 5) /\ SameArgs(call.b, JoinQueue)
      /\ Fills(call.b, JoinQueue, DOMAIN call.given, call.program)
      /\ \A name \in SignersOf(call.b) :
           name \in DOMAIN call.given /\ call.given[name] = call.signer
  BY <1>1, BuildersMatch, BuildersEncode, BuildersFill, BuildersList DEF mine, JoinGiven
<1>3. /\ DuelHandlers[call.b.name] = JoinQueue
      /\ call.b.name \notin Delegations \cup PermissionSetups
  <2>1. call.b.name = "joinQueue"
    BY <1>1 DEF JoinQueueBuilder, Builder
  <2> QED
    BY <2>1 DEF DuelHandlers, Delegations, PermissionSetups
<1>4. Extended(call)
  BY <1>1 DEF Extended, CommittedTicket
<1> QED
  BY <1>1, <1>2, <1>3, <1>4, PlainFormed DEF call

(* flushMatches, whose tickets follow the accounts of the builder.          *)
LEMMA FlushMatchesFormed ==
  ASSUME NEW by, CalledProgram(by, FlushMatchesBuilder) = duel, duel \in Deployments
  PROVE  ~ FormProblem(FlushMatchesCall(by))
<1> DEFINE call == FlushMatchesCall(by)
<1>1. /\ call.b = FlushMatchesBuilder /\ call.program = duel /\ call.signer = Player
      /\ call.given = [queue |-> queuePda, tenant |-> tenantPda, signer |-> Player]
      /\ call.rest = CommittedTicket /\ "accountType" \notin DOMAIN call.args
  BY DEF FlushMatchesCall, PlayerCall, Call
<1> HIDE DEF call
<1>2. /\ Matched(call.b, FlushMatches, 3) /\ SameArgs(call.b, FlushMatches)
      /\ Fills(call.b, FlushMatches, DOMAIN call.given, call.program)
      /\ \A name \in SignersOf(call.b) :
           name \in DOMAIN call.given /\ call.given[name] = call.signer
  BY <1>1, BuildersMatch, BuildersEncode, BuildersFill, BuildersList DEF mine, JoinGiven
<1>3. /\ DuelHandlers[call.b.name] = FlushMatches
      /\ call.b.name \notin Delegations \cup PermissionSetups
  <2>1. call.b.name = "flushMatches"
    BY <1>1 DEF FlushMatchesBuilder, Builder
  <2> QED
    BY <2>1 DEF DuelHandlers, Delegations, PermissionSetups
<1>4. Extended(call)
  BY <1>1 DEF Extended, CommittedTicket
<1> QED
  BY <1>1, <1>2, <1>3, <1>4, PlainFormed DEF call

(* commitTickets, whose tickets follow the accounts of the builder.         *)
LEMMA CommitTicketsFormed ==
  ASSUME NEW by, CalledProgram(by, CommitTicketsBuilder) = duel, duel \in Deployments
  PROVE  ~ FormProblem(CommitTicketsCall(by))
<1> DEFINE call == CommitTicketsCall(by)
<1>1. /\ call.b = CommitTicketsBuilder /\ call.program = duel /\ call.signer = Player
      /\ call.given = [tenant |-> tenantPda, payer |-> Player]
      /\ call.rest = CommittedTicket /\ "accountType" \notin DOMAIN call.args
  BY DEF CommitTicketsCall, PlayerCall, Call
<1> HIDE DEF call
<1>2. /\ Matched(call.b, CommitTickets, 4) /\ SameArgs(call.b, CommitTickets)
      /\ Fills(call.b, CommitTickets, DOMAIN call.given, call.program)
      /\ \A name \in SignersOf(call.b) :
           name \in DOMAIN call.given /\ call.given[name] = call.signer
  BY <1>1, BuildersMatch, BuildersEncode, BuildersFill, BuildersList DEF mine, JoinGiven
<1>3. /\ DuelHandlers[call.b.name] = CommitTickets
      /\ call.b.name \notin Delegations \cup PermissionSetups
  <2>1. call.b.name = "commitTickets"
    BY <1>1 DEF CommitTicketsBuilder, Builder
  <2> QED
    BY <2>1 DEF DuelHandlers, Delegations, PermissionSetups
<1>4. Extended(call)
  BY <1>1 DEF Extended, CommittedTicket
<1> QED
  BY <1>1, <1>2, <1>3, <1>4, PlainFormed DEF call

(* initializePlayer, as players call it.                                    *)
LEMMA InitializePlayerFormed ==
  ASSUME NEW by, duel \in Deployments
  PROVE  ~ FormProblem(InitializePlayerCall(by))
<1> DEFINE call == InitializePlayerCall(by)
<1>1. /\ call.b = InitializePlayerBuilder
      /\ call.program = RpsProgram
      /\ call.signer = Player
      /\ call.given = [player |-> Player, payer |-> Player]
      /\ call.rest = <<>> /\ "accountType" \notin DOMAIN call.args
  BY DEF InitializePlayerCall, GameCall, Call, started
<1> HIDE DEF call
<1>2. /\ Matched(call.b, InitializePlayer, 4) /\ SameArgs(call.b, InitializePlayer)
      /\ Fills(call.b, InitializePlayer, DOMAIN call.given, call.program)
      /\ \A name \in SignersOf(call.b) :
           name \in DOMAIN call.given /\ call.given[name] = call.signer
  BY <1>1, BuildersMatch, BuildersEncode, BuildersFill, BuildersList DEF mine, JoinGiven
<1>3. /\ RpsHandlers[call.b.name] = InitializePlayer
      /\ call.b.name \notin Delegations \cup PermissionSetups
  <2>1. call.b.name = "initializePlayer"
    BY <1>1 DEF InitializePlayerBuilder, Builder
  <2> QED
    BY <2>1 DEF RpsHandlers, Delegations, PermissionSetups
<1>4. Extended(call)
  BY <1>1 DEF Extended, CommittedTicket
<1> QED
  BY <1>1, <1>2, <1>3, <1>4, PlainFormed DEF call

(* startGame, for an opponent and an id the caller chooses.                 *)
LEMMA StartGameFormed ==
  ASSUME NEW by, duel \in Deployments
  PROVE  ~ FormProblem(StartGameCall(by))
<1> DEFINE call == StartGameCall(by)
<1>1. /\ call.b = StartGameBuilder /\ call.program = RpsProgram /\ call.signer = Player
      /\ call.given = [player |-> Player]
      /\ call.rest = <<>> /\ "accountType" \notin DOMAIN call.args
  BY DEF StartGameCall, GameCall, Call, started
<1> HIDE DEF call
<1>2. /\ Matched(call.b, StartGame, 3) /\ SameArgs(call.b, StartGame)
      /\ Fills(call.b, StartGame, DOMAIN call.given, call.program)
      /\ \A name \in SignersOf(call.b) :
           name \in DOMAIN call.given /\ call.given[name] = call.signer
  BY <1>1, BuildersMatch, BuildersEncode, BuildersFill, BuildersList DEF mine, JoinGiven
<1>3. /\ RpsHandlers[call.b.name] = StartGame
      /\ call.b.name \notin Delegations \cup PermissionSetups
  <2>1. call.b.name = "startGame"
    BY <1>1 DEF StartGameBuilder, Builder
  <2> QED
    BY <2>1 DEF RpsHandlers, Delegations, PermissionSetups
<1>4. Extended(call)
  BY <1>1 DEF Extended, CommittedTicket
<1> QED
  BY <1>1, <1>2, <1>3, <1>4, PlainFormed DEF call

(* startGameWithTicket, for the match in the ticket.                        *)
LEMMA StartGameWithTicketFormed ==
  ASSUME NEW by, duel \in Deployments
  PROVE  ~ FormProblem(StartGameWithTicketCall(by))
<1> DEFINE call == StartGameWithTicketCall(by)
<1>1. /\ call.b = StartGameWithTicketBuilder
      /\ call.program = RpsProgram
      /\ call.signer = Player
      /\ call.given = [player |-> Player, matchTicket |-> ticketPda]
      /\ call.rest = <<>> /\ "accountType" \notin DOMAIN call.args
  BY DEF StartGameWithTicketCall, GameCall, Call, started
<1> HIDE DEF call
<1>2. /\ Matched(call.b, StartGameWithTicket, 4)
      /\ SameArgs(call.b, StartGameWithTicket)
      /\ Fills(call.b, StartGameWithTicket, DOMAIN call.given, call.program)
      /\ \A name \in SignersOf(call.b) :
           name \in DOMAIN call.given /\ call.given[name] = call.signer
  BY <1>1, BuildersMatch, BuildersEncode, BuildersFill, BuildersList DEF mine, JoinGiven
<1>3. /\ RpsHandlers[call.b.name] = StartGameWithTicket
      /\ call.b.name \notin Delegations \cup PermissionSetups
  <2>1. call.b.name = "startGameWithTicket"
    BY <1>1 DEF StartGameWithTicketBuilder, Builder
  <2> QED
    BY <2>1 DEF RpsHandlers, Delegations, PermissionSetups
<1>4. Extended(call)
  BY <1>1 DEF Extended, CommittedTicket
<1> QED
  BY <1>1, <1>2, <1>3, <1>4, PlainFormed DEF call

(* persistResults, with the session and the profiles given.                 *)
LEMMA PersistResultsFormed ==
  ASSUME NEW by, duel \in Deployments
  PROVE  ~ FormProblem(PersistResultsCall(by))
<1> DEFINE call == PersistResultsCall(by)
<1>1. /\ call.b = PersistResultsBuilder
      /\ call.program = RpsProgram
      /\ call.signer = Player
      /\ call.given = [gameSession |-> sessionPda,
                       player1Profile |-> ProfilePda(Player),
                     player2Profile |-> ProfilePda(Opponent), payer |-> Player]
      /\ call.rest = <<>> /\ "accountType" \notin DOMAIN call.args
  BY DEF PersistResultsCall, GameCall, Call, started
<1> HIDE DEF call
<1>2. /\ Matched(call.b, PersistResults, 6) /\ SameArgs(call.b, PersistResults)
      /\ Fills(call.b, PersistResults, DOMAIN call.given, call.program)
      /\ \A name \in SignersOf(call.b) :
           name \in DOMAIN call.given /\ call.given[name] = call.signer
  BY <1>1, BuildersMatch, BuildersEncode, BuildersFill, BuildersList DEF mine, JoinGiven
<1>3. /\ RpsHandlers[call.b.name] = PersistResults
      /\ call.b.name \notin Delegations \cup PermissionSetups
  <2>1. call.b.name = "persistResults"
    BY <1>1 DEF PersistResultsBuilder, Builder
  <2> QED
    BY <2>1 DEF RpsHandlers, Delegations, PermissionSetups
<1>4. Extended(call)
  BY <1>1 DEF Extended, CommittedTicket
<1> QED
  BY <1>1, <1>2, <1>3, <1>4, PlainFormed DEF call

(* closePlayer, as players call it.                                         *)
LEMMA ClosePlayerFormed ==
  ASSUME NEW by, duel \in Deployments
  PROVE  ~ FormProblem(ClosePlayerCall(by))
<1> DEFINE call == ClosePlayerCall(by)
<1>1. /\ call.b = ClosePlayerBuilder /\ call.program = RpsProgram /\ call.signer = Player
      /\ call.given = [player |-> Player, payer |-> Player]
      /\ call.rest = <<>> /\ "accountType" \notin DOMAIN call.args
  BY DEF ClosePlayerCall, GameCall, Call, started
<1> HIDE DEF call
<1>2. /\ Matched(call.b, ClosePlayer, 3) /\ SameArgs(call.b, ClosePlayer)
      /\ Fills(call.b, ClosePlayer, DOMAIN call.given, call.program)
      /\ \A name \in SignersOf(call.b) :
           name \in DOMAIN call.given /\ call.given[name] = call.signer
  BY <1>1, BuildersMatch, BuildersEncode, BuildersFill, BuildersList DEF mine, JoinGiven
<1>3. /\ RpsHandlers[call.b.name] = ClosePlayer
      /\ call.b.name \notin Delegations \cup PermissionSetups
  <2>1. call.b.name = "closePlayer"
    BY <1>1 DEF ClosePlayerBuilder, Builder
  <2> QED
    BY <2>1 DEF RpsHandlers, Delegations, PermissionSetups
<1>4. Extended(call)
  BY <1>1 DEF Extended, CommittedTicket
<1> QED
  BY <1>1, <1>2, <1>3, <1>4, PlainFormed DEF call

(* The call join_queue makes of the tenant's callback.                      *)
LEMMA CallbackFormed ==
  ASSUME duel \in Deployments
  PROVE  ~ FormProblem(Callback)
<1> DEFINE call == Callback
<1>1. /\ call.b = OnMatchFoundBuilder
      /\ call.program = RpsProgram
      /\ call.signer = tenantPda
      /\ call.given = [signer |-> tenantPda]
      /\ call.rest = <<>> /\ "accountType" \notin DOMAIN call.args
  BY DEF Callback, Call
<1> HIDE DEF call
<1>2. /\ Matched(call.b, OnMatchFound, 1) /\ SameArgs(call.b, OnMatchFound)
      /\ Fills(call.b, OnMatchFound, DOMAIN call.given, call.program)
      /\ \A name \in SignersOf(call.b) :
           name \in DOMAIN call.given /\ call.given[name] = call.signer
  BY <1>1, BuildersMatch, BuildersEncode, BuildersFill, BuildersList DEF mine, JoinGiven
<1>3. /\ RpsHandlers[call.b.name] = OnMatchFound
      /\ call.b.name \notin Delegations \cup PermissionSetups
  <2>1. call.b.name = "onMatchFound"
    BY <1>1 DEF OnMatchFoundBuilder, Builder
  <2> QED
    BY <2>1 DEF RpsHandlers, Delegations, PermissionSetups
<1>4. Extended(call)
  BY <1>1 DEF Extended, CommittedTicket
<1> QED
  BY <1>1, <1>2, <1>3, <1>4, PlainFormed DEF call

(* Calls that set up a permission: the permission has to be the one of the  *)
(* account it is set up for.                                                *)
LEMMA SetupFormed ==
  ASSUME NEW call, NEW h, NEW n, Matched(call.b, h, n), Extended(call),
         SameArgs(call.b, h),
         Fills(call.b, h, DOMAIN call.given, call.program),
         "accountType" \notin DOMAIN call.args,
         call.b.name \in PermissionSetups, duel \in Deployments,
         call.program = duel, DuelHandlers[call.b.name] = h,
         \A name \in SignersOf(call.b) :
           name \in DOMAIN call.given /\ call.given[name] = call.signer,
         NEW of \in NamesOf(call.b),
         of = IF call.b.name = "setupQueuePermission" THEN "queue" ELSE "ticket",
         "permission" \in NamesOf(call.b) \cap DOMAIN call.given
  PROVE  FormProblem(call) <=> call.given["permission"] # PermissionPda(At(call, of))
<1> DEFINE ins == Instruction(call)
           a == Bound(h, ins)
<1>1. Encodes(call)
  BY DEF Encodes
<1>2. ins.name = call.b.name /\ ins.program = call.program
  BY DEF Instruction, Build
<1>3. HandlerOf(ins) = h
  BY HandledBy
<1>4. ~ Misaddressed(h, ins, chain)
  BY FilledRight
<1>5. SignsForPda(ins, a)
  BY <1>2 DEF SignsForPda, Delegations, PermissionSetups
<1>6. \A name \in SignersOf(call.b) : At(call, name) = call.signer
  BY GivenAt
<1>7. a["permission"] = call.given["permission"] /\ a[of] = At(call, of)
  BY MatchedCall, GivenAt
<1>8. PermissionFits(ins, a) <=> call.given["permission"] = PermissionPda(At(call, of))
  BY <1>2, <1>7 DEF PermissionFits, Permissioned
<1>9. ~ PermissionFits(ins, a) => FormProblem(call)
  BY <1>3 DEF FormProblem
<1>10. PermissionFits(ins, a) => ~ FormProblem(call)
  BY <1>1, <1>3, <1>4, <1>5, <1>6, Formed
<1> QED
  BY <1>8, <1>9, <1>10

(* setupTicketPermission, with the permission of the player's ticket.       *)
LEMMA TicketPermissionFormed ==
  ASSUME NEW by, CalledProgram(by,
                               SetupTicketPermissionBuilder) = duel, duel \in Deployments
  PROVE  ~ FormProblem(TicketPermissionCall(by))
<1> DEFINE call == TicketPermissionCall(by)
<1>1. /\ call.b = SetupTicketPermissionBuilder
      /\ call.program = duel
      /\ call.signer = Player
      /\ call.given = [player |-> Player, tenant |-> tenantPda,
                       permission |-> PermissionPda(ticketPda),
                       permissionProgram |-> PermissionProgram]
      /\ call.rest = <<>> /\ "accountType" \notin DOMAIN call.args
  BY DEF TicketPermissionCall, PlayerCall, Call
<1> HIDE DEF call
<1>2. /\ Matched(call.b, SetupTicketPermission, 6)
      /\ SameArgs(call.b, SetupTicketPermission)
      /\ Fills(call.b, SetupTicketPermission, DOMAIN call.given, call.program)
      /\ \A name \in SignersOf(call.b) :
           name \in DOMAIN call.given /\ call.given[name] = call.signer
      /\ "ticket" \in NamesOf(call.b) /\ "permission" \in NamesOf(call.b) \cap DOMAIN call.given
  BY <1>1, BuildersMatch, BuildersEncode, BuildersFill, BuildersList
<1>3. /\ DuelHandlers[call.b.name] = SetupTicketPermission
      /\ call.b.name \in PermissionSetups /\ call.b.name # "setupQueuePermission"
  <2>1. call.b.name = "setupTicketPermission"
    BY <1>1 DEF SetupTicketPermissionBuilder, Builder
  <2> QED
    BY <2>1 DEF DuelHandlers, PermissionSetups
<1>4. Extended(call)
  BY <1>1 DEF Extended
<1>5. At(call, "ticket") = ticketPda
  <2>1. "ticket" \in DOMAIN call.b.defaults /\ call.b.defaults["ticket"] = TicketSeeds
    BY <1>1 DEF SetupTicketPermissionBuilder, Builder, TicketDefault, TicketSeeds
  <2>2. At(call, "ticket") = TicketPda(duel, call.given.player, call.given.tenant)
    BY <1>1, <2>1, DefaultAt, RulesDerive
  <2> QED
    BY <1>1, <2>2 DEF ticketPda
<1>6. call.given["permission"] = PermissionPda(ticketPda)
  BY <1>1
<1>7. FormProblem(call) <=> call.given["permission"] # PermissionPda(At(call, "ticket"))
  BY <1>1, <1>2, <1>3, <1>4, SetupFormed
<1> QED
  BY <1>5, <1>6, <1>7 DEF call

(* setupQueuePermission, with the permission of the authority's queue.      *)
LEMMA QueuePermissionFormed ==
  ASSUME NEW authority, duel \in Deployments
  PROVE  FormProblem(QueuePermissionCall(authority)) <=>
           PermissionPda(QueuePda(duel, authority)) # PermissionPda(queuePda)
<1> DEFINE call == QueuePermissionCall(authority)
<1>1. /\ call.b = SetupQueuePermissionBuilder
      /\ call.program = duel
      /\ call.signer = Operator
      /\ call.given = [authority |-> Operator,
                       permission |-> PermissionPda(QueuePda(duel, authority)),
                       permissionProgram |-> PermissionProgram]
      /\ call.rest = <<>> /\ "accountType" \notin DOMAIN call.args
  BY DEF QueuePermissionCall, Call
<1> HIDE DEF call
<1>2. /\ Matched(call.b, SetupQueuePermission, 5)
      /\ SameArgs(call.b, SetupQueuePermission)
      /\ Fills(call.b, SetupQueuePermission, DOMAIN call.given, call.program)
      /\ \A name \in SignersOf(call.b) :
           name \in DOMAIN call.given /\ call.given[name] = call.signer
      /\ "queue" \in NamesOf(call.b) /\ "permission" \in NamesOf(call.b) \cap DOMAIN call.given
  BY <1>1, BuildersMatch, BuildersEncode, BuildersFill, BuildersList
<1>3. /\ DuelHandlers[call.b.name] = SetupQueuePermission
      /\ call.b.name \in PermissionSetups /\ call.b.name = "setupQueuePermission"
  <2>1. call.b.name = "setupQueuePermission"
    BY <1>1 DEF SetupQueuePermissionBuilder, Builder
  <2> QED
    BY <2>1 DEF DuelHandlers, PermissionSetups
<1>4. Extended(call)
  BY <1>1 DEF Extended
<1>5. At(call, "queue") = queuePda
  <2>1. "queue" \in DOMAIN call.b.defaults /\ call.b.defaults["queue"] = QueueSeeds
    BY <1>1 DEF SetupQueuePermissionBuilder, Builder, QueueSeeds
  <2>2. At(call, "queue") = QueuePda(duel, call.given.authority)
    BY <1>1, <2>1, DefaultAt, RulesDerive
  <2> QED
    BY <1>1, <2>2 DEF queuePda
<1>6. call.given["permission"] = PermissionPda(QueuePda(duel, authority))
  BY <1>1
<1>7. FormProblem(call) <=> call.given["permission"] # PermissionPda(At(call, "queue"))
  BY <1>1, <1>2, <1>3, <1>4, SetupFormed
<1> QED
  BY <1>5, <1>6, <1>7 DEF call


-----------------------------------------------------------------------------
(* Delegations. *)

(* The accounts of a delegation, in their order.                            *)
DelegationNames ==
  {"bufferPda", "delegationRecordPda", "delegationMetadataPda", "pda", "payer",
   "validator", "ownerProgram", "delegationProgram", "systemProgram"}

(* Builders and handlers of delegations list these, ...                     *)
LEMMA DelegationMatched ==
  ASSUME NEW b, b.accounts = DelegationAccounts
  PROVE  /\ Matched(b, Delegation, 9)
         /\ NamesOf(b) = DelegationNames /\ SignersOf(b) = {"payer"}
<1>1. /\ DOMAIN b.accounts = 1..9 /\ Delegation.accounts = b.accounts
      /\ Len(Delegation.accounts) = 9
  BY DEF DelegationAccounts, Delegation, Handler
<1> DEFINE names ==
             <<"bufferPda", "delegationRecordPda", "delegationMetadataPda", "pda", "payer",
               "validator", "ownerProgram", "delegationProgram", "systemProgram">>
<1>2. \A k \in 1..9 : b.accounts[k].name = names[k]
  <2>1. \A name : /\ R(name).name = name /\ W(name).name = name /\ WS(name).name = name
    BY DescribedBy
  <2> HIDE DEF names
  <2> DEFINE d == DelegationAccounts
  <2>2. /\ d[1] = W(names[1]) /\ d[2] = W(names[2]) /\ d[3] = W(names[3])
        /\ d[4] = W(names[4]) /\ d[5] = WS(names[5])
    BY DEF DelegationAccounts, names
  <2>3. /\ d[6] = R(names[6]) /\ d[7] = R(names[7]) /\ d[8] = R(names[8])
        /\ d[9] = R(names[9])
    BY DEF DelegationAccounts, names
  <2> HIDE DEF d
  <2>4. \A k \in 1..9 : d[k].name = names[k]
    BY <2>1, <2>2, <2>3
  <2> QED
    BY <2>4 DEF d
<1>7. \A k \in 1..9 : b.accounts[k].signer <=> k = 5
  <2>1. \A name : ~ R(name).signer /\ ~ W(name).signer /\ WS(name).signer
    BY DescribedBy
  <2> DEFINE d == DelegationAccounts
  <2>2. d[5] = WS("payer") /\ \A k \in (1..9) \ {5} : \E name : d[k] \in {R(name), W(name)}
    BY DEF DelegationAccounts
  <2> HIDE DEF d
  <2>3. \A k \in 1..9 : d[k].signer <=> k = 5
    BY <2>1, <2>2
  <2> QED
    BY <2>3 DEF d
<1>8. \A j, k \in 1..9 : names[j] = names[k] => j = k
  OBVIOUS
<1>3. \A j, k \in 1..9 : b.accounts[j].name = b.accounts[k].name => j = k
  <2> HIDE DEF names
  <2> QED
    BY <1>2, <1>8
<1>4. Matched(b, Delegation, 9)
  BY <1>1, <1>3 DEF Matched
<1>5. NamesOf(b) = DelegationNames
  BY <1>1, <1>2 DEF NamesOf, DelegationNames
<1>6. SignersOf(b) = {"payer"}
  BY <1>1, <1>2, <1>7 DEF SignersOf
<1> QED
  BY <1>4, <1>5, <1>6

(* ... and the handlers derive most of them.                                *)
LEMMA DelegationRules ==
  LET rules == Delegation.rules IN
  /\ DOMAIN rules = {"bufferPda", "delegationRecordPda", "delegationMetadataPda",
                     "ownerProgram", "delegationProgram", "systemProgram"}
  /\ rules["bufferPda"] = Derived(Self, <<Text("buffer"), Of("pda")>>)
  /\ rules["delegationRecordPda"] =
       Derived(DelegationProgram, <<Text("delegation"), Of("pda")>>)
  /\ rules["delegationMetadataPda"] =
       Derived(DelegationProgram, <<Text("delegation-metadata"), Of("pda")>>)
  /\ rules["ownerProgram"] = Fixed(Self)
  /\ rules["delegationProgram"] = Fixed(DelegationProgram)
  /\ rules["systemProgram"] = Fixed(SystemProgram)
<1> DEFINE own == [bufferPda |-> Derived(Self, <<Text("buffer"), Of("pda")>>),
                   delegationRecordPda |->
                     Derived(DelegationProgram, <<Text("delegation"), Of("pda")>>),
                   delegationMetadataPda |->
                     Derived(DelegationProgram,
                             <<Text("delegation-metadata"), Of("pda")>>),
                   ownerProgram |-> Fixed(Self),
                   delegationProgram |-> Fixed(DelegationProgram)]
<1>1. /\ DOMAIN own = {"bufferPda", "delegationRecordPda", "delegationMetadataPda",
                       "ownerProgram", "delegationProgram"}
      /\ own["bufferPda"] = Derived(Self, <<Text("buffer"), Of("pda")>>)
      /\ own["delegationRecordPda"] =
           Derived(DelegationProgram, <<Text("delegation"), Of("pda")>>)
      /\ own["delegationMetadataPda"] =
           Derived(DelegationProgram, <<Text("delegation-metadata"), Of("pda")>>)
      /\ own["ownerProgram"] = Fixed(Self)
      /\ own["delegationProgram"] = Fixed(DelegationProgram)
  OBVIOUS
<1>2. Delegation.rules = System(own)
  BY DEF Delegation, Handler
<1> HIDE DEF own
<1> QED
  BY <1>1, <1>2, SystemRules, SystemRule

(* A delegation builder of program p fills them in for a call of p.         *)
LEMMA DelegationFills ==
  ASSUME NEW b, NEW p, b.accounts = DelegationAccounts, b.defaults = DelegationDefaults(p),
         NEW given, "pda" \in given, given \subseteq {"pda", "payer", "validator"}
  PROVE  Fills(b, Delegation, given, p)
<1>1. /\ DOMAIN b.defaults = DOMAIN Delegation.rules
      /\ b.defaults["bufferPda"] = Derived(p, <<Text("buffer"), Of("pda")>>)
      /\ b.defaults["delegationRecordPda"] =
           Derived(DelegationProgram, <<Text("delegation"), Of("pda")>>)
      /\ b.defaults["delegationMetadataPda"] =
           Derived(DelegationProgram, <<Text("delegation-metadata"), Of("pda")>>)
      /\ b.defaults["ownerProgram"] = Fixed(p)
      /\ b.defaults["delegationProgram"] = Fixed(DelegationProgram)
      /\ b.defaults["systemProgram"] = Fixed(SystemProgram)
  BY DelegationRules DEF DelegationDefaults, SystemDefault
<1>2. DOMAIN Delegation.rules \subseteq NamesOf(b)
  BY DelegationRules, DelegationMatched DEF DelegationNames
<1>3. \A q : SameRule(Fixed(q), Fixed(q), p)
  BY DEF SameRule, Fixed
<1>4. SameRule(Fixed(Self), Fixed(p), p)
  BY DEF SameRule, Fixed, Program
<1>5. \A q, seeds : SameRule(Derived(q, seeds), Derived(q, seeds), p)
  BY DEF SameRule, Derived
<1>6. \A seeds : SameRule(Derived(Self, seeds), Derived(p, seeds), p)
  BY DEF SameRule, Derived, Program
<1>7. /\ \A q : "address" \in DOMAIN Fixed(q)
      /\ \A q, seeds : "address" \notin DOMAIN Derived(q, seeds)
                       /\ Derived(q, seeds).seeds = seeds
  BY DEF Fixed, Derived
<1>8. \A x : \A k \in DOMAIN <<Text(x), Of("pda")>> :
               Known(<<Text(x), Of("pda")>>[k], b, given)
  BY DelegationMatched DEF Known, Text, Of, DelegationNames
<1>9. ASSUME NEW name \in DOMAIN Delegation.rules
      PROVE  /\ SameRule(Delegation.rules[name], b.defaults[name], p)
             /\ "address" \notin DOMAIN Delegation.rules[name] =>
                  \A k \in DOMAIN Delegation.rules[name].seeds :
                    Known(Delegation.rules[name].seeds[k], b, given)
  <2>1. CASE name = "bufferPda"
    BY <2>1, <1>1, <1>6, <1>7, <1>8, DelegationRules
  <2>2. CASE name = "delegationRecordPda"
    BY <2>2, <1>1, <1>5, <1>7, <1>8, DelegationRules
  <2>3. CASE name = "delegationMetadataPda"
    BY <2>3, <1>1, <1>5, <1>7, <1>8, DelegationRules
  <2>4. CASE name = "ownerProgram"
    BY <2>4, <1>1, <1>4, <1>7, DelegationRules
  <2>5. CASE name \in {"delegationProgram", "systemProgram"}
    BY <2>5, <1>1, <1>3, <1>7, DelegationRules
  <2> QED
    BY <2>1, <2>2, <2>3, <2>4, <2>5, DelegationRules
<1>10. \A name \in DOMAIN Delegation.rules : name \notin given
  BY DelegationRules
<1> QED
  BY <1>1, <1>2, <1>9, <1>10 DEF Fills

(* The one argument of a delegation, as it is encoded.                      *)
LEMMA KindEncoded ==
  ASSUME NEW call, NEW kind, call.args = [accountType |-> kind],
         call.b.args = <<"accountType">>
  PROVE  /\ "accountType" \in DOMAIN call.args /\ call.args.accountType = kind
         /\ Instruction(call).args[1] = EncodedKind(AccountTypes(call), kind)
<1>1. "accountType" \in DOMAIN call.args /\ call.args.accountType = kind
  OBVIOUS
<1> DEFINE encoded ==
             [call.args EXCEPT !.accountType = EncodedKind(AccountTypes(call), kind)]
<1>2. encoded["accountType"] = EncodedKind(AccountTypes(call), kind)
  OBVIOUS
<1>3. Instruction(call).args = [k \in DOMAIN <<"accountType">> |-> encoded[<<"accountType">>[k]]]
  BY DEF Instruction, Build
<1> HIDE DEF encoded
<1> QED
  BY <1>1, <1>2, <1>3

(* A delegation has the form its handler asks for when the account it       *)
(* names is the one its kind and seeds derive.                              *)
LEMMA DelegationFormed ==
  ASSUME NEW call, NEW kind, duel \in Deployments,
         call.b.accounts = DelegationAccounts,
         call.b.defaults = DelegationDefaults(call.program),
         call.b.args = <<"accountType">>, call.b.name \in Delegations,
         call.args = [accountType |-> kind], call.rest = <<>>, Encodes(call),
         {"pda", "payer"} \subseteq DOMAIN call.given,
         DOMAIN call.given \subseteq {"pda", "payer", "validator"},
         call.given["payer"] = call.signer,
         \/ call.program = duel /\ DuelHandlers[call.b.name] = Delegation
            /\ call.given["pda"] =
                 Pda(duel, DuelAccountSeeds(EncodedKind(AccountTypes(call), kind)))
         \/ call.program = RpsProgram /\ RpsHandlers[call.b.name] = Delegation
            /\ call.given["pda"] =
                 Pda(RpsProgram, RpsAccountSeeds(EncodedKind(AccountTypes(call), kind)))
  PROVE  ~ FormProblem(call)
<1> DEFINE ins == Instruction(call)
           a == Bound(Delegation, ins)
<1>1. /\ Matched(call.b, Delegation, 9) /\ NamesOf(call.b) = DelegationNames
      /\ SignersOf(call.b) = {"payer"}
  BY DelegationMatched
<1>2. Fills(call.b, Delegation, DOMAIN call.given, call.program)
  BY DelegationFills
<1>3. SameArgs(call.b, Delegation)
  BY DEF SameArgs, Delegation, Handler
<1>4. Extended(call)
  BY DEF Extended
<1>5. ~ Misaddressed(Delegation, ins, chain)
  BY <1>1, <1>2, <1>3, <1>4, FilledRight
<1>6. ins.name = call.b.name /\ ins.program = call.program
  BY DEF Instruction, Build
<1>7. HandlerOf(ins) = Delegation
  BY HandledBy
<1>8. \A name \in SignersOf(call.b) : At(call, name) = call.signer
  BY <1>1, GivenAt
<1>9. a["pda"] = call.given["pda"]
  <2>1. "pda" \in NamesOf(call.b) /\ "pda" \in DOMAIN call.given
    BY <1>1 DEF DelegationNames
  <2> QED
    <3>1. a["pda"] = At(call, "pda")
      BY <1>1, <1>4, <2>1, MatchedCall
    <3> QED
      BY <2>1, <3>1, GivenAt
<1>10. SignsForPda(ins, a)
  <2>1. ins.args[1] = EncodedKind(AccountTypes(call), kind)
    BY KindEncoded
  <2>2. duel # RpsProgram
    BY LaunchAssumption
  <2> QED
    BY <1>6, <1>9, <2>1, <2>2 DEF SignsForPda
<1>11. PermissionFits(ins, a)
  BY <1>6 DEF PermissionFits, Delegations, PermissionSetups
<1>12. call.program \in {duel, RpsProgram, PermissionProgram}
  OBVIOUS
<1> QED
  BY <1>1, <1>4, <1>5, <1>7, <1>8, <1>10, <1>11, <1>12, Formed

(* The two delegation builders of the duel program.                         *)
LEMMA DuelDelegationBuilders ==
  \A b \in {DelegateQueueBuilder, DelegateTicketBuilder} :
    /\ b.accounts = DelegationAccounts /\ b.defaults = DelegationDefaults(DuelProgram)
    /\ b.args = <<"accountType">> /\ b.name \in Delegations /\ b.home = DuelProgram
    /\ DuelHandlers[b.name] = Delegation
<1>1. /\ DuelHandlers["delegateQueue"] = Delegation
      /\ DuelHandlers["delegateTicket"] = Delegation
  BY DEF DuelHandlers, DelegateQueue, DelegateTicket
<1>2. \A b \in {DelegateQueueBuilder, DelegateTicketBuilder} :
        /\ b.accounts = DelegationAccounts /\ b.defaults = DelegationDefaults(DuelProgram)
        /\ b.args = <<"accountType">> /\ b.home = DuelProgram
        /\ b.name \in {"delegateQueue", "delegateTicket"}
  BY DEF DelegateQueueBuilder, DelegateTicketBuilder, Builder
<1> QED
  BY <1>1, <1>2 DEF Delegations

(* A queue's and a ticket's delegation pass the program the builders were   *)
(* generated for as the owner.                                              *)
LEMMA OwnerGenerated ==
  ASSUME NEW call, call.b \in {DelegateQueueBuilder, DelegateTicketBuilder},
         call.program = duel, duel \in Deployments, duel # DuelProgram,
         call.rest = <<>>, "ownerProgram" \notin DOMAIN call.given
  PROVE  FormProblem(call)
<1> DEFINE ins == Instruction(call)
           a == Bound(Delegation, ins)
<1>1. HandlerOf(ins) = Delegation
  BY HandledBy, DuelDelegationBuilders
<1>2. ins.program = duel
  BY DEF Instruction, Build
<1>3. a["ownerProgram"] = DuelProgram
  <2>1. Matched(call.b, Delegation, 9) /\ "ownerProgram" \in NamesOf(call.b)
    BY DuelDelegationBuilders, DelegationMatched DEF DelegationNames
  <2>2. Extended(call)
    BY DEF Extended
  <2>3. a["ownerProgram"] = At(call, "ownerProgram")
    BY <2>1, <2>2, MatchedCall
  <2>4. /\ "ownerProgram" \in DOMAIN call.b.defaults
        /\ call.b.defaults["ownerProgram"] = Fixed(DuelProgram)
    BY DuelDelegationBuilders DEF DelegationDefaults
  <2>5. At(call, "ownerProgram") = Program(DuelProgram, duel)
    BY <2>4, DefaultAt, FixedRule
  <2> QED
    BY <2>3, <2>5, ProgramOf
<1>4. AddressBy(Fixed(Self), duel, a, Args(Delegation, ins), chain) = duel
      /\ HasFields(Fixed(Self), a, chain)
  BY FixedRule, ProgramOf
<1>5. "ownerProgram" \in DOMAIN Delegation.rules
      /\ Delegation.rules["ownerProgram"] = Fixed(Self)
  BY DelegationRules
<1>6. Misaddressed(Delegation, ins, chain)
  BY <1>2, <1>3, <1>4, <1>5 DEF Misaddressed
<1> QED
  BY <1>1, <1>6 DEF FormProblem

(* So delegateQueue has a problem just when the duel program is not at the  *)
(* address its client was generated for, ...                                *)
LEMMA DelegateQueueFormed ==
  ASSUME NEW by, NEW signer, NEW authority, duel \in Deployments
  PROVE  FormProblem(DelegateQueueCall(by, signer, authority)) <=> duel # DuelProgram
<1> DEFINE call == DelegateQueueCall(by, signer, authority)
           kind == QueueKind(authority)
<1>1. /\ call.b = DelegateQueueBuilder /\ call.program = duel /\ call.signer = signer
      /\ call.given = [pda |-> QueuePda(duel, authority), payer |-> signer,
                       validator |-> Validator]
      /\ call.args = [accountType |-> kind] /\ call.rest = <<>>
  BY DEF DelegateQueueCall, Call
<1> HIDE DEF call
<1>2. CASE duel # DuelProgram
  BY <1>1, <1>2, OwnerGenerated DEF call
<1>3. CASE duel = DuelProgram
  <2>1. AccountTypes(call) = DuelAccountTypes
    BY <1>1, DuelDelegationBuilders, Programs DEF AccountTypes
  <2>2. EncodedKind(DuelAccountTypes, kind) = <<"Queue", <<authority>>>>
    BY DEF EncodedKind, DuelAccountTypes, QueueKind
  <2>3. Encodable(DuelAccountTypes, kind)
    BY DEF Encodable, DuelAccountTypes, QueueKind
  <2> HIDE DEF kind
  <2>4. Encodes(call)
    BY <1>1, <2>1, <2>3, KindEncoded, DuelDelegationBuilders DEF Encodes
  <2>5. call.given["pda"] =
          Pda(duel, DuelAccountSeeds(EncodedKind(AccountTypes(call), kind)))
    <3>1. DuelAccountSeeds(<<"Queue", <<authority>>>>) = <<Key("queue"), authority>>
      BY DEF DuelAccountSeeds
    <3>2. call.given["pda"] = QueuePda(duel, authority)
      BY <1>1
    <3> QED
      BY <2>1, <2>2, <3>1, <3>2 DEF QueuePda
  <2>6. {"pda", "payer"} \subseteq DOMAIN call.given
        /\ DOMAIN call.given \subseteq {"pda", "payer", "validator"}
        /\ call.given["payer"] = call.signer
    BY <1>1
  <2>7. /\ call.b.accounts = DelegationAccounts
        /\ call.b.defaults = DelegationDefaults(call.program)
        /\ call.b.args = <<"accountType">> /\ call.b.name \in Delegations
        /\ DuelHandlers[call.b.name] = Delegation
    BY <1>1, <1>3, DuelDelegationBuilders
  <2> QED
    BY <1>1, <1>3, <2>4, <2>5, <2>6, <2>7, DelegationFormed DEF call
<1> QED
  BY <1>2, <1>3

(* ... and so has delegateTicket, when it reaches the program.              *)
LEMMA DelegateTicketFormed ==
  ASSUME NEW by, duel \in Deployments, CalledProgram(by, DelegateTicketBuilder) = duel,
         NEW given \in {[pda |-> ticketPda, payer |-> Player],
                        [pda |-> ticketPda, payer |-> Player, validator |-> Validator]}
  PROVE  FormProblem(DelegateTicketCall(by, given)) <=> duel # DuelProgram
<1> DEFINE call == DelegateTicketCall(by, given)
<1>1. /\ call.b = DelegateTicketBuilder /\ call.program = duel /\ call.signer = Player
      /\ call.given = given
      /\ call.args = [accountType |-> TicketKind] /\ call.rest = <<>>
  BY CallFields DEF DelegateTicketCall, PlayerCall, Call
<1>2. /\ {"pda", "payer"} \subseteq DOMAIN given
      /\ DOMAIN given \subseteq {"pda", "payer", "validator"}
      /\ given["payer"] = Player /\ given["pda"] = ticketPda
  OBVIOUS
<1> HIDE DEF call
<1>3. CASE duel # DuelProgram
  BY <1>1, <1>2, <1>3, OwnerGenerated DEF call
<1>4. CASE duel = DuelProgram
  <2>1. AccountTypes(call) = DuelAccountTypes
    BY <1>1, DuelDelegationBuilders, Programs DEF AccountTypes
  <2>2. EncodedKind(DuelAccountTypes, TicketKind) = <<"Ticket", <<Player, tenantPda>>>>
    BY DEF EncodedKind, DuelAccountTypes, TicketKind, mine
  <2>3. Encodable(DuelAccountTypes, TicketKind)
    BY DEF Encodable, DuelAccountTypes, TicketKind, mine
  <2>4. Encodes(call)
    BY <1>1, <2>1, <2>3, KindEncoded, DuelDelegationBuilders DEF Encodes
  <2>5. call.given["pda"] =
          Pda(duel, DuelAccountSeeds(EncodedKind(AccountTypes(call), TicketKind)))
    <3>1. DuelAccountSeeds(<<"Ticket", <<Player, tenantPda>>>>) =
            <<Key("ticket"), Player, tenantPda>>
      BY DEF DuelAccountSeeds
    <3> QED
      BY <1>1, <1>2, <2>1, <2>2, <3>1 DEF ticketPda, TicketPda
  <2>6. /\ call.b.accounts = DelegationAccounts
        /\ call.b.defaults = DelegationDefaults(call.program)
        /\ call.b.args = <<"accountType">> /\ call.b.name \in Delegations
        /\ DuelHandlers[call.b.name] = Delegation
    BY <1>1, <1>4, DuelDelegationBuilders
  <2> QED
    BY <1>1, <1>2, <1>4, <2>4, <2>5, <2>6, DelegationFormed DEF call
<1> QED
  BY <1>3, <1>4

(* The delegation builder of the game program.                              *)
LEMMA RpsDelegationBuilder ==
  LET b == DelegatePdaBuilder IN
  /\ b.accounts = DelegationAccounts /\ b.defaults = DelegationDefaults(RpsProgram)
  /\ b.args = <<"accountType">> /\ b.name \in Delegations /\ b.home = RpsProgram
  /\ RpsHandlers[b.name] = Delegation
<1>1. RpsHandlers["delegatePda"] = Delegation
  BY DEF RpsHandlers, DelegatePda
<1> QED
  BY <1>1 DEF DelegatePdaBuilder, Builder, Delegations

(* delegatePda, for an account type that can be encoded.                    *)
LEMMA DelegatePdaFormed ==
  ASSUME NEW by, duel \in Deployments, NEW pda, NEW kind,
         Encodable(RpsAccountTypes, kind),
         pda = Pda(RpsProgram, RpsAccountSeeds(EncodedKind(RpsAccountTypes, kind)))
  PROVE  ~ FormProblem(DelegatePdaCall(by, pda, kind))
<1> DEFINE call == DelegatePdaCall(by, pda, kind)
<1>1. /\ call.b = DelegatePdaBuilder /\ call.program = RpsProgram /\ call.signer = Player
      /\ call.given = [pda |-> pda, payer |-> Player, validator |-> Validator]
      /\ call.args = [accountType |-> kind] /\ call.rest = <<>>
  BY DEF DelegatePdaCall, GameCall, Call
<1> HIDE DEF call
<1>2. AccountTypes(call) = RpsAccountTypes
  BY <1>1, RpsDelegationBuilder DEF AccountTypes
<1>3. Encodes(call)
  BY <1>1, <1>2, KindEncoded, RpsDelegationBuilder DEF Encodes
<1>4. {"pda", "payer"} \subseteq DOMAIN call.given
      /\ DOMAIN call.given \subseteq {"pda", "payer", "validator"}
      /\ call.given["payer"] = call.signer /\ call.given["pda"] = pda
  BY <1>1
<1>5. /\ call.b.accounts = DelegationAccounts
      /\ call.b.defaults = DelegationDefaults(call.program)
      /\ call.b.args = <<"accountType">> /\ call.b.name \in Delegations
      /\ RpsHandlers[call.b.name] = Delegation
  BY <1>1, RpsDelegationBuilder
<1> QED
  BY <1>1, <1>2, <1>3, <1>4, <1>5, DelegationFormed DEF call

(* Which account types a client passes can be encoded, and the addresses    *)
(* they derive.                                                             *)
LEMMA NamedKinds ==
  /\ Encodable(RpsAccountTypes, NamedSession)
  /\ Encodable(RpsAccountTypes, NamedProfile)
  /\ ~ Encodable(RpsAccountTypes, WebSession)
  /\ sessionPda =
       Pda(RpsProgram, RpsAccountSeeds(EncodedKind(RpsAccountTypes, NamedSession)))
  /\ ProfilePda(Player) =
       Pda(RpsProgram, RpsAccountSeeds(EncodedKind(RpsAccountTypes, NamedProfile)))
<1>1. /\ Encodable(RpsAccountTypes, NamedSession)
      /\ Encodable(RpsAccountTypes, NamedProfile)
  BY DEF Encodable, RpsAccountTypes, NamedSession, NamedProfile
<1>2. ~ Encodable(RpsAccountTypes, WebSession)
  BY DEF Encodable, RpsAccountTypes, WebSession
<1>3. EncodedKind(RpsAccountTypes, NamedSession) = <<"GameSession",
                                                     <<Player, Opponent, Game>>>>
  BY DEF EncodedKind, RpsAccountTypes, NamedSession
<1>4. EncodedKind(RpsAccountTypes, NamedProfile) = <<"PlayerProfile", <<Player>>>>
  BY DEF EncodedKind, RpsAccountTypes, NamedProfile
<1>5. /\ RpsAccountSeeds(<<"GameSession", <<Player, Opponent, Game>>>>) =
           <<Key("game_session_v1"), Player, Opponent, Game>>
      /\ RpsAccountSeeds(<<"PlayerProfile", <<Player>>>>) = <<Key("player_profile_v35"),
                                                              Player>>
  BY DEF RpsAccountSeeds
<1> QED
  BY <1>1, <1>2, <1>3, <1>4, <1>5 DEF sessionPda, SessionPda, ProfilePda

(* The web client's delegation of a session cannot be encoded at all.       *)
LEMMA WebSessionMisformed ==
  ASSUME NEW by, NEW pda
  PROVE  FormProblem(DelegatePdaCall(by, pda, WebSession))
<1> DEFINE call == DelegatePdaCall(by, pda, WebSession)
<1>1. call.b = DelegatePdaBuilder /\ call.args = [accountType |-> WebSession]
  BY CallFields DEF DelegatePdaCall, GameCall
<1> HIDE DEF call
<1>2. AccountTypes(call) = RpsAccountTypes
  BY <1>1, RpsDelegationBuilder DEF AccountTypes
<1>3. ~ Encodes(call)
  BY <1>1, <1>2, NamedKinds, KindEncoded, RpsDelegationBuilder DEF Encodes
<1> QED
  BY <1>3 DEF FormProblem, call

(* A call to an address without a program fails.                            *)
LEMMA NotDeployed ==
  ASSUME NEW call, call.program \notin {duel, RpsProgram, PermissionProgram}
  PROVE  FormProblem(call)
<1>1. Instruction(call).program = call.program
  BY DEF Instruction, Build
<1> QED
  BY <1>1 DEF FormProblem, Deployed

-----------------------------------------------------------------------------
(* The call both clients put together by hand, and a player's choice.       *)

(* The accounts of delegatePermission, in their order.                      *)
PermissionNames ==
  <<"payer", "authority", "permissionedAccount", "permission", "systemProgram",
    "ownerProgram", "delegationBuffer", "delegationRecord", "delegationMetadata",
    "delegationProgram">>

(* Its builder lists what the permission program expects, ...               *)
LEMMA PermissionMatched ==
  /\ Matched(DelegatePermissionCall, PermissionHandler, 10)
  /\ NamesOf(DelegatePermissionCall) = {PermissionNames[k] : k \in 1..10}
  /\ SignersOf(DelegatePermissionCall) = {"payer", "authority"}
<1> DEFINE b == DelegatePermissionCall
<1>1. /\ DOMAIN b.accounts = 1..10 /\ PermissionHandler.accounts = b.accounts
      /\ Len(b.accounts) = 10
  BY DEF DelegatePermissionCall, PermissionHandler, Builder, Handler
<1>2. \A k \in 1..10 : b.accounts[k].name = PermissionNames[k]
  BY DescribedBy DEF DelegatePermissionCall, Builder, PermissionNames
<1>3. \A k \in 1..10 : b.accounts[k].signer <=> k \in {1, 2}
  BY DescribedBy DEF DelegatePermissionCall, Builder
<1>4. \A j, k \in 1..10 : PermissionNames[j] = PermissionNames[k] => j = k
  BY DEF PermissionNames
<1>5. PermissionNames[1] = "payer" /\ PermissionNames[2] = "authority"
  BY DEF PermissionNames
<1> HIDE DEF b
<1>6. Matched(b, PermissionHandler, 10)
  BY <1>1, <1>2, <1>4 DEF Matched
<1>7. NamesOf(b) = {PermissionNames[k] : k \in 1..10}
  BY <1>1, <1>2 DEF NamesOf
<1>8. SignersOf(b) = {"payer", "authority"}
  BY <1>1, <1>2, <1>3, <1>5 DEF SignersOf
<1> QED
  BY <1>6, <1>7, <1>8 DEF b

(* ... most of which that program derives.                                  *)
LEMMA PermissionRules ==
  LET rules == PermissionHandler.rules IN
  /\ DOMAIN rules = {"permission", "ownerProgram", "delegationBuffer",
                     "delegationRecord",
                     "delegationMetadata", "delegationProgram", "systemProgram"}
  /\ rules["permission"] = Derived(Self,
                                   <<Text("permission:"), Of("permissionedAccount")>>)
  /\ rules["ownerProgram"] = Fixed(Self)
  /\ rules["delegationBuffer"] = Derived(Self, <<Text("buffer"), Of("permission")>>)
  /\ rules["delegationRecord"] =
       Derived(DelegationProgram, <<Text("delegation"), Of("permission")>>)
  /\ rules["delegationMetadata"] =
       Derived(DelegationProgram, <<Text("delegation-metadata"), Of("permission")>>)
  /\ rules["delegationProgram"] = Fixed(DelegationProgram)
  /\ rules["systemProgram"] = Fixed(SystemProgram)
<1> DEFINE own == [permission |-> Derived(Self,
                                          <<Text("permission:"),
                                            Of("permissionedAccount")>>),
                   ownerProgram |-> Fixed(Self),
                   delegationBuffer |-> Derived(Self,
                                                <<Text("buffer"), Of("permission")>>),
                   delegationRecord |->
                     Derived(DelegationProgram,
                             <<Text("delegation"), Of("permission")>>),
                   delegationMetadata |->
                     Derived(DelegationProgram,
                             <<Text("delegation-metadata"), Of("permission")>>),
                   delegationProgram |-> Fixed(DelegationProgram)]
<1>1. /\ DOMAIN own = {"permission", "ownerProgram", "delegationBuffer",
                       "delegationRecord",
                       "delegationMetadata", "delegationProgram"}
      /\ own["permission"] = Derived(Self,
                                     <<Text("permission:"), Of("permissionedAccount")>>)
      /\ own["ownerProgram"] = Fixed(Self)
      /\ own["delegationBuffer"] = Derived(Self, <<Text("buffer"), Of("permission")>>)
      /\ own["delegationRecord"] =
           Derived(DelegationProgram, <<Text("delegation"), Of("permission")>>)
      /\ own["delegationMetadata"] =
           Derived(DelegationProgram, <<Text("delegation-metadata"), Of("permission")>>)
      /\ own["delegationProgram"] = Fixed(DelegationProgram)
  OBVIOUS
<1>2. PermissionHandler.rules = System(own)
  BY DEF PermissionHandler, Handler
<1> HIDE DEF own
<1> QED
  BY <1>1, <1>2, SystemRules, SystemRule

(* delegatePermission, for the owner of any account.                        *)
LEMMA DelegatePermissionFormed ==
  ASSUME NEW by, NEW signer, NEW account, duel \in Deployments
  PROVE  ~ FormProblem(DelegatePermission(by, signer, account,
                                          <<Also(Validator, FALSE)>>))
<1> DEFINE call == DelegatePermission(by, signer, account, <<Also(Validator, FALSE)>>)
           ins == Instruction(call)
           a == Bound(PermissionHandler, ins)
           args == Args(PermissionHandler, ins)
           p == PermissionProgram
           permission == PermissionPda(account)
<1>1. /\ call.b = DelegatePermissionCall /\ call.program = p /\ call.signer = signer
      /\ call.given =
           [payer |-> signer, authority |-> signer, permissionedAccount |-> account,
            permission |-> permission, systemProgram |-> SystemProgram,
            ownerProgram |-> p,
            delegationBuffer |-> PermissionDelegationPdas(permission).buffer,
            delegationRecord |-> PermissionDelegationPdas(permission).record,
            delegationMetadata |-> PermissionDelegationPdas(permission).metadata,
            delegationProgram |-> DelegationProgram]
      /\ call.args = <<>> /\ call.rest = <<Also(Validator, FALSE)>>
  BY Zenon DEF DelegatePermission, Call
<1> HIDE DEF call
<1>2. /\ DOMAIN call.given = {PermissionNames[k] : k \in 1..10}
      /\ call.given["payer"] = signer /\ call.given["authority"] = signer
      /\ call.given["permissionedAccount"] = account
      /\ call.given["permission"] = permission
      /\ call.given["systemProgram"] = SystemProgram
      /\ call.given["ownerProgram"] = p
      /\ call.given["delegationBuffer"] = Pda(p, <<Key("buffer"), permission>>)
      /\ call.given["delegationRecord"] = Pda(DelegationProgram,
                                              <<Key("delegation"), permission>>)
      /\ call.given["delegationMetadata"] =
           Pda(DelegationProgram, <<Key("delegation-metadata"), permission>>)
      /\ call.given["delegationProgram"] = DelegationProgram
  BY <1>1 DEF PermissionNames, PermissionDelegationPdas
<1>3. Matched(call.b, PermissionHandler, 10) /\ Extended(call)
  BY <1>1, PermissionMatched DEF Extended
<1>4. \A name \in DOMAIN call.given : a[name] = call.given[name]
  <2>1. \A name \in NamesOf(call.b) : a[name] = At(call, name)
    BY <1>3, MatchedCall
  <2> QED
    BY <1>1, <1>2, <2>1, PermissionMatched, GivenAt
<1>5. {"payer", "authority", "permissionedAccount", "permission", "systemProgram",
       "ownerProgram", "delegationBuffer", "delegationRecord", "delegationMetadata",
       "delegationProgram"} \subseteq DOMAIN call.given
  BY <1>1
<1>6. ins.program = p /\ ins.name = "delegatePermission"
  <2>1. DelegatePermissionCall.name = "delegatePermission"
    BY DEF DelegatePermissionCall, Builder
  <2> QED
    BY <1>1, <2>1 DEF Instruction, Build
<1>7. "accountType" \notin DOMAIN call.args
  BY <1>1
<1>8. HandlerOf(ins) = PermissionHandler
  BY <1>1, HandledBy
<1> HIDE DEF ins, a, args
<1>9. /\ a["payer"] = signer /\ a["authority"] = signer
      /\ a["permissionedAccount"] = account /\ a["permission"] = permission
      /\ a["systemProgram"] = SystemProgram /\ a["ownerProgram"] = p
      /\ a["delegationBuffer"] = Pda(p, <<Key("buffer"), permission>>)
      /\ a["delegationRecord"] = Pda(DelegationProgram,
                                     <<Key("delegation"), permission>>)
      /\ a["delegationMetadata"] =
           Pda(DelegationProgram, <<Key("delegation-metadata"), permission>>)
      /\ a["delegationProgram"] = DelegationProgram
  BY <1>2, <1>4, <1>5
<1> HIDE DEF permission
<1>10. Program(Self, p) = p /\ Program(DelegationProgram, p) = DelegationProgram
       /\ Program(SystemProgram, p) = SystemProgram
  BY ProgramOf
<1>11. ASSUME NEW name \in DOMAIN PermissionHandler.rules
       PROVE  a[name] = AddressBy(PermissionHandler.rules[name], p, a, args, chain)
  <2>1. CASE name = "permission"
    <3>1. AddressBy(Derived(Self, <<Text("permission:"), Of("permissionedAccount")>>),
                    p, a, args, chain) =
            Pda(p, <<Key("permission:"), account>>)
      BY <1>9, <1>10, PairDerived
    <3> QED
      BY <2>1, <3>1, <1>9, PermissionRules DEF permission, PermissionPda
  <2>2. CASE name = "delegationBuffer"
    BY <2>2, <1>9, <1>10, PairDerived, PermissionRules
  <2>3. CASE name = "delegationRecord"
    BY <2>3, <1>9, <1>10, PairDerived, PermissionRules
  <2>4. CASE name = "delegationMetadata"
    BY <2>4, <1>9, <1>10, PairDerived, PermissionRules
  <2>5. CASE name \in {"ownerProgram", "delegationProgram", "systemProgram"}
    BY <2>5, <1>9, <1>10, FixedRule, PermissionRules
  <2> QED
    BY <2>1, <2>2, <2>3, <2>4, <2>5, PermissionRules
<1>12. ~ Misaddressed(PermissionHandler, ins, chain)
  BY <1>6, <1>11 DEF Misaddressed, a, args
<1>13. SignsForPda(ins, a) /\ PermissionFits(ins, a)
  BY <1>6 DEF SignsForPda, PermissionFits, Delegations, PermissionSetups
<1>14. \A name \in SignersOf(call.b) : At(call, name) = call.signer
  BY <1>1, <1>2, <1>5, PermissionMatched, GivenAt
<1>15. Encodes(call)
  BY <1>7 DEF Encodes
<1> QED
  BY <1>1, <1>3, <1>8, <1>12, <1>13, <1>14, <1>15, Formed DEF call, ins, a

(* Whatever is at the address of a session is the session of its players.   *)
LEMMA SessionHeld ==
  ASSUME duel \in Deployments, Accounts, AddressesAgree, sessionPda \in DOMAIN chain
  PROVE  chain[sessionPda].data.player1 = Player /\ chain[sessionPda].data.player2 = Opponent
<1> DEFINE d == chain[sessionPda].data
<1>1. sessionPda = <<RpsProgram, <<Key("game_session_v1"), Player, Opponent, Game>>>>
  BY DEF sessionPda, SessionPda, Pda
<1>2. sessionPda = Home(chain[sessionPda].type, d)
  BY DEF AddressesAgree
<1>3. chain[sessionPda].type \in {"PlayerProfile", "GameSession"}
  BY <1>1, TypeAt
<1>4. Home("PlayerProfile", d) = <<RpsProgram, <<Key("player_profile_v35"), d.player>>>>
      /\ Home("GameSession", d) =
           <<RpsProgram, <<Key("game_session_v1"), d.player1, d.player2, Game>>>>
  BY DEF Home, ProfilePda, SessionPda, Pda
<1>5. Key("player_profile_v35") # Key("game_session_v1")
  BY DEF Key
<1> HIDE DEF d
<1>6. chain[sessionPda].type = "GameSession"
  BY <1>1, <1>2, <1>3, <1>4, <1>5
<1> QED
  BY <1>1, <1>2, <1>4, <1>6 DEF d

(* makeChoice: the handler derives the profiles from the players stored in  *)
(* the session (rps-game/src/lib.rs:245-256), which are those the client    *)
(* has them from.                                                           *)
LEMMA MakeChoiceFormed ==
  ASSUME NEW by, duel \in Deployments, Accounts, AddressesAgree
  PROVE  ~ FormProblem(MakeChoiceCall(by))
<1> DEFINE call == MakeChoiceCall(by)
           ins == Instruction(call)
           a == Bound(MakeChoice, ins)
           args == Args(MakeChoice, ins)
<1>1. /\ call.b = MakeChoiceBuilder /\ call.program = RpsProgram /\ call.signer = Player
      /\ call.given = [gameSession |-> sessionPda,
                       player1Profile |-> ProfilePda(Player),
                       player2Profile |-> ProfilePda(Opponent), player |-> Player]
      /\ call.rest = <<>> /\ call.args = [choice |-> "Rock"]
  BY DEF MakeChoiceCall, GameCall, Call
<1> HIDE DEF call
<1>2. /\ DOMAIN call.given = {"gameSession", "player1Profile", "player2Profile",
                              "player"}
      /\ call.given["gameSession"] = sessionPda
      /\ call.given["player1Profile"] = ProfilePda(Player)
      /\ call.given["player2Profile"] = ProfilePda(Opponent)
      /\ call.given["player"] = Player /\ "accountType" \notin DOMAIN call.args
  BY <1>1
<1>3. Matched(call.b, MakeChoice, 4) /\ Extended(call)
  BY <1>1, BuildersMatch DEF Extended
<1>4. \A name \in DOMAIN call.given : a[name] = call.given[name]
  <2>1. \A name \in NamesOf(call.b) : a[name] = At(call, name)
    BY <1>3, MatchedCall
  <2> QED
    BY <1>1, <1>2, <2>1, BuildersList, GivenAt
<1>5. ins.program = RpsProgram /\ ins.name = "makeChoice"
  <2>1. MakeChoiceBuilder.name = "makeChoice"
    BY RpsBuilderNames
  <2> QED
    BY <1>1, <2>1 DEF Instruction, Build
<1>6. HandlerOf(ins) = MakeChoice
  BY <1>1, HandledBy, RpsBuilderNames, RpsHandled
<1> HIDE DEF ins, a, args
<1>7. /\ DOMAIN MakeChoice.rules = {"player1Profile", "player2Profile"}
      /\ MakeChoice.rules["player1Profile"] = ProfileOf("player1")
      /\ MakeChoice.rules["player2Profile"] = ProfileOf("player2")
  BY DEF MakeChoice, Handler
<1>8. ASSUME NEW side, HasFields(ProfileOf(side), a, chain)
      PROVE  /\ sessionPda \in DOMAIN chain
             /\ AddressBy(ProfileOf(side), RpsProgram, a, args, chain) =
                  ProfilePda(chain[sessionPda].data[side])
  <2> DEFINE r == ProfileOf(side)
  <2>1. /\ "address" \notin DOMAIN r /\ "seeds" \in DOMAIN r /\ r.program = Self
        /\ r.seeds = <<Text("player_profile_v35"), Field("gameSession", side)>>
    BY DEF ProfileOf, Derived
  <2>2. /\ Field("gameSession", side)[1] = "field"
        /\ Field("gameSession", side)[2] = "gameSession"
    BY DEF Field
  <2> HIDE DEF r
  <2>3. a["gameSession"] = sessionPda
    BY <1>2, <1>4
  <2>4. sessionPda \in DOMAIN chain
    <3>1. 2 \in DOMAIN r.seeds /\ r.seeds[2] = Field("gameSession", side)
      BY <2>1
    <3> QED
      BY <1>8, <2>1, <2>2, <2>3, <3>1 DEF HasFields, r
  <2>5. [k \in DOMAIN r.seeds |-> Seed(r.seeds[k], a, args, chain)] =
          <<Key("player_profile_v35"), chain[sessionPda].data[side]>>
    <3>1. Seed(Text("player_profile_v35"), a, args, chain) = Key("player_profile_v35")
      BY DEF Seed, Text
    <3>2. Seed(Field("gameSession", side), a, args,
               chain) = chain[a["gameSession"]].data[side]
      <4>1. /\ Field("gameSession", side)[1] = "field"
            /\ Field("gameSession", side)[2] = "gameSession"
            /\ Field("gameSession", side)[3] = side
        BY DEF Field
      <4> QED
        BY <4>1 DEF Seed
    <3>3. DOMAIN r.seeds = 1..2 /\ r.seeds[1] = Text("player_profile_v35")
          /\ r.seeds[2] = Field("gameSession", side)
      BY <2>1
    <3> DEFINE made == [k \in DOMAIN r.seeds |-> Seed(r.seeds[k], a, args, chain)]
    <3>4. DOMAIN made = 1..2 /\ made[1] = Key("player_profile_v35")
          /\ made[2] = chain[sessionPda].data[side]
      BY <2>3, <3>1, <3>2, <3>3
    <3>5. made = [k \in 1..2 |-> made[k]]
      BY <3>3
    <3> HIDE DEF made
    <3> QED
      BY <3>4, <3>5 DEF made
  <2> QED
    BY <2>1, <2>4, <2>5, ProgramOf DEF AddressBy, ProfilePda, r
<1>9. ASSUME NEW name \in DOMAIN MakeChoice.rules,
             HasFields(MakeChoice.rules[name], a, chain)
      PROVE  a[name] = AddressBy(MakeChoice.rules[name], RpsProgram, a, args, chain)
  <2>1. CASE name = "player1Profile"
    <3>1. AddressBy(ProfileOf("player1"), RpsProgram, a, args,
                    chain) = ProfilePda(Player)
      BY <1>7, <1>8, <1>9, <2>1, SessionHeld
    <3> QED
      BY <1>2, <1>4, <1>7, <2>1, <3>1
  <2>2. CASE name = "player2Profile"
    <3>1. AddressBy(ProfileOf("player2"), RpsProgram, a, args,
                    chain) = ProfilePda(Opponent)
      BY <1>7, <1>8, <1>9, <2>2, SessionHeld
    <3> QED
      BY <1>2, <1>4, <1>7, <2>2, <3>1
  <2> QED
    BY <1>7, <2>1, <2>2
<1>10. ~ Misaddressed(MakeChoice, ins, chain)
  BY <1>5, <1>9 DEF Misaddressed, a, args
<1>11. SignsForPda(ins, a) /\ PermissionFits(ins, a)
  BY <1>5 DEF SignsForPda, PermissionFits, Delegations, PermissionSetups
<1>12. \A name \in SignersOf(call.b) : At(call, name) = call.signer
  BY <1>1, <1>2, BuildersList, GivenAt
<1>13. Encodes(call)
  BY <1>2 DEF Encodes
<1> QED
  BY <1>1, <1>3, <1>6, <1>10, <1>11, <1>12, <1>13, Formed DEF call, ins, a

-----------------------------------------------------------------------------
(* Every call of the clients is one its program can accept, or misformed.   *)

(* Who makes a call.                                                        *)
LEMMA CallBy ==
  ASSUME NEW by, NEW signer, NEW b, NEW program, NEW given, NEW args, NEW rest
  PROVE  Call(by, signer, b, program, given, args, rest).by = by
BY DEF Call

(* The programs the builders of game and permission calls were made for.    *)
LEMMA RpsHomes ==
  /\ InitializePlayerBuilder.home = RpsProgram /\ StartGameBuilder.home = RpsProgram
  /\ StartGameWithTicketBuilder.home = RpsProgram /\ MakeChoiceBuilder.home = RpsProgram
  /\ PersistResultsBuilder.home = RpsProgram /\ DelegatePdaBuilder.home = RpsProgram
  /\ ClosePlayerBuilder.home = RpsProgram
  /\ OnMatchFoundBuilder.home = RpsProgram /\ OnMatchFoundBuilder.name = "onMatchFound"
  /\ DelegatePermissionCall.home = PermissionProgram
  /\ DelegatePermissionCall.name = "delegatePermission"
BY DEF Builder, InitializePlayerBuilder, StartGameBuilder, StartGameWithTicketBuilder,
       MakeChoiceBuilder, PersistResultsBuilder, DelegatePdaBuilder, ClosePlayerBuilder,
       OnMatchFoundBuilder, DelegatePermissionCall

(* A player's call of the duel program is malformed for the reasons         *)
(* Misformed gives: the address a web client calls, and the owner in a      *)
(* delegation.                                                              *)
LEMMA DuelCallFormed ==
  ASSUME NEW by \in {"sdk", "web"}, NEW b, NEW given, NEW args, NEW rest,
         duel \in Deployments, b.home = DuelProgram,
         LET call == PlayerCall(by, b, given, args, rest) IN
         \/ /\ b.name \in TicketNames \ {"delegateTicket"}
            /\ CalledProgram(by, b) = duel => ~ FormProblem(call)
         \/ /\ b.name = "delegateTicket"
            /\ CalledProgram(by, b) = duel => (FormProblem(call) <=> duel # DuelProgram)
  PROVE  LET call == PlayerCall(by, b, given, args, rest) IN
         FormProblem(call) <=> Misformed(call)
<1> DEFINE call == PlayerCall(by, b, given, args, rest)
<1>1. call.by = by /\ call.b = b /\ call.program = CalledProgram(by, b)
  BY CallFields, CallBy DEF PlayerCall
<1>2. CASE by = "web" /\ duel # DuelProgram
  <2>1. call.program \notin {duel, RpsProgram, PermissionProgram}
    BY <1>1, <1>2, Programs DEF CalledProgram
  <2> QED
    BY <1>1, <1>2, <2>1, NotDeployed DEF Misformed
<1>3. CASE ~ (by = "web" /\ duel # DuelProgram)
  <2>1. CalledProgram(by, b) = duel
    BY <1>3 DEF CalledProgram
  <2> HIDE DEF call
  <2>2. CASE b.name = "delegateTicket"
    BY <1>1, <1>3, <2>1, <2>2 DEF Misformed, TicketNames, call
  <2>3. CASE b.name # "delegateTicket"
    <3>1. ~ FormProblem(call) /\ b.name \in TicketNames \ {"delegateTicket"}
      BY <2>1, <2>3 DEF call
    <3> QED
      BY <1>1, <1>3, <3>1 DEF Misformed, TicketNames, call
  <2> QED
    BY <2>2, <2>3
<1> QED
  BY <1>2, <1>3

(* A call of another program without a problem is none Misformed lists.     *)
LEMMA OtherCallFormed ==
  ASSUME NEW call, call.b.home \in {RpsProgram, PermissionProgram},
         call.b.name \notin {"delegateQueue", "delegateTicket", "delegatePda",
                             "setupQueuePermission"},
         ~ FormProblem(call)
  PROVE  FormProblem(call) <=> Misformed(call)
BY Programs DEF Misformed

(* The calls around a ticket, ...                                           *)
LEMMA TicketCallsFormed ==
  ASSUME NEW by \in {"sdk", "web"}, duel \in Deployments,
         NEW given \in {[pda |-> ticketPda, payer |-> Player],
                        [pda |-> ticketPda, payer |-> Player, validator |-> Validator]},
         NEW call \in TicketCalls(by, given)
  PROVE  FormProblem(call) <=> Misformed(call)
<1> DEFINE Right == FormProblem(call) <=> Misformed(call)
<1>1. CASE call = CreateTicketCall(by)
  <2>1. CalledProgram(by, CreateTicketBuilder) = duel => ~ FormProblem(call)
    BY <1>1, CreateTicketFormed
  <2> QED
    BY <1>1, <2>1, DuelCallFormed, BuilderHomes, DuelBuilderNames
    DEF CreateTicketCall, TicketNames
<1>2. CASE call = TicketPermissionCall(by)
  <2>1. CalledProgram(by, SetupTicketPermissionBuilder) = duel => ~ FormProblem(call)
    BY <1>2, TicketPermissionFormed
  <2> QED
    BY <1>2, <2>1, DuelCallFormed, BuilderHomes, DuelBuilderNames
    DEF TicketPermissionCall, TicketNames
<1>3. CASE call = DelegatePermission(by, Player, ticketPda, <<Also(Validator, FALSE)>>)
  <2>1. ~ FormProblem(call)
    BY <1>3, DelegatePermissionFormed
  <2>2. call.b = DelegatePermissionCall
    BY <1>3, CallFields DEF DelegatePermission
  <2> QED
    BY <2>1, <2>2, RpsHomes, OtherCallFormed
<1>4. CASE call = DelegateTicketCall(by, given)
  <2>1. CalledProgram(by, DelegateTicketBuilder) = duel =>
          (FormProblem(call) <=> duel # DuelProgram)
    BY <1>4, DelegateTicketFormed
  <2> QED
    BY <1>4, <2>1, DuelCallFormed, BuilderHomes, DuelBuilderNames DEF DelegateTicketCall
<1>5. CASE call = JoinQueueCall(by)
  <2>1. CalledProgram(by, JoinQueueBuilder) = duel => ~ FormProblem(call)
    BY <1>5, JoinQueueFormed
  <2> QED
    BY <1>5, <2>1, DuelCallFormed, BuilderHomes, DuelBuilderNames DEF JoinQueueCall,
       TicketNames
<1>6. CASE call = CancelTicketCall(by)
  <2>1. CalledProgram(by, CancelTicketBuilder) = duel => ~ FormProblem(call)
    BY <1>6, CancelTicketFormed
  <2> QED
    BY <1>6, <2>1, DuelCallFormed, BuilderHomes, DuelBuilderNames
    DEF CancelTicketCall, TicketNames
<1>7. CASE call = CloseTicketCall(by)
  <2>1. CalledProgram(by, CloseTicketBuilder) = duel => ~ FormProblem(call)
    BY <1>7, CloseTicketFormed
  <2> QED
    BY <1>7, <2>1, DuelCallFormed, BuilderHomes, DuelBuilderNames
    DEF CloseTicketCall, TicketNames
<1>8. CASE call = FlushMatchesCall(by)
  <2>1. CalledProgram(by, FlushMatchesBuilder) = duel => ~ FormProblem(call)
    BY <1>8, FlushMatchesFormed
  <2> QED
    BY <1>8, <2>1, DuelCallFormed, BuilderHomes, DuelBuilderNames
    DEF FlushMatchesCall, TicketNames
<1>9. CASE call = CommitTicketsCall(by)
  <2>1. CalledProgram(by, CommitTicketsBuilder) = duel => ~ FormProblem(call)
    BY <1>9, CommitTicketsFormed
  <2> QED
    BY <1>9, <2>1, DuelCallFormed, BuilderHomes, DuelBuilderNames
    DEF CommitTicketsCall, TicketNames
<1> QED
  BY <1>1, <1>2, <1>3, <1>4, <1>5, <1>6, <1>7, <1>8, <1>9 DEF TicketCalls

(* What a call of delegatePda is made of.                                   *)
LEMMA DelegatePdaCallFields ==
  ASSUME NEW by, NEW pda, NEW type
  PROVE  LET call == DelegatePdaCall(by, pda, type) IN
         /\ call.by = by /\ call.b = DelegatePdaBuilder
         /\ call.b.name = "delegatePda" /\ call.b.home = RpsProgram
BY CallFields, CallBy, RpsBuilderNames, RpsHomes DEF DelegatePdaCall, GameCall

(* ... the calls around a game, ...                                         *)
LEMMA GameCallsFormed ==
  ASSUME duel \in Deployments, Accounts, AddressesAgree, NEW by, NEW session,
         NEW call \in GameCalls(by, session),
         \/ by = "web" /\ session = WebSession
         \/ by = "integrator" /\ session = NamedSession
  PROVE  FormProblem(call) <=> Misformed(call)
<1>1. CASE call = InitializePlayerCall(by)
  <2>1. ~ FormProblem(call) /\ call.b = InitializePlayerBuilder
    BY <1>1, InitializePlayerFormed, CallFields DEF InitializePlayerCall, GameCall
  <2> QED
    BY <2>1, RpsBuilderNames, RpsHomes, OtherCallFormed
<1>2. CASE call = StartGameWithTicketCall(by)
  <2>1. ~ FormProblem(call) /\ call.b = StartGameWithTicketBuilder
    BY <1>2, StartGameWithTicketFormed, CallFields DEF StartGameWithTicketCall, GameCall
  <2> QED
    BY <2>1, RpsBuilderNames, RpsHomes, OtherCallFormed
<1>3. CASE call = DelegatePdaCall(by, sessionPda, session)
  <2>1. call.by = by /\ call.b.name = "delegatePda" /\ call.b.home = RpsProgram
    BY <1>3, DelegatePdaCallFields
  <2>2. Misformed(call) <=> by = "web"
    BY <2>1, Programs DEF Misformed
  <2>3. CASE by = "web" /\ session = WebSession
    BY <1>3, <2>2, <2>3, WebSessionMisformed
  <2>4. CASE by = "integrator" /\ session = NamedSession
    BY <1>3, <2>2, <2>4, NamedKinds, DelegatePdaFormed
  <2> QED
    BY <2>3, <2>4
<1>4. CASE call = MakeChoiceCall(by)
  <2>1. ~ FormProblem(call) /\ call.b = MakeChoiceBuilder
    BY <1>4, MakeChoiceFormed, CallFields DEF MakeChoiceCall, GameCall
  <2> QED
    BY <2>1, RpsBuilderNames, RpsHomes, OtherCallFormed
<1>5. CASE call = PersistResultsCall(by)
  <2>1. ~ FormProblem(call) /\ call.b = PersistResultsBuilder
    BY <1>5, PersistResultsFormed, CallFields DEF PersistResultsCall, GameCall
  <2> QED
    BY <2>1, RpsBuilderNames, RpsHomes, OtherCallFormed
<1> QED
  BY <1>1, <1>2, <1>3, <1>4, <1>5 DEF GameCalls

(* ... those of an integrator, ...                                          *)
LEMMA IntegratorCallsFormed ==
  ASSUME duel \in Deployments, Accounts, AddressesAgree, NEW call \in IntegratorCalls
  PROVE  FormProblem(call) <=> Misformed(call)
<1>1. CASE call \in GameCalls("integrator", NamedSession)
  BY <1>1, GameCallsFormed
<1>2. CASE call = StartGameCall("integrator")
  <2>1. ~ FormProblem(call) /\ call.b = StartGameBuilder
    BY <1>2, StartGameFormed, CallFields DEF StartGameCall, GameCall
  <2> QED
    BY <2>1, RpsBuilderNames, RpsHomes, OtherCallFormed
<1>3. CASE call = ClosePlayerCall("integrator")
  <2>1. ~ FormProblem(call) /\ call.b = ClosePlayerBuilder
    BY <1>3, ClosePlayerFormed, CallFields DEF ClosePlayerCall, GameCall
  <2> QED
    BY <2>1, RpsBuilderNames, RpsHomes, OtherCallFormed
<1>4. CASE call = DelegatePdaCall("integrator", ProfilePda(Player), NamedProfile)
  <2>1. ~ FormProblem(call)
    BY <1>4, NamedKinds, DelegatePdaFormed
  <2>2. call.by = "integrator" /\ call.b.name = "delegatePda" /\ call.b.home = RpsProgram
    BY <1>4, DelegatePdaCallFields
  <2> QED
    BY <2>1, <2>2, Programs DEF Misformed
<1>5. CASE call = DelegateQueueCall("integrator", Player, Operator)
  <2>1. call.by = "integrator" /\ call.b = DelegateQueueBuilder
    BY <1>5 DEF DelegateQueueCall, Call
  <2>2. FormProblem(call) <=> duel # DuelProgram
    BY <1>5, DelegateQueueFormed
  <2> QED
    BY <2>1, <2>2, DuelBuilderNames DEF Misformed
<1> QED
  BY <1>1, <1>2, <1>3, <1>4, <1>5 DEF IntegratorCalls

(* ... those of the operator, ...                                           *)
LEMMA OperatorCallsFormed ==
  ASSUME duel \in Deployments, NEW call \in OperatorCalls
  PROVE  FormProblem(call) <=> Misformed(call)
<1>1. ASSUME NEW o, call = TenantCall(o) PROVE FormProblem(call) <=> Misformed(call)
  <2>1. call.by = "sdk" /\ call.b = InitializeTenantBuilder
    BY <1>1, CallBy, CallFields DEF TenantCall
  <2>2. ~ FormProblem(call)
    BY <1>1, TenantFormed
  <2> QED
    BY <2>1, <2>2, DuelBuilderNames DEF Misformed
<1>2. CASE call = QueueCall
  <2>1. call.by = "sdk" /\ call.b = InitializeQueueBuilder
    BY <1>2, CallBy, CallFields DEF QueueCall
  <2>2. ~ FormProblem(call)
    BY <1>2, QueueFormed
  <2> QED
    BY <2>1, <2>2, DuelBuilderNames DEF Misformed
<1>3. ASSUME NEW a, call = QueuePermissionCall(a) PROVE FormProblem(call) <=> Misformed(call)
  <2>1. /\ call.by = "sdk" /\ call.b = SetupQueuePermissionBuilder
        /\ call.given.permission = PermissionPda(QueuePda(duel, a))
    BY <1>3, CallBy, CallFields DEF QueuePermissionCall
  <2>2. FormProblem(call) <=> PermissionPda(QueuePda(duel, a)) # PermissionPda(queuePda)
    BY <1>3, QueuePermissionFormed
  <2> QED
    BY <2>1, <2>2, DuelBuilderNames DEF Misformed
<1>4. ASSUME NEW a, call = DelegateQueueCall("sdk", Operator, a)
      PROVE  FormProblem(call) <=> Misformed(call)
  <2>1. call.by = "sdk" /\ call.b = DelegateQueueBuilder
    BY <1>4, CallBy, CallFields DEF DelegateQueueCall
  <2>2. FormProblem(call) <=> duel # DuelProgram
    BY <1>4, DelegateQueueFormed
  <2> QED
    BY <2>1, <2>2, DuelBuilderNames DEF Misformed
<1>5. ASSUME NEW x, call = DelegatePermission("sdk", Operator, x,
                                              <<Also(Validator, FALSE)>>)
      PROVE  FormProblem(call) <=> Misformed(call)
  <2>1. ~ FormProblem(call)
    BY <1>5, DelegatePermissionFormed
  <2>2. call.b = DelegatePermissionCall
    BY <1>5, CallFields DEF DelegatePermission
  <2> QED
    BY <2>1, <2>2, RpsHomes, OtherCallFormed
<1> QED
  BY <1>1, <1>2, <1>3, <1>4, <1>5 DEF OperatorCalls

(* ... and so all of them, in every chain whose accounts are at home.       *)
LEMMA CallsFormed ==
  ASSUME duel \in Deployments, Accounts, AddressesAgree, NEW call \in AllCalls
  PROVE  FormProblem(call) <=> Misformed(call)
<1>1. CASE call \in OperatorCalls
  BY <1>1, OperatorCallsFormed
<1>2. CASE call \in TicketCalls("sdk", [pda |-> ticketPda, payer |-> Player])
  BY <1>2, TicketCallsFormed
<1>3. CASE call \in TicketCalls("web", [pda |-> ticketPda, payer |-> Player,
                                        validator |-> Validator])
  BY <1>3, TicketCallsFormed
<1>4. CASE call \in GameCalls("web", WebSession)
  <2> DEFINE by == "web"
             session == WebSession
  <2>1. call \in GameCalls(by, session) /\ by = "web" /\ session = WebSession
    BY <1>4
  <2> HIDE DEF by, session
  <2> QED
    BY <2>1, GameCallsFormed
<1>5. CASE call \in IntegratorCalls
  BY <1>5, IntegratorCallsFormed
<1>6. CASE call = Callback
  <2>1. ~ FormProblem(call) /\ call.b = OnMatchFoundBuilder
    BY <1>6, CallbackFormed, CallFields DEF Callback
  <2> QED
    BY <2>1, RpsHomes, OtherCallFormed
<1> QED
  BY <1>1, <1>2, <1>3, <1>4, <1>5, <1>6 DEF AllCalls, PlayerCalls

(* Every call a client builds has the form its program asks for: as many    *)
(* accounts as the handler takes, in its order, with its privileges and at  *)
(* the addresses it derives, and arguments it can decode; or it is one of   *)
(* those Misformed lists. Wherever the duel program is deployed, whatever   *)
(* options the tenant has and whatever players did before                   *)
(* (sdk/src/generated, frontend/lib and init-queue.ts against the Accounts  *)
(* structs of the programs).                                                *)
THEOREM CallsWellFormed == LaunchSpec => []WellFormed
<1>1. LaunchInv => WellFormed
  BY CallsFormed DEF LaunchInv, WellFormed
<1> QED
  BY <1>1, LaunchKeepsInv, PTL

-----------------------------------------------------------------------------
(* What a client reads in an instruction is what was built. *)

(* A call as its builder's client parses it.                                *)
ReadAsBuilt(call) ==
  LET parsed == Parsed(call.b, {"validator"}, Instruction(call)) IN
  /\ \A n \in DOMAIN call.given : parsed.accounts[n] = call.given[n]
  /\ "accountType" \notin DOMAIN call.args =>
       \A n \in DOMAIN call.args : parsed.args[n] = call.args[n]
  /\ ("validator" \in DOMAIN parsed.accounts /\ "validator" \notin DOMAIN call.given)
       => call.program # call.b.home

(* A builder whose accounts and arguments each have a name of their own.    *)
Legible(b) ==
  /\ \E n \in Nat : DOMAIN b.accounts = 1..n
  /\ \A j, k \in DOMAIN b.accounts : b.accounts[j].name = b.accounts[k].name => j = k
  /\ \A j, k \in DOMAIN b.args : b.args[j] = b.args[k] => j = k
  /\ "validator" \notin DOMAIN b.defaults

(* A client reads in such a call what it was given.                         *)
LEMMA ReadCall ==
  ASSUME NEW call, Legible(call.b), Extended(call),
         DOMAIN call.given \subseteq NamesOf(call.b),
         "validator" \in DOMAIN call.given => call.given["validator"] # call.b.home,
         "accountType" \notin DOMAIN call.args =>
           \A name \in DOMAIN call.args : \E k \in DOMAIN call.b.args : call.b.args[k] = name
  PROVE  ReadAsBuilt(call)
<1> DEFINE b == call.b
           ins == Instruction(call)
           at(name) == CHOOSE k \in DOMAIN b.accounts : b.accounts[k].name = name
           there == {name \in NamesOf(b) :
                       name \in {"validator"} => ins.accounts[at(name)].address # b.home}
           parsed == Parsed(b, {"validator"}, ins)
<1>1. /\ parsed.accounts = [name \in there |-> ins.accounts[at(name)].address]
      /\ parsed.args = [name \in {b.args[k] : k \in DOMAIN b.args} |->
                          ins.args[CHOOSE k \in DOMAIN b.args : b.args[k] = name]]
  BY DEF Parsed, NamesOf
<1>2. PICK n \in Nat : DOMAIN b.accounts = 1..n
  BY DEF Legible
<1>3. /\ \A k \in 1..n : ins.accounts[k].address = At(call, b.accounts[k].name)
      /\ ins.args = [k \in DOMAIN b.args |-> EncodedArgs(call)[b.args[k]]]
  <2>1. n \in Nat /\ DOMAIN call.b.accounts = 1..n
    BY <1>2
  <2>2. \A k \in 1..n :
          /\ ins.accounts[k].address = At(call, call.b.accounts[k].name)
          /\ ins.accounts[k].writable = call.b.accounts[k].writable
          /\ ins.accounts[k].signer = call.b.accounts[k].signer
    BY <2>1, BuiltCall, Zenon
  <2>3. ins.args = [k \in DOMAIN b.args |-> EncodedArgs(call)[b.args[k]]]
    BY DEF Instruction, Build, EncodedArgs
  <2> QED
    BY <2>2, <2>3
<1> HIDE DEF ins, parsed, there
<1>4. ASSUME NEW name \in NamesOf(b)
      PROVE  ins.accounts[at(name)].address = At(call, name)
  <2>1. PICK k \in 1..n : b.accounts[k].name = name
    BY <1>2 DEF NamesOf
  <2>2. at(name) = k
    BY <1>2, <2>1 DEF Legible
  <2> QED
    BY <1>3, <2>1, <2>2
<1>5. ASSUME NEW name \in DOMAIN call.given
      PROVE  parsed.accounts[name] = call.given[name]
  <2>1. name \in NamesOf(b) /\ At(call, name) = call.given[name]
    BY GivenAt
  <2>2. name \in there
    BY <1>4, <2>1 DEF there
  <2> QED
    <3>1. parsed.accounts[name] = ins.accounts[at(name)].address
      BY <1>1, <2>2
    <3>2. ins.accounts[at(name)].address = At(call, name)
      BY <1>4, <2>1
    <3> QED
      BY <2>1, <3>1, <3>2
<1>6. ASSUME "accountType" \notin DOMAIN call.args, NEW name \in DOMAIN call.args
      PROVE  parsed.args[name] = call.args[name]
  <2>1. EncodedArgs(call) = call.args
    BY <1>6 DEF EncodedArgs
  <2>2. PICK k \in DOMAIN b.args : b.args[k] = name
    BY <1>6
  <2>3. (CHOOSE j \in DOMAIN b.args : b.args[j] = name) = k
    BY <2>2 DEF Legible
  <2>4. parsed.args[name] = ins.args[k]
    <3>1. name \in {b.args[j] : j \in DOMAIN b.args}
      BY <2>2
    <3> QED
      BY <1>1, <2>3, <3>1
  <2>5. ins.args[k] = EncodedArgs(call)[b.args[k]]
    BY <1>3
  <2> QED
    BY <2>1, <2>2, <2>4, <2>5
<1>7. ASSUME "validator" \in DOMAIN parsed.accounts, "validator" \notin DOMAIN call.given
      PROVE  call.program # b.home
  <2>1. "validator" \in there
    BY <1>1, <1>7
  <2>2. At(call, "validator") # b.home
    BY <1>4, <2>1 DEF there
  <2>3. At(call, "validator") = call.program
    BY <1>7 DEF At, Resolved, Legible
  <2> QED
    BY <2>2, <2>3
<1> QED
  BY <1>5, <1>6, <1>7 DEF ReadAsBuilt, parsed, ins

(* A builder that matches a handler is legible.                             *)
LEMMA MatchedLegible ==
  ASSUME NEW b, NEW h, NEW n, Matched(b, h, n), "validator" \notin DOMAIN b.defaults,
         \A j, k \in DOMAIN b.args : b.args[j] = b.args[k] => j = k
  PROVE  Legible(b)
BY DEF Matched, Legible

(* So are all builders of the clients, ...                                  *)
LEMMA BuildersLegible ==
  /\ Legible(InitializeTenantBuilder)
  /\ Legible(InitializeQueueBuilder)
  /\ Legible(CreateTicketBuilder)
  /\ Legible(SetupQueuePermissionBuilder)
  /\ Legible(SetupTicketPermissionBuilder)
  /\ Legible(CancelTicketBuilder)
  /\ Legible(CloseTicketBuilder)
  /\ Legible(JoinQueueBuilder)
  /\ Legible(FlushMatchesBuilder)
  /\ Legible(CommitTicketsBuilder)
  /\ Legible(InitializePlayerBuilder)
  /\ Legible(StartGameBuilder)
  /\ Legible(StartGameWithTicketBuilder)
  /\ Legible(MakeChoiceBuilder)
  /\ Legible(PersistResultsBuilder)
  /\ Legible(ClosePlayerBuilder)
  /\ Legible(OnMatchFoundBuilder)
  /\ Legible(DelegateQueueBuilder) /\ Legible(DelegateTicketBuilder)
  /\ Legible(DelegatePdaBuilder) /\ Legible(DelegatePermissionCall)
<1>1. Legible(InitializeTenantBuilder)
  <2>1. "validator" \notin DOMAIN InitializeTenantBuilder.defaults
    BY DEF InitializeTenantBuilder, Builder
  <2>2. Matched(InitializeTenantBuilder, InitializeTenant,
                3) /\ SameArgs(InitializeTenantBuilder, InitializeTenant)
    BY BuildersMatch, BuildersEncode
  <2> QED
    BY <2>1, <2>2, MatchedLegible DEF SameArgs
<1>2. Legible(InitializeQueueBuilder)
  <2>1. "validator" \notin DOMAIN InitializeQueueBuilder.defaults
    BY DEF InitializeQueueBuilder, Builder
  <2>2. Matched(InitializeQueueBuilder, InitializeQueue,
                4) /\ SameArgs(InitializeQueueBuilder, InitializeQueue)
    BY BuildersMatch, BuildersEncode
  <2> QED
    BY <2>1, <2>2, MatchedLegible DEF SameArgs
<1>3. Legible(CreateTicketBuilder)
  <2>1. "validator" \notin DOMAIN CreateTicketBuilder.defaults
    BY DEF CreateTicketBuilder, Builder
  <2>2. /\ Matched(CreateTicketBuilder, CreateTicket, 4)
        /\ SameArgs(CreateTicketBuilder, CreateTicket)
    BY BuildersMatch, BuildersEncode
  <2> QED
    BY <2>1, <2>2, MatchedLegible DEF SameArgs
<1>4. Legible(SetupQueuePermissionBuilder)
  <2>1. "validator" \notin DOMAIN SetupQueuePermissionBuilder.defaults
    BY DEF SetupQueuePermissionBuilder, Builder
  <2>2. Matched(SetupQueuePermissionBuilder, SetupQueuePermission,
                5) /\ SameArgs(SetupQueuePermissionBuilder, SetupQueuePermission)
    BY BuildersMatch, BuildersEncode
  <2> QED
    BY <2>1, <2>2, MatchedLegible DEF SameArgs
<1>5. Legible(SetupTicketPermissionBuilder)
  <2>1. "validator" \notin DOMAIN SetupTicketPermissionBuilder.defaults
    BY DEF SetupTicketPermissionBuilder, Builder
  <2>2. Matched(SetupTicketPermissionBuilder, SetupTicketPermission,
                6) /\ SameArgs(SetupTicketPermissionBuilder, SetupTicketPermission)
    BY BuildersMatch, BuildersEncode
  <2> QED
    BY <2>1, <2>2, MatchedLegible DEF SameArgs
<1>6. Legible(CancelTicketBuilder)
  <2>1. "validator" \notin DOMAIN CancelTicketBuilder.defaults
    BY DEF CancelTicketBuilder, Builder
  <2>2. /\ Matched(CancelTicketBuilder, CancelTicket, 3)
        /\ SameArgs(CancelTicketBuilder, CancelTicket)
    BY BuildersMatch, BuildersEncode
  <2> QED
    BY <2>1, <2>2, MatchedLegible DEF SameArgs
<1>7. Legible(CloseTicketBuilder)
  <2>1. "validator" \notin DOMAIN CloseTicketBuilder.defaults
    BY DEF CloseTicketBuilder, Builder
  <2>2. /\ Matched(CloseTicketBuilder, CloseTicket, 3)
        /\ SameArgs(CloseTicketBuilder, CloseTicket)
    BY BuildersMatch, BuildersEncode
  <2> QED
    BY <2>1, <2>2, MatchedLegible DEF SameArgs
<1>8. Legible(JoinQueueBuilder)
  <2>1. "validator" \notin DOMAIN JoinQueueBuilder.defaults
    BY DEF JoinQueueBuilder, Builder
  <2>2. Matched(JoinQueueBuilder, JoinQueue, 5) /\ SameArgs(JoinQueueBuilder, JoinQueue)
    BY BuildersMatch, BuildersEncode
  <2> QED
    BY <2>1, <2>2, MatchedLegible DEF SameArgs
<1>9. Legible(FlushMatchesBuilder)
  <2>1. "validator" \notin DOMAIN FlushMatchesBuilder.defaults
    BY DEF FlushMatchesBuilder, Builder
  <2>2. /\ Matched(FlushMatchesBuilder, FlushMatches, 3)
        /\ SameArgs(FlushMatchesBuilder, FlushMatches)
    BY BuildersMatch, BuildersEncode
  <2> QED
    BY <2>1, <2>2, MatchedLegible DEF SameArgs
<1>10. Legible(CommitTicketsBuilder)
  <2>1. "validator" \notin DOMAIN CommitTicketsBuilder.defaults
    BY DEF CommitTicketsBuilder, Builder
  <2>2. Matched(CommitTicketsBuilder, CommitTickets,
                4) /\ SameArgs(CommitTicketsBuilder, CommitTickets)
    BY BuildersMatch, BuildersEncode
  <2> QED
    BY <2>1, <2>2, MatchedLegible DEF SameArgs
<1>11. Legible(InitializePlayerBuilder)
  <2>1. "validator" \notin DOMAIN InitializePlayerBuilder.defaults
    BY DEF InitializePlayerBuilder, Builder
  <2>2. Matched(InitializePlayerBuilder, InitializePlayer,
                4) /\ SameArgs(InitializePlayerBuilder, InitializePlayer)
    BY BuildersMatch, BuildersEncode
  <2> QED
    BY <2>1, <2>2, MatchedLegible DEF SameArgs
<1>12. Legible(StartGameBuilder)
  <2>1. "validator" \notin DOMAIN StartGameBuilder.defaults
    BY DEF StartGameBuilder, Builder
  <2>2. Matched(StartGameBuilder, StartGame, 3) /\ SameArgs(StartGameBuilder, StartGame)
    BY BuildersMatch, BuildersEncode
  <2> QED
    BY <2>1, <2>2, MatchedLegible DEF SameArgs
<1>13. Legible(StartGameWithTicketBuilder)
  <2>1. "validator" \notin DOMAIN StartGameWithTicketBuilder.defaults
    BY DEF StartGameWithTicketBuilder, Builder
  <2>2. Matched(StartGameWithTicketBuilder, StartGameWithTicket,
                4) /\ SameArgs(StartGameWithTicketBuilder, StartGameWithTicket)
    BY BuildersMatch, BuildersEncode
  <2> QED
    BY <2>1, <2>2, MatchedLegible DEF SameArgs
<1>14. Legible(MakeChoiceBuilder)
  <2>1. "validator" \notin DOMAIN MakeChoiceBuilder.defaults
    BY DEF MakeChoiceBuilder, Builder
  <2>2. /\ Matched(MakeChoiceBuilder, MakeChoice, 4)
        /\ SameArgs(MakeChoiceBuilder, MakeChoice)
    BY BuildersMatch, BuildersEncode
  <2> QED
    BY <2>1, <2>2, MatchedLegible DEF SameArgs
<1>15. Legible(PersistResultsBuilder)
  <2>1. "validator" \notin DOMAIN PersistResultsBuilder.defaults
    BY DEF PersistResultsBuilder, Builder
  <2>2. Matched(PersistResultsBuilder, PersistResults,
                6) /\ SameArgs(PersistResultsBuilder, PersistResults)
    BY BuildersMatch, BuildersEncode
  <2> QED
    BY <2>1, <2>2, MatchedLegible DEF SameArgs
<1>16. Legible(ClosePlayerBuilder)
  <2>1. "validator" \notin DOMAIN ClosePlayerBuilder.defaults
    BY DEF ClosePlayerBuilder, Builder
  <2>2. /\ Matched(ClosePlayerBuilder, ClosePlayer, 3)
        /\ SameArgs(ClosePlayerBuilder, ClosePlayer)
    BY BuildersMatch, BuildersEncode
  <2> QED
    BY <2>1, <2>2, MatchedLegible DEF SameArgs
<1>17. Legible(OnMatchFoundBuilder)
  <2>1. "validator" \notin DOMAIN OnMatchFoundBuilder.defaults
    BY DEF OnMatchFoundBuilder, Builder
  <2>2. /\ Matched(OnMatchFoundBuilder, OnMatchFound, 1)
        /\ SameArgs(OnMatchFoundBuilder, OnMatchFound)
    BY BuildersMatch, BuildersEncode
  <2> QED
    BY <2>1, <2>2, MatchedLegible DEF SameArgs
<1>18. ASSUME NEW b, NEW p, b.accounts = DelegationAccounts, b.args = <<"accountType">>,
             b.defaults = DelegationDefaults(p)
      PROVE  Legible(b)
  <2>1. "validator" \notin DOMAIN b.defaults
    BY <1>18 DEF DelegationDefaults
  <2>2. Matched(b, Delegation,
                9) /\ \A i1, i2 \in DOMAIN b.args : b.args[i1] = b.args[i2] => i1 = i2
    BY <1>18, DelegationMatched
  <2> QED
    BY <2>1, <2>2, MatchedLegible
<1>19. Legible(DelegateQueueBuilder) /\ Legible(DelegateTicketBuilder)
  BY <1>18, DuelDelegationBuilders
<1>20. Legible(DelegatePdaBuilder)
  BY <1>18, RpsDelegationBuilder
<1>21. Legible(DelegatePermissionCall)
  <2>1. DelegatePermissionCall.defaults = <<>> /\ DelegatePermissionCall.args = <<>>
    BY DEF DelegatePermissionCall, Builder
  <2>2. /\ "validator" \notin DOMAIN DelegatePermissionCall.defaults
        /\ \A j, k \in DOMAIN DelegatePermissionCall.args :
             DelegatePermissionCall.args[j] = DelegatePermissionCall.args[k] => j = k
    BY <2>1
  <2> QED
    BY <2>2, PermissionMatched, MatchedLegible
<1> QED
  BY <1>1, <1>2, <1>3, <1>4, <1>5, <1>6, <1>7, <1>8, <1>9, <1>10, <1>11, <1>12, <1>13,
     <1>14, <1>15, <1>16, <1>17, <1>18, <1>19, <1>20, <1>21

(* A call whose caller gives what the builder names.                        *)
LEMMA GivenCall ==
  ASSUME NEW by, NEW signer, NEW b, NEW program, NEW given, NEW args, NEW rest,
         Legible(b), rest = <<>> \/ \E address, writable : rest = <<Also(address, writable)>>,
         DOMAIN given \subseteq NamesOf(b),
         "validator" \in DOMAIN given => given["validator"] # b.home,
         \/ "accountType" \in DOMAIN args
         \/ \A name \in DOMAIN args : \E k \in DOMAIN b.args : b.args[k] = name
  PROVE  ReadAsBuilt(Call(by, signer, b, program, given, args, rest))
<1> DEFINE call == Call(by, signer, b, program, given, args, rest)
<1>1. call.b = b /\ call.given = given /\ call.args = args /\ call.rest = rest
  BY CallFields
<1> HIDE DEF call
<1>2. Extended(call)
  BY <1>1 DEF Extended
<1> QED
  BY <1>1, <1>2, ReadCall DEF call

(* Calls without arguments have none to lose.                               *)
LEMMA NoArgs ==
  ASSUME NEW b
  PROVE  \A name \in DOMAIN <<>> : \E k \in DOMAIN b.args : b.args[k] = name
OBVIOUS

(* The validator is not one of the programs.                                *)
LEMMA ValidatorApart ==
  Validator \notin {DuelProgram, RpsProgram, PermissionProgram}
BY DEF Validator, DuelProgram, RpsProgram, PermissionProgram, Key

(* ... delegatePermission, whose validator follows its accounts, ...        *)
LEMMA PermissionCallRead ==
  ASSUME NEW by, NEW signer, NEW account
  PROVE  ReadAsBuilt(DelegatePermission(by, signer, account,
                                        <<Also(Validator, FALSE)>>))
<1> DEFINE permission == PermissionPda(account)
           given ==
             [payer |-> signer, authority |-> signer, permissionedAccount |-> account,
              permission |-> permission, systemProgram |-> SystemProgram,
              ownerProgram |-> PermissionProgram,
              delegationBuffer |-> PermissionDelegationPdas(permission).buffer,
              delegationRecord |-> PermissionDelegationPdas(permission).record,
              delegationMetadata |-> PermissionDelegationPdas(permission).metadata,
              delegationProgram |-> DelegationProgram]
           rest == <<Also(Validator, FALSE)>>
<1>1. DelegatePermission(by, signer, account, rest) =
        Call(by, signer, DelegatePermissionCall, PermissionProgram, given, <<>>, rest)
  BY Zenon DEF DelegatePermission
<1>2. /\ DOMAIN given \subseteq NamesOf(DelegatePermissionCall)
      /\ "validator" \notin DOMAIN given
  <2>1. DOMAIN given = {PermissionNames[k] : k \in 1..10}
    BY DEF PermissionNames
  <2>2. \A k \in 1..10 : PermissionNames[k] # "validator"
    BY DEF PermissionNames
  <2> HIDE DEF given
  <2> QED
    BY <2>1, <2>2, PermissionMatched
<1>3. \E address, writable : rest = <<Also(address, writable)>>
  OBVIOUS
<1> HIDE DEF given, rest
<1> QED
  BY <1>1, <1>2, <1>3, GivenCall, BuildersLegible, NoArgs DEF rest

LEMMA DelegateQueueRead ==
  ASSUME NEW by, NEW signer, NEW authority
  PROVE  ReadAsBuilt(DelegateQueueCall(by, signer, authority))
<1> DEFINE call == DelegateQueueCall(by, signer, authority)
           given == [pda |-> QueuePda(duel, authority), payer |-> signer,
                     validator |-> Validator]
           args == [accountType |-> QueueKind(authority)]
<1>1. call = Call(by, signer, DelegateQueueBuilder, duel, given, args, <<>>)
  BY Zenon DEF DelegateQueueCall
<1>2. DOMAIN given \subseteq NamesOf(DelegateQueueBuilder)
      /\ given["validator"] # DelegateQueueBuilder.home /\ "accountType" \in DOMAIN args
  BY DuelDelegationBuilders, DelegationMatched, ValidatorApart DEF DelegationNames
<1> HIDE DEF call, given, args
<1>3. ReadAsBuilt(call)
  BY <1>1, <1>2, GivenCall, BuildersLegible
<1> QED
  BY <1>3 DEF call

(* ... the calls of the operator, ...                                       *)
LEMMA OperatorCallsRead ==
  ASSUME NEW call \in OperatorCalls
  PROVE  ReadAsBuilt(call)
<1>1. ASSUME NEW o, call = TenantCall(o) PROVE ReadAsBuilt(call)
  <2> DEFINE args == [tenantProgramId |-> RpsProgram, eloOffset |-> o.eloOffset,
                      eloSize |-> o.eloSize, eloWindow |-> Window,
                      callbackProgramId |-> RpsProgram,
                      callbackDiscriminator |-> "onMatchFound"]
             given == [authority |-> Operator]
  <2>1. call = Call("sdk", Operator, InitializeTenantBuilder, duel, given, args, <<>>)
    BY <1>1, Zenon DEF TenantCall
  <2>2. /\ DOMAIN given \subseteq NamesOf(InitializeTenantBuilder)
        /\ "validator" \notin DOMAIN given
    BY BuildersList
  <2>3. \A name \in DOMAIN args : \E k \in DOMAIN InitializeTenantBuilder.args :
          InitializeTenantBuilder.args[k] = name
    <3>1. InitializeTenantBuilder.args =
            <<"tenantProgramId", "eloOffset", "eloSize", "eloWindow",
              "callbackProgramId",
              "callbackDiscriminator">>
      BY DEF InitializeTenantBuilder, Builder
    <3> QED
      BY <3>1
  <2> HIDE DEF args, given
  <2> QED
    BY <2>1, <2>2, <2>3, GivenCall, BuildersLegible
<1>2. CASE call = QueueCall
  <2> DEFINE given == [authority |-> Operator, tenant |-> tenantPda]
  <2>1. call = Call("sdk", Operator, InitializeQueueBuilder, duel, given, <<>>, <<>>)
    BY <1>2 DEF QueueCall
  <2>2. /\ DOMAIN given \subseteq NamesOf(InitializeQueueBuilder)
        /\ "validator" \notin DOMAIN given
    BY BuildersList
  <2> HIDE DEF given
  <2> QED
    BY <2>1, <2>2, GivenCall, BuildersLegible, NoArgs
<1>3. ASSUME NEW a, call = QueuePermissionCall(a) PROVE ReadAsBuilt(call)
  <2> DEFINE given == [authority |-> Operator,
                       permission |-> PermissionPda(QueuePda(duel, a)),
                       permissionProgram |-> PermissionProgram]
  <2>1. call = Call("sdk", Operator, SetupQueuePermissionBuilder, duel, given, <<>>,
                    <<>>)
    BY <1>3, Zenon DEF QueuePermissionCall
  <2>2. /\ DOMAIN given \subseteq NamesOf(SetupQueuePermissionBuilder)
        /\ "validator" \notin DOMAIN given
    BY BuildersList
  <2> HIDE DEF given
  <2> QED
    BY <2>1, <2>2, GivenCall, BuildersLegible, NoArgs
<1>4. ASSUME NEW a, call = DelegateQueueCall("sdk", Operator, a) PROVE ReadAsBuilt(call)
  BY <1>4, DelegateQueueRead
<1>5. ASSUME NEW account,
             call = DelegatePermission("sdk", Operator, account,
                                       <<Also(Validator, FALSE)>>)
      PROVE  ReadAsBuilt(call)
  BY <1>5, PermissionCallRead
<1> QED
  BY <1>1, <1>2, <1>3, <1>4, <1>5 DEF OperatorCalls

(* ... those around a ticket, ...                                           *)
LEMMA TicketCallsRead ==
  ASSUME NEW by,
         NEW delegated \in {[pda |-> ticketPda, payer |-> Player],
                            [pda |-> ticketPda, payer |-> Player,
                             validator |-> Validator]},
         NEW call \in TicketCalls(by, delegated)
  PROVE  ReadAsBuilt(call)
<1>0. ASSUME NEW b, NEW given, NEW rest, call = PlayerCall(by, b, given, <<>>,
                                                           rest), Legible(b),
             rest = <<>> \/ \E address, writable : rest = <<Also(address, writable)>>,
             DOMAIN given \subseteq NamesOf(b), "validator" \notin DOMAIN given
      PROVE  ReadAsBuilt(call)
  BY <1>0, GivenCall, NoArgs DEF PlayerCall
<1>00. /\ \E address, writable : CommittedTicket = <<Also(address, writable)>>
       /\ \E address, writable : <<Also(RpsProgram, FALSE)>> = <<Also(address,
                                                                      writable)>>
  BY DEF CommittedTicket
<1>1. CASE call = CreateTicketCall(by)
  <2>1. /\ DOMAIN mine \subseteq NamesOf(CreateTicketBuilder)
        /\ "validator" \notin DOMAIN mine
    BY BuildersList DEF mine
  <2> QED
    BY <1>0, <1>1, <2>1, BuildersLegible DEF CreateTicketCall
<1>2. CASE call = TicketPermissionCall(by)
  <2> DEFINE given == [player |-> Player, tenant |-> tenantPda,
                       permission |-> PermissionPda(ticketPda),
                       permissionProgram |-> PermissionProgram]
  <2>1. /\ DOMAIN given \subseteq NamesOf(SetupTicketPermissionBuilder)
        /\ "validator" \notin DOMAIN given
    BY BuildersList
  <2>2. call = PlayerCall(by, SetupTicketPermissionBuilder, given, <<>>, <<>>)
    BY <1>2, Zenon DEF TicketPermissionCall
  <2> HIDE DEF given
  <2> QED
    BY <1>0, <2>1, <2>2, BuildersLegible
<1>3. CASE call = DelegatePermission(by, Player, ticketPda, <<Also(Validator, FALSE)>>)
  BY <1>3, PermissionCallRead
<1>4. CASE call = DelegateTicketCall(by, delegated)
  <2> DEFINE args == [accountType |-> TicketKind]
             given == delegated
  <2>1. call = Call(by, Player, DelegateTicketBuilder,
                    CalledProgram(by, DelegateTicketBuilder),
                    given, args, <<>>)
    BY <1>4, Zenon DEF DelegateTicketCall, PlayerCall
  <2>2. /\ DOMAIN given \subseteq NamesOf(DelegateTicketBuilder)
        /\ "validator" \in DOMAIN given => given["validator"] = Validator
        /\ "accountType" \in DOMAIN args
    BY DuelDelegationBuilders, DelegationMatched DEF DelegationNames
  <2>3. DelegateTicketBuilder.home # Validator
    BY DuelDelegationBuilders, ValidatorApart
  <2> HIDE DEF args, given
  <2> QED
    BY <2>1, <2>2, <2>3, GivenCall, BuildersLegible
<1>5. CASE call = JoinQueueCall(by)
  <2>1. /\ DOMAIN JoinGiven \subseteq NamesOf(JoinQueueBuilder)
        /\ "validator" \notin DOMAIN JoinGiven
    BY BuildersList DEF JoinGiven
  <2>2. call = PlayerCall(by, JoinQueueBuilder, JoinGiven, <<>>,
                          <<Also(RpsProgram, FALSE)>>)
    BY <1>5, Zenon DEF JoinQueueCall
  <2> QED
    BY <1>0, <1>00, <2>1, <2>2, BuildersLegible
<1>6. CASE call = CancelTicketCall(by)
  <2>1. /\ DOMAIN mine \subseteq NamesOf(CancelTicketBuilder)
        /\ "validator" \notin DOMAIN mine
    BY BuildersList DEF mine
  <2> QED
    BY <1>0, <1>6, <2>1, BuildersLegible DEF CancelTicketCall
<1>7. CASE call = CloseTicketCall(by)
  <2>1. /\ DOMAIN mine \subseteq NamesOf(CloseTicketBuilder)
        /\ "validator" \notin DOMAIN mine
    BY BuildersList DEF mine
  <2> QED
    BY <1>0, <1>7, <2>1, BuildersLegible DEF CloseTicketCall
<1>8. CASE call = FlushMatchesCall(by)
  <2> DEFINE given == [queue |-> queuePda, tenant |-> tenantPda, signer |-> Player]
  <2>1. /\ DOMAIN given \subseteq NamesOf(FlushMatchesBuilder)
        /\ "validator" \notin DOMAIN given
    BY BuildersList
  <2>2. call = PlayerCall(by, FlushMatchesBuilder, given, <<>>, CommittedTicket)
    BY <1>8, Zenon DEF FlushMatchesCall
  <2> HIDE DEF given
  <2> QED
    BY <1>0, <1>00, <2>1, <2>2, BuildersLegible
<1>9. CASE call = CommitTicketsCall(by)
  <2> DEFINE given == [tenant |-> tenantPda, payer |-> Player]
  <2>1. /\ DOMAIN given \subseteq NamesOf(CommitTicketsBuilder)
        /\ "validator" \notin DOMAIN given
    BY BuildersList
  <2>2. call = PlayerCall(by, CommitTicketsBuilder, given, <<>>, CommittedTicket)
    BY <1>9, Zenon DEF CommitTicketsCall
  <2> HIDE DEF given
  <2> QED
    BY <1>0, <1>00, <2>1, <2>2, BuildersLegible
<1> QED
  BY <1>1, <1>2, <1>3, <1>4, <1>5, <1>6, <1>7, <1>8, <1>9 DEF TicketCalls

(* ... those that delegate a session or a profile, ...                      *)
LEMMA DelegatePdaCallRead ==
  ASSUME NEW by, NEW pda, NEW type
  PROVE  ReadAsBuilt(DelegatePdaCall(by, pda, type))
<1> DEFINE given == [pda |-> pda, payer |-> Player, validator |-> Validator]
           args == [accountType |-> type]
<1>1. DelegatePdaCall(by, pda, type) =
        Call(by, Player, DelegatePdaBuilder, RpsProgram, given, args, <<>>)
  BY Zenon DEF DelegatePdaCall, GameCall
<1>2. /\ DOMAIN given \subseteq NamesOf(DelegatePdaBuilder)
      /\ given["validator"] = Validator /\ "accountType" \in DOMAIN args
  BY RpsDelegationBuilder, DelegationMatched DEF DelegationNames
<1>3. DelegatePdaBuilder.home # Validator
  BY RpsDelegationBuilder, ValidatorApart
<1> HIDE DEF given, args
<1> QED
  BY <1>1, <1>2, <1>3, GivenCall, BuildersLegible

(* ... those around a game, ...                                             *)
LEMMA GameCallsRead ==
  ASSUME NEW by, NEW session, NEW call \in GameCalls(by, session)
  PROVE  ReadAsBuilt(call)
<1>1. CASE call = InitializePlayerCall(by)
  <2> DEFINE given == [player |-> Player, payer |-> Player]
             args == <<>>
  <2>1. call = Call(by, Player, InitializePlayerBuilder, RpsProgram, given, args, <<>>)
    BY <1>1, Zenon DEF InitializePlayerCall, GameCall
  <2>2. /\ DOMAIN given \subseteq NamesOf(InitializePlayerBuilder)
        /\ "validator" \notin DOMAIN given
    BY BuildersList
  <2>3. \A name \in DOMAIN args :
          \E k \in DOMAIN InitializePlayerBuilder.args : InitializePlayerBuilder.args[k] = name
    OBVIOUS
  <2> HIDE DEF given, args
  <2> QED
    BY <2>1, <2>2, <2>3, GivenCall, BuildersLegible
<1>2. CASE call = StartGameWithTicketCall(by)
  <2> DEFINE given == [player |-> Player, matchTicket |-> ticketPda]
             args == started
  <2>1. call = Call(by, Player, StartGameWithTicketBuilder, RpsProgram, given, args,
                    <<>>)
    BY <1>2, Zenon DEF StartGameWithTicketCall, GameCall
  <2>2. /\ DOMAIN given \subseteq NamesOf(StartGameWithTicketBuilder)
        /\ "validator" \notin DOMAIN given
    BY BuildersList
  <2>3. \A name \in DOMAIN args :
          \E k \in DOMAIN StartGameWithTicketBuilder.args : StartGameWithTicketBuilder.args[k] = name
    <3>1. StartGameWithTicketBuilder.args = <<"gameId", "opponent">>
      BY DEF StartGameWithTicketBuilder, Builder
    <3> QED
      BY <3>1 DEF started
  <2> HIDE DEF given, args
  <2> QED
    BY <2>1, <2>2, <2>3, GivenCall, BuildersLegible
<1>3. CASE call = DelegatePdaCall(by, sessionPda, session)
  BY <1>3, DelegatePdaCallRead
<1>4. CASE call = MakeChoiceCall(by)
  <2> DEFINE given == [gameSession |-> sessionPda,
                       player1Profile |-> ProfilePda(Player),
                       player2Profile |-> ProfilePda(Opponent), player |-> Player]
             args == [choice |-> "Rock"]
  <2>1. call = Call(by, Player, MakeChoiceBuilder, RpsProgram, given, args, <<>>)
    BY <1>4, Zenon DEF MakeChoiceCall, GameCall
  <2>2. /\ DOMAIN given \subseteq NamesOf(MakeChoiceBuilder)
        /\ "validator" \notin DOMAIN given
    BY BuildersList
  <2>3. \A name \in DOMAIN args :
          \E k \in DOMAIN MakeChoiceBuilder.args : MakeChoiceBuilder.args[k] = name
    <3>1. MakeChoiceBuilder.args = <<"choice">>
      BY DEF MakeChoiceBuilder, Builder
    <3> QED
      BY <3>1
  <2> HIDE DEF given, args
  <2> QED
    BY <2>1, <2>2, <2>3, GivenCall, BuildersLegible
<1>5. CASE call = PersistResultsCall(by)
  <2> DEFINE given == [gameSession |-> sessionPda,
                       player1Profile |-> ProfilePda(Player),
                       player2Profile |-> ProfilePda(Opponent), payer |-> Player]
             args == <<>>
  <2>1. call = Call(by, Player, PersistResultsBuilder, RpsProgram, given, args, <<>>)
    BY <1>5, Zenon DEF PersistResultsCall, GameCall
  <2>2. /\ DOMAIN given \subseteq NamesOf(PersistResultsBuilder)
        /\ "validator" \notin DOMAIN given
    BY BuildersList
  <2>3. \A name \in DOMAIN args :
          \E k \in DOMAIN PersistResultsBuilder.args : PersistResultsBuilder.args[k] = name
    OBVIOUS
  <2> HIDE DEF given, args
  <2> QED
    BY <2>1, <2>2, <2>3, GivenCall, BuildersLegible
<1> QED
  BY <1>1, <1>2, <1>3, <1>4, <1>5 DEF GameCalls

(* ... and those of an integrator and of the program.                       *)
LEMMA OtherCallsRead ==
  ASSUME NEW call \in IntegratorCalls \cup {Callback}
  PROVE  ReadAsBuilt(call)
<1>1. CASE call \in GameCalls("integrator", NamedSession)
  BY <1>1, GameCallsRead
<1>2. CASE call = StartGameCall("integrator")
  <2> DEFINE given == [player |-> Player]
             args == started
  <2>1. call = Call("integrator", Player, StartGameBuilder, RpsProgram, given, args,
                    <<>>)
    BY <1>2, Zenon DEF StartGameCall, GameCall
  <2>2. /\ DOMAIN given \subseteq NamesOf(StartGameBuilder)
        /\ "validator" \notin DOMAIN given
    BY BuildersList
  <2>3. \A name \in DOMAIN args :
          \E k \in DOMAIN StartGameBuilder.args : StartGameBuilder.args[k] = name
    <3>1. StartGameBuilder.args = <<"gameId", "opponent">>
      BY DEF StartGameBuilder, Builder
    <3> QED
      BY <3>1 DEF started
  <2> HIDE DEF given, args
  <2> QED
    BY <2>1, <2>2, <2>3, GivenCall, BuildersLegible
<1>3. CASE call = ClosePlayerCall("integrator")
  <2> DEFINE given == [player |-> Player, payer |-> Player]
             args == <<>>
  <2>1. call = Call("integrator", Player, ClosePlayerBuilder, RpsProgram, given, args,
                    <<>>)
    BY <1>3, Zenon DEF ClosePlayerCall, GameCall
  <2>2. /\ DOMAIN given \subseteq NamesOf(ClosePlayerBuilder)
        /\ "validator" \notin DOMAIN given
    BY BuildersList
  <2>3. \A name \in DOMAIN args :
          \E k \in DOMAIN ClosePlayerBuilder.args : ClosePlayerBuilder.args[k] = name
    OBVIOUS
  <2> HIDE DEF given, args
  <2> QED
    BY <2>1, <2>2, <2>3, GivenCall, BuildersLegible
<1>4. CASE call = DelegatePdaCall("integrator", ProfilePda(Player), NamedProfile)
  BY <1>4, DelegatePdaCallRead
<1>5. CASE call = DelegateQueueCall("integrator", Player, Operator)
  BY <1>5, DelegateQueueRead
<1>6. CASE call = Callback
  <2> DEFINE given == [signer |-> tenantPda]
             args == [player1 |-> Player, player2 |-> Opponent, matchId |-> Game]
  <2>1. call = Call("duel", tenantPda, OnMatchFoundBuilder, RpsProgram, given, args,
                    <<>>)
    BY <1>6, Zenon DEF Callback
  <2>2. /\ DOMAIN given \subseteq NamesOf(OnMatchFoundBuilder)
        /\ "validator" \notin DOMAIN given
    BY BuildersList
  <2>3. \A name \in DOMAIN args :
          \E k \in DOMAIN OnMatchFoundBuilder.args : OnMatchFoundBuilder.args[k] = name
    <3>1. OnMatchFoundBuilder.args = <<"player1", "player2", "matchId">>
      BY DEF OnMatchFoundBuilder, Builder
    <3> QED
      BY <3>1
  <2> HIDE DEF given, args
  <2> QED
    BY <2>1, <2>2, <2>3, GivenCall, BuildersLegible
<1> QED
  BY <1>1, <1>2, <1>3, <1>4, <1>5, <1>6 DEF IntegratorCalls

(* The tables of the generated clients are those of the programs, ...       *)
LEMMA TablesAgree ==
  /\ DuelCodecs = DuelLayouts /\ RpsCodecs = RpsLayouts
  /\ TicketStatusCodec = TicketStatus /\ ChoiceCodec = Choice /\ GameResultCodec = GameResult
  /\ DuelErrorCodes = MatchmakingError /\ RpsErrorCodes = GameError
<1>1. /\ TenantCodec = Tenant /\ MatchTicketCodec = MatchTicket /\ QueueCodec = Queue
      /\ QueueEntryCodec = QueueEntry /\ MatchEntryCodec = MatchEntry
      /\ PendingMatchCodec = PendingMatch
      /\ PlayerProfileCodec = PlayerProfile /\ GameSessionCodec = GameSession
  BY DEF TenantCodec, Tenant, MatchTicketCodec, MatchTicket, QueueCodec, Queue,
         QueueEntryCodec, QueueEntry, MatchEntryCodec, MatchEntry, PendingMatchCodec,
         PendingMatch, PlayerProfileCodec, PlayerProfile, GameSessionCodec, GameSession
<1>2. DuelCodecs = DuelLayouts /\ RpsCodecs = RpsLayouts
  BY <1>1 DEF DuelCodecs, DuelLayouts, RpsCodecs, RpsLayouts
<1>3. /\ TicketStatusCodec = TicketStatus
      /\ ChoiceCodec = Choice
      /\ GameResultCodec = GameResult
  BY DEF TicketStatusCodec, TicketStatus, ChoiceCodec, Choice, GameResultCodec, GameResult
<1>4. DuelErrorCodes = MatchmakingError /\ RpsErrorCodes = GameError
  BY DEF DuelErrorCodes, MatchmakingError, RpsErrorCodes, GameError
<1> QED
  BY <1>2, <1>3, <1>4

(* ... and the fields read at fixed offsets are the status and the ELO.     *)
LEMMA FieldsBegin ==
  BeginsAt(MatchTicket, 72, "status") /\ BeginsAt(PlayerProfile, 40, "elo")
<1>1. BeginsAt(PlayerProfile, 40, "elo")
  <2>1. 2 \in DOMAIN PlayerProfile /\ PlayerProfile[2][1] = "elo"
    BY DEF PlayerProfile
  <2> QED
    BY <2>1, ProfileOffsets DEF BeginsAt
<1>2. BeginsAt(MatchTicket, 72, "status")
  <2> DEFINE Solves(f) ==
               f = [n \in DOMAIN MatchTicket |->
                      IF n = 1 THEN 8 ELSE f[n - 1] + Width[MatchTicket[n - 1][2]]]
             w == [n \in 1..5 |-> Width[MatchTicket[n][2]]]
             g == [n \in 1..5 |-> <<8, 40, 72, 72 + w[3], 72 + w[3] + w[4]>>[n]]
  <2>1. DOMAIN MatchTicket = 1..5 /\ MatchTicket[3][1] = "status"
    BY DEF MatchTicket
  <2>2. w[1] = 32 /\ w[2] = 32
    BY DEF MatchTicket, Width
  <2>3. Solves(g)
    <3> HIDE DEF w
    <3>1. g[1] = 8 /\ g[2] = 8 + w[1] /\ g[3] = g[2] + w[2] /\ g[4] = g[3] + w[3]
          /\ g[5] = g[4] + w[4]
      BY <2>2
    <3>2. \A n \in 1..5 : w[n] = Width[MatchTicket[n][2]]
      BY DEF w
    <3> HIDE DEF g
    <3>3. \A n \in 1..5 : n = 1 \/ n = 2 \/ n = 3 \/ n = 4 \/ n = 5
      OBVIOUS
 
              <3>4. \A n \in 1..5 : g[n] = IF n = 1 THEN 8 ELSE g[n - 1] + Width[MatchTicket[n - 1][2]]
      BY <3>1, <3>2, <3>3
    <3>5. g = [n \in 1..5 |-> g[n]]
      BY DEF g
    <3> QED
      BY <2>1, <3>4, <3>5
  <2>4. Solves(CHOOSE f : Solves(f))
    BY <2>3
  <2>5. ASSUME NEW f, Solves(f) PROVE f[3] = 72
    <3>1. f[1] = 8
      BY <2>1, <2>5
    <3>2. f[2] = 40
      BY <2>1, <2>2, <2>5, <3>1
    <3> QED
      BY <2>1, <2>2, <2>5, <3>2
  <2>6. Offset(MatchTicket, 3) = 72
    BY <2>4, <2>5 DEF Offset
  <2> QED
    BY <2>1, <2>6 DEF BeginsAt
<1> QED
  BY <1>1, <1>2

(* What a client reads back is what was built: the accounts and arguments   *)
(* of an instruction parsed by the generated clients, the layouts, enums    *)
(* and error codes of accounts, and the fields clients find at fixed        *)
(* offsets (sdk/src/generated; init-queue.ts:73), for every deployment and  *)
(* every state of the chain.                                                *)
THEOREM CallsReadBack == LaunchSpec => []ReadBack
<1>1. ASSUME NEW call \in AllCalls PROVE ReadAsBuilt(call)
  <2>1. CASE call \in TicketCalls("sdk", [pda |-> ticketPda, payer |-> Player])
    BY <2>1, TicketCallsRead
  <2>2. CASE call \in TicketCalls("web", [pda |-> ticketPda, payer |-> Player,
                                          validator |-> Validator])
    BY <2>2, TicketCallsRead
  <2>3. CASE call \in GameCalls("web", WebSession)
    BY <2>3, GameCallsRead
  <2> QED
    BY <1>1, <2>1, <2>2, <2>3, OperatorCallsRead, OtherCallsRead DEF AllCalls, PlayerCalls
<1>2. ReadBack
  BY <1>1, TablesAgree, FieldsBegin DEF ReadBack, ReadAsBuilt
<1> QED
  BY <1>2, PTL

=============================================================================
