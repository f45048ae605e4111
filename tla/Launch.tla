------------------------------- MODULE Launch -------------------------------
(***************************************************************************)
(* From an operator's setup script to a player's first join: the calls the *)
(* clients build (sdk/src, frontend/lib, scripts/init-queue.ts), what the  *)
(* programs of modules DuelInterface and RpsInterface make of them, and    *)
(* the part of join_queue that reads the newcomer's ELO from its profile   *)
(* before the scan of module MatchScan.                                    *)
(*                                                                         *)
(* One operator, one player and one opponent, whose profile is there and   *)
(* delegated.  The chain holds the accounts the calls make; what becomes   *)
(* of a queue's contents is module Duel's business.                        *)
(***************************************************************************)
EXTENDS MatchScan, DuelInterface, RpsInterface

CONSTANTS
  Deployments, \* where the duel program may have been deployed
  Options,     \* how tenants say the ELO is stored, as [eloOffset, eloSize]
  ByteValues,  \* how many values a byte has, 256 in the code
  InitialElo   \* of a new profile, 1000 in the code

ASSUME LaunchAssumption ==
  /\ ByteValues \in Nat \ {0, 1}
  /\ InitialElo \in Elos
  /\ Options \subseteq [eloOffset : Nat, eloSize : Nat] /\ Options # {}
  /\ Deployments \cap {RpsProgram, PermissionProgram} = {}

VARIABLES
  duel,    \* the address of the duel program
  chain,   \* the accounts there are: address -> [type, layer, data]
  script,  \* how far the setup script is
  options, \* the options of the tenant being set up
  joining  \* whether a join_queue is in its scan

scanVars == <<waiting, elo, i, best, bestDiff>>
launchVars == <<scanVars, duel, chain, script, options, joining>>

Operator == Key("operator")
Other    == Key("other authority")
Player   == Key("player")
Opponent == Key("opponent")
Game     == Key("1")
Validator == Key("FnE6VJ")

-----------------------------------------------------------------------------
(* The addresses clients derive (sdk/src/utils.ts, frontend/lib/utils/pda.ts). *)

QueuePda(program, authority) == Pda(program, <<Key("queue"), authority>>)

TenantPda(program, authority) == Pda(program, <<Key("tenant"), authority>>)

(* Sensitivity variant: the seeds in the other order.                       *)
TicketPdaSwapped(program, player, tenant) ==
  Pda(program, <<Key("ticket"), tenant, player>>)

TicketPda(program, player, tenant) == Pda(program, <<Key("ticket"), player, tenant>>)

ProfilePda(player) == Pda(RpsProgram, <<Key("player_profile_v35"), player>>)

SessionPda(player1, player2, id) ==
  Pda(RpsProgram, <<Key("game_session_v1"), player1, player2, id>>)

PermissionPda(account) == Pda(PermissionProgram, <<Key("permission:"), account>>)

PermissionDelegationPdas(permission) ==
  [buffer |-> Pda(PermissionProgram, <<Key("buffer"), permission>>),
   record |-> Pda(DelegationProgram, <<Key("delegation"), permission>>),
   metadata |-> Pda(DelegationProgram, <<Key("delegation-metadata"), permission>>)]

tenantPda == TenantPda(duel, Operator)
queuePda == QueuePda(duel, Operator)
ticketPda == TicketPda(duel, Player, tenantPda)

-----------------------------------------------------------------------------
(* The calls clients make.  by is the client, signer its wallet; a program  *)
(* that is not named is the one the builder was generated for.              *)

Call(by, signer, b, program, given, args, rest) ==
  [by |-> by, signer |-> signer, b |-> b, program |-> program,
   given |-> given, args |-> args, rest |-> rest]

Also(address, writable) == [address |-> address, writable |-> writable, signer |-> FALSE]

(* The call both clients put together by hand: discriminator 3 of the       *)
(* permission program.                                                      *)
DelegatePermissionCall ==
  Builder("delegatePermission", PermissionProgram,
          <<WS("payer"), S("authority"), R("permissionedAccount"), W("permission"),
            R("systemProgram"), R("ownerProgram"), W("delegationBuffer"),
            W("delegationRecord"), W("delegationMetadata"), R("delegationProgram")>>,
          <<>>, <<>>)

DelegatePermission(by, signer, account, rest) ==
  LET permission == PermissionPda(account)
      pdas == PermissionDelegationPdas(permission)
  IN Call(by, signer, DelegatePermissionCall, PermissionProgram,
          [payer |-> signer, authority |-> signer, permissionedAccount |-> account,
           permission |-> permission, systemProgram |-> SystemProgram,
           ownerProgram |-> PermissionProgram, delegationBuffer |-> pdas.buffer,
           delegationRecord |-> pdas.record, delegationMetadata |-> pdas.metadata,
           delegationProgram |-> DelegationProgram], <<>>, rest)

(* initializeTenant; the script asks for u64 at 40, the SDK's own default   *)
(* is u16 at 40.                                                            *)
TenantCall(o) ==
  Call("sdk", Operator, InitializeTenantBuilder, duel, [authority |-> Operator],
       [tenantProgramId |-> RpsProgram, eloOffset |-> o.eloOffset, eloSize |-> o.eloSize,
        eloWindow |-> Window, callbackProgramId |-> RpsProgram,
        callbackDiscriminator |-> "onMatchFound"], <<>>)

QueueCall ==
  Call("sdk", Operator, InitializeQueueBuilder, duel,
       [authority |-> Operator, tenant |-> tenantPda], <<>>, <<>>)

(* delegateQueue(authority): the permission is that of the authority's      *)
(* queue, the queue it is set up for always the signer's.                   *)
QueuePermissionCall(authority) ==
  Call("sdk", Operator, SetupQueuePermissionBuilder, duel,
       [authority |-> Operator, permission |-> PermissionPda(QueuePda(duel, authority)),
        permissionProgram |-> PermissionProgram], <<>>, <<>>)

QueueKind(authority) == [kind |-> "Queue", fields |-> [authority |-> authority]]

DelegateQueueCall(by, signer, authority) ==
  Call(by, signer, DelegateQueueBuilder, duel,
       [pda |-> QueuePda(duel, authority), payer |-> signer, validator |-> Validator],
       [accountType |-> QueueKind(authority)], <<>>)

OperatorCalls ==
  {TenantCall(o) : o \in Options} \cup {QueueCall}
  \cup UNION {{QueuePermissionCall(a), DelegateQueueCall("sdk", Operator, a),
               DelegatePermission("sdk", Operator, QueuePda(duel, a),
                                  <<Also(Validator, FALSE)>>)} :
              a \in {Operator, Other}}

(* MatchmakingPlayer, which names its program, and useMatchmaking, which    *)
(* does not; both derive addresses under the program they are configured    *)
(* for.  One passes the validator to delegate to, the other leaves it out.  *)
CalledProgram(by, b) == IF by = "sdk" THEN duel ELSE b.home

PlayerCall(by, b, given, args, rest) ==
  Call(by, Player, b, CalledProgram(by, b), given, args, rest)

mine == [player |-> Player, tenant |-> tenantPda]
TicketKind == [kind |-> "Ticket", fields |-> mine]
CommittedTicket == <<Also(ticketPda, TRUE)>>

CreateTicketCall(by) == PlayerCall(by, CreateTicketBuilder, mine, <<>>, <<>>)

TicketPermissionCall(by) ==
  PlayerCall(by, SetupTicketPermissionBuilder,
             [player |-> Player, tenant |-> tenantPda, permission |-> PermissionPda(ticketPda),
              permissionProgram |-> PermissionProgram], <<>>, <<>>)

DelegateTicketCall(by, given) ==
  PlayerCall(by, DelegateTicketBuilder, given, [accountType |-> TicketKind], <<>>)

JoinGiven ==
  [queue |-> queuePda, tenant |-> tenantPda, playerData |-> ProfilePda(Player), signer |-> Player]

JoinQueueCall(by) ==
  PlayerCall(by, JoinQueueBuilder, JoinGiven, <<>>, <<Also(RpsProgram, FALSE)>>)

CancelTicketCall(by) == PlayerCall(by, CancelTicketBuilder, mine, <<>>, <<>>)

CloseTicketCall(by) == PlayerCall(by, CloseTicketBuilder, mine, <<>>, <<>>)

FlushMatchesCall(by) ==
  PlayerCall(by, FlushMatchesBuilder,
             [queue |-> queuePda, tenant |-> tenantPda, signer |-> Player], <<>>, CommittedTicket)

CommitTicketsCall(by) ==
  PlayerCall(by, CommitTicketsBuilder, [tenant |-> tenantPda, payer |-> Player], <<>>,
             CommittedTicket)

TicketCalls(by, delegated) ==
  {CreateTicketCall(by), TicketPermissionCall(by),
   DelegatePermission(by, Player, ticketPda, <<Also(Validator, FALSE)>>),
   DelegateTicketCall(by, delegated), JoinQueueCall(by), CancelTicketCall(by),
   CloseTicketCall(by), FlushMatchesCall(by), CommitTicketsCall(by)}

GameCall(by, b, given, args) == Call(by, Player, b, RpsProgram, given, args, <<>>)

sessionPda == SessionPda(Player, Opponent, Game)
started == [gameId |-> Game, opponent |-> Opponent]

InitializePlayerCall(by) ==
  GameCall(by, InitializePlayerBuilder, [player |-> Player, payer |-> Player], <<>>)

StartGameCall(by) == GameCall(by, StartGameBuilder, [player |-> Player], started)

StartGameWithTicketCall(by) ==
  GameCall(by, StartGameWithTicketBuilder,
           [player |-> Player, matchTicket |-> ticketPda], started)

DelegatePdaCall(by, pda, type) ==
  GameCall(by, DelegatePdaBuilder, [pda |-> pda, payer |-> Player, validator |-> Validator],
           [accountType |-> type])

MakeChoiceCall(by) ==
  GameCall(by, MakeChoiceBuilder,
           [gameSession |-> sessionPda, player1Profile |-> ProfilePda(Player),
            player2Profile |-> ProfilePda(Opponent), player |-> Player], [choice |-> "Rock"])

PersistResultsCall(by) ==
  GameCall(by, PersistResultsBuilder,
           [gameSession |-> sessionPda, player1Profile |-> ProfilePda(Player),
            player2Profile |-> ProfilePda(Opponent), payer |-> Player], <<>>)

ClosePlayerCall(by) ==
  GameCall(by, ClosePlayerBuilder, [player |-> Player, payer |-> Player], <<>>)

(* A session's delegation as the web client writes its argument: the fields *)
(* as a list under one name, instead of by name.                            *)
WebSession == [kind |-> "GameSession", fields |-> [fields |-> <<Player, Opponent, Game>>]]

NamedSession ==
  [kind |-> "GameSession", fields |-> [p1 |-> Player, p2 |-> Opponent, id |-> Game]]

NamedProfile == [kind |-> "PlayerProfile", fields |-> [player |-> Player]]

GameCalls(by, session) ==
  {InitializePlayerCall(by), StartGameWithTicketCall(by),
   DelegatePdaCall(by, sessionPda, session), MakeChoiceCall(by), PersistResultsCall(by)}

(* What an integrator calls besides, with the builders the SDK exports: the *)
(* program lets any payer delegate the operator's queue.                    *)
IntegratorCalls ==
  GameCalls("integrator", NamedSession) \cup
  {StartGameCall("integrator"), ClosePlayerCall("integrator"),
   DelegatePdaCall("integrator", ProfilePda(Player), NamedProfile),
   DelegateQueueCall("integrator", Player, Operator)}

(* join_queue itself calls back, signing as the tenant.                     *)
Callback ==
  Call("duel", tenantPda, OnMatchFoundBuilder, RpsProgram, [signer |-> tenantPda],
       [player1 |-> Player, player2 |-> Opponent, matchId |-> Game], <<>>)

PlayerCalls ==
  TicketCalls("sdk", [pda |-> ticketPda, payer |-> Player])
  \cup TicketCalls("web", [pda |-> ticketPda, payer |-> Player, validator |-> Validator])
  \cup GameCalls("web", WebSession) \cup IntegratorCalls

AllCalls == OperatorCalls \cup PlayerCalls \cup {Callback}

-----------------------------------------------------------------------------
(* What becomes of a call: the instruction, and what is wrong with it.      *)

AccountTypes(call) ==
  IF call.b.home = RpsProgram THEN RpsAccountTypes ELSE DuelAccountTypes

Encodes(call) ==
  "accountType" \in DOMAIN call.args =>
    Encodable(AccountTypes(call), call.args.accountType)

Instruction(call) ==
  Build(call.b, call.program, call.given,
        IF "accountType" \in DOMAIN call.args
        THEN [call.args EXCEPT !.accountType = EncodedKind(AccountTypes(call), @)]
        ELSE call.args,
        call.rest)

(* DelegatePermission, as its accounts are used by both clients.            *)
PermissionHandler ==
  Handler(DelegatePermissionCall.accounts,
          System([permission |-> Derived(Self, <<Text("permission:"), Of("permissionedAccount")>>),
                  ownerProgram |-> Fixed(Self),
                  delegationBuffer |-> Derived(Self, <<Text("buffer"), Of("permission")>>),
                  delegationRecord |->
                    Derived(DelegationProgram, <<Text("delegation"), Of("permission")>>),
                  delegationMetadata |->
                    Derived(DelegationProgram, <<Text("delegation-metadata"), Of("permission")>>),
                  delegationProgram |-> Fixed(DelegationProgram)]),
          <<>>, {})

Deployed(ins) == ins.program \in {duel, RpsProgram, PermissionProgram}

HandlerOf(ins) ==
  CASE ins.program = PermissionProgram -> PermissionHandler
    [] ins.program = RpsProgram -> RpsHandlers[ins.name]
    [] ins.program = duel -> DuelHandlers[ins.name]

Delegations == {"delegateQueue", "delegateTicket", "delegatePda"}
PermissionSetups == {"setupQueuePermission", "setupTicketPermission"}

(* The program signs for pda with the seeds the argument asks for.          *)
SignsForPda(ins, accounts) ==
  ins.name \in Delegations =>
    accounts.pda = Pda(ins.program, IF ins.program = RpsProgram
                                    THEN RpsAccountSeeds(ins.args[1])
                                    ELSE DuelAccountSeeds(ins.args[1]))

Permissioned(ins, accounts) ==
  IF ins.name = "setupQueuePermission" THEN accounts.queue ELSE accounts.ticket

(* CreatePermission derives the permission from the account it is for.      *)
PermissionFits(ins, accounts) ==
  ins.name \in PermissionSetups =>
    accounts.permission = PermissionPda(Permissioned(ins, accounts))

(* What no state of the accounts can make good.                             *)
FormProblem(call) ==
  \/ ~ Encodes(call)
  \/ LET ins == Instruction(call)
         h == HandlerOf(ins)
         accounts == Bound(h, ins)
     IN \/ ~ Deployed(ins)
        \/ FewAccounts(h, ins)
        \/ Unprivileged(h, ins)
        \/ \E k \in DOMAIN ins.accounts :
             ins.accounts[k].signer /\ ins.accounts[k].address # call.signer
        \/ Misaddressed(h, ins, chain)
        \/ ~ SignsForPda(ins, accounts)
        \/ ~ PermissionFits(ins, accounts)

-----------------------------------------------------------------------------
(* Data read by position: a discriminator of eight bytes, then the fields.  *)

Width == [address |-> 32, u8 |-> 1, u32 |-> 4, u64 |-> 8]

Offset(layout, k) ==
  LET offset[n \in DOMAIN layout] ==
        IF n = 1 THEN 8 ELSE offset[n - 1] + Width[layout[n - 1][2]]
  IN offset[k]

BeginsAt(layout, offset, name) ==
  \E k \in DOMAIN layout : layout[k][1] = name /\ Offset(layout, k) = offset

(* What one more counts in the byte with k bytes before it.                 *)
Weight[k \in 0..Width.u64] == IF k = 0 THEN 1 ELSE ByteValues * Weight[k - 1]

(* The bytes of an account of the profile's type; those beside the ELO are  *)
(* whatever they are, not zero.                                             *)
ProfileLength == Offset(PlayerProfile, Len(PlayerProfile)) + Width.u64

EloField == CHOOSE k \in DOMAIN PlayerProfile : PlayerProfile[k][1] = "elo"

ByteAt(profile, offset) ==
  LET k == offset - Offset(PlayerProfile, EloField) IN
  IF k \in 0..Width.u64 - 1 THEN (profile.elo \div Weight[k]) % ByteValues ELSE 1

Number(bytes) ==
  LET number[n \in 0..Len(bytes)] ==
        IF n = 0 THEN 0 ELSE number[n - 1] + bytes[n] * Weight[n - 1]
  IN number[Len(bytes)]

(* Sensitivity variant: the first byte taken for the highest.               *)
NumberBigEndian(bytes) ==
  LET number[n \in 0..Len(bytes)] ==
        IF n = 0 THEN 0 ELSE number[n - 1] * ByteValues + bytes[n]
  IN number[Len(bytes)]

(* uN::from_le_bytes                                                        *)
FromBytes(bytes) == Number(bytes)

(* DataTooSmall and InvalidEloSize are what keeps an ELO from being read.   *)
Readable(o) ==
  /\ ProfileLength >= o.eloOffset + o.eloSize
  /\ o.eloSize \in {1, 2, 4, 8}

ReadElo(profile, o) ==
  FromBytes([j \in 1..o.eloSize |-> ByteAt(profile, o.eloOffset + j - 1)])

-----------------------------------------------------------------------------
(* What the state of the accounts asks of a call: status checks, and what   *)
(* the programs called in turn require.                                     *)

ReadsMatch(ticket, opponent) ==
  /\ BeginsAt(MatchTicket, 72, "status")
  /\ ticket.shown = "Matched"
  /\ ticket.opponent = opponent

On(layer, address, type) ==
  /\ address \in DOMAIN chain
  /\ chain[address].type = type
  /\ chain[address].layer = layer

Allowed(name, a, args, rest, layer) ==
  CASE name \in Delegations ->
         a.pda \in DOMAIN chain /\ chain[a.pda].layer = "L1" /\ layer = "L1"
    [] name = "delegatePermission" -> On("L1", a.permission, "Permission") /\ layer = "L1"
    [] name \in PermissionSetups -> a.permission \notin DOMAIN chain /\ layer = "L1"
    [] name = "cancelTicket" -> chain[a.ticket].data.status = "Searching"
    [] name = "closeTicket" ->
         layer = "L1" /\ chain[a.ticket].data.status \in {"Matched", "Cancelled"}
    [] name = "closePlayer" -> layer = "L1"
    [] name = "joinQueue" ->
         /\ chain[a.playerTicket].data.status = "Searching"
         /\ a.playerData \in DOMAIN chain
         /\ Readable(chain[a.tenant].data)
    [] name = "startGameWithTicket" ->
         a.matchTicket \in DOMAIN chain /\ ReadsMatch(chain[a.matchTicket].data, args.opponent)
    [] name = "persistResults" ->
         /\ layer = "TEE"
         /\ \A p \in {a.player1Profile, a.player2Profile} : On("TEE", p, "PlayerProfile")
    [] name = "commitTickets" ->
         layer = "TEE" /\ \A k \in DOMAIN rest : On("TEE", rest[k].address, "MatchTicket")
    [] OTHER -> TRUE

Accepted(call, layer) ==
  /\ ~ FormProblem(call)
  /\ LET ins == Instruction(call)
         h == HandlerOf(ins)
     IN /\ ~ Untimely(h, ins, layer, chain)
        /\ Allowed(ins.name, Bound(h, ins), Args(h, ins), call.rest, layer)

-----------------------------------------------------------------------------
(* What an accepted call does to the accounts. *)

Create(address, type, data) ==
  [a \in DOMAIN chain \cup {address} |->
     IF a \in DOMAIN chain THEN chain[a] ELSE [type |-> type, layer |-> "L1", data |-> data]]

Delegated(address) == [chain EXCEPT ![address].layer = "TEE"]

Closed(address) == [a \in DOMAIN chain \ {address} |-> chain[a]]

(* Sensitivity variant: the ticket does not record its tenant.              *)
NewTicketUntenanted(a) ==
  [player |-> a.player, status |-> "Searching", shown |-> "Searching", opponent |-> Player]

(* A ticket's status, and what L1 shows of it.                              *)
NewTicket(a) ==
  [player |-> a.player, tenant |-> a.tenant, status |-> "Searching",
   shown |-> "Searching", opponent |-> Player]

Shown(layer, ticket) ==
  IF layer = "L1" THEN [ticket EXCEPT !.shown = ticket.status] ELSE ticket

Effect(name, a, args, rest, layer) ==
  CASE name = "initializeTenant" ->
         {Create(a.tenant, "Tenant", [authority |-> a.authority, eloOffset |-> args.eloOffset,
                                      eloSize |-> args.eloSize])}
    [] name = "initializeQueue" ->
         {Create(a.queue, "Queue", [authority |-> a.authority, tenant |-> a.tenant])}
    [] name \in PermissionSetups ->
         {Create(a.permission, "Permission",
                 [of |-> IF name = "setupQueuePermission" THEN a.queue ELSE a.ticket])}
    [] name \in Delegations -> {Delegated(a.pda)}
    [] name = "delegatePermission" -> {Delegated(a.permission)}
    [] name = "createTicket" -> {Create(a.ticket, "MatchTicket", NewTicket(a))}
    [] name = "cancelTicket" ->
         {[chain EXCEPT ![a.ticket].data = Shown(layer, [@ EXCEPT !.status = "Cancelled"])]}
    [] name = "closeTicket" -> {Closed(a.ticket)}
    [] name = "commitTickets" ->
         {[x \in DOMAIN chain |->
             IF \E k \in DOMAIN rest : rest[k].address = x
             THEN [chain[x] EXCEPT !.data = Shown("L1", @)] ELSE chain[x]]}
    [] name = "initializePlayer" ->
         {Create(a.profile, "PlayerProfile", [player |-> a.player, elo |-> InitialElo])}
    [] name = "closePlayer" -> {Closed(a.profile)}
    [] name \in {"startGame", "startGameWithTicket"} ->
         {Create(a.gameSession, "GameSession",
                 [player1 |-> a.player, player2 |-> args.opponent])}
    [] name = "makeChoice" ->
         {[chain EXCEPT ![a.player1Profile].data.elo = e] : e \in Elos}
    [] OTHER -> {chain}

-----------------------------------------------------------------------------
(* join_queue: the ELO is read, the entry compared with those waiting       *)
(* (MatchScan), the newcomer's ticket written.                              *)

NoElo == CHOOSE e \in Elos : TRUE

Join(call, layer) ==
  /\ ~ joining
  /\ Accepted(call, layer)
  /\ LET ins == Instruction(call)
         a == Bound(HandlerOf(ins), ins)
     IN elo' = ReadElo(chain[a.playerData].data, chain[a.tenant].data)
  /\ waiting' \in Queues
  /\ joining' = TRUE
  /\ UNCHANGED <<i, best, bestDiff, duel, chain, script, options>>

Search ==
  /\ joining
  /\ Scan
  /\ UNCHANGED <<duel, chain, script, options, joining>>

Decide ==
  /\ joining
  /\ i > Len(waiting)
  /\ chain' = IF best = 0 THEN chain
              ELSE [chain EXCEPT ![ticketPda].data =
                      Shown(chain[ticketPda].layer,
                            [@ EXCEPT !.status = "Matched", !.opponent = Opponent])]
  /\ waiting' = <<>> /\ elo' = NoElo /\ i' = 1 /\ best' = 0 /\ bestDiff' = 0
  /\ joining' = FALSE
  /\ UNCHANGED <<duel, script, options>>

-----------------------------------------------------------------------------
(* The set-up script, and the player's calls in any order on either layer.  *)

Make(call, layer) ==
  /\ ~ joining
  /\ Accepted(call, layer)
  /\ LET ins == Instruction(call)
         h == HandlerOf(ins)
     IN chain' \in Effect(ins.name, Bound(h, ins), Args(h, ins), call.rest, layer)

Act(call, layer) ==
  /\ call.b.name # "joinQueue"
  /\ Make(call, layer)
  /\ UNCHANGED <<scanVars, duel, script, options, joining>>

Steps == {"tenant", "queue", "permission", "permit", "delegate"}

(* "initialized" is what a run says that took every step.                   *)
Ended == {"idle", "ready", "initialized", "failed"}

StepCall(step) ==
  CASE step = "tenant"     -> TenantCall(options)
    [] step = "queue"      -> QueueCall
    [] step = "permission" -> QueuePermissionCall(Operator)
    [] step = "permit"     -> DelegatePermission("sdk", Operator, queuePda,
                                                 <<Also(Validator, FALSE)>>)
    [] step = "delegate"   -> DelegateQueueCall("sdk", Operator, Operator)

(* Sensitivity variant: the permission is set up and left on L1.            *)
FollowingHasty(step) ==
  [tenant |-> "queue", queue |-> "permission", permission |-> "delegate",
   permit |-> "delegate", delegate |-> "initialized"][step]

Following(step) ==
  [tenant |-> "queue", queue |-> "permission", permission |-> "permit",
   permit |-> "delegate", delegate |-> "initialized"][step]

(* A run starts.  With a tenant there already it says "ready" at once, and  *)
(* looks at nothing else.                                                   *)
Start(o) ==
  /\ ~ joining
  /\ script \in Ended
  /\ script' = IF tenantPda \in DOMAIN chain THEN "ready" ELSE "tenant"
  /\ options' = IF tenantPda \in DOMAIN chain THEN options ELSE o
  /\ UNCHANGED <<scanVars, duel, chain, joining>>

Step ==
  /\ script \in Steps
  /\ Make(StepCall(script), "L1")
  /\ script' = Following(script)
  /\ UNCHANGED <<scanVars, duel, options, joining>>

(* A step that is refused ends the run; so may the machine, or the network. *)
Refused ==
  /\ ~ joining
  /\ script \in Steps
  /\ ~ Accepted(StepCall(script), "L1")
  /\ script' = "failed"
  /\ UNCHANGED <<scanVars, duel, chain, options, joining>>

Cut ==
  /\ ~ joining
  /\ script \in Steps
  /\ script' = "idle"
  /\ UNCHANGED <<scanVars, duel, chain, options, joining>>

LaunchInit ==
  /\ waiting = <<>> /\ elo = NoElo /\ i = 1 /\ best = 0 /\ bestDiff = 0
  /\ duel \in Deployments
  /\ chain = [a \in {ProfilePda(Opponent)} |->
       [type |-> "PlayerProfile", layer |-> "TEE",
        data |-> [player |-> Opponent, elo |-> InitialElo]]]
  /\ script = "idle"
  /\ options = CHOOSE o \in Options : TRUE
  /\ joining = FALSE

Script == (\E o \in Options : Start(o)) \/ Step \/ Refused \/ Cut

Calls ==
  \E call \in PlayerCalls, layer \in {"L1", "TEE"} :
    Act(call, layer) \/ (call.b.name = "joinQueue" /\ Join(call, layer))

LaunchNext == Script \/ Calls \/ Search \/ Decide

LaunchSpec == LaunchInit /\ [][LaunchNext]_launchVars

-----------------------------------------------------------------------------
(* Properties. *)

Data ==
  [Tenant |-> {"authority", "eloOffset", "eloSize"}, Queue |-> {"authority", "tenant"},
   MatchTicket |-> {"player", "tenant", "status", "shown", "opponent"},
   PlayerProfile |-> {"player", "elo"}, GameSession |-> {"player1", "player2"},
   Permission |-> {"of"}]

LaunchTypeOK ==
  /\ TypeOK
  /\ \A a \in DOMAIN chain :
       /\ chain[a].layer \in {"L1", "TEE"}
       /\ DOMAIN chain[a].data = Data[chain[a].type]
  /\ script \in Steps \cup Ended
  /\ options \in Options

Home(type, d) ==
  CASE type = "Tenant"        -> TenantPda(duel, d.authority)
    [] type = "Queue"         -> QueuePda(duel, d.authority)
    [] type = "MatchTicket"   -> TicketPda(duel, d.player, d.tenant)
    [] type = "PlayerProfile" -> ProfilePda(d.player)
    [] type = "GameSession"   -> SessionPda(d.player1, d.player2, Game)
    [] type = "Permission"    -> PermissionPda(d.of)

(* Calls that no state of the accounts makes acceptable, each for a reason  *)
(* in the client's code: the web client derives addresses under the program *)
(* it is configured for and calls the one its builders were generated for;  *)
(* delegations pass that program as the owner, too; the web client encodes  *)
(* a session's delegation wrongly; delegateQueue for another authority sets *)
(* up the permission of a queue that is not its signer's.                   *)
Misformed(call) ==
  \/ call.by = "web" /\ call.b.home = DuelProgram /\ duel # DuelProgram
  \/ call.b.name \in {"delegateQueue", "delegateTicket"} /\ duel # DuelProgram
  \/ call.by = "web" /\ call.b.name = "delegatePda"
  \/ call.b.name = "setupQueuePermission" /\ call.given.permission # PermissionPda(queuePda)

(* Whatever order accounts, privileges, seeds and arguments come in, every  *)
(* other call of the clients is one its program can accept, between one     *)
(* instruction and the next (sdk/src/generated, programs' Accounts structs). *)
WellFormed ==
  ~ joining => \A call \in AllCalls : FormProblem(call) <=> Misformed(call)

(* Where both the program and the client read an account, they find the     *)
(* same fields; error codes and enums are in the same order; a parsed       *)
(* instruction is what was built; bytes read at fixed offsets are those of  *)
(* the field meant (rps-game/src/lib.rs:245-256, init-queue.ts:73).         *)
ReadBack ==
  /\ DuelCodecs = DuelLayouts /\ RpsCodecs = RpsLayouts
  /\ TicketStatusCodec = TicketStatus /\ ChoiceCodec = Choice /\ GameResultCodec = GameResult
  /\ DuelErrorCodes = MatchmakingError /\ RpsErrorCodes = GameError
  /\ BeginsAt(MatchTicket, 72, "status") /\ BeginsAt(PlayerProfile, 40, "elo")
  /\ \A call \in AllCalls :
       ~ joining /\ Encodes(call) =>
         LET parsed == Parsed(call.b, {"validator"}, Instruction(call)) IN
         /\ \A n \in DOMAIN call.given : parsed.accounts[n] = call.given[n]
         /\ "accountType" \notin DOMAIN call.args =>
              \A n \in DOMAIN call.args : parsed.args[n] = call.args[n]
         /\ ("validator" \in DOMAIN parsed.accounts /\ "validator" \notin DOMAIN call.given)
              => call.program # call.b.home

(* A run of the set-up script that says "initialized" leaves the tenant with *)
(* the options it asked for and its queue in the TEE, whose permission is    *)
(* there too, so that only its authority may read who waits: whatever others *)
(* call meanwhile, who may delegate the queue before its permission, and     *)
(* wherever earlier runs were cut (duel/src/lib.rs:56-70 and 105-106,        *)
(* admin.ts:115-160, init-queue.ts:60-88).                                   *)
InitializedMeansServed ==
  script = "initialized" =>
    /\ tenantPda \in DOMAIN chain
    /\ chain[tenantPda].data = [authority |-> Operator, eloOffset |-> options.eloOffset,
                                eloSize |-> options.eloSize]
    /\ On("TEE", queuePda, "Queue")
    /\ chain[queuePda].data.tenant = tenantPda
    /\ On("TEE", PermissionPda(queuePda), "Permission")

(* A newcomer whose tenant says where profiles keep the ELO joins with the  *)
(* ELO its profile holds, as far as the tenant's width goes                 *)
(* (duel/src/lib.rs:223-255).                                               *)
EloAsStored ==
  LET o == chain[tenantPda].data IN
  joining /\ BeginsAt(PlayerProfile, o.eloOffset, "elo") =>
    elo = chain[ProfilePda(Player)].data.elo % Weight[o.eloSize]

(* Accounts are where clients look for them: at the address derived from    *)
(* what the account holds.                                                  *)
AddressesAgree ==
  \A a \in DOMAIN chain : a = Home(chain[a].type, chain[a].data)
=============================================================================
