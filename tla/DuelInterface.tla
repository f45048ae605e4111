--------------------------- MODULE DuelInterface ---------------------------
(***************************************************************************)
(* The interface of the duel program, twice: as the program checks it      *)
(* (Accounts structs and data layouts of duel/src/lib.rs) and as the       *)
(* generated client builds and reads it (sdk/src/generated/duel).  Nothing *)
(* keeps the two in step but regenerating the client.                      *)
(***************************************************************************)
EXTENDS Interface

(* declare_id!, DUEL_PROGRAM_ADDRESS *)
DuelProgram == Key("EdZz")

-----------------------------------------------------------------------------
(* The program. *)

TenantSeeds == Derived(Self, <<Text("tenant"), Of("authority")>>)
QueueSeeds  == Derived(Self, <<Text("queue"), Of("authority")>>)
TicketSeeds == Derived(Self, <<Text("ticket"), Of("player"), Of("tenant")>>)

InitializeTenant ==
  Handler(<<New(W("tenant"), "Tenant"), WS("authority"), R("systemProgram")>>,
          System([tenant |-> TenantSeeds]),
          <<"tenantProgramId", "eloOffset", "eloSize", "eloWindow",
            "callbackProgramId", "callbackDiscriminator">>, {})

InitializeQueue ==
  Handler(<<New(W("queue"), "Queue"), Holding(R("tenant"), "Tenant"),
            WS("authority"), R("systemProgram")>>,
          System([queue |-> QueueSeeds]), <<>>,
          {<<"tenant", "authority", "authority">>})

DelegateQueue == Delegation
DelegateTicket == Delegation

CreateTicket ==
  Handler(<<New(W("ticket"), "MatchTicket"), Holding(R("tenant"), "Tenant"),
            WS("player"), R("systemProgram")>>,
          System([ticket |-> TicketSeeds]), <<>>, {})

SetupQueuePermission ==
  Handler(<<Holding(R("queue"), "Queue"), WS("authority"), W("permission"),
            R("permissionProgram"), R("systemProgram")>>,
          System([queue |-> QueueSeeds]), <<>>, {})

SetupTicketPermission ==
  Handler(<<Holding(R("ticket"), "MatchTicket"), Holding(R("tenant"), "Tenant"),
            WS("player"), W("permission"), R("permissionProgram"), R("systemProgram")>>,
          System([ticket |-> TicketSeeds]), <<>>, {})

CancelTicket ==
  Handler(<<Holding(W("ticket"), "MatchTicket"), Holding(R("tenant"), "Tenant"),
            S("player")>>,
          [ticket |-> TicketSeeds], <<>>, {})

CloseTicket ==
  Handler(<<Holding(W("ticket"), "MatchTicket"), Holding(R("tenant"), "Tenant"),
            WS("player")>>,
          [ticket |-> TicketSeeds], <<>>, {})

JoinQueue ==
  Handler(<<Holding(W("queue"), "Queue"), Holding(R("tenant"), "Tenant"),
            R("playerData"), Holding(W("playerTicket"), "MatchTicket"), S("signer")>>,
          [playerTicket |-> Derived(Self, <<Text("ticket"), Of("signer"), Of("tenant")>>)],
          <<>>, {<<"queue", "tenant", "tenant">>})

FlushMatches ==
  Handler(<<Holding(W("queue"), "Queue"), Holding(R("tenant"), "Tenant"), S("signer")>>,
          <<>>, <<>>, {})

(* What the attribute commit makes of tenant and payer.                     *)
CommitTickets ==
  Handler(<<Holding(R("tenant"), "Tenant"), WS("payer"),
            R("magicProgram"), W("magicContext")>>,
          [magicProgram |-> Fixed(MagicProgram), magicContext |-> Fixed(MagicContext)],
          <<>>, {})

DuelHandlers ==
  [initializeTenant |-> InitializeTenant, initializeQueue |-> InitializeQueue,
   delegateQueue |-> DelegateQueue, delegateTicket |-> DelegateTicket,
   createTicket |-> CreateTicket, setupQueuePermission |-> SetupQueuePermission,
   setupTicketPermission |-> SetupTicketPermission, cancelTicket |-> CancelTicket,
   closeTicket |-> CloseTicket, joinQueue |-> JoinQueue,
   flushMatches |-> FlushMatches, commitTickets |-> CommitTickets]

(* derive_seeds_from_account_type: kind is <<variant, values in order>>.    *)
DuelAccountSeeds(kind) ==
  CASE kind[1] = "Queue"  -> <<Key("queue"), kind[2][1]>>
    [] kind[1] = "Ticket" -> <<Key("ticket"), kind[2][1], kind[2][2]>>

(* Fields in the order they are laid out, with their types.                 *)
Tenant ==
  <<<<"authority", "address">>, <<"tenantProgramId", "address">>, <<"eloOffset", "u32">>,
    <<"eloSize", "u8">>, <<"eloWindow", "u64">>, <<"callbackProgramId", "option address">>,
    <<"callbackDiscriminator", "option bytes8">>>>

MatchTicket ==
  <<<<"player", "address">>, <<"tenant", "address">>, <<"status", "TicketStatus">>,
    <<"createdAt", "u64">>, <<"bump", "u8">>>>

Queue ==
  <<<<"authority", "address">>, <<"tenant", "address">>, <<"bump", "u8">>,
    <<"matchCounter", "u64">>, <<"entries", "QueueEntry">>, <<"matches", "MatchEntry">>,
    <<"pendingMatches", "PendingMatch">>>>

QueueEntry   == <<<<"player", "address">>, <<"elo", "u64">>>>
MatchEntry   == <<<<"player1", "address">>, <<"player2", "address">>,
                  <<"matchId", "u64">>, <<"timestamp", "u64">>>>
PendingMatch == <<<<"player", "address">>, <<"opponent", "address">>, <<"matchId", "u64">>>>

DuelLayouts ==
  [Tenant |-> Tenant, MatchTicket |-> MatchTicket, Queue |-> Queue,
   QueueEntry |-> QueueEntry, MatchEntry |-> MatchEntry, PendingMatch |-> PendingMatch]

TicketStatus == <<"Searching", "Matched", "Expired", "Cancelled">>

MatchmakingError == <<"InvalidTenant", "DataTooSmall", "Unauthorized", "InvalidEloSize",
                      "InvalidTicketStatus", "InvalidTicketAccount">>

-----------------------------------------------------------------------------
(* The generated client. *)

TicketDefault == Derived(Self, <<Text("ticket"), Of("player"), Of("tenant")>>)

InitializeTenantBuilder ==
  Builder("initializeTenant", DuelProgram,
          <<W("tenant"), WS("authority"), R("systemProgram")>>,
          [tenant |-> Derived(Self, <<Text("tenant"), Of("authority")>>),
           systemProgram |-> SystemDefault],
          <<"tenantProgramId", "eloOffset", "eloSize", "eloWindow",
            "callbackProgramId", "callbackDiscriminator">>)

InitializeQueueBuilder ==
  Builder("initializeQueue", DuelProgram,
          <<W("queue"), R("tenant"), WS("authority"), R("systemProgram")>>,
          [queue |-> Derived(Self, <<Text("queue"), Of("authority")>>),
           systemProgram |-> SystemDefault], <<>>)

DelegateQueueBuilder ==
  Builder("delegateQueue", DuelProgram, DelegationAccounts,
          DelegationDefaults(DuelProgram), <<"accountType">>)

DelegateTicketBuilder ==
  Builder("delegateTicket", DuelProgram, DelegationAccounts,
          DelegationDefaults(DuelProgram), <<"accountType">>)

CreateTicketBuilder ==
  Builder("createTicket", DuelProgram,
          <<W("ticket"), R("tenant"), WS("player"), R("systemProgram")>>,
          [ticket |-> TicketDefault, systemProgram |-> SystemDefault], <<>>)

SetupQueuePermissionBuilder ==
  Builder("setupQueuePermission", DuelProgram,
          <<R("queue"), WS("authority"), W("permission"), R("permissionProgram"),
            R("systemProgram")>>,
          [queue |-> Derived(Self, <<Text("queue"), Of("authority")>>),
           systemProgram |-> SystemDefault], <<>>)

SetupTicketPermissionBuilder ==
  Builder("setupTicketPermission", DuelProgram,
          <<R("ticket"), R("tenant"), WS("player"), W("permission"),
            R("permissionProgram"), R("systemProgram")>>,
          [ticket |-> TicketDefault, systemProgram |-> SystemDefault], <<>>)

CancelTicketBuilder ==
  Builder("cancelTicket", DuelProgram, <<W("ticket"), R("tenant"), S("player")>>,
          [ticket |-> TicketDefault], <<>>)

CloseTicketBuilder ==
  Builder("closeTicket", DuelProgram, <<W("ticket"), R("tenant"), WS("player")>>,
          [ticket |-> TicketDefault], <<>>)

(* Sensitivity variant: the two accounts after the tenant the other way     *)
(* round, as a client generated before an account was moved has them.       *)
JoinQueueBuilderStale ==
  Builder("joinQueue", DuelProgram,
          <<W("queue"), R("tenant"), W("playerTicket"), R("playerData"), S("signer")>>,
          [playerTicket |-> Derived(Self, <<Text("ticket"), Of("signer"), Of("tenant")>>)],
          <<>>)

JoinQueueBuilder ==
  Builder("joinQueue", DuelProgram,
          <<W("queue"), R("tenant"), R("playerData"), W("playerTicket"), S("signer")>>,
          [playerTicket |-> Derived(Self, <<Text("ticket"), Of("signer"), Of("tenant")>>)],
          <<>>)

FlushMatchesBuilder ==
  Builder("flushMatches", DuelProgram, <<W("queue"), R("tenant"), S("signer")>>,
          <<>>, <<>>)

CommitTicketsBuilder ==
  Builder("commitTickets", DuelProgram,
          <<R("tenant"), WS("payer"), R("magicProgram"), W("magicContext")>>,
          [magicProgram |-> Fixed(MagicProgram), magicContext |-> Fixed(MagicContext)],
          <<>>)

(* AccountType: the fields of each variant in the order they are encoded.   *)
DuelAccountTypes == [Queue |-> <<"authority">>, Ticket |-> <<"player", "tenant">>]

TenantCodec ==
  <<<<"authority", "address">>, <<"tenantProgramId", "address">>, <<"eloOffset", "u32">>,
    <<"eloSize", "u8">>, <<"eloWindow", "u64">>, <<"callbackProgramId", "option address">>,
    <<"callbackDiscriminator", "option bytes8">>>>

(* Sensitivity variant: the ticket before its tenant was recorded in it.    *)
MatchTicketCodecStale ==
  <<<<"player", "address">>, <<"status", "TicketStatus">>, <<"createdAt", "u64">>,
    <<"bump", "u8">>>>

MatchTicketCodec ==
  <<<<"player", "address">>, <<"tenant", "address">>, <<"status", "TicketStatus">>,
    <<"createdAt", "u64">>, <<"bump", "u8">>>>

QueueCodec ==
  <<<<"authority", "address">>, <<"tenant", "address">>, <<"bump", "u8">>,
    <<"matchCounter", "u64">>, <<"entries", "QueueEntry">>, <<"matches", "MatchEntry">>,
    <<"pendingMatches", "PendingMatch">>>>

QueueEntryCodec   == <<<<"player", "address">>, <<"elo", "u64">>>>
MatchEntryCodec   == <<<<"player1", "address">>, <<"player2", "address">>,
                       <<"matchId", "u64">>, <<"timestamp", "u64">>>>
PendingMatchCodec == <<<<"player", "address">>, <<"opponent", "address">>, <<"matchId", "u64">>>>

DuelCodecs ==
  [Tenant |-> TenantCodec, MatchTicket |-> MatchTicketCodec, Queue |-> QueueCodec,
   QueueEntry |-> QueueEntryCodec, MatchEntry |-> MatchEntryCodec,
   PendingMatch |-> PendingMatchCodec]

TicketStatusCodec == <<"Searching", "Matched", "Expired", "Cancelled">>

(* The errors from 6000 on.                                                 *)
DuelErrorCodes == <<"InvalidTenant", "DataTooSmall", "Unauthorized", "InvalidEloSize",
                    "InvalidTicketStatus", "InvalidTicketAccount">>
=============================================================================
