---------------------------- MODULE RpsInterface ----------------------------
(***************************************************************************)
(* The interface of the game program, as the program checks it             *)
(* (rps-game/src/lib.rs) and as the generated client builds and reads it   *)
(* (sdk/src/generated/rps-game).  The client has no builders for the two   *)
(* permission set-ups of this program.                                     *)
(***************************************************************************)
EXTENDS Interface

(* declare_id!, RPS_GAME_PROGRAM_ADDRESS *)
RpsProgram == Key("8ohu")

-----------------------------------------------------------------------------
(* The program. *)

InitializePlayer ==
  Handler(<<New(W("profile"), "PlayerProfile"), WS("player"), WS("payer"),
            R("systemProgram")>>,
          System([profile |-> Derived(Self, <<Text("player_profile_v35"), Of("player")>>)]),
          <<>>, {})

SessionSeeds ==
  Derived(Self, <<Text("game_session_v1"), Of("player"), Arg("opponent"), Arg("gameId")>>)

StartGame ==
  Handler(<<New(W("gameSession"), "GameSession"), WS("player"), R("systemProgram")>>,
          System([gameSession |-> SessionSeeds]), <<"gameId", "opponent">>, {})

StartGameWithTicket ==
  Handler(<<New(W("gameSession"), "GameSession"), WS("player"), R("matchTicket"),
            R("systemProgram")>>,
          System([gameSession |-> SessionSeeds]), <<"gameId", "opponent">>, {})

ProfileOf(side) ==
  Derived(Self, <<Text("player_profile_v35"), Field("gameSession", side)>>)

MakeChoice ==
  Handler(<<Holding(W("gameSession"), "GameSession"),
            Holding(W("player1Profile"), "PlayerProfile"),
            Holding(W("player2Profile"), "PlayerProfile"), S("player")>>,
          [player1Profile |-> ProfileOf("player1"), player2Profile |-> ProfileOf("player2")],
          <<"choice">>, {})

PersistResults ==
  Handler(<<Holding(W("gameSession"), "GameSession"), W("player1Profile"),
            W("player2Profile"), WS("payer"), R("magicProgram"), W("magicContext")>>,
          [magicProgram |-> Fixed(MagicProgram), magicContext |-> Fixed(MagicContext)],
          <<>>, {})

DelegatePda == Delegation

ClosePlayer ==
  Handler(<<Holding(W("profile"), "PlayerProfile"), S("player"), W("payer")>>,
          [profile |-> Derived(Self, <<Text("player_profile_v35"), Of("player")>>)],
          <<>>, {})

OnMatchFound == Handler(<<S("signer")>>, <<>>, <<"player1", "player2", "matchId">>, {})

RpsHandlers ==
  [initializePlayer |-> InitializePlayer, startGame |-> StartGame,
   startGameWithTicket |-> StartGameWithTicket, makeChoice |-> MakeChoice,
   persistResults |-> PersistResults, delegatePda |-> DelegatePda,
   closePlayer |-> ClosePlayer, onMatchFound |-> OnMatchFound]

(* derive_seeds_from_account_type *)
RpsAccountSeeds(kind) ==
  CASE kind[1] = "PlayerProfile" -> <<Key("player_profile_v35"), kind[2][1]>>
    [] kind[1] = "GameSession" ->
         <<Key("game_session_v1"), kind[2][1], kind[2][2], kind[2][3]>>

PlayerProfile ==
  <<<<"player", "address">>, <<"elo", "u64">>, <<"gamesPlayed", "u64">>,
    <<"gamesWon", "u64">>>>

GameSession ==
  <<<<"gameId", "u64">>, <<"player1", "address">>, <<"player2", "address">>,
    <<"player1Choice", "option Choice">>, <<"player2Choice", "option Choice">>,
    <<"result", "GameResult">>>>

RpsLayouts == [PlayerProfile |-> PlayerProfile, GameSession |-> GameSession]

Choice == <<"Rock", "Paper", "Scissors">>
GameResult == <<"Winner", "Tie", "None">>
GameError == <<"AlreadyChose", "InvalidPlayer", "InvalidMatchTicket">>

-----------------------------------------------------------------------------
(* The generated client. *)

ProfileDefault == Derived(Self, <<Text("player_profile_v35"), Of("player")>>)

SessionDefault ==
  Derived(Self, <<Text("game_session_v1"), Of("player"), Arg("opponent"), Arg("gameId")>>)

InitializePlayerBuilder ==
  Builder("initializePlayer", RpsProgram,
          <<W("profile"), WS("player"), WS("payer"), R("systemProgram")>>,
          [profile |-> ProfileDefault, systemProgram |-> SystemDefault], <<>>)

StartGameBuilder ==
  Builder("startGame", RpsProgram, <<W("gameSession"), WS("player"), R("systemProgram")>>,
          [gameSession |-> SessionDefault, systemProgram |-> SystemDefault],
          <<"gameId", "opponent">>)

StartGameWithTicketBuilder ==
  Builder("startGameWithTicket", RpsProgram,
          <<W("gameSession"), WS("player"), R("matchTicket"), R("systemProgram")>>,
          [gameSession |-> SessionDefault, systemProgram |-> SystemDefault],
          <<"gameId", "opponent">>)

MakeChoiceBuilder ==
  Builder("makeChoice", RpsProgram,
          <<W("gameSession"), W("player1Profile"), W("player2Profile"), S("player")>>,
          <<>>, <<"choice">>)

PersistResultsBuilder ==
  Builder("persistResults", RpsProgram,
          <<W("gameSession"), W("player1Profile"), W("player2Profile"), WS("payer"),
            R("magicProgram"), W("magicContext")>>,
          [magicProgram |-> Fixed(MagicProgram), magicContext |-> Fixed(MagicContext)],
          <<>>)

DelegatePdaBuilder ==
  Builder("delegatePda", RpsProgram, DelegationAccounts,
          DelegationDefaults(RpsProgram), <<"accountType">>)

ClosePlayerBuilder ==
  Builder("closePlayer", RpsProgram, <<W("profile"), S("player"), W("payer")>>,
          [profile |-> ProfileDefault], <<>>)

OnMatchFoundBuilder ==
  Builder("onMatchFound", RpsProgram, <<S("signer")>>, <<>>,
          <<"player1", "player2", "matchId">>)

(* AccountType: the fields of each variant in the order they are encoded.   *)
RpsAccountTypes == [PlayerProfile |-> <<"player">>, GameSession |-> <<"p1", "p2", "id">>]

PlayerProfileCodec ==
  <<<<"player", "address">>, <<"elo", "u64">>, <<"gamesPlayed", "u64">>,
    <<"gamesWon", "u64">>>>

GameSessionCodec ==
  <<<<"gameId", "u64">>, <<"player1", "address">>, <<"player2", "address">>,
    <<"player1Choice", "option Choice">>, <<"player2Choice", "option Choice">>,
    <<"result", "GameResult">>>>

RpsCodecs == [PlayerProfile |-> PlayerProfileCodec, GameSession |-> GameSessionCodec]

ChoiceCodec == <<"Rock", "Paper", "Scissors">>
GameResultCodec == <<"Winner", "Tie", "None">>

(* The errors from 6000 on.                                                 *)
RpsErrorCodes == <<"AlreadyChose", "InvalidPlayer", "InvalidMatchTicket">>
=============================================================================
