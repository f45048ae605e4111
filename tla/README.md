# A verification project for private matchmaking

TLA+ models of the `duel` matchmaking program (Solana, Anchor, with a TEE
rollup), of the SDK clients and operators and of the web client around it, of
the example game program `rps-game` and the game as it is played in the web
client, and of the interface between clients and programs; TLC runs on small
instances; TLAPS proofs for every value of the constants.

All paths below are relative to the repository (`src/`).

## 1. The system

### Components

| component | source | state | operations |
|---|---|---|---|
| duel program | `programs/duel/src/lib.rs` | tenant, queue (entries, recent matches, pending matches, counter), one ticket per player | `initialize_tenant`, `initialize_queue`, `delegate_queue`, `create_ticket`, `delegate_ticket`, `cancel_ticket`, `close_ticket`, `join_queue`, `flush_matches`, `commit_tickets`, two permission set-ups |
| SDK player | `sdk/src/player.ts`, `sdk/src/transaction.ts` | where `enterQueue` is, transactions given up on | `enterQueue`, `pollForMatch`, `cancelTicket`, `closeTicket` |
| SDK operator | `sdk/src/admin.ts` | what `resolveMatches` has read | `resolveMatches` = read, `flushMatches`, `commitTickets`; the set-up calls |
| rps-game program | `programs/rps-game/src/lib.rs` | profiles (ELO, games played and won), game sessions | `initialize_player`, `start_game`, `start_game_with_ticket`, `make_choice`, `persist_results`, `close_player`, `on_match_found` |
| frontend matchmaking | `frontend/lib/hooks/useMatchmaking.ts` | the state of a search | `findMatch`, `cancelSearch`, polling |
| frontend game session | `frontend/lib/hooks/useGameSession.ts`, `frontend/components/GameBoard.tsx`, `frontend/app/page.tsx` | what the page shows, the state of each board, the timer back to the menu | `startGame`, `makeChoice`, `pollForGameResult`, `persistResults`, opening and leaving a board |
| generated clients | `sdk/src/generated`, `frontend/src/generated` | none | addresses by default, encoding, decoding, error codes |
| scripts | `scripts/init-queue.ts` and others | how far a run came | the set-up of tenant, queue and permission, in order |
| permissions, TEE authentication | `lib.rs:107-173`, `sdk/src/tee.ts` | who may read an account in the TEE | set-up calls, tokens |

### How they interact

Accounts live on two layers. The base layer (L1) owns an account until it is
delegated; from then on its authoritative copy is the one in the TEE rollup, and
L1 keeps showing the last *committed* copy. An instruction is atomic and runs
on one layer. Matching happens inside `join_queue`: the newcomer's ticket is in
the call and is written at once, the ticket of the one who was waiting is not,
so the program remembers a `PendingMatch`, which a later `flush_matches`
delivers. `commit_tickets` then copies tickets to L1, asynchronously, and the
players, who poll L1, see the outcome. Anybody may flush and commit.

### What is hard here

* **Interleaving**: joins, cancellations, flushes and commits of many players and
  operators act on the same queue and tickets; `resolveMatches` acts on a read
  that may be stale.
* **Atomicity across transactions**: the two tickets of a match are written by
  different transactions.
* **Partial failure**: a flush with too few accounts, a flush with one
  undeliverable match, a commit list with one wrong ticket.
* **Timeouts and retries**: an SDK client gives up on a transaction that may still
  be executed; the web client does not wait for its transactions at all, and its
  later searches meet the late ones of the earlier.
* **Reordering between layers**: commits reach L1 later than they were made.
* **Limits**: one fixed-size account for three vectors, ten recent matches, the
  accounts a transaction has room for, the edge of the ELO window.
* **Callbacks of a page that has moved on**: a board goes on with its call after it
  is no longer shown, and the timer that leads back to the menu is never cleared.
* **Two descriptions of one interface**: programs bind accounts and arguments by
  position, generated clients list them; defaults in the generated files are
  constants of the file whatever program is called.
* **A script of several transactions** that may be cut short and run again.

### What makes each component correct

* *duel program*: whoever could be matched is; with the closest waiting player,
  the earliest on a tie; both tickets of a match come to tell the same story; no
  outcome is lost, replaced or invented, on any layer; L1 never goes back.
* *player client*: what a client is told is a match that was made, and its
  opponent is told the same; no player is in two matches.
* *operators*: whatever the races between them, every match reaches L1.
* *rps-game*: a session is decided once, by the choices made; ELO and game
  counts change exactly once per game; persisted results are final, and the games
  L1 shows of a profile never become fewer, whatever is persisted together.
* *frontend matchmaking*: a search reports the match of that search, or none; both
  sides of a match are told, and take different roles; a reported match stands.
* *frontend game session*: the two boards of a game tell opposite stories, both
  the session's; what a board shows as the player's choice is what counted; a
  running game is taken off the page only of a player who clicked Continue twice;
  whoever clicks Continue finds the result on L1 or was let down; whoever is let
  down by nothing is shown no error.
* *generated clients*: every call a client can build is one its program can accept
  in some state; both read the same fields in the same bytes.
* *scripts*: a run that took every step, "initialized", leaves the tenant asked for,
  with its queue and the queue's permission in the TEE, whatever others did meanwhile.

## 2. The modules

| module | what it is |
|---|---|
| `ClosestMatch` | the choice of an opponent as a definition: distance, window, closest, earliest |
| `MatchScan` | the loop of `join_queue` (lines 272-293), one iteration a step |
| `Matchmaking` | the abstract specification: players arrive, are paired or wait, are owed outcomes and told of them; no accounts, layers or commits |
| `Duel` | the program: one tenant, its queue, the tickets, both layers, commits in flight. Implements `Matchmaking` |
| `Session` | clients and operators of the SDK on top of `Duel` (EXTENDS it: a client step contains the program's step) |
| `FindMatch` | web clients on top of `Duel` (EXTENDS it: executing a transaction is the program's step) |
| `RpsGame` | the game program: profiles and sessions on both layers, commits in flight |
| `PlayGame` | boards of web clients on top of `RpsGame` (EXTENDS it: executing a transaction is the program's step). Implements `RpsGame` |
| `Interface` | what a call is: builders, handlers, addresses, encodings |
| `DuelInterface`, `RpsInterface` | the tables of the two programs: what each handler checks, what each builder lists and encodes, layouts, enums, errors |
| `Launch` | the calls the clients build, made on a chain of accounts: the set-up script, a player's calls, and the start of `join_queue`, up to and with the loop (EXTENDS `MatchScan` and the interfaces) |
| `MCDuel`, `MCSession`, `MCFindMatch`, `MCRpsGame`, `MCPlayGame`, `MCLaunch` | instances for TLC |
| `DuelProofs`, `DuelPromiseProofs` | theorems about `Duel`: its types and invariants; commits and L1, the recent list and the refinement of `Matchmaking` |
| `SessionProofs`, `FindMatchProofs`, `RpsGameProofs`, `PlayGameProofs` | theorems about the module of that name |
| `LaunchProofs`, `CallProofs` | theorems about `Launch` and the scan in it: the accounts, the script and the newcomer; the form of the clients' calls |

Definitions whose comment begins with *Sensitivity variant* are not part of the
specification. Each is a plausible bug (a dropped check, a swapped field, an
off-by-one) for one definition, and TLC finds a property violated when it
takes the definition's place.

### Duel: state and actions

| variable | code |
|---|---|
| `tenant` | the Tenant account: absent, or initialised with or without a callback |
| `queue` | where the Queue account can be written: nowhere, on L1, in the TEE |
| `entries`, `matches`, `pending`, `counter` | the fields of `Queue` (732-747) |
| `ticket` | the authoritative copy of each MatchTicket; `Absent` is an uncreated or closed PDA. `Expired` is never assigned by the program and is left out |
| `delegated` | the players whose ticket is in the TEE |
| `l1` | the copy of each ticket an L1 reader sees |
| `inflight` | the commits made and not yet applied on L1 |
| `events` | the `MatchFound` events, with the ELO values of the pair and whether the callback ran. Match `n` is the event `events[n]` |

Every instruction is one action, with the account constraints of its context as
guards. A failing instruction changes nothing, so it is a stuttering step and
not an action. `join_queue` is `JoinQueue`: its two outcomes are `Wait` and
`Pair`, and in both the three vectors must fit the account when it is written
back (`Fits`), otherwise the call fails as a whole. A callback that fails is
such a failure too. `Pair` takes the closest of the window by definition
(`IsBestMatch`); that the loop of the code finds that one is the subject of
`MatchScan`. The two removals by index (347-348) are two, in their order
(`WithoutBoth`). `flush_matches` is `FlushMatches(accounts)`, for any
sequence of ticket accounts. `commit_accounts` is the rollup's: `CommitTickets`
puts a snapshot in `inflight` and `Settle` applies the oldest one on L1. That
commits of an account are applied in order is an assumption on the rollup.

Abstractions: a wallet is a model value; ELO is read from the profile, so a call
of `JoinQueue` takes any value of `Elos`; timestamps, seeds, bumps and
authorities are left out (calls are made by the wallet whose PDA they name);
sizes are constants, so that runs fill the account with few entries.

### Session: state and actions

`enterQueue` is a sequence of five calls (`Calls`), each sent and awaited
(`Confirmed`). A call may fail (`Rejected`), or stay unconfirmed for eight
seconds and throw (`ConfirmationTimeout`), in which case the transaction is
`late` and is executed (`LateExecution`) or dropped (`LateDrop`) at any later
time. `pollForMatch` is `PollFinds` and `PollTimesOut`. An operator reads the
pending matches (`ReadPending`), flushes what it read (`FlushConfirmed`;
`FlushUnconfirmed` when the flush is executed and its confirmation times out),
and commits (`CommitRead`); any of the two may throw (`ResolveThrows`). The
constants `Unconfirmed`, `Retrying` and `Cancelling` say which players may meet
which of these.

### FindMatch: state and actions

| variable | code |
|---|---|
| `step` | where `findMatch` of `frontend/lib/hooks/useMatchmaking.ts` is |
| `sent` | transactions sent and neither executed nor lost |
| `toFlush` | the pending players read from the queue (227-237) |
| `result` | what the search reported: opponent, match, role |
| `earlier`, `searches` | history: what earlier searches reported, how many there were |

`sendInstruction` of the web client returns once the transaction is handed over,
so a step of the search is `Send`, and `Executed` or `Dropped` come later, in any
order. `CleanUp`, `Enter` and `CrankDuty` are the parts of `findMatch` (84-139,
143-221, 225-270); `Report` and `TimeOut` are the polling (278-313);
`CancelSearch` is `cancelSearch`; `Throw` is a call that fails before it is sent,
which the clean-up and the crank duty catch. The button offers to cancel only
while the ticket is polled, so the checks of the abort signal between the other
steps cannot fire and are left out. The wait for the ticket to return to L1
(121-125) ends either way, and `Return` reads L1 afterwards, as line 129 does.

### RpsGame: state and actions

`account` is the authoritative copy of each profile and session, `l1` the copy L1
shows, `delegated` the accounts in the TEE, `inflight` the commits not applied
yet. A session is identified with its address: the two players and the game id.
Each instruction is an action. `make_choice` is `MakeChoice`, with the resolution
of the game and both profiles in the same step (`AfterChoice`), and needs the
session and both profiles on one layer, since all three are writable there.
`Tickets` are the matches L1 shows, which `start_game_with_ticket` reads: it asks
for an account that reads as Matched with the opponent named, not for the caller's
own. ELO values are natural numbers; `saturating_sub` is modelled, the top of u64
is out of reach. `persist_results` may be called by anybody, with any two accounts
of the TEE in the place of the profiles (`PersistResults(g, x, y)`); the constant
`Passed` bounds the pairs that are tried.

### PlayGame: state and actions

A match found opens a *board* (`Open`): `Boards` are numbered per player, since a
player may leave one and open another.

| variable | code |
|---|---|
| `page` | which board `page.tsx` shows each player, 0 for the menu |
| `at` | where a board is: in `startGame` (`starting`, `delegate`, `waiting`), `ready`, in `makeChoice` (`submit`), in `pollForGameResult` (`resolving`), `complete`, in `persistResults` (`persisting`), `error` |
| `game`, `chosen`, `shown` | the session of a board, its `playerChoice`, its `result` |
| `timers` | how many `setTimeout(onGameComplete, 2000)` of each board have not fired (`GameBoard.tsx:45-52`) |
| `clicks` | history: how often Continue was clicked on each board |
| `sent` | the transactions sent and neither executed, refused nor lost |
| `faulty` | history: players whom a failure, a loss, an overtaking or a time-out met |

`Executed(p, k)` takes the program's own action (`Execute`) on the k-th transaction
on its way, so transactions overtake one another; `Refused` removes one the program
would not accept; `Lost` removes any. A call that throws (`Throws`, `Fail`) may have
sent its transaction before. `Leave` is the timer: it takes away whatever board is
shown by then. The Continue button is live whenever a board that is over is shown
(`GameBoard.tsx:149-154`), in the two seconds before the menu, too: the results are
sent again and a second timer is set, which may take away a later board.

Two constants say what the source leaves to others or gets wrong:

* `Encodes`: whether the argument of `delegate_pda` may be encoded. In the source it
  is `{FALSE}`: the board fails there (run `play_web`). With TRUE in the set the
  module says how the game would be played once that is repaired; run `play` has both,
  so its properties hold of the client as it is and as it would be.
* `Elsewhere`: the accounts somebody else delegates, as the tests do. The web client
  delegates no profile, although `make_choice` writes both profiles in the TEE and
  `docs/integration-guide.md:168` says so.

### Interface, DuelInterface, RpsInterface

`Interface` says what a call is. A *builder* (the client's side, one generated
file) lists accounts with privileges, gives defaults to addresses the caller leaves
out, and orders the arguments. A *handler* (the program's side, one `Accounts`
struct) binds accounts by position, with their privileges, seeds, fixed addresses,
types, and the fields that must match. An address is a key or what a program and
seeds derive; derivation is taken to be injective. A call can be refused because of
its *form*, in every state (`FewAccounts`, `Unprivileged`, `Misaddressed`, an
argument that cannot be encoded), or because it is `Untimely`. `DuelInterface` and
`RpsInterface` are the two tables, handlers from the Rust and builders from the
TypeScript, each with layouts, enums and error codes on both sides.

### Launch: state and actions

| variable | code |
|---|---|
| `duel` | where the duel program is deployed: at the address in the generated files, or elsewhere (the SDK and the web client take it as a parameter) |
| `chain` | the accounts there are, each with its type, its layer and the fields that later calls read |
| `script`, `options` | how far `init-queue.ts` is and the options it was given; a run ends `ready` if it found a tenant, `initialized` if it took every step, `failed` at a step that was refused, `idle` when cut |
| `waiting`, `elo`, `i`, `best`, `bestDiff` | `join_queue` up to the end of its loop, of `MatchScan` |
| `joining` | whether a join is in that loop |

`Start`, `Step`, `Refused` and `Cut` are the script, which takes an existing tenant
for a finished set-up. `Act` and `Join` make any of the `PlayerCalls`, as the SDK,
the web client or an integrator builds them, on either layer and in any order. Among
an integrator's (`IntegratorCalls`) is `delegateQueue` for the operator's queue, which
the program takes from any payer (`lib.rs:56-70`, 546-556), so the queue may be
delegated under the script's hands;
`Accepted` is the program's verdict: the form, the time (`Untimely`) and the
handler's own conditions (`Allowed`). `ReadElo` is the decoding of the ELO from the
profile's bytes, at the tenant's offset and width (223-255); bytes have
`ByteValues` values. `Misformed` names, with their reasons, the calls no state makes
acceptable:

* the web client derives addresses under its configured program and calls the one
  its builders were generated for;
* `delegateQueue` and `delegateTicket` carry owner and buffer of the generated
  program whatever program is called;
* the web client's delegation of a session cannot be encoded;
* `delegateQueue(authority)` for an authority that is not the signer sets up the
  permission of one queue and delegates another.

These are hazards only when the program is deployed elsewhere, or an authority is
passed; the repository deploys it where its clients expect it.

## 3. What the runs check

| run | question | result |
|---|---|---|
| `pairing` | Is nobody left waiting who could be paired, and does the program implement `Matchmaking` when bystanders wait: do the two matched leave the queue, and nobody else? | holds |
| `delivery` | Does every outcome reach the right ticket, once, whatever the order of joins, partial flushes, cancellations and commits? Does L1 ever show a wrong one or take one back? Does the program implement `Matchmaking`? | holds |
| `calls` | With failing, timed-out and late calls, and one player who retries: is everybody else in one match at most, and are two of them told of a match told of the same one? | holds |
| `results` | Do two racing operators bring every match to L1, and does a queue full of undelivered matches get room again, unless those who wait take it? | holds |
| `search` | Web clients with late and lost transactions: do both sides of a match agree on it and on the roles, does a reported match stand, is its opponent bound to it? | holds |
| `game` | Are games counted once, ELO bounded by them, choices and results final on both layers, do the games L1 shows never become fewer whatever accounts are persisted, and are games decided? | holds |
| `play` | With the delegation's argument refused by the encoder as in the code, or repaired: do two boards agree, is the choice shown the one that counted, is a running board taken away only after two clicks on Continue, and does Continue bring the result to L1? | holds |
| `launch` | Are the clients' calls acceptable to the programs, do both sides read the same fields, what does a set-up that says "initialized" leave behind, is the ELO read the one stored, does the loop find the opponent the definition asks for? | holds |
| `cancel_blocks` | Does a player who cancels harm nobody else? | no |
| `search_again` | Does a second search report a match of its own? | no |
| `crank_race` | Are both players of a match told, when every transaction is executed at once? | no |
| `play_web` | Does a board end in an error only if something went wrong on its way? | no |

### Bounds, and why they are enough

* Players: three in `pairing` and `delivery` (a newcomer, its opponent and a
  bystander; a player rejoining while owed an outcome), four in `calls` and
  `results` (two disjoint matches; in `calls` one of the four retries).
* `Elos = {1, 2, 4}`, `EloWindow = 2` in `pairing`: 2 is in the window of both 1 and 4,
  which are not in the window of one another, and 4 is exactly at the edge from 2. So
  1 and 4 both wait when 2 comes, and one of them stays.
* Two matches (`MaxMatches`) where outcomes overtake one another; `MaxRecent = 1`
  so that the recent list overflows, and `MaxInflight = 2` so that a commit waits
  behind another, in `delivery`.
* `search`: two web clients, one of which searches twice, and two transactions of
  each on their way, so that calls of the first search overtake those of the
  second. `crank_race`: three players, of whom one is matched with nobody.
* `game`: two sessions of the same two players with the roles swapped and two
  commits in flight, so that one profile is changed by two sessions and
  committed with both; `StartElo = EloStep`, so that the second loss is at zero;
  one player may close its profile and open it again. `Passed`: the two profiles, as
  clients pass them, or the first in both places, so that a session reaches L1 without
  one of the profiles that count it.
* `play`: one session, since boards of different sessions share the profiles only,
  whose counting `game` covers; one of the two players may fail and open the board
  again (`MaxOpens`), so that late transactions of the first board meet those of
  the second; two transactions of each on their way, so that a choice can overtake
  or be overtaken; two clicks on Continue on its first board (`MaxClicks`), so that
  the second timer meets the second board. `Encodes` has both values, and both profiles
  may be delegated (`Elsewhere`).
* `launch`: one operator, one player, one opponent; the program where clients
  expect it and elsewhere; four ways of storing the ELO (the script's, the SDK's
  default, an offset past the end of the profile, a width there is none of); bytes
  of four values, so that 17 does not fit two of them; every queue of up to three
  entries of three ELO values, met by `join_queue` (`Queues`).
* `Capacity` is small enough for the account to be full in the runs of `Duel`. In
  `results` it is 5, with two ELO values outside the window of one another: one recent
  match, one outcome owed and one player waiting fill it, so that no match can be made
  before a flush, and two players may wait at once who can never be paired.
  `EntrySize : MatchSize : PendingSize` is 1 : 2 : 2 for 40 : 80 : 72 bytes.
* `MaxAccounts` is the number of pending matches or more in `delivery`, so
  flushes with too few, enough and too many accounts all occur.
* Symmetry over players (and operators) is used in runs without liveness only.
* Deadlock is not checked: tickets that are delegated and final, or clients that
  are done, are a legitimate end.

### Fairness

`FairReadySession` (runs `results` and `cancel_blocks`): operators keep calling
`resolveMatches` (WF on reading and on giving up); a flush or a commit that the
program would accept again and again is eventually accepted and confirmed (SF,
since other operators may make it momentarily impossible); commits are applied
(WF on `Settle`). Nothing is assumed of players. The documentation has the game
owner or a crank service run `resolveMatches` after matches are made
(`docs/integration-guide.md:278-296`).

`FairSpec` of `RpsGame` (run `game`): players make the choices they can make.
Nothing else is assumed: that accounts are delegated is the premise of `GamesEnd`.

`FairPlay` (run `play`): a board whose Continue was clicked goes on and sends the
results; the first transaction of each player is executed or refused; L1 applies
commits. Nothing is assumed of players: `ContinuePersists` starts from the click.
Losses and failures are not excluded: a player they meet is `faulty`, and the property
is about the others.

`FindFairness` (run `crank_race`): searches go on, transactions are executed or
refused, commits are applied. `Prompt` players do not give up and their
transactions come before their next step: the violation needs neither delay nor
loss.

### What the violations say

* **A player who cancels blocks others** (`cancel_blocks`). `cancel_ticket` changes
  the ticket only; the entry stays in the queue and the next newcomer is paired
  with a player who left. That match is pending at the head of the list, its
  ticket is not `Searching`, and `flush_matches` fails as a whole: no later match
  is ever delivered, and `resolveMatches` throws before it commits.
  `PendingOnlyDelivered` holds all the same: nothing is lost, it just never
  leaves.
* **A second search reports the old match** (`search_again`). Commits do not
  undelegate and no instruction does, so a ticket once delegated can be neither
  closed nor created anew. The clean-up waits for a return that never comes, the
  calls after it are refused without the client noticing, and the poll finds the
  ticket of the search before.
* **A newcomer is never told** (`crank_race`). A third player reads and flushes the
  newcomer's pending match before the newcomer reads the queue. The newcomer
  finds nothing pending and commits nothing, and its own ticket is in nobody
  else's commit. `ResultsReachL1` of `Session` has no such gap: operators commit
  the tickets of all participants.
* **A game cannot be started in the web client** (`play_web`). `startGame` passes the
  account type of `delegate_pda` as `{__kind, fields: [...]}` and casts it; the
  encoder reads `p1`, `p2` and `id` beside `__kind` and throws. The session is
  started and stays on L1; the other player waits for it in the TEE.

No run of its own, but the reason for the restriction in `calls`: the first
`joinQueue` of an SDK client may time out and be executed all the same;
`join_queue` does not look for the caller among the entries, so a client that
retries once, as the guide advises, may be matched with itself. `OneMatchEach` and
`FoundMutual` are therefore about the players who do not retry, and hold for them
though others do.

## 4. What is proved

Every theorem holds for every value of the constants that meets the assumptions
stated beside them: `Nobody` is not a player, ELO values, sizes and bounds are
naturals, `MaxRecent` is positive, a session is a pair of players with an id and is
not itself a player, the pairs of accounts persisted (`Passed`) are any, those of
`PlayGame` with the players' own among them, the addresses of different players differ, the players with a
special behaviour (`Retrying`, `Prompt`, `Closing`, ...) are players; for `Launch`, a
byte has at least two values, tenants have at least one way to store the ELO, and
the duel program is not deployed at the address of the game or of the permission
program. Players,
operators and sessions need not be finitely many: where games are counted, that the
games decided so far are finitely many is part of the invariant.

| module | theorem | says |
|---|---|---|
| `DuelProofs` | `DuelTyped` | `Spec => []TypeOK` |
| | `NoMatchLeftBehind` | `Spec => []QueueSeparated` |
| | `TicketsNeverLie` | `Spec => []TicketsHonest` |
| | `PendingNeverLies` | `Spec => []PendingHonest` |
| | `OutcomesAreFinal` | `Spec => OutcomeFinal` |
| | `PendingNeverLost` | `Spec => PendingOnlyDelivered` |
| `DuelPromiseProofs` | `CommitsNeverStale` | `Spec => []SettledAgrees` |
| | `L1IsFinal` | `Spec => L1NeverRetracts` |
| | `RecentAreLatest` | `Spec => []RecentMatches` |
| | `ProgramKeepsPromise` | `Spec => KeepsPromise`: `Duel` implements `Matchmaking` |
| `SessionProofs` | `SessionImplementsDuel` | `SessionSpec => Spec` |
| | `SessionTypesHold` | `SessionSpec => []SessionTypeOK` |
| | `OneMatchPerPlayer` | `SessionSpec => []OneMatchEach` |
| | `ClientsAgree` | `SessionSpec => []FoundMutual` |
| `FindMatchProofs` | `SearchImplementsDuel` | `FindSpec => Spec` |
| | `FindTypesHold` | `FindSpec => []FindTypeOK` |
| | `ReportsStand` | `FindSpec => []ReportStands` |
| | `OpponentsBound` | `FindSpec => []OpponentBound` |
| | `RolesAgree` | `FindSpec => []SidesAgree` |
| `RpsGameProofs` | `RpsTyped` | `Spec => []TypeOK` |
| | `RpsFinal` | `Spec => GamesFinal` |
| | `L1OnlyGrows` | `Spec => L1NeverBack` |
| | `ProfilesCount` | `Spec => []ProfilesAgree` |
| `PlayGameProofs` | `PlayImplementsRps` | `PlaySpec => Spec` |
| | `PlayTyped` | `PlaySpec => []PlayTypeOK` |
| | `PlayVerdicts` | `PlaySpec => []VerdictsAgree` |
| | `PlayChoices` | `PlaySpec => []ChoiceCounts` |
| | `PlayStays` | `PlaySpec => BoardStays` |
| | `PlayFinal` | `PlaySpec => GamesFinal` |
| `LaunchProofs` | `ScanKeepsBest` | the loop invariant of the search |
| | `ScanFindsBestMatch` | the search returns what `ClosestMatch` defines |
| | `LaunchKeepsInv` | `LaunchSpec => []LaunchInv`, the inductive invariant |
| | `LaunchTyped` | `LaunchSpec => []LaunchTypeOK` |
| | `AccountsAtHome` | `LaunchSpec => []AddressesAgree` |
| | `SetUpServes` | `LaunchSpec => []InitializedMeansServed` |
| | `JoinReadsElo` | `LaunchSpec => []EloAsStored` |
| | `LaunchFindsBestMatch` | `LaunchSpec => [](BestSoFar /\ ScanCorrect)` |
| `CallProofs` | `CallsWellFormed` | `LaunchSpec => []WellFormed` |
| | `CallsReadBack` | `LaunchSpec => []ReadBack` |

### The arguments

**Separation** (`NoMatchLeftBehind`) is inductive given the types: a newcomer is
appended only when `Candidates` is empty, and distance is symmetric; every other
step removes entries or leaves them alone, which preserves it.

**Honesty** (`TicketsNeverLie`, `PendingNeverLies`) needs one invariant for both,
`HonestInv`: a flush copies a pending match into a ticket, so tickets are honest
only because pending matches are; pending matches are in order without
repetition because the log is as long as the counter (`Ledger`) and a new match has
the next number; that a pending match is undelivered needs that an outcome in a
ticket came from the log at that number. The invariant relates the counter, the
log, the pending list and the three copies of each ticket.

**The action properties** follow from the types and, for flushes, from one lemma
(`FlushEffect`) about which tickets a flush writes and what remains pending.

**Layers** (`CommitsNeverStale`, `L1IsFinal`). `SettledAgrees` alone is not
inductive: a step that delegates a ticket could leave a commit of an earlier life in
flight, and a delegated ticket that disappeared could be created anew. `Copies`
adds that a ticket on L1 is the same in both copies and in no commit, that a ticket
in the TEE is never absent, and that among the commits on their way none after an
outcome carries `Searching`. L1 then moves only forward.

**The recent list** is the end of the log: a match is appended to both, and the
trim drops the first entry of the list only. The proof needs `Ledger`, since the
list stores the counter.

**The refinement** (`ProgramKeepsPromise`). A waiting player of `Matchmaking` is an
entry, an owed outcome a pending match, what a player knows the ticket. Each
instruction maps to one step or a stutter. Of two entries removed by index
exactly those of the pair must go, and no other waiting player: the entries are
distinct because they are separated, and the newcomer is the last. A flush must
remove exactly what it delivers: pending matches are distinct by their number.

**Clients take program steps.** `SessionSpec` and `FindSpec` imply `Spec` of `Duel`,
and `PlaySpec` implies `Spec` of `RpsGame`: whatever a client does, its effect on
the accounts is an instruction, a settled commit or a stutter. All theorems about
the program are therefore theorems about the program as its clients use it, and the
proofs for clients cite them. None of them needs to know when a transaction is
refused, so ENABLED is not needed.

**One match** (`OneMatchPerPlayer`). `OneMatchEach` alone does not say why a matched
player cannot be matched again. `Once` adds that who does not retry has at most one
`joinQueue`, not sent, late or executed (`SentOnce`), and that once it is executed the
player is in one entry or in one match and not in both (`QueuedOnce`).

**Mutual results** (`ClientsAgree`). What a client was told remains on its ticket
(`FoundStays`), since no client closes a matched ticket: the copy on L1 it polled is
the outcome of the ticket by `Copies`. Both tickets tell the truth about the match
they name, and the players who do not retry have one.

**Searches** (`ReportsStand`, `OpponentsBound`, `RolesAgree`). The invariant `Bound`: a
matched ticket is in the TEE, so it can be neither closed nor created anew; of every
match the newcomer has it on its ticket and the other has it there or is owed it; a
report is the outcome that L1 shows. Roles are computed from the order of the
addresses, which are different.

**Finality of games** (`RpsFinal`, `L1OnlyGrows`). `Keeps(s, t)` says that session `t`
holds every choice and result `s` holds, `Grows(s, t)` that profile `t` counts no
fewer games and wins; `Follows` is one or the other, reflexive and transitive. The
invariant `Chain` is that what L1 shows, the commits in their order, and what the TEE
holds form a chain under `Follows` for each session and each profile that is never
closed, and that such an account, when not delegated, is in no commit and the same on
both layers. Every instruction moves the end of the chain up (`Advance`; that a choice
never overwrites a result needs `Resolved`: a result stands only beside two choices),
a commit copies its end, whichever accounts it carries, and L1 moves to the next link.
Without the chain L1's step could not be bounded. `RpsTyped` needs that an account in
the TEE exists (`Present`), which is why a commit carries no absent account.

**Counting** (`ProfilesCount`). `Counting` adds to the above that of every profile which
cannot be closed the games decided are finitely many, none before it is opened, and
tallied (`Tally`); that the session of a player with itself has no second choice
(`SoloOpen`), so that a game decided has two different players. Deciding a game adds it
to the sets of exactly these two (`OneMoreGame`), and the tally moves as `make_choice`
moves the profile (`TallyGame`; at zero the loser's ELO stays above what the losses
allow).

**Boards** (`PlayVerdicts`, `PlayStays`). The invariant is `Playable`: `Boarded` says
what a board at each stage has chosen and shows and what timers it has, `Below` is the
invariant of the program beneath, with the addition (`Ends`) that two choices come with
a result. A result once shown stays the session's because results are final, and the
two sides read opposite verdicts from one result. That a timer meets no later board of
a player who clicked once needs where every timer comes from: `Clicked` says that each
is of a click of its own which is over, `Due` that a `Calm` player, who never clicked
twice, is still shown the board that set the timer.

**The choice that counts** (`PlayChoices`). Of a player with one board, every choice
that is on its way or in a session was made on that board, which is past its choice
(`OwnChoice`). The proof says for each step where a transaction comes from
(`NewSent`), where a choice in a session comes from (`NewChoice`), and that a board
past its choice keeps it (`BoardGoesOn`).

**The scan**: `BestSoFar` is the loop invariant; at the end of the loop it is the
definition.

**Calls on a chain** (`AccountsAtHome`, `LaunchTyped`). A program accepts a call only
when every account rule of its handler holds (`RuleKept`, `AcceptedMeans`), and the
rules derive the addresses of what is created, delegated or given a permission from
the accounts passed with it. So, whoever built the call, what it changes lies at the
address clients derive for it (`Orderly`, `Amends`), and one lemma says that an
orderly change keeps the accounts in shape and at home (`MadeOrderly`). `Home` of an
account read is known from the invariant, that of an account written from the rules:
neither suffices alone. `PlayerCallsShaped` and `StepCallsShaped` bound the calls, the
options of an integrator's tenant among them; no finite set of deployments, options
or byte values is assumed.

**The set-up script** (`SetUpServes`). `ScriptSound` says what exists before each step
of a run that found no tenant: the tenant as asked for (`TenantAsAsked`), its queue
(`QueueOfTenant`), the permission in the TEE (`PermissionMoved`), the queue there
(`QueueMoved`). A step that is accepted brings about the next of these, because the
handler's rules determine the addresses of what it creates or moves. What others call
meanwhile does not undo them: an accepted call removes no account of these kinds,
brings none back from the TEE, and leaves their data as they are (`Kept`; only tickets
and profiles are amended, `Amends`). What others may do is come first:
whoever delegates the queue before the script makes the script's own delegation, or
the permission before it, fail, and then the run ends `failed`.

**The ELO read** (`JoinReadsElo`). That the bytes of a number make it again, for every
width of the code and every number of values a byte has, is by arithmetic
(`OneMoreByte`, `BytesMakeNumber`); the theorem of the library for induction over
finite sets takes an operator, so the one induction needed is done on a set of
naturals with a least element (`SetInduction`). `JoinKeeps` carries it from the
profile in the chain to the newcomer's `elo` when the tenant's offset is where the
ELO begins.

**The form of calls** (`CallsWellFormed`). A program reads accounts by position, a client
names them. `Matched` says that a builder lists the accounts of a handler in its
order and asks for the privileges the handler checks; then each name has for the
handler the address it had for the client (`MatchedCall`). `Fills` says that of every
account the handler derives the builder's default is the same rule, and that its
seeds are known to both sides: texts, accounts that are given, arguments that are
encoded under the same name (`ArgsKept`). From both it follows that no address is
refused (`FilledRight`), and with signatures that the call has no problem (`Formed`).
`BuildersMatch`, `BuildersEncode` and `BuildersFill` go through the tables once.
Outside this pattern are delegations, whose account comes from a kind and seeds
encoded in an argument (`DelegationFormed`), the permissions, whose account must be
that of the queue or ticket, and `make_choice`, which derives the profiles from the
players stored in the session: that these are the players of the client is
`AddressesAgree` (`SessionHeld`), so here the form of a call depends on an invariant of
the chain. The converse, that each call in `Misformed` fails, is shown reason by reason:
`NotDeployed`, `OwnerGenerated`, `WebSessionMisformed`, and the permission of another
queue in `QueuePermissionFormed`.

**What is read back** (`CallsReadBack`). A builder is `Legible` when its accounts and
arguments each have a name of their own, which `Matched` and `SameArgs` give for all that
have a handler; what is parsed by position is then what was given by name
(`ReadCall`). An optional account that holds the address of the client's own program is
read as left out; that loses nothing because no client gives its program as the
validator (`ValidatorApart`).

### Only model-checked

* Liveness (`ResultsReachL1`, `RoomReturns`, `GamesEnd`, `ContinuePersists`): fairness
  is out of the prover's reach.

## 5. What is not modelled, and the plan

Not modelled:

* **The exchange of a challenge for a TEE token** (`sdk/src/tee.ts`): signatures and
  I/O. Only the wait for a delegation to arrive is in `PlayGame`.
* **Who may read what in the TEE**: the permission program, which is not in the
  repository, decides. That the permissions of queues and tickets are set up for the
  right account is in `DuelInterface` and `Launch`; the two permission set-ups of
  `rps-game` have no client and are only listed.
* `process_undelegation` and the plugins of the generated clients, which nothing
  calls, and the frontend's own generated copy, which nothing imports.
* Wallet adapters, the profile shown on the page, styling.
* Scripts other than `init-queue.ts`: they print, generate keys or edit files.

Observed in passing, and covered by no run:

* `init-queue.ts:47-57` reports "ready" as soon as the tenant exists, even if an
  earlier run was cut short before the queue. `InitializedMeansServed` is about runs
  that took every step; "ready" means a tenant and nothing more.
* Anybody may delegate the operator's queue, also before its permission is set up
  (`lib.rs:56-70`), although the permission must come before (105-106): the operator's
  run then fails, and the queue is in the TEE without a permission.
* `flush_matches` does not tie the queue to the tenant (`lib.rs:667-674`). `Duel` has
  one tenant, so what a flush could deliver under another tenant's ticket is not shown.
* `join_queue` reads the ELO from any account that is not system-owned as `player_data`.
  `EloAsStored` is about the calls the clients build.
* `persist_results` takes any two accounts of the TEE, so L1 may show a session without
  the profiles that count it; `L1NeverBack` says what is left.
* Entries, recent matches and outcomes owed share one account (`lib.rs:739-747`): a queue
  crowded with players outside the windows of one another has no room for a match
  until one leaves the queue, which only a match brings about. `RoomReturns` is about
  the room that outcomes take.
* `scripts/setup-frontend.sh:22` looks for "Queue already exists" in the
  output of `check-queue-status.ts`, which prints "Queue exists:".
* The web client does not wait for the permission of a ticket before it sends the
  delegation, so the delegation may be executed first and the permission never.

The plan from here:

1. A run with more pending matches than a transaction has room for
   (`admin.ts:219`).
2. `RpsGame` composed with `Duel`: the ELO of a queue entry against the ELO of the
   profile, which moves while the entry waits.
