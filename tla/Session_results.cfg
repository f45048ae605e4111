\* Two operators resolve the matches of four players of two ELO values.
CONSTANTS
  a = a
  b = b
  c = c
  d = d
  o1 = o1
  o2 = o2
  Nobody = Nobody
  Players = {a, b, c, d}
  Operators = {o1, o2}
  Unconfirmed = {}
  Retrying = {}
  Cancelling = {}
  Elos = {1, 4}
  EloWindow = 0
  EntrySize = 1
  MatchSize = 2
  PendingSize = 2
  Capacity = 5
  MaxRecent = 1
  MaxMatches = 2
  MaxAccounts = 3
  MaxInflight = 1
  Callbacks = {FALSE}
SPECIFICATION FairReadySession
\* Clients that found their match, failed or left do nothing more.
CHECK_DEADLOCK FALSE
PROPERTIES ResultsReachL1 RoomReturns
