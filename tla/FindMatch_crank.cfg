\* Three players about to join, transactions executed at once.
CONSTANTS
  a = a
  b = b
  c = c
  Nobody = Nobody
  Players = {a, b, c}
  Prompt = {a, b, c}
  Elos = {1}
  EloWindow = 0
  EntrySize = 1
  MatchSize = 2
  PendingSize = 2
  Capacity = 12
  MaxRecent = 2
  MaxMatches = 1
  MaxAccounts = 3
  MaxInflight = 2
  Callbacks = {TRUE}
  Address <- Alphabetical
  MaxSent = 1
  MaxSearches <- Once
SPECIFICATION FairJoining
CHECK_DEADLOCK FALSE
PROPERTY MatchReported
