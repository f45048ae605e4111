\* A second search after a match.
CONSTANTS
  a = a
  b = b
  c = c
  Nobody = Nobody
  Players = {a, b}
  Elos = {1}
  EloWindow = 0
  EntrySize = 1
  MatchSize = 2
  PendingSize = 2
  Capacity = 12
  MaxRecent = 2
  MaxMatches = 2
  MaxAccounts = 3
  MaxInflight = 1
  Callbacks = {TRUE}
  Address <- Alphabetical
  Prompt = {a, b}
  MaxSent = 1
  MaxSearches <- OnlyAAgain
SPECIFICATION FindSpec
CHECK_DEADLOCK FALSE
INVARIANT NoMatchReportedTwice
