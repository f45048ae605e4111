\* a may cancel while it waits; does the match of others still reach L1?
CONSTANTS
  a = a
  b = b
  c = c
  d = d
  o1 = o1
  o2 = o2
  Nobody = Nobody
  Players = {a, b, c, d}
  Operators = {o1}
  Unconfirmed = {}
  Retrying = {}
  Cancelling = {a}
  Elos = {1}
  EloWindow = 0
  EntrySize = 1
  MatchSize = 2
  PendingSize = 2
  Capacity = 12
  MaxRecent = 2
  MaxMatches = 2
  MaxAccounts = 3
  MaxInflight = 1
  Callbacks = {FALSE}
SPECIFICATION FairReadySession
\* Clients that found their match, failed or left do nothing more.
CHECK_DEADLOCK FALSE
PROPERTY ResultsReachL1
