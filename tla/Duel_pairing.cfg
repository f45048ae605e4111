\* Who is paired with whom: three players, ELO 2 is in the window of both 1 and 4.
CONSTANTS
  a = a
  b = b
  c = c
  Nobody = Nobody
  Players = {a, b, c}
  Elos = {1, 2, 4}
  EloWindow = 2
  EntrySize = 1
  MatchSize = 2
  PendingSize = 2
  Capacity = 8
  MaxRecent = 1
  MaxMatches = 1
  MaxAccounts = 1
  MaxInflight = 0
  Callbacks = {FALSE, TRUE}
SPECIFICATION Spec
\* Tickets that are delegated and final are the end of the road for a player.
CHECK_DEADLOCK FALSE
SYMMETRY Symmetry
INVARIANT QueueSeparated
PROPERTY KeepsPromise
