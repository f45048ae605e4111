\* How outcomes reach the tickets and L1: three players of one ELO, two matches, so the same player can be paired
\* twice, a recent list that is trimmed, and two commits on their way at once.
CONSTANTS
  a = a
  b = b
  c = c
  Nobody = Nobody
  Players = {a, b, c}
  Elos = {1}
  EloWindow = 2
  EntrySize = 1
  MatchSize = 2
  PendingSize = 2
  Capacity = 10
  MaxRecent = 1
  MaxMatches = 2
  MaxAccounts = 3
  MaxInflight = 2
  Callbacks = {FALSE}
SPECIFICATION Spec
\* Tickets that are delegated and final are the end of the road for a player.
CHECK_DEADLOCK FALSE
SYMMETRY Symmetry
INVARIANTS TicketsHonest PendingHonest TypeOK RecentMatches SettledAgrees
PROPERTIES PendingOnlyDelivered KeepsPromise OutcomeFinal L1NeverRetracts
