\* Two sessions of two players, one of whom may close its profile and open it again; both keep choosing.
CONSTANTS
  a = a
  b = b
  Players = {a, b}
  Games <- TwoGames
  Tickets <- BothTickets
  Closing = {a}
  StartElo = 10
  EloStep = 10
  MaxInflight = 2
  Passed <- BothOrFirst
SPECIFICATION FairSpec
CHECK_DEADLOCK FALSE
INVARIANTS TypeOK ProfilesAgree
PROPERTIES GamesFinal L1NeverBack GamesEnd
