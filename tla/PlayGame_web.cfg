\* The web client as it is: player1 starts a game and nothing goes wrong on the way.
CONSTANTS
  a = a
  b = b
  Players = {a, b}
  Games <- OneGame
  Tickets <- OneTicket
  Closing = {}
  StartElo = 10
  EloStep = 10
  MaxInflight = 2
  Passed <- TheProfiles
  Encodes = {FALSE}
  Elsewhere = {}
  MaxClicks <- EachOnce
  MaxOpens <- Once
  MaxSent = 2
SPECIFICATION PlaySpec
\* Players need not open a board, nor click Continue.
CHECK_DEADLOCK FALSE
INVARIANT ErrorsHaveCause
