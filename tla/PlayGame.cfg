\* One match of two players; b may fail and open the board again.
CONSTANTS
  a = a
  b = b
  Players = {a, b}
  Games <- OneGame
  Tickets <- OneTicket
  Closing = {}
  StartElo = 10
  EloStep = 10
  MaxInflight = 2
  Passed <- TheProfiles
  Encodes = {TRUE, FALSE}
  Elsewhere = {a, b}
  MaxClicks <- FirstOfBTwice
  MaxOpens <- OnlyBAgain
  MaxSent = 2
SPECIFICATION FairPlay
\* Players need not open a board, nor click Continue.
CHECK_DEADLOCK FALSE
INVARIANTS PlayTypeOK VerdictsAgree ChoiceCounts
PROPERTIES BoardStays ContinuePersists
