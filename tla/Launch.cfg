\* Every order of the set-up script's steps, cuts included, and a player's calls.
CONSTANTS
  Deployments <- AllDeployments
  Options <- AllOptions
  ByteValues = 4
  InitialElo = 3
  Elos <- AllElos
  Queues <- AllQueues
  Window = 2
SPECIFICATION LaunchSpec
INVARIANTS LaunchTypeOK WellFormed ReadBack InitializedMeansServed EloAsStored AddressesAgree BestSoFar ScanCorrect
