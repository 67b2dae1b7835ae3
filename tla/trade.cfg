SPECIFICATION FairTrade
CONSTANTS
  ann = ann
  wes = wes
  wil = wil
  Agent = {ann, wes, wil}
  NoAgent = none
  GenesisTokens <- TwoEach
  MaxSupply = 8
  JobReward = 1
  DisputeWindow = 2
  ClaimTimeout = 2
  MaxJobs = 1
  MaxTime = 3
  Buyer = {ann}
  Worker = {wes, wil}
  Payment = 1
  Bond = 1
  Patience = 2
  MaxCrashes = 1
  MaxTimeouts = 1
INVARIANTS
  OnlyWinnersWork
PROPERTIES
  HeardJobsSubmitted
CHECK_DEADLOCK FALSE
