SPECIFICATION TradeSpec
CONSTANTS
  ann = ann
  wes = wes
  wil = wil
  Agent = {ann, wes, wil}
  NoAgent = none
  GenesisTokens <- TwoEach
  MaxSupply = 8
  JobReward = 1
  DisputeWindow = 2
  ClaimTimeout = 2
  MaxJobs = 1
  MaxTime = 4
  Buyer = {ann}
  Worker = {wes}
  Payment = 1
  Bond = 1
  Patience = 2
  MaxCrashes = 1
  MaxTimeouts = 0
INVARIANTS
  NoClaimForgotten
CHECK_DEADLOCK FALSE
