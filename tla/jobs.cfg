SPECIFICATION JobsSpec
CONSTANTS
  ann = ann
  wes = wes
  wil = wil
  Agent = {ann, wes, wil}
  NoAgent = none
  GenesisTokens <- TwoEach
  MaxSupply = 9
  JobReward = 2
  DisputeWindow = 1
  ClaimTimeout = 1
  MaxJobs = 2
  MaxTime = 2
  Buyer = {}
  Worker = {}
  Payment = 1
  Bond = 1
  Patience = 2
  MaxCrashes = 0
  MaxTimeouts = 0
INVARIANTS
  ContractSound
  NoRaceAtTheWindow
PROPERTIES
  JobsAreDeposits
CHECK_DEADLOCK FALSE
