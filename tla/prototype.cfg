SPECIFICATION ProtoSpec
CONSTANTS
  ada = ada
  bob = bob
  cyd = cyd
  AgentId = {ada, bob, cyd}
  TxTerms <- Traffic
  FaucetAmount = 3
  MaxWeight = 2
  StartChain <- FundedAda
  MaxRequests = 4
  MaxCrashes = 1
INVARIANTS
  EveryBlockValid
  StateIsReplay
  AnsweredStays
  AppliedOnce
CHECK_DEADLOCK FALSE
