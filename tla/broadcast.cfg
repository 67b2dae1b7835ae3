SPECIFICATION FairBroadcast
CONSTANTS
  cli = cli
  agent = agent
  Process = {cli, agent}
  CallsOf <- TwoAndOne
  MaxPolls = 2
  MaxRestarts = 1
INVARIANTS
  ReportsAreTrue
PROPERTIES
  RejectedOnlyInOverlap
  CallsEnd
CHECK_DEADLOCK FALSE
