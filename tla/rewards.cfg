SPECIFICATION FairChainSpec
CONSTANTS
  payer = payer  payee = payee  ver1 = ver1  ver2 = ver2
  jur1 = jur1  jur2 = jur2  jur3 = jur3
  d1 = d1  d2 = d2  k1 = k1  k2 = k2
  NoAddr = NoAddr  NoHash = NoHash  BadHash = BadHash
  Addr = {payer, payee, ver1, ver2, jur1}
  Amount = {0, 1, 2}
  TransferTerms <- None
  MinNewAccountCredit = 1
  GenesisAccount <- OneNew
  GenesisBalance <- Nobody
  BondTerms <- None
  MaxBonds = 0
  Digest = {d1, d2}
  Key = {k1, k2}
  EmptyKey = k2
  Sha256 <- KeyDigest
  LockTerms <- None
  SubmitTerms <- None
  AttestTerms <- None
  ChallengeWindow = 1
  Word = 16
  StartTime = 1
  MaxTime = 4
  MaxEscrows = 0
  MinDisputeBond = 2
  MinJurorStake = 2
  AnchorSets <- None
  NodeAnchors = {}
  GenesisAnchors <- OneJuror
  MaxDisputes = 0
  MaxSupply = 7
  EpochLength = 1
  RewardDivisor = 2
  GenesisEmission <- FreshEmission
  Colon = ":"
  GateTerms <- RewardGates
  Answers <- ThreeAnswers
  Salts <- OneSalt
  Commits <- ThreeCommits
  CommitWindow = 1
  RevealWindow = 1
  MaxDrip = 2
  MaxGateAnswers = 4
  MaxGates = 1
  AwardTerms <- RewardAwards
  MaxAward = 2
  MaxAwards = 1
  VouchTerms <- None
  EvidenceTerms <- None
  MinVouchStake = 1
  MaxVouchWeight = 1
  MaxIterations = 4
  MaxVouches = 2
  MaxEvidence = 2
  MaxImports = 0
INVARIANTS
  SupplyCap
  MintedForWork
  LivePlurality
PROPERTIES
  NothingToCopy
  GatesSettle
  FollowsPolicy
CHECK_DEADLOCK FALSE
