SPECIFICATION ChainSpec
CONSTANTS
  payer = payer  payee = payee  ver1 = ver1  ver2 = ver2
  jur1 = jur1  jur2 = jur2  jur3 = jur3
  d1 = d1  d2 = d2  k1 = k1  k2 = k2
  NoAddr = NoAddr  NoHash = NoHash  BadHash = BadHash
  Addr = {payer, payee, ver1, jur1}
  Amount = {2}
  TransferTerms <- None
  MinNewAccountCredit = 2
  GenesisAccount <- AllRegistered
  GenesisBalance <- StandingHoldings
  BondTerms <- None
  MaxBonds = 2
  Digest = {d1, d2}
  Key = {k1, k2}
  EmptyKey = k2
  Sha256 <- KeyDigest
  LockTerms <- JuryLock
  SubmitTerms <- PlainCommits
  AttestTerms <- None
  ChallengeWindow = 1
  Word = 16
  StartTime = 1
  MaxTime = 1
  MaxEscrows = 1
  MinDisputeBond = 2
  MinJurorStake = 2
  AnchorSets <- None
  NodeAnchors = {}
  GenesisAnchors <- OneJuror
  MaxDisputes = 1
  MaxSupply = 8
  EpochLength = 2
  RewardDivisor = 2
  GenesisEmission <- UnsetEmission
  Colon = ":"
  GateTerms <- None
  Answers <- GateAnswers
  Salts <- OneSalt
  Commits <- AnswerCommits
  CommitWindow = 1
  RevealWindow = 1
  MaxDrip = 2
  MaxGateAnswers = 3
  MaxGates = 1
  AwardTerms <- TrustAwards
  MaxAward = 2
  MaxAwards = 2
  VouchTerms <- TrustVouches
  EvidenceTerms <- FewEvidence
  MinVouchStake = 1
  MaxVouchWeight = 1
  MaxIterations = 4
  MaxVouches = 3
  MaxEvidence = 2
  MaxImports = 1
INVARIANTS
  NothingCountsTwice
  RingsHaveNoStanding
  ChainConservation
  ExportsValidate
CHECK_DEADLOCK FALSE
