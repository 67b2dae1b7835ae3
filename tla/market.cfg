SPECIFICATION Spec
CONSTANTS
  payer = payer  payee = payee  ver1 = ver1  ver2 = ver2
  jur1 = jur1  jur2 = jur2  jur3 = jur3
  d1 = d1  d2 = d2  k1 = k1  k2 = k2
  NoAddr = NoAddr  NoHash = NoHash  BadHash = BadHash
  Addr = {payer, payee, ver1, ver2, jur1, jur2}
  Amount = {0, 1, 2}
  TransferTerms <- SomeTransfers
  MinNewAccountCredit = 2
  GenesisAccount <- OneNewcomer
  GenesisBalance <- RichHoldings
  BondTerms <- None
  MaxBonds = 6
  Digest = {d1, d2}
  Key = {k1, k2}
  EmptyKey = k2
  Sha256 <- KeyDigest
  LockTerms <- MarketLocks
  SubmitTerms <- MarketCommits
  AttestTerms <- AnyVerdict
  ChallengeWindow = 2
  Word = 16
  StartTime = 1
  MaxTime = 4
  MaxEscrows = 1
  MinDisputeBond = 2
  MinJurorStake = 2
  AnchorSets <- None
  NodeAnchors = {}
  GenesisAnchors <- OneJuror
  MaxDisputes = 2
INVARIANTS
  TypeOK
  JuryControl
  VerdictNeverAborts
  Conservation
  UnregisteredHoldNothing
  VerdictSettlesStakes
  PaidWithAuthority
  RefundJustified
  CollateralThroughWindow
PROPERTIES
  BuyerMadeWhole
  EscrowsAreDeposits
CHECK_DEADLOCK FALSE
