SPECIFICATION Spec
CONSTANTS
  payer = payer  payee = payee  ver1 = ver1  ver2 = ver2
  jur1 = jur1  jur2 = jur2  jur3 = jur3
  d1 = d1  d2 = d2  k1 = k1  k2 = k2
  NoAddr = NoAddr  NoHash = NoHash  BadHash = BadHash
  Addr = {payer, payee, ver1, jur1}
  Amount = {0, 1, 2}
  TransferTerms <- None
  MinNewAccountCredit = 2
  GenesisAccount <- AllRegistered
  GenesisBalance <- RichHoldings
  BondTerms <- None
  MaxBonds = 6
  Digest = {d1, d2}
  Key = {k1, k2}
  EmptyKey = k2
  Sha256 <- KeyDigest
  LockTerms <- OneVerifier
  SubmitTerms <- OneCommit
  AttestTerms <- FullVerdict
  ChallengeWindow = 2
  Word = 16
  StartTime = 1
  MaxTime = 3
  MaxEscrows = 1
  MinDisputeBond = 2
  MinJurorStake = 2
  AnchorSets <- None
  NodeAnchors = {}
  GenesisAnchors <- OneJuror
  MaxDisputes = 2
INVARIANTS
  OtherReleasesFinal
CHECK_DEADLOCK FALSE
