SPECIFICATION Spec
CONSTANTS
  payer = payer  payee = payee  ver1 = ver1  ver2 = ver2
  jur1 = jur1  jur2 = jur2  jur3 = jur3
  d1 = d1  d2 = d2  k1 = k1  k2 = k2
  NoAddr = NoAddr  NoHash = NoHash  BadHash = BadHash
  Addr = {payer, payee, jur1, jur2}
  Amount = {2}
  TransferTerms <- None
  MinNewAccountCredit = 2
  GenesisAccount <- NewPayee
  GenesisBalance <- Holdings
  BondTerms <- ForgedBond
  MaxBonds = 4
  Digest = {d1, d2}
  Key = {k1, k2}
  EmptyKey = k2
  Sha256 <- KeyDigest
  LockTerms <- JuryLock
  SubmitTerms <- PlainCommits
  AttestTerms <- None
  ChallengeWindow = 1
  Word = 16
  StartTime = 1
  MaxTime = 1
  MaxEscrows = 1
  MinDisputeBond = 2
  MinJurorStake = 2
  AnchorSets <- ChangingJury
  NodeAnchors = {jur2}
  GenesisAnchors <- OneJuror
  MaxDisputes = 1
INVARIANTS
  VerdictSettlesStakes
PROPERTIES
  BondAuthority
CHECK_DEADLOCK FALSE
