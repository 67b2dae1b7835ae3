---------------------------- MODULE MarketProofs ----------------------------
(***************************************************************************)
(* Type correctness and conservation of coins in the escrow market, for    *)
(* every set of addresses, every genesis ledger and every bound, and that  *)
(* a decided case never aborts.  The inductive invariant says, besides the *)
(* types, that every address named in a bond, escrow or dispute is         *)
(* registered: only then is a credit without the registering creditAccount *)
(* harmless, and only then do unregistered records hold nothing, which     *)
(* Register relies on.                                                     *)
(***************************************************************************)
EXTENDS Market, CoinsProofs, TLAPS

-----------------------------------------------------------------------------
(* Type correctness, with one lemma per group of messages.                 *)

(* A stored entry of the right type keeps a map well typed, and the ids    *)
(* stay an initial segment of the naturals.                                *)
LEMMA PutNext ==
  ASSUME NEW n \in Nat, NEW T, NEW f \in [0..(n - 1) -> T], NEW v \in T
  PROVE  /\ Put(f, n, v) \in [0..((n + 1) - 1) -> T]
         /\ Put(f, n, v)[n] = v
         /\ \A i \in 0..(n - 1) : Put(f, n, v)[i] = f[i] /\ i # n
<1>1. DOMAIN f \cup {n} = 0..((n + 1) - 1)
  OBVIOUS
<1> QED
  BY <1>1 DEF Put

LEMMA Int64Type ==
  ASSUME NEW x \in Int
  PROVE  Int64(x) \in Int
<1>1. Word \in Int /\ Word > 0
  BY EscrowAssumption
<1>2. Word \div 2 \in Int
  BY <1>1
<1> DEFINE y == x + Word \div 2
<1>3. y \in Int
  BY <1>2
<1> HIDE DEF y
<1>4. y % Word \in Int
  BY <1>1, <1>3
<1> QED
  BY <1>2, <1>4 DEF Int64, y

(* The messages that only move coins between accounts.                     *)
LEMMA LedgerTypes ==
  ASSUME LedgerTypeOK, LedgerNext
  PROVE  LedgerTypeOK'
<1>1. ASSUME NEW a \in Addr, Register(a) PROVE LedgerTypeOK'
  BY <1>1 DEF Register, LedgerTypeOK, AccountState
<1>2. ASSUME NEW t \in TransferTerms, Transfer(t.from, t.to, t.amount) PROVE LedgerTypeOK'
  <2>1. t.from \in Addr /\ t.to \in Addr /\ t.amount \in Nat
    BY AmountAssumption
  <2> QED
    BY <1>2, <2>1 DEF Transfer, CreditAccount, Credited, Debited, CanPay, LedgerTypeOK,
                      AccountState
<1> QED
  BY <1>1, <1>2 DEF LedgerNext

(* A stake is a well-typed bond, and the balance it leaves is natural.     *)
LEMMA LockStakeTypes ==
  ASSUME LedgerTypeOK, BondsTypeOK,
         NEW p \in Addr, NEW n \in Nat, NEW u \in Purpose, NEW s \in Addr \cup {NoAddr},
         LockStake(p, n, u, s)
  PROVE  LedgerTypeOK' /\ BondsTypeOK'
<1> DEFINE b == [poster |-> p, amount |-> n, purpose |-> u, slasher |-> s,
                 status |-> "active"]
<1>1. b \in BondRecord
  BY DEF BondRecord
<1>2. bond' = Put(bond, bondSeq, b) /\ bondSeq' = bondSeq + 1
  BY DEF LockStake
<1>3. BondsTypeOK'
  <2> HIDE DEF b
  <2>1. bondSeq \in Nat /\ bond \in [0..(bondSeq - 1) -> BondRecord] /\ burned \in Nat
    BY DEF BondsTypeOK
  <2>2. Put(bond, bondSeq, b) \in [0..((bondSeq + 1) - 1) -> BondRecord]
    BY <1>1, <2>1, PutNext
  <2>3. bondSeq + 1 \in Nat /\ burned' = burned
    BY <2>1 DEF LockStake
  <2> QED
    BY <1>2, <2>1, <2>2, <2>3 DEF BondsTypeOK
<1>4. LedgerTypeOK'
  BY DEF LockStake, LedgerTypeOK, CanPay, Debited
<1> QED
  BY <1>3, <1>4

(* A bond that is resolved stays well typed.                               *)
LEMMA ResolvedBondTypes ==
  ASSUME BondsTypeOK, NEW id \in DOMAIN bond, NEW s \in {"released", "slashed"}
  PROVE  [bond EXCEPT ![id].status = s] \in [0..(bondSeq - 1) -> BondRecord]
<1>1. bond \in [0..(bondSeq - 1) -> BondRecord] /\ id \in 0..(bondSeq - 1)
  BY DEF BondsTypeOK
<1>2. [bond[id] EXCEPT !.status = s] \in BondRecord
  <2>1. bond[id] \in BondRecord
    BY <1>1
  <2> QED BY <2>1 DEF BondRecord
<1> QED
  BY <1>1, <1>2

LEMMA BondsTypes ==
  ASSUME LedgerTypeOK, BondsTypeOK, BondsNext
  PROVE  LedgerTypeOK' /\ BondsTypeOK'
<1>1. ASSUME NEW a \in Addr, NEW t \in BondTerms, PostBond(a, t)
      PROVE  LedgerTypeOK' /\ BondsTypeOK'
  <2>1. t.amount \in Nat /\ t.purpose \in Purpose /\ t.slasher \in Addr
    BY BondAssumption, AmountAssumption
  <2> QED
    BY <1>1, <2>1, LockStakeTypes DEF PostBond
<1>2. ASSUME NEW a \in Addr, NEW id \in DOMAIN bond, ReleaseBond(a, id)
      PROVE  LedgerTypeOK' /\ BondsTypeOK'
  <2>1. bond[id].poster \in Addr /\ bond[id].amount \in Nat
    BY DEF BondsTypeOK, BondRecord
  <2>2. LedgerTypeOK'
    BY <1>2, <2>1 DEF ReleaseBond, Credited, LedgerTypeOK
  <2>3. bond' \in [0..(bondSeq - 1) -> BondRecord] /\ UNCHANGED <<bondSeq, burned>>
    BY <1>2, ResolvedBondTypes DEF ReleaseBond
  <2> QED BY <2>2, <2>3 DEF BondsTypeOK
<1>3. ASSUME NEW a \in Addr, NEW id \in DOMAIN bond, NEW b \in Addr \cup {NoAddr},
             SlashBond(a, id, b)
      PROVE  LedgerTypeOK' /\ BondsTypeOK'
  <2>1. bond[id].amount \in Nat
    BY DEF BondsTypeOK, BondRecord
  <2>2. LedgerTypeOK' /\ burned' \in Nat
    <3>1. CASE /\ b \in Addr
               /\ CreditAccount(balance, b, bond[id].amount)
               /\ UNCHANGED burned
      BY <2>1, <3>1 DEF CreditAccount, Credited, LedgerTypeOK, BondsTypeOK, AccountState
    <3>2. CASE burned' = burned + bond[id].amount /\ UNCHANGED ledgerVars
      BY <2>1, <3>2 DEF LedgerTypeOK, BondsTypeOK, ledgerVars
    <3> QED BY <1>3, <3>1, <3>2 DEF SlashBond
  <2>3. bond' \in [0..(bondSeq - 1) -> BondRecord] /\ UNCHANGED bondSeq
    BY <1>3, ResolvedBondTypes DEF SlashBond
  <2> QED BY <2>2, <2>3 DEF BondsTypeOK
<1> QED
  BY <1>1, <1>2, <1>3 DEF BondsNext

(* The settlement of a batch of stakes pays natural amounts.               *)
LEMMA PayoutType ==
  ASSUME BondsTypeOK, NEW claims
  PROVE  Payout(claims) \in [Addr -> Nat]
<1>1. ASSUME NEW a \in Addr
      PROVE  Total([id \in {b \in SettledBonds(claims) : PaidTo(claims, b) = a} |->
                      bond[id].amount]) \in Nat
  <2> DEFINE S == {b \in SettledBonds(claims) : PaidTo(claims, b) = a}
  <2>1. S \in SUBSET (0..(bondSeq - 1))
    BY DEF SettledBonds, Settling, ActiveBond, BondsTypeOK
  <2>2. IsFiniteSet(0..(bondSeq - 1))
    BY FS_Interval DEF BondsTypeOK
  <2>3. IsFiniteSet(S)
    <3> HIDE DEF S
    <3> QED BY <2>1, <2>2, FS_Subset
  <2>4. \A id \in S : bond[id].amount \in Nat
    BY <2>1 DEF BondsTypeOK, BondRecord
  <2> HIDE DEF S
  <2>5. [id \in S |-> bond[id].amount] \in [S -> Nat]
    BY <2>4
  <2>6. Total([id \in S |-> bond[id].amount]) \in Nat
    BY <2>3, <2>5, CoinsFinite
  <2> QED BY <2>6 DEF S
<1> QED
  BY <1>1 DEF Payout

LEMMA SettleTypes ==
  ASSUME BondsTypeOK, NEW bal \in [Addr -> Nat], NEW acc \in [Addr -> AccountState],
         NEW claims, SettleClaims(bal, acc, claims)
  PROVE  LedgerTypeOK' /\ BondsTypeOK'
<1>1. Payout(claims) \in [Addr -> Nat]
  BY PayoutType
<1>2. LedgerTypeOK'
  BY <1>1 DEF SettleClaims, LedgerTypeOK
<1>3. ASSUME NEW id \in DOMAIN bond
      PROVE  [bond[id] EXCEPT !.status = SettledStatus(ClaimOn(claims, id))] \in BondRecord
  <2>1. bond[id] \in BondRecord
    BY DEF BondsTypeOK
  <2>2. SettledStatus(ClaimOn(claims, id)) \in {"released", "slashed"}
    BY DEF SettledStatus
  <2> QED BY <2>1, <2>2 DEF BondRecord
<1>4. DOMAIN bond = 0..(bondSeq - 1) /\ \A id \in DOMAIN bond : bond[id] \in BondRecord
  BY DEF BondsTypeOK
<1>5. bond' \in [0..(bondSeq - 1) -> BondRecord] /\ UNCHANGED <<bondSeq, burned>>
  BY <1>3, <1>4 DEF SettleClaims
<1> QED
  BY <1>2, <1>5 DEF BondsTypeOK

-----------------------------------------------------------------------------
(* An escrow record that is replaced by a well-typed one.                  *)
LEMMA EscrowUpdate ==
  ASSUME EscrowsTypeOK, NEW id \in DOMAIN escrow, NEW e \in EscrowRecord
  PROVE  [escrow EXCEPT ![id] = e] \in [0..(escrowSeq - 1) -> EscrowRecord]
BY DEF EscrowsTypeOK

LEMMA EscrowStatusUpdate ==
  ASSUME EscrowsTypeOK, NEW id \in DOMAIN escrow, NEW s \in EscrowStatus
  PROVE  [escrow EXCEPT ![id].status = s] \in [0..(escrowSeq - 1) -> EscrowRecord]
<1>1. escrow[id] \in EscrowRecord
  BY DEF EscrowsTypeOK
<1>2. [escrow[id] EXCEPT !.status = s] \in EscrowRecord
  BY <1>1 DEF EscrowRecord
<1> QED
  BY <1>2, EscrowUpdate

(* A credit of a natural amount.                                           *)
LEMMA CreditTypes ==
  ASSUME LedgerTypeOK, NEW to \in Addr, NEW n \in Nat, CreditAccount(balance, to, n)
  PROVE  LedgerTypeOK'
BY DEF CreditAccount, Credited, LedgerTypeOK, AccountState

LEMMA LockTypes ==
  ASSUME TypeOK, NEW p \in Addr, NEW t \in LockTerms, LockEscrow(p, t)
  PROVE  LedgerTypeOK' /\ BondsTypeOK' /\ EscrowsTypeOK'
<1>1. /\ t.payee \in Addr /\ t.amount \in Nat /\ t.seconds \in Int
      /\ t.noAutoRelease \in BOOLEAN /\ t.verifiers \in Seq(Addr) /\ t.quorum \in Nat
      /\ t.acceptanceHash \in HashField
  <2>1. t \in [payee : Addr, amount : Amount, seconds : 0..(Word - 1),
               noAutoRelease : BOOLEAN, verifiers : Seq(Addr), quorum : Nat,
               acceptanceHash : HashField]
    BY EscrowAssumption
  <2>2. t.amount \in Nat
    BY <2>1, AmountAssumption
  <2> QED BY <2>1, <2>2
<1>2. Members(t.verifiers) \subseteq Addr
  BY <1>1 DEF Members
<1>3. now \in Int
  BY DEF TypeOK, EscrowsTypeOK
<1>4. Int64(now + Int64(t.seconds)) \in Int
  <2>1. Int64(t.seconds) \in Int
    BY <1>1, Int64Type
  <2> QED BY <1>3, <2>1, Int64Type
<1>5. NoHash \in HashField
  BY DEF HashField
<1>6. LockedEscrow(p, t) \in EscrowRecord
  BY <1>1, <1>2, <1>4, <1>5 DEF LockedEscrow, EscrowRecord, EscrowStatus, Pins
<1>7. EscrowsTypeOK'
  <2>1. escrowSeq \in Nat /\ escrow \in [0..(escrowSeq - 1) -> EscrowRecord]
    BY DEF TypeOK, EscrowsTypeOK
  <2>2. Put(escrow, escrowSeq, LockedEscrow(p, t)) \in
          [0..((escrowSeq + 1) - 1) -> EscrowRecord]
    BY <1>6, <2>1, PutNext
  <2> QED
    BY <2>1, <2>2 DEF LockEscrow, TypeOK, EscrowsTypeOK
<1>8. LedgerTypeOK'
  BY <1>1 DEF LockEscrow, TypeOK, LedgerTypeOK, EnsureRegistered, CanPay, Debited, AccountState
<1>9. BondsTypeOK'
  BY DEF LockEscrow, TypeOK, BondsTypeOK, bondVars
<1> QED
  BY <1>7, <1>8, <1>9

(* What a well-typed escrow record holds.                                  *)
LEMMA EscrowFields ==
  ASSUME TypeOK, NEW id \in DOMAIN escrow
  PROVE  /\ escrow[id] \in EscrowRecord
         /\ escrow[id].payer \in Addr /\ escrow[id].payee \in Addr
         /\ escrow[id].amount \in Nat /\ id \in Nat
         /\ escrow[id].attestations \subseteq AttestationRecord
         /\ escrow[id].pins \in Pins
<1>1. escrow[id] \in EscrowRecord /\ id \in Nat
  BY DEF TypeOK, EscrowsTypeOK
<1> QED
  BY <1>1 DEF EscrowRecord

LEMMA SubmitTypes ==
  ASSUME TypeOK, NEW c, NEW id \in DOMAIN escrow, NEW t \in SubmitTerms,
         SubmitEscrow(c, id, t)
  PROVE  LedgerTypeOK' /\ BondsTypeOK' /\ EscrowsTypeOK'
<1>1. t.deliveryHash \in HashField /\ t.keyHash \in HashField
  BY EscrowAssumption
<1>2. now \in Nat
  BY DEF TypeOK, EscrowsTypeOK
<1>3. escrow[id] \in EscrowRecord
  BY EscrowFields
<1> DEFINE e == [escrow[id] EXCEPT !.status = "submitted",
                                   !.pins.deliveryHash = t.deliveryHash,
                                   !.pins.keyHash = t.keyHash,
                                   !.submittedAt = now]
<1>4. e \in EscrowRecord
  BY <1>1, <1>2, <1>3 DEF EscrowRecord, EscrowStatus, Pins
<1>5. escrow' = [escrow EXCEPT ![id] = e]
  BY DEF SubmitEscrow
<1>6. escrow' \in [0..(escrowSeq - 1) -> EscrowRecord]
  <2> HIDE DEF e
  <2> QED BY <1>4, <1>5, EscrowUpdate DEF TypeOK
<1> QED
  BY <1>6 DEF SubmitEscrow, TypeOK, LedgerTypeOK, BondsTypeOK, EscrowsTypeOK, ledgerVars,
              bondVars

LEMMA ReleaseTypes ==
  ASSUME TypeOK, NEW c, NEW id \in DOMAIN escrow,
         ReleaseEscrow(c, id) \/ RefundEscrow(c, id) \/ DisputeEscrow(c, id)
  PROVE  LedgerTypeOK' /\ BondsTypeOK' /\ EscrowsTypeOK'
<1>1. escrow' \in [0..(escrowSeq - 1) -> EscrowRecord]
  <2>1. \A s \in EscrowStatus :
          [escrow EXCEPT ![id].status = s] \in [0..(escrowSeq - 1) -> EscrowRecord]
    BY EscrowStatusUpdate DEF TypeOK
  <2>2. {"released", "refunded", "disputed"} \subseteq EscrowStatus
    BY DEF EscrowStatus
  <2> QED BY <2>1, <2>2 DEF ReleaseEscrow, RefundEscrow, DisputeEscrow
<1>2. EscrowsTypeOK'
  <2>1. conceded' \subseteq Nat
    BY EscrowFields DEF ReleaseEscrow, RefundEscrow, DisputeEscrow, TypeOK, EscrowsTypeOK
  <2> QED
    BY <1>1, <2>1 DEF ReleaseEscrow, RefundEscrow, DisputeEscrow, TypeOK, EscrowsTypeOK
<1>3. LedgerTypeOK'
  <2>1. CASE ReleaseEscrow(c, id)
    BY <2>1, EscrowFields, CreditTypes DEF ReleaseEscrow, TypeOK
  <2>2. CASE RefundEscrow(c, id)
    BY <2>2, EscrowFields, CreditTypes DEF RefundEscrow, TypeOK
  <2>3. CASE DisputeEscrow(c, id)
    BY <2>3 DEF DisputeEscrow, TypeOK, LedgerTypeOK, ledgerVars
  <2> QED BY <2>1, <2>2, <2>3
<1>4. BondsTypeOK'
  BY DEF ReleaseEscrow, RefundEscrow, DisputeEscrow, TypeOK, BondsTypeOK, bondVars
<1> QED
  BY <1>2, <1>3, <1>4

LEMMA AttestTypes ==
  ASSUME TypeOK, NEW c \in Addr, NEW id \in DOMAIN escrow, NEW t \in AttestTerms,
         AttestEscrow(c, id, t)
  PROVE  LedgerTypeOK' /\ BondsTypeOK' /\ EscrowsTypeOK'
<1>1. t.passed \in BOOLEAN /\ t.stake \in Nat
  BY EscrowAssumption, AmountAssumption
<1>2. LedgerTypeOK' /\ BondsTypeOK'
  <2>1. AttestationPurpose(id) \in Purpose
    BY EscrowFields DEF AttestationPurpose, Purpose
  <2>2. LockStake(c, t.stake, AttestationPurpose(id), NoAddr)
    BY DEF AttestEscrow
  <2> QED BY <1>1, <2>1, <2>2, LockStakeTypes DEF TypeOK
<1> DEFINE a == [verifier |-> c, passed |-> t.passed, bondId |-> bondSeq,
                 pins |-> escrow[id].pins, attestedAt |-> now]
<1>3. a \in AttestationRecord
  BY <1>1, EscrowFields DEF AttestationRecord, TypeOK, BondsTypeOK, EscrowsTypeOK
<1>4. AttestedEscrow(escrow[id], a) \in EscrowRecord
  <2>1. now + ChallengeWindow \in Nat
    BY EscrowAssumption DEF TypeOK, EscrowsTypeOK
  <2>2. escrow[id] \in EscrowRecord
    BY EscrowFields
  <2> HIDE DEF a
  <2> QED BY <1>3, <2>1, <2>2 DEF AttestedEscrow, EscrowRecord, EscrowStatus
<1>5. escrow' = [escrow EXCEPT ![id] = AttestedEscrow(escrow[id], a)]
  BY DEF AttestEscrow
<1>6. escrow' \in [0..(escrowSeq - 1) -> EscrowRecord]
  BY <1>4, <1>5, EscrowUpdate DEF TypeOK
<1> QED
  BY <1>2, <1>6 DEF AttestEscrow, TypeOK, EscrowsTypeOK

LEMMA VerifiedReleaseTypes ==
  ASSUME TypeOK, NEW id \in DOMAIN escrow, NEW key \in Key, VerifiedRelease(id, key)
  PROVE  LedgerTypeOK' /\ BondsTypeOK' /\ EscrowsTypeOK'
<1>1. LedgerTypeOK'
  BY EscrowFields, CreditTypes DEF VerifiedRelease, TypeOK
<1>2. escrow' \in [0..(escrowSeq - 1) -> EscrowRecord]
  <2> DEFINE e == [escrow[id] EXCEPT !.status = "released",
                                     !.challengeDeadline = now + ChallengeWindow]
  <2>1. now + ChallengeWindow \in Nat
    BY EscrowAssumption DEF TypeOK, EscrowsTypeOK
  <2>2. escrow[id] \in EscrowRecord
    BY EscrowFields
  <2>3. e \in EscrowRecord
    BY <2>1, <2>2 DEF EscrowRecord, EscrowStatus
  <2>4. escrow' = [escrow EXCEPT ![id] = e]
    BY DEF VerifiedRelease
  <2> HIDE DEF e
  <2> QED BY <2>3, <2>4, EscrowUpdate DEF TypeOK
<1>3. revealed' \subseteq Nat
  BY EscrowFields DEF VerifiedRelease, TypeOK, EscrowsTypeOK
<1> QED
  BY <1>1, <1>2, <1>3 DEF VerifiedRelease, TypeOK, BondsTypeOK, EscrowsTypeOK, bondVars

LEMMA ReclaimTypes ==
  ASSUME TypeOK, NEW id \in DOMAIN escrow, ReclaimAttestationBonds(id)
  PROVE  LedgerTypeOK' /\ BondsTypeOK' /\ EscrowsTypeOK'
<1>1. SettleClaims(balance, account, ReclaimClaims(id)) /\ UNCHANGED escrowVars
  BY DEF ReclaimAttestationBonds
<1>2. balance \in [Addr -> Nat] /\ account \in [Addr -> AccountState]
  BY DEF TypeOK, LedgerTypeOK
<1>3. LedgerTypeOK' /\ BondsTypeOK'
  BY <1>1, <1>2, SettleTypes DEF TypeOK
<1> QED
  BY <1>1, <1>3 DEF TypeOK, EscrowsTypeOK, escrowVars

LEMMA EscrowsTypes ==
  ASSUME TypeOK, EscrowsNext, UNCHANGED juryVars
  PROVE  TypeOK'
<1> USE DEF TypeOK
<1>1. JuryTypeOK'
  BY DEF JuryTypeOK, juryVars
<1>2. CASE \E a \in Addr, t \in LockTerms : LockEscrow(a, t)
  BY <1>1, <1>2, LockTypes
<1>3. ASSUME NEW id \in DOMAIN escrow,
             \/ \E a \in Addr, t \in SubmitTerms : SubmitEscrow(a, id, t)
             \/ \E a \in Addr : \/ ReleaseEscrow(a, id)
                                \/ RefundEscrow(a, id)
                                \/ DisputeEscrow(a, id)
             \/ \E a \in Addr, t \in AttestTerms : AttestEscrow(a, id, t)
             \/ \E key \in Key : VerifiedRelease(id, key)
             \/ ReclaimAttestationBonds(id)
      PROVE  TypeOK'
  BY <1>1, <1>3, SubmitTypes, ReleaseTypes, AttestTypes, VerifiedReleaseTypes, ReclaimTypes
<1>4. CASE Tick
  BY <1>1, <1>4 DEF Tick, LedgerTypeOK, BondsTypeOK, EscrowsTypeOK, ledgerVars, bondVars
<1> QED
  BY <1>2, <1>3, <1>4 DEF EscrowsNext

-----------------------------------------------------------------------------
(* What a well-typed dispute record holds.                                 *)
LEMMA DisputeFields ==
  ASSUME TypeOK, NEW d \in DOMAIN dispute
  PROVE  /\ dispute[d] \in DisputeRecord /\ d \in Nat
         /\ dispute[d].opener \in Addr /\ dispute[d].bondId \in Nat
         /\ dispute[d].votes \subseteq VoteRecord /\ dispute[d].escrowId \in Nat
<1>1. dispute[d] \in DisputeRecord /\ d \in Nat
  BY DEF TypeOK, JuryTypeOK
<1> QED
  BY <1>1 DEF DisputeRecord

LEMMA OpenDisputeTypes ==
  ASSUME TypeOK, NEW c \in Addr, NEW id \in DOMAIN escrow, NEW n \in Amount,
         OpenDispute(c, id, n)
  PROVE  TypeOK'
<1>1. n \in Nat
  BY AmountAssumption
<1>2. LedgerTypeOK' /\ BondsTypeOK'
  <2>1. DisputePurpose(disputeSeq) \in Purpose
    BY DEF DisputePurpose, Purpose, TypeOK, JuryTypeOK
  <2>2. LockStake(c, n, DisputePurpose(disputeSeq), NoAddr)
    BY DEF OpenDispute
  <2> QED BY <1>1, <2>1, <2>2, LockStakeTypes DEF TypeOK
<1>3. EscrowsTypeOK'
  <2>1. FrozenStatus(id) \in EscrowStatus
    BY DEF FrozenStatus, EscrowStatus
  <2>2. escrow' \in [0..(escrowSeq - 1) -> EscrowRecord]
    BY <2>1, EscrowStatusUpdate DEF OpenDispute, TypeOK
  <2> QED BY <2>2 DEF OpenDispute, TypeOK, EscrowsTypeOK
<1>4. JuryTypeOK'
  <2> DEFINE r == [escrowId |-> id, opener |-> c, status |-> "open",
                   resolution |-> "none", votes |-> {}, bondId |-> bondSeq]
  <2>1. r \in DisputeRecord
    BY EscrowFields DEF DisputeRecord, TypeOK, BondsTypeOK
  <2>2. dispute' = Put(dispute, disputeSeq, r) /\ disputeSeq' = disputeSeq + 1
    BY DEF OpenDispute
  <2> HIDE DEF r
  <2>3. disputeSeq \in Nat /\ dispute \in [0..(disputeSeq - 1) -> DisputeRecord]
    BY DEF TypeOK, JuryTypeOK
  <2>4. dispute' \in [0..((disputeSeq + 1) - 1) -> DisputeRecord]
    BY <2>1, <2>2, <2>3, PutNext
  <2>5. disputeSeq' \in Nat /\ anchors' \subseteq Addr
    BY <2>3 DEF OpenDispute, TypeOK, JuryTypeOK
  <2>6. dispute' \in [0..(disputeSeq' - 1) -> DisputeRecord]
    BY <2>2, <2>4
  <2> QED BY <2>5, <2>6 DEF JuryTypeOK
<1> QED
  BY <1>2, <1>3, <1>4 DEF TypeOK

LEMMA CastVoteTypes ==
  ASSUME TypeOK, NEW c \in Addr, NEW d \in DOMAIN dispute, NEW accept \in BOOLEAN,
         NEW n \in Amount, CastVote(c, d, accept, n)
  PROVE  TypeOK'
<1>1. n \in Nat
  BY AmountAssumption
<1>2. LedgerTypeOK' /\ BondsTypeOK'
  <2>1. JurorPurpose(d) \in Purpose
    BY DisputeFields DEF JurorPurpose, Purpose
  <2>2. LockStake(c, n, JurorPurpose(d), NoAddr)
    BY DEF CastVote
  <2> QED BY <1>1, <2>1, <2>2, LockStakeTypes DEF TypeOK
<1>3. EscrowsTypeOK'
  BY DEF CastVote, TypeOK, EscrowsTypeOK, escrowVars
<1>4. JuryTypeOK'
  <2> DEFINE v == [juror |-> c, accept |-> accept, bondId |-> bondSeq]
             r == [dispute[d] EXCEPT !.votes = @ \cup {v}]
  <2>1. v \in VoteRecord
    BY DEF VoteRecord, TypeOK, BondsTypeOK
  <2>2. r \in DisputeRecord
    <3> HIDE DEF v
    <3> QED BY <2>1, DisputeFields DEF DisputeRecord
  <2>3. dispute' = [dispute EXCEPT ![d] = r]
    BY DEF CastVote
  <2> HIDE DEF r
  <2> QED BY <2>2, <2>3 DEF CastVote, TypeOK, JuryTypeOK
<1> QED
  BY <1>2, <1>3, <1>4 DEF TypeOK

(* A verdict; that the escrow exists is JuryControl's to say, and a write  *)
(* to an escrow that does not exist would change nothing here.             *)
LEMMA ResolveTypes ==
  ASSUME TypeOK, NEW d \in DOMAIN dispute, dispute[d].escrowId \in DOMAIN escrow,
         ResolveDispute(d)
  PROVE  TypeOK'
<1>1. Case(d).payer \in Addr /\ Case(d).payee \in Addr /\ Case(d).amount \in Nat
  BY EscrowFields DEF Case
<1>2. Winner(d) \in Addr
  BY <1>1 DEF Winner
<1>3. EscrowToWinner(d) \in [Addr -> Nat] /\ RegisteredWinner(d) \in [Addr -> AccountState]
  BY <1>1, <1>2 DEF EscrowToWinner, RegisteredWinner, Credited, TypeOK, LedgerTypeOK,
                    AccountState
<1>4. LedgerTypeOK' /\ BondsTypeOK'
  BY <1>3, SettleTypes DEF ResolveDispute, TypeOK
<1>5. EscrowsTypeOK'
  <2>1. VerdictStatus(d) \in EscrowStatus
    BY DEF VerdictStatus, EscrowStatus
  <2>2. escrow' \in [0..(escrowSeq - 1) -> EscrowRecord]
    BY <2>1, EscrowStatusUpdate DEF ResolveDispute, TypeOK
  <2> QED BY <2>2 DEF ResolveDispute, TypeOK, EscrowsTypeOK
<1>6. JuryTypeOK'
  <2> DEFINE r == [dispute[d] EXCEPT !.status = "resolved",
                                     !.resolution = IF Accepted(d) THEN "accept" ELSE "reject"]
  <2>1. r \in DisputeRecord
    BY DisputeFields DEF DisputeRecord
  <2>2. dispute' = [dispute EXCEPT ![d] = r]
    BY DEF ResolveDispute
  <2> HIDE DEF r
  <2> QED BY <2>1, <2>2 DEF ResolveDispute, TypeOK, JuryTypeOK
<1> QED
  BY <1>4, <1>5, <1>6 DEF TypeOK

LEMMA JuryTypes ==
  ASSUME TypeOK, \A d \in DOMAIN dispute : dispute[d].escrowId \in DOMAIN escrow, JuryNext
  PROVE  TypeOK'
<1>1. CASE \E a \in Addr, id \in DOMAIN escrow, n \in Amount : OpenDispute(a, id, n)
  BY <1>1, OpenDisputeTypes
<1>2. CASE \E a \in Addr, d \in DOMAIN dispute, accept \in BOOLEAN, n \in Amount :
             CastVote(a, d, accept, n)
  BY <1>2, CastVoteTypes
<1>3. CASE \E d \in DOMAIN dispute : ResolveDispute(d)
  BY <1>3, ResolveTypes
<1>4. CASE \E new \in AnchorSets : UpdateParams(new)
  BY <1>4, JuryAssumption DEF UpdateParams, TypeOK, LedgerTypeOK, BondsTypeOK, EscrowsTypeOK,
     JuryTypeOK, ledgerVars, bondVars, escrowVars
<1> QED
  BY <1>1, <1>2, <1>3, <1>4 DEF JuryNext

LEMMA InitTypes == Init => TypeOK
<1> SUFFICES ASSUME Init PROVE TypeOK
  OBVIOUS
<1>1. LedgerTypeOK
  BY GenesisAssumption DEF Init, LedgerInit, LedgerTypeOK
<1>2. 0..(0 - 1) = {}
  OBVIOUS
<1>3. BondsTypeOK
  BY <1>2 DEF Init, BondsInit, BondsTypeOK
<1>4. EscrowsTypeOK
  BY <1>2, EscrowAssumption DEF Init, EscrowsInit, EscrowsTypeOK
<1>5. JuryTypeOK
  BY <1>2, JuryAssumption DEF Init, JuryInit, JuryTypeOK
<1> QED
  BY <1>1, <1>3, <1>4, <1>5 DEF TypeOK

-----------------------------------------------------------------------------
(* A dispute is about an escrow that exists; escrows are never deleted.    *)
DisputesRefer == \A d \in DOMAIN dispute : dispute[d].escrowId \in DOMAIN escrow

LEMMA DisputesReferStep ==
  ASSUME TypeOK, DisputesRefer, [Next]_vars, TypeOK'
  PROVE  DisputesRefer'
<1>1. DOMAIN escrow \subseteq DOMAIN escrow'
  <2>1. CASE \E a \in Addr, t \in LockTerms : LockEscrow(a, t)
    BY <2>1 DEF LockEscrow, Put
  <2>2. CASE escrow' = escrow
    BY <2>2
  <2>3. ASSUME NEW id \in DOMAIN escrow,
               \/ \E a \in Addr, t \in SubmitTerms : SubmitEscrow(a, id, t)
               \/ \E a \in Addr : \/ ReleaseEscrow(a, id)
                                  \/ RefundEscrow(a, id)
                                  \/ DisputeEscrow(a, id)
               \/ \E a \in Addr, t \in AttestTerms : AttestEscrow(a, id, t)
               \/ \E key \in Key : VerifiedRelease(id, key)
               \/ \E a \in Addr, n \in Amount : OpenDispute(a, id, n)
        PROVE  DOMAIN escrow \subseteq DOMAIN escrow'
    BY <2>3 DEF SubmitEscrow, ReleaseEscrow, RefundEscrow, DisputeEscrow, AttestEscrow,
       VerifiedRelease, OpenDispute
  <2>4. CASE \E d \in DOMAIN dispute : ResolveDispute(d)
    BY <2>4 DEF ResolveDispute
  <2> QED
    BY <2>1, <2>2, <2>3, <2>4 DEF Next, EscrowsNext, JuryNext, ReclaimAttestationBonds, Tick,
       CastVote, UpdateParams, escrowVars, vars
<1>2. ASSUME NEW d \in DOMAIN dispute'
      PROVE  \/ d \in DOMAIN dispute /\ dispute'[d].escrowId = dispute[d].escrowId
             \/ dispute'[d].escrowId \in DOMAIN escrow
  <2>1. DOMAIN dispute = 0..(disputeSeq - 1) /\ disputeSeq \in Nat
    BY DEF TypeOK, JuryTypeOK
  <2>2. CASE dispute' = dispute
    BY <2>2
  <2>3. ASSUME NEW a \in Addr, NEW id \in DOMAIN escrow, NEW n \in Amount,
               OpenDispute(a, id, n)
        PROVE  \/ d \in DOMAIN dispute /\ dispute'[d].escrowId = dispute[d].escrowId
               \/ dispute'[d].escrowId \in DOMAIN escrow
    BY <2>3 DEF OpenDispute, Put
  <2>4. ASSUME NEW a \in Addr, NEW e \in DOMAIN dispute, NEW accept \in BOOLEAN,
               NEW n \in Amount, CastVote(a, e, accept, n)
        PROVE  d \in DOMAIN dispute /\ dispute'[d].escrowId = dispute[d].escrowId
    BY <2>4, DisputeFields DEF CastVote, DisputeRecord
  <2>5. ASSUME NEW e \in DOMAIN dispute, ResolveDispute(e)
        PROVE  d \in DOMAIN dispute /\ dispute'[d].escrowId = dispute[d].escrowId
    BY <2>5, DisputeFields DEF ResolveDispute, DisputeRecord
  <2> QED
    BY <2>2, <2>3, <2>4, <2>5 DEF Next, JuryNext, UpdateParams, juryVars, vars
<1> QED
  BY <1>1, <1>2 DEF DisputesRefer

(* Every step of the market keeps every variable well typed.               *)
LEMMA TypeStep ==
  ASSUME TypeOK, DisputesRefer, [Next]_vars
  PROVE  TypeOK'
<1>1. CASE LedgerNext /\ UNCHANGED <<bondVars, escrowVars, juryVars>>
  BY <1>1, LedgerTypes DEF TypeOK, BondsTypeOK, EscrowsTypeOK, JuryTypeOK, bondVars,
     escrowVars, juryVars
<1>2. CASE BondsNext /\ UNCHANGED <<escrowVars, juryVars>>
  BY <1>2, BondsTypes DEF TypeOK, EscrowsTypeOK, JuryTypeOK, escrowVars, juryVars
<1>3. CASE EscrowsNext /\ UNCHANGED juryVars
  BY <1>3, EscrowsTypes
<1>4. CASE JuryNext
  BY <1>4, JuryTypes DEF DisputesRefer
<1>5. CASE UNCHANGED vars
  BY <1>5 DEF TypeOK, LedgerTypeOK, BondsTypeOK, EscrowsTypeOK, JuryTypeOK, vars,
     ledgerVars, bondVars, escrowVars, juryVars
<1> QED
  BY <1>1, <1>2, <1>3, <1>4, <1>5 DEF Next

(***************************************************************************)
(* Type correctness of the escrow market: accounts, balances, bonds,       *)
(* escrows and disputes keep their types whatever messages arrive; in      *)
(* particular no debit drives a balance below zero, and every dispute      *)
(* refers to an escrow that exists.                                        *)
(***************************************************************************)
THEOREM TypeCorrect == Spec => [](TypeOK /\ DisputesRefer)
<1>1. Init => TypeOK /\ DisputesRefer
  BY InitTypes DEF Init, JuryInit, DisputesRefer
<1>2. TypeOK /\ DisputesRefer /\ [Next]_vars => (TypeOK /\ DisputesRefer)'
  BY TypeStep, DisputesReferStep
<1> QED
  BY <1>1, <1>2, PTL DEF Spec

-----------------------------------------------------------------------------
(* Conservation, and who is registered.                                    *)

IsRegistered(a) == account[a] = "registered"

PartiesRegistered ==
  /\ \A b \in DOMAIN bond : IsRegistered(bond[b].poster)
  /\ \A id \in DOMAIN escrow :
       /\ IsRegistered(escrow[id].payer) /\ IsRegistered(escrow[id].payee)
       /\ \A a \in escrow[id].attestations : IsRegistered(a.verifier)
  /\ \A d \in DOMAIN dispute :
       /\ IsRegistered(dispute[d].opener)
       /\ \A v \in dispute[d].votes : IsRegistered(v.juror)

(* The inductive invariant.                                                *)
LedgerInv ==
  /\ TypeOK
  /\ DisputesRefer
  /\ PartiesRegistered
  /\ UnregisteredHoldNothing

-----------------------------------------------------------------------------
(* What a step does to accounts and to the records that name them.         *)

(* Registration is for ever.                                               *)
LEMMA RegisteredForEver ==
  ASSUME TypeOK, DisputesRefer, [Next]_vars, NEW a \in Addr, IsRegistered(a)
  PROVE  IsRegistered(a)'
<1> USE DEF IsRegistered
<1>1. account \in [Addr -> AccountState]
  BY DEF TypeOK, LedgerTypeOK
<1>2. ASSUME NEW x, account' = [account EXCEPT ![x] = "registered"]
      PROVE  IsRegistered(a)'
  BY <1>1, <1>2
<1>3. CASE LedgerNext
  BY <1>2, <1>3 DEF LedgerNext, Register, Transfer, CreditAccount
<1>4. CASE BondsNext
  BY <1>2, <1>4 DEF BondsNext, PostBond, LockStake, ReleaseBond, SlashBond, CreditAccount,
     ledgerVars
<1>5. CASE EscrowsNext
  <2>1. CASE \E c \in Addr, t \in LockTerms : LockEscrow(c, t)
    BY <1>2, <2>1 DEF LockEscrow, EnsureRegistered
  <2>2. ASSUME NEW id \in DOMAIN escrow,
               \/ \E c \in Addr, t \in SubmitTerms : SubmitEscrow(c, id, t)
               \/ \E c \in Addr : \/ ReleaseEscrow(c, id)
                                  \/ RefundEscrow(c, id)
                                  \/ DisputeEscrow(c, id)
               \/ \E c \in Addr, t \in AttestTerms : AttestEscrow(c, id, t)
               \/ \E key \in Key : VerifiedRelease(id, key)
        PROVE  IsRegistered(a)'
    BY <1>2, <2>2 DEF SubmitEscrow, ReleaseEscrow, RefundEscrow, DisputeEscrow,
       AttestEscrow, LockStake, VerifiedRelease, CreditAccount, ledgerVars
  <2>3. ASSUME NEW id \in DOMAIN escrow, ReclaimAttestationBonds(id)
        PROVE  IsRegistered(a)'
    BY <2>3 DEF ReclaimAttestationBonds, SettleClaims
  <2>4. CASE Tick
    BY <2>4 DEF Tick, ledgerVars
  <2> QED BY <1>5, <2>1, <2>2, <2>3, <2>4 DEF EscrowsNext
<1>6. CASE JuryNext
  <2>1. ASSUME NEW d \in DOMAIN dispute, ResolveDispute(d) PROVE IsRegistered(a)'
    BY <1>2, <2>1 DEF ResolveDispute, SettleClaims, RegisteredWinner
  <2> QED
    BY <1>6, <2>1 DEF JuryNext, OpenDispute, CastVote, LockStake, UpdateParams, ledgerVars
<1>7. CASE UNCHANGED vars
  BY <1>7 DEF vars, ledgerVars
<1> QED
  BY <1>3, <1>4, <1>5, <1>6, <1>7 DEF Next

(* A bond keeps its poster; a new bond is posted by a registered account.  *)
PosterKept ==
  \A b \in DOMAIN bond' : \/ b \in DOMAIN bond /\ bond'[b].poster = bond[b].poster
                          \/ IsRegistered(bond'[b].poster) /\ bond'[b].poster \in Addr

LEMMA LockStakeKeepsPosters ==
  ASSUME TypeOK, NEW p \in Addr, NEW n, NEW u, NEW s, LockStake(p, n, u, s)
  PROVE  PosterKept
BY DEF LockStake, Put, CanPay, PosterKept, IsRegistered

LEMMA SettleKeepsPosters ==
  ASSUME TypeOK, NEW bal, NEW acc, NEW claims, SettleClaims(bal, acc, claims)
  PROVE  PosterKept
<1>1. ASSUME NEW b \in DOMAIN bond PROVE bond[b] \in BondRecord
  BY DEF TypeOK, BondsTypeOK
<1> QED
  BY <1>1 DEF SettleClaims, PosterKept, BondRecord

LEMMA PostersKept ==
  ASSUME TypeOK, [Next]_vars
  PROVE  PosterKept
<1>1. CASE bond' = bond
  BY <1>1 DEF PosterKept
<1>2. CASE BondsNext
  <2>1. ASSUME NEW a \in Addr, NEW t \in BondTerms, PostBond(a, t) PROVE PosterKept
    BY <2>1, LockStakeKeepsPosters DEF PostBond
  <2>2. ASSUME NEW id \in DOMAIN bond, NEW s, bond' = [bond EXCEPT ![id].status = s]
        PROVE  PosterKept
    BY <2>2 DEF PosterKept, TypeOK, BondsTypeOK, BondRecord
  <2> QED
    BY <1>2, <2>1, <2>2 DEF BondsNext, ReleaseBond, SlashBond
<1>3. CASE EscrowsNext
  <2>1. ASSUME NEW id \in DOMAIN escrow, NEW a \in Addr, NEW t, AttestEscrow(a, id, t)
        PROVE  PosterKept
    BY <2>1, LockStakeKeepsPosters DEF AttestEscrow
  <2>2. ASSUME NEW id \in DOMAIN escrow, ReclaimAttestationBonds(id) PROVE PosterKept
    BY <2>2, SettleKeepsPosters DEF ReclaimAttestationBonds
  <2>3. CASE \E a \in Addr, t \in LockTerms : LockEscrow(a, t)
    BY <1>1, <2>3 DEF LockEscrow, bondVars
  <2> QED
    BY <1>1, <1>3, <2>1, <2>2, <2>3 DEF EscrowsNext, SubmitEscrow, ReleaseEscrow,
       RefundEscrow, DisputeEscrow, VerifiedRelease, Tick, bondVars
<1>4. CASE JuryNext
  <2>1. ASSUME NEW a \in Addr, NEW id, NEW n, OpenDispute(a, id, n) PROVE PosterKept
    BY <2>1, LockStakeKeepsPosters DEF OpenDispute
  <2>2. ASSUME NEW a \in Addr, NEW d, NEW v, NEW n, CastVote(a, d, v, n) PROVE PosterKept
    BY <2>2, LockStakeKeepsPosters DEF CastVote
  <2>3. ASSUME NEW d, ResolveDispute(d) PROVE PosterKept
    BY <2>3, SettleKeepsPosters DEF ResolveDispute
  <2> QED
    BY <1>1, <1>4, <2>1, <2>2, <2>3 DEF JuryNext, UpdateParams, bondVars
<1> QED
  BY <1>1, <1>2, <1>3, <1>4 DEF Next, bondVars, vars

(* An escrow keeps its parties, and its attesters were registered when     *)
(* they attested; the parties of a new escrow are registered.              *)
EscrowPartiesKept ==
  \A id \in DOMAIN escrow' :
    \/ /\ id \in DOMAIN escrow
       /\ escrow'[id].payer = escrow[id].payer /\ escrow'[id].payee = escrow[id].payee
       /\ \A a \in escrow'[id].attestations :
            a \in escrow[id].attestations \/ (a.verifier \in Addr /\ IsRegistered(a.verifier))
    \/ /\ escrow'[id].payer \in Addr /\ IsRegistered(escrow'[id].payer)
       /\ account'[escrow'[id].payee] = "registered"
       /\ escrow'[id].attestations = {}

LEMMA UpdateKeepsParties ==
  ASSUME TypeOK, NEW id \in DOMAIN escrow, NEW e,
         e.payer = escrow[id].payer, e.payee = escrow[id].payee,
         \A a \in e.attestations :
           a \in escrow[id].attestations \/ (a.verifier \in Addr /\ IsRegistered(a.verifier)),
         escrow' = [escrow EXCEPT ![id] = e]
  PROVE  EscrowPartiesKept
BY DEF EscrowPartiesKept

(* An update of the status only.                                           *)
LEMMA StatusKeepsParties ==
  ASSUME TypeOK, NEW id \in DOMAIN escrow, NEW s, escrow' = [escrow EXCEPT ![id].status = s]
  PROVE  EscrowPartiesKept
<1> DEFINE e == [escrow[id] EXCEPT !.status = s]
<1>1. e.payer = escrow[id].payer /\ e.payee = escrow[id].payee
      /\ e.attestations = escrow[id].attestations
  BY EscrowFields DEF EscrowRecord
<1>2. escrow' = [escrow EXCEPT ![id] = e]
  OBVIOUS
<1> HIDE DEF e
<1> QED BY <1>1, <1>2, UpdateKeepsParties

LEMMA EscrowsKept ==
  ASSUME TypeOK, DisputesRefer, [Next]_vars
  PROVE  EscrowPartiesKept
<1>1. CASE escrow' = escrow
  BY <1>1 DEF EscrowPartiesKept
<1>2. ASSUME NEW p \in Addr, NEW t \in LockTerms, LockEscrow(p, t) PROVE EscrowPartiesKept
  <2>1. t.payee \in Addr
    BY EscrowAssumption
  <2>2. account'[t.payee] = "registered" /\ IsRegistered(p)
    BY <1>2, <2>1 DEF LockEscrow, EnsureRegistered, CanPay, IsRegistered, TypeOK, LedgerTypeOK
  <2> DEFINE e == LockedEscrow(p, t)
  <2>3. e.payer = p /\ e.payee = t.payee /\ e.attestations = {}
    BY DEF LockedEscrow
  <2>4. escrow' = Put(escrow, escrowSeq, e)
    BY <1>2 DEF LockEscrow
  <2> HIDE DEF e
  <2> QED BY <2>2, <2>3, <2>4 DEF Put, EscrowPartiesKept
<1>3. ASSUME NEW c, NEW id \in DOMAIN escrow, NEW t, SubmitEscrow(c, id, t)
      PROVE  EscrowPartiesKept
  <2> DEFINE e == [escrow[id] EXCEPT !.status = "submitted",
                                     !.pins.deliveryHash = t.deliveryHash,
                                     !.pins.keyHash = t.keyHash,
                                     !.submittedAt = now]
  <2>1. e.payer = escrow[id].payer /\ e.payee = escrow[id].payee
        /\ e.attestations = escrow[id].attestations
    BY EscrowFields DEF EscrowRecord
  <2>2. escrow' = [escrow EXCEPT ![id] = e]
    BY <1>3 DEF SubmitEscrow
  <2> HIDE DEF e
  <2> QED BY <2>1, <2>2, UpdateKeepsParties
<1>4. ASSUME NEW c \in Addr, NEW id \in DOMAIN escrow, NEW t, AttestEscrow(c, id, t)
      PROVE  EscrowPartiesKept
  <2> DEFINE a == [verifier |-> c, passed |-> t.passed, bondId |-> bondSeq,
                   pins |-> escrow[id].pins, attestedAt |-> now]
             e == AttestedEscrow(escrow[id], a)
  <2>1. IsRegistered(c) /\ a.verifier = c
    BY <1>4 DEF AttestEscrow, LockStake, CanPay, IsRegistered
  <2>2. e.payer = escrow[id].payer /\ e.payee = escrow[id].payee
        /\ e.attestations = escrow[id].attestations \cup {a}
    <3> HIDE DEF a
    <3> QED BY EscrowFields DEF EscrowRecord, AttestedEscrow
  <2>3. escrow' = [escrow EXCEPT ![id] = e]
    BY <1>4 DEF AttestEscrow
  <2> HIDE DEF a, e
  <2> QED BY <2>1, <2>2, <2>3, UpdateKeepsParties
<1>5. ASSUME NEW id \in DOMAIN escrow, NEW key, VerifiedRelease(id, key)
      PROVE  EscrowPartiesKept
  <2> DEFINE e == [escrow[id] EXCEPT !.status = "released",
                                     !.challengeDeadline = now + ChallengeWindow]
  <2>1. e.payer = escrow[id].payer /\ e.payee = escrow[id].payee
        /\ e.attestations = escrow[id].attestations
    BY EscrowFields DEF EscrowRecord
  <2>2. escrow' = [escrow EXCEPT ![id] = e]
    BY <1>5 DEF VerifiedRelease
  <2> HIDE DEF e
  <2> QED BY <2>1, <2>2, UpdateKeepsParties
<1>6. ASSUME NEW c, NEW id \in DOMAIN escrow, NEW n,
             \/ ReleaseEscrow(c, id)
             \/ RefundEscrow(c, id)
             \/ DisputeEscrow(c, id)
             \/ OpenDispute(c, id, n)
      PROVE  EscrowPartiesKept
  BY <1>6, StatusKeepsParties DEF ReleaseEscrow, RefundEscrow, DisputeEscrow, OpenDispute
<1>7. ASSUME NEW d \in DOMAIN dispute, ResolveDispute(d) PROVE EscrowPartiesKept
  BY <1>7, StatusKeepsParties DEF ResolveDispute, DisputesRefer
<1>8. CASE EscrowsNext
  BY <1>1, <1>2, <1>3, <1>4, <1>5, <1>6, <1>8 DEF EscrowsNext, ReclaimAttestationBonds, Tick,
     escrowVars
<1>9. CASE JuryNext
  BY <1>1, <1>6, <1>7, <1>9 DEF JuryNext, CastVote, UpdateParams, escrowVars
<1> QED
  BY <1>1, <1>8, <1>9 DEF Next, vars, escrowVars

(* A dispute keeps its opener, and whoever opens one or votes is           *)
(* registered.                                                             *)
DisputePartiesKept ==
  \A d \in DOMAIN dispute' :
    \/ /\ d \in DOMAIN dispute /\ dispute'[d].opener = dispute[d].opener
       /\ \A v \in dispute'[d].votes :
            v \in dispute[d].votes \/ (v.juror \in Addr /\ IsRegistered(v.juror))
    \/ /\ dispute'[d].opener \in Addr /\ IsRegistered(dispute'[d].opener)
       /\ dispute'[d].votes = {}

LEMMA DisputesKept ==
  ASSUME TypeOK, DisputesRefer, [Next]_vars
  PROVE  DisputePartiesKept
<1>1. CASE dispute' = dispute
  BY <1>1 DEF DisputePartiesKept
<1>2. ASSUME NEW c \in Addr, NEW id, NEW n, OpenDispute(c, id, n) PROVE DisputePartiesKept
  <2>1. IsRegistered(c)
    BY <1>2 DEF OpenDispute, LockStake, CanPay, IsRegistered
  <2> QED BY <1>2, <2>1 DEF OpenDispute, Put, DisputePartiesKept
<1>3. ASSUME NEW c \in Addr, NEW d \in DOMAIN dispute, NEW accept, NEW n,
             CastVote(c, d, accept, n)
      PROVE  DisputePartiesKept
  <2> DEFINE v == [juror |-> c, accept |-> accept, bondId |-> bondSeq]
             r == [dispute[d] EXCEPT !.votes = @ \cup {v}]
  <2>1. IsRegistered(c) /\ v.juror = c
    BY <1>3 DEF CastVote, LockStake, CanPay, IsRegistered
  <2>2. r.opener = dispute[d].opener /\ r.votes = dispute[d].votes \cup {v}
    <3> HIDE DEF v
    <3> QED BY DisputeFields DEF DisputeRecord
  <2>3. dispute' = [dispute EXCEPT ![d] = r]
    BY <1>3 DEF CastVote
  <2> HIDE DEF v, r
  <2> QED BY <2>1, <2>2, <2>3 DEF DisputePartiesKept
<1>4. ASSUME NEW d \in DOMAIN dispute, ResolveDispute(d) PROVE DisputePartiesKept
  <2> DEFINE r == [dispute[d] EXCEPT !.status = "resolved",
                                     !.resolution = IF Accepted(d) THEN "accept" ELSE "reject"]
  <2>1. r.opener = dispute[d].opener /\ r.votes = dispute[d].votes
    BY DisputeFields DEF DisputeRecord
  <2>2. dispute' = [dispute EXCEPT ![d] = r]
    BY <1>4 DEF ResolveDispute
  <2> HIDE DEF r
  <2> QED BY <2>1, <2>2 DEF DisputePartiesKept
<1>5. CASE JuryNext
  BY <1>1, <1>2, <1>3, <1>4, <1>5 DEF JuryNext, UpdateParams
<1> QED
  BY <1>1, <1>5 DEF Next, vars, juryVars

LEMMA PartiesStep ==
  ASSUME TypeOK, DisputesRefer, PartiesRegistered, [Next]_vars
  PROVE  PartiesRegistered'
<1>1. \A a \in Addr : IsRegistered(a) => account'[a] = "registered"
  BY RegisteredForEver DEF IsRegistered
<1>2. \A b \in DOMAIN bond : bond[b].poster \in Addr
  BY DEF TypeOK, BondsTypeOK, BondRecord
<1>3. ASSUME NEW b \in DOMAIN bond' PROVE account'[bond'[b].poster] = "registered"
  BY <1>1, <1>2, PostersKept DEF PosterKept, PartiesRegistered
<1>4. ASSUME NEW id \in DOMAIN escrow'
      PROVE  /\ account'[escrow'[id].payer] = "registered"
             /\ account'[escrow'[id].payee] = "registered"
             /\ \A a \in escrow'[id].attestations : account'[a.verifier] = "registered"
  <2>1. ASSUME NEW i \in DOMAIN escrow
        PROVE  /\ escrow[i].payer \in Addr /\ escrow[i].payee \in Addr
               /\ \A a \in escrow[i].attestations : a.verifier \in Addr
    BY EscrowFields DEF AttestationRecord
  <2> QED BY <1>1, <2>1, EscrowsKept DEF EscrowPartiesKept, PartiesRegistered
<1>5. ASSUME NEW d \in DOMAIN dispute'
      PROVE  /\ account'[dispute'[d].opener] = "registered"
             /\ \A v \in dispute'[d].votes : account'[v.juror] = "registered"
  <2>1. ASSUME NEW i \in DOMAIN dispute
        PROVE  dispute[i].opener \in Addr /\ \A v \in dispute[i].votes : v.juror \in Addr
    BY DisputeFields DEF VoteRecord
  <2> QED BY <1>1, <2>1, DisputesKept DEF DisputePartiesKept, PartiesRegistered
<1> QED
  BY <1>3, <1>4, <1>5 DEF PartiesRegistered, IsRegistered

-----------------------------------------------------------------------------
(* Whom a settlement pays.                                                 *)

LEMMA FirstPassExists ==
  ASSUME TypeOK, NEW d \in DOMAIN dispute, dispute[d].escrowId \in DOMAIN escrow,
         PassAttestations(d) # {}
  PROVE  FirstPass(d) \in PassAttestations(d)
<1> DEFINE T == {a.bondId : a \in PassAttestations(d)}
<1>1. \A a \in PassAttestations(d) : a.bondId \in Nat
  BY EscrowFields DEF PassAttestations, Case, AttestationRecord
<1>2. T \in SUBSET Nat /\ T # {}
  BY <1>1
<1>3. PICK x \in T : \A y \in T : x <= y
  <2> HIDE DEF T
  <2> QED BY <1>2, LeastNatural
<1>4. \E a \in PassAttestations(d) : \A b \in PassAttestations(d) : a.bondId <= b.bondId
  BY <1>3
<1> QED
  BY <1>4 DEF FirstPass

(* Every claim pays a registered account.                                  *)
PaysRegistered(claims) ==
  \A c \in claims : Recipient(c) \in Addr /\ IsRegistered(Recipient(c))

LEMMA ReclaimPaysRegistered ==
  ASSUME TypeOK, PartiesRegistered, NEW id \in DOMAIN escrow
  PROVE  PaysRegistered(ReclaimClaims(id))
<1>1. \A b \in DOMAIN bond : bond[b].poster \in Addr /\ IsRegistered(bond[b].poster)
  BY DEF TypeOK, BondsTypeOK, BondRecord, PartiesRegistered
<1> QED
  BY <1>1 DEF PaysRegistered, ReclaimClaims, Recipient

LEMMA VerdictPaysRegistered ==
  ASSUME TypeOK, DisputesRefer, PartiesRegistered, NEW d \in DOMAIN dispute
  PROVE  PaysRegistered(VerdictClaims(d))
<1> DEFINE Good(a) == a \in Addr /\ IsRegistered(a)
<1>1. dispute[d].escrowId \in DOMAIN escrow
  BY DEF DisputesRefer
<1>2. Good(Case(d).payer) /\ Good(Case(d).payee)
  BY <1>1, EscrowFields DEF Case, PartiesRegistered
<1>3. \A a \in Case(d).attestations : Good(a.verifier)
  BY <1>1, EscrowFields DEF Case, AttestationRecord, PartiesRegistered
<1>4. Good(dispute[d].opener) /\ \A v \in dispute[d].votes : Good(v.juror)
  BY DisputeFields DEF VoteRecord, PartiesRegistered
<1>5. Good(Winner(d))
  BY <1>2 DEF Winner
<1>6. Good(Griefed(d))
  <2>1. CASE Challenged(d) /\ PassAttestations(d) # {}
    <3>1. FirstPass(d) \in Case(d).attestations
      BY <1>1, <2>1, FirstPassExists DEF PassAttestations
    <3> QED BY <1>3, <2>1, <3>1 DEF Griefed
  <2>2. CASE ~(Challenged(d) /\ PassAttestations(d) # {})
    BY <1>2, <2>2 DEF Griefed
  <2> QED BY <2>1, <2>2
<1>7. ASSUME NEW c \in DisputeClaims(d) PROVE Good(Recipient(c))
  BY <1>4, <1>6 DEF DisputeClaims, Recipient
<1>8. ASSUME NEW c \in JurorClaims(d) PROVE Good(Recipient(c))
  BY <1>4, <1>5 DEF JurorClaims, Recipient
<1>9. ASSUME NEW c \in AttestationClaims(d) PROVE Good(Recipient(c))
  BY <1>3, <1>5 DEF AttestationClaims, Recipient
<1> QED
  BY <1>7, <1>8, <1>9 DEF VerdictClaims, PaysRegistered

LEMMA PaidToRegistered ==
  ASSUME NEW claims, PaysRegistered(claims), NEW id \in SettledBonds(claims)
  PROVE  PaidTo(claims, id) \in Addr /\ IsRegistered(PaidTo(claims, id))
<1>1. \E c \in Settling(claims) : c.id = id
  BY DEF SettledBonds
<1>2. ClaimOn(claims, id) \in Settling(claims)
  BY <1>1 DEF ClaimOn
<1> QED
  BY <1>2 DEF PaidTo, PaysRegistered, Settling

LEMMA PayoutRegistered ==
  ASSUME NEW claims, PaysRegistered(claims), NEW a \in Addr, ~IsRegistered(a)
  PROVE  Payout(claims)[a] = 0
<1> DEFINE S == {b \in SettledBonds(claims) : PaidTo(claims, b) = a}
<1>1. S = {}
  BY PaidToRegistered
<1> HIDE DEF S
<1>2. Coins([id \in S |-> bond[id].amount]) = {}
  BY <1>1 DEF Coins
<1>3. Total([id \in S |-> bond[id].amount]) = 0
  BY <1>2, FS_EmptySet DEF Total
<1> QED
  BY <1>3 DEF Payout, S

-----------------------------------------------------------------------------
(* A step that makes an account richer leaves it registered.               *)
CreditsRegistered ==
  \A a \in Addr : balance'[a] <= balance[a] \/ account'[a] = "registered"

LEMMA CreditRegisters ==
  ASSUME LedgerTypeOK, NEW to \in Addr, NEW n \in Nat, CreditAccount(balance, to, n)
  PROVE  CreditsRegistered
BY DEF LedgerTypeOK, CreditAccount, Credited, CreditsRegistered

LEMMA LockStakeRegisters ==
  ASSUME LedgerTypeOK, NEW p \in Addr, NEW n \in Nat, NEW u, NEW s, LockStake(p, n, u, s)
  PROVE  CreditsRegistered
BY DEF LedgerTypeOK, LockStake, Debited, CreditsRegistered

LEMMA SettleRegisters ==
  ASSUME TypeOK, NEW bal \in [Addr -> Nat], NEW acc \in [Addr -> AccountState],
         NEW claims, PaysRegistered(claims), SettleClaims(bal, acc, claims),
         \A a \in Addr : IsRegistered(a) => acc[a] = "registered",
         \A a \in Addr : bal[a] <= balance[a] \/ acc[a] = "registered"
  PROVE  CreditsRegistered
<1> SUFFICES ASSUME NEW a \in Addr
             PROVE  balance'[a] <= balance[a] \/ account'[a] = "registered"
  BY DEF CreditsRegistered
<1>1. balance'[a] = bal[a] + Payout(claims)[a] /\ account' = acc
  BY DEF SettleClaims
<1>2. CASE IsRegistered(a)
  BY <1>1, <1>2
<1>3. CASE ~IsRegistered(a)
  <2>1. Payout(claims)[a] = 0
    BY <1>3, PayoutRegistered
  <2> QED BY <1>1, <2>1
<1> QED
  BY <1>2, <1>3

LEMMA StepCreditsRegistered ==
  ASSUME TypeOK, DisputesRefer, PartiesRegistered, [Next]_vars
  PROVE  CreditsRegistered
<1>0. LedgerTypeOK /\ balance \in [Addr -> Nat] /\ account \in [Addr -> AccountState]
  BY DEF TypeOK, LedgerTypeOK
<1>1. CASE balance' = balance
  BY <1>0, <1>1 DEF CreditsRegistered
<1>2. CASE LedgerNext
  <2>1. ASSUME NEW a \in Addr, Register(a) PROVE CreditsRegistered
    BY <1>0, <2>1 DEF Register, CreditsRegistered
  <2>2. ASSUME NEW t \in TransferTerms, Transfer(t.from, t.to, t.amount)
        PROVE  CreditsRegistered
    <3>1. t.from \in Addr /\ t.to \in Addr /\ t.amount \in Nat
      BY AmountAssumption
    <3> QED
      BY <1>0, <2>2, <3>1 DEF Transfer, CreditAccount, Credited, Debited, CreditsRegistered
  <2> QED BY <1>2, <2>1, <2>2 DEF LedgerNext
<1>3. CASE BondsNext
  <2>0. ASSUME NEW id \in DOMAIN bond
        PROVE  bond[id].poster \in Addr /\ bond[id].amount \in Nat
    BY DEF TypeOK, BondsTypeOK, BondRecord
  <2>1. ASSUME NEW a \in Addr, NEW t \in BondTerms, PostBond(a, t) PROVE CreditsRegistered
    <3>1. t.amount \in Nat
      BY BondAssumption, AmountAssumption
    <3> QED BY <1>0, <2>1, <3>1, LockStakeRegisters DEF PostBond
  <2>2. ASSUME NEW a \in Addr, NEW id \in DOMAIN bond, ReleaseBond(a, id)
        PROVE  CreditsRegistered
    BY <1>0, <2>0, <2>2 DEF ReleaseBond, Credited, CreditsRegistered, PartiesRegistered,
       IsRegistered
  <2>3. ASSUME NEW a \in Addr, NEW id \in DOMAIN bond, NEW b \in Addr \cup {NoAddr},
               SlashBond(a, id, b)
        PROVE  CreditsRegistered
    <3>1. CASE b \in Addr /\ CreditAccount(balance, b, bond[id].amount)
      BY <1>0, <2>0, <3>1, CreditRegisters
    <3>2. CASE UNCHANGED ledgerVars
      BY <1>1, <3>2 DEF ledgerVars
    <3> QED BY <2>3, <3>1, <3>2 DEF SlashBond
  <2> QED BY <1>3, <2>1, <2>2, <2>3 DEF BondsNext
<1>4. CASE EscrowsNext
  <2>1. ASSUME NEW p \in Addr, NEW t \in LockTerms, LockEscrow(p, t) PROVE CreditsRegistered
    <3>1. t.amount \in Nat
      BY EscrowAssumption, AmountAssumption
    <3> QED BY <1>0, <2>1, <3>1 DEF LockEscrow, Debited, CreditsRegistered
  <2>2. ASSUME NEW id \in DOMAIN escrow, NEW c \in Addr,
               ReleaseEscrow(c, id) \/ RefundEscrow(c, id)
        PROVE  CreditsRegistered
    BY <1>0, <2>2, EscrowFields, CreditRegisters DEF ReleaseEscrow, RefundEscrow
  <2>3. ASSUME NEW id \in DOMAIN escrow, NEW c \in Addr, NEW t \in AttestTerms,
               AttestEscrow(c, id, t)
        PROVE  CreditsRegistered
    <3>1. t.stake \in Nat
      BY EscrowAssumption, AmountAssumption
    <3> QED BY <1>0, <2>3, <3>1, LockStakeRegisters DEF AttestEscrow
  <2>4. ASSUME NEW id \in DOMAIN escrow, ReclaimAttestationBonds(id)
        PROVE  CreditsRegistered
    <3>1. SettleClaims(balance, account, ReclaimClaims(id))
      BY <2>4 DEF ReclaimAttestationBonds
    <3>2. \A a \in Addr : balance[a] <= balance[a]
      BY <1>0
    <3> QED
      BY <1>0, <3>1, <3>2, ReclaimPaysRegistered, SettleRegisters DEF IsRegistered
  <2>5. ASSUME NEW id \in DOMAIN escrow, NEW c, NEW t,
               DisputeEscrow(c, id) \/ SubmitEscrow(c, id, t)
        PROVE  CreditsRegistered
    BY <1>1, <2>5 DEF DisputeEscrow, SubmitEscrow, ledgerVars
  <2>6. CASE Tick
    BY <1>1, <2>6 DEF Tick, ledgerVars
  <2>7. ASSUME NEW id \in DOMAIN escrow, NEW key, VerifiedRelease(id, key)
        PROVE  CreditsRegistered
    BY <1>0, <2>7, EscrowFields, CreditRegisters DEF VerifiedRelease
  <2> QED
    BY <1>4, <2>1, <2>2, <2>3, <2>4, <2>5, <2>6, <2>7 DEF EscrowsNext
<1>5. CASE JuryNext
  <2>1. ASSUME NEW c \in Addr, NEW id, NEW n \in Amount, OpenDispute(c, id, n)
        PROVE  CreditsRegistered
    <3>1. n \in Nat
      BY AmountAssumption
    <3> QED BY <1>0, <2>1, <3>1, LockStakeRegisters DEF OpenDispute
  <2>2. ASSUME NEW c \in Addr, NEW d, NEW v, NEW n \in Amount, CastVote(c, d, v, n)
        PROVE  CreditsRegistered
    <3>1. n \in Nat
      BY AmountAssumption
    <3> QED BY <1>0, <2>2, <3>1, LockStakeRegisters DEF CastVote
  <2>3. ASSUME NEW d \in DOMAIN dispute, ResolveDispute(d) PROVE CreditsRegistered
    <3>1. Winner(d) \in Addr /\ Case(d).amount \in Nat
      BY EscrowFields DEF DisputesRefer, Case, Winner
    <3>2. /\ EscrowToWinner(d) \in [Addr -> Nat]
          /\ RegisteredWinner(d) \in [Addr -> AccountState]
      BY <1>0, <3>1 DEF EscrowToWinner, RegisteredWinner, Credited, AccountState
    <3>3. \A a \in Addr : IsRegistered(a) => RegisteredWinner(d)[a] = "registered"
      BY <1>0, <3>1 DEF IsRegistered, RegisteredWinner
    <3>4. \A a \in Addr : \/ EscrowToWinner(d)[a] <= balance[a]
                          \/ RegisteredWinner(d)[a] = "registered"
      BY <1>0, <3>1 DEF EscrowToWinner, RegisteredWinner, Credited
    <3>5. SettleClaims(EscrowToWinner(d), RegisteredWinner(d), VerdictClaims(d))
      BY <2>3 DEF ResolveDispute
    <3> QED
      BY <3>2, <3>3, <3>4, <3>5, VerdictPaysRegistered, SettleRegisters
  <2>4. ASSUME NEW new, UpdateParams(new) PROVE CreditsRegistered
    BY <1>1, <2>4 DEF UpdateParams, ledgerVars
  <2> QED BY <1>5, <2>1, <2>2, <2>3, <2>4 DEF JuryNext
<1> QED
  BY <1>1, <1>2, <1>3, <1>4, <1>5 DEF Next, vars, ledgerVars

LEMMA UnregisteredStep ==
  ASSUME TypeOK, DisputesRefer, PartiesRegistered, UnregisteredHoldNothing, [Next]_vars,
         TypeOK'
  PROVE  UnregisteredHoldNothing'
<1> SUFFICES ASSUME NEW a \in Addr, account'[a] # "registered" PROVE balance'[a] = 0
  BY DEF UnregisteredHoldNothing
<1>1. account[a] # "registered"
  BY RegisteredForEver DEF IsRegistered
<1>2. balance[a] = 0
  BY <1>1 DEF UnregisteredHoldNothing
<1>3. balance'[a] <= balance[a]
  BY StepCreditsRegistered DEF CreditsRegistered
<1>4. balance'[a] \in Nat
  BY DEF TypeOK, LedgerTypeOK
<1> QED
  BY <1>2, <1>3, <1>4

(***************************************************************************)
(* The ledger invariant: types, and every address named in a bond, escrow  *)
(* or dispute is registered, and an unregistered record holds nothing.     *)
(***************************************************************************)
THEOREM LedgerCorrect == Spec => []LedgerInv
<1>1. Init => LedgerInv
  <2> SUFFICES ASSUME Init PROVE LedgerInv
    OBVIOUS
  <2>1. TypeOK
    BY InitTypes
  <2>2. DisputesRefer /\ PartiesRegistered
    BY DEF Init, BondsInit, EscrowsInit, JuryInit, DisputesRefer, PartiesRegistered
  <2>3. UnregisteredHoldNothing
    BY GenesisAssumption DEF Init, LedgerInit, UnregisteredHoldNothing
  <2> QED BY <2>1, <2>2, <2>3 DEF LedgerInv
<1>2. LedgerInv /\ [Next]_vars => LedgerInv'
  BY TypeStep, DisputesReferStep, PartiesStep, UnregisteredStep DEF LedgerInv
<1> QED
  BY <1>1, <1>2, PTL DEF Spec

-----------------------------------------------------------------------------
(* Conservation: what each kind of step does to the three pools of coins.  *)

LEMMA PoolTypes ==
  ASSUME TypeOK
  PROVE  /\ IsFiniteSet(Addr) /\ balance \in [Addr -> Nat] /\ Total(balance) \in Nat
         /\ IsFiniteSet(DOMAIN escrow) /\ HeldAmount \in [DOMAIN escrow -> Nat]
         /\ Total(HeldAmount) \in Nat
         /\ IsFiniteSet(DOMAIN bond) /\ StakeAmount \in [DOMAIN bond -> Nat]
         /\ Total(StakeAmount) \in Nat
         /\ burned \in Nat
<1>1. IsFiniteSet(Addr) /\ balance \in [Addr -> Nat] /\ burned \in Nat
  BY AddrAssumption DEF TypeOK, LedgerTypeOK, BondsTypeOK
<1>2. IsFiniteSet(DOMAIN escrow) /\ HeldAmount \in [DOMAIN escrow -> Nat]
  <2>1. DOMAIN escrow = 0..(escrowSeq - 1) /\ escrowSeq \in Nat
    BY DEF TypeOK, EscrowsTypeOK
  <2>2. IsFiniteSet(DOMAIN escrow)
    BY <2>1, FS_Interval
  <2>3. \A id \in DOMAIN escrow : escrow[id].amount \in Nat
    BY EscrowFields
  <2> QED BY <2>2, <2>3 DEF HeldAmount
<1>3. IsFiniteSet(DOMAIN bond) /\ StakeAmount \in [DOMAIN bond -> Nat]
  <2>1. DOMAIN bond = 0..(bondSeq - 1) /\ bondSeq \in Nat
    BY DEF TypeOK, BondsTypeOK
  <2>2. IsFiniteSet(DOMAIN bond)
    BY <2>1, FS_Interval
  <2>3. \A id \in DOMAIN bond : bond[id].amount \in Nat
    BY DEF TypeOK, BondsTypeOK, BondRecord
  <2> QED BY <2>2, <2>3 DEF StakeAmount
<1> QED
  BY <1>1, <1>2, <1>3, CoinsFinite

(* The coins outside the escrows.                                          *)
Free == Total(balance) + Total(StakeAmount) + burned

LEMMA SameHeld ==
  ASSUME escrow' = escrow
  PROVE  Total(HeldAmount)' = Total(HeldAmount)
<1>1. HeldAmount' = HeldAmount
  BY DEF HeldAmount, Held
<1> QED BY <1>1

LEMMA SameStakes ==
  ASSUME bond' = bond
  PROVE  Total(StakeAmount)' = Total(StakeAmount)
<1>1. StakeAmount' = StakeAmount
  BY DEF StakeAmount, ActiveBond
<1> QED BY <1>1

(* A stake moves coins from a balance to a bond.                           *)
LEMMA LockStakeConserves ==
  ASSUME TypeOK, TypeOK', NEW p \in Addr, NEW n \in Nat, NEW u, NEW s, LockStake(p, n, u, s)
  PROVE  Free' = Free
<1>1. Total(balance') + n = Total(balance)
  <2>1. IsFiniteSet(Addr) /\ balance \in [Addr -> Nat]
    BY PoolTypes
  <2>2. balance'[p] = balance[p] - n /\ \A a \in Addr \ {p} : balance'[a] = balance[a]
    BY <2>1 DEF LockStake, Debited
  <2>3. balance' \in [Addr -> Nat]
    BY DEF TypeOK, LedgerTypeOK
  <2> QED BY <2>1, <2>2, <2>3, TotalDebit
<1>2. Total(StakeAmount') = Total(StakeAmount) + n
  <2> DEFINE D == DOMAIN bond
             b == [poster |-> p, amount |-> n, purpose |-> u, slasher |-> s,
                   status |-> "active"]
  <2>1. bondSeq \notin D
    BY DEF TypeOK, BondsTypeOK
  <2>2. bond' = Put(bond, bondSeq, b)
    BY DEF LockStake
  <2>3. b.amount = n /\ b.status = "active"
    OBVIOUS
  <2>4. /\ DOMAIN bond' = D \cup {bondSeq} /\ bond'[bondSeq] = b
        /\ \A i \in D : bond'[i] = bond[i]
    <3> HIDE DEF b
    <3> QED BY <2>1, <2>2 DEF Put
  <2>5. StakeAmount'[bondSeq] = n
    BY <2>3, <2>4 DEF StakeAmount, ActiveBond
  <2>6. \A i \in D : StakeAmount'[i] = StakeAmount[i]
    BY <2>4 DEF StakeAmount, ActiveBond
  <2>7. StakeAmount' \in [D \cup {bondSeq} -> Nat]
    <3>1. StakeAmount' = [i \in DOMAIN bond' |->
                            IF ActiveBond(i)' THEN bond'[i].amount ELSE 0]
      BY DEF StakeAmount
    <3>2. \A i \in DOMAIN bond' : bond'[i].amount \in Nat
      BY DEF TypeOK, BondsTypeOK, BondRecord
    <3> QED BY <2>4, <3>1, <3>2
  <2> HIDE DEF b
  <2>8. IsFiniteSet(D) /\ StakeAmount \in [D -> Nat]
    BY PoolTypes
  <2> HIDE DEF D
  <2> QED BY <2>1, <2>5, <2>6, <2>7, <2>8, TotalExtend
<1>3. burned' = burned
  BY DEF LockStake
<1>4. Total(balance) \in Nat /\ Total(StakeAmount) \in Nat /\ burned \in Nat
  BY PoolTypes
<1>5. Total(balance') \in Nat
  <2>1. balance' \in [Addr -> Nat]
    BY DEF TypeOK, LedgerTypeOK
  <2> QED BY <2>1, AddrAssumption, CoinsFinite
<1> QED
  BY <1>1, <1>2, <1>3, <1>4, <1>5 DEF Free

(* Resolving one bond takes its amount out of the stakes.                  *)
LEMMA ResolveStake ==
  ASSUME TypeOK, NEW id \in DOMAIN bond, ActiveBond(id), NEW s \in {"released", "slashed"},
         bond' = [bond EXCEPT ![id].status = s]
  PROVE  Total(StakeAmount') + bond[id].amount = Total(StakeAmount)
<1> DEFINE D == DOMAIN bond
<1>1. bond[id] \in BondRecord
  BY DEF TypeOK, BondsTypeOK
<1>2. DOMAIN bond' = D /\ bond'[id].status = s /\ \A i \in D \ {id} : bond'[i] = bond[i]
  BY <1>1 DEF BondRecord
<1>3. StakeAmount'[id] = 0 /\ StakeAmount[id] = bond[id].amount
  BY <1>2 DEF StakeAmount, ActiveBond
<1>4. \A i \in D \ {id} : StakeAmount'[i] = StakeAmount[i]
  BY <1>2 DEF StakeAmount, ActiveBond
<1>5. IsFiniteSet(D) /\ StakeAmount \in [D -> Nat] /\ Total(StakeAmount) \in Nat
  BY PoolTypes
<1>6. StakeAmount' \in [D -> Nat]
  <2>1. StakeAmount' = [i \in D |-> StakeAmount'[i]]
    BY <1>2 DEF StakeAmount
  <2>2. \A i \in D : StakeAmount'[i] \in Nat
    BY <1>3, <1>4, <1>5
  <2> HIDE DEF D
  <2> QED BY <2>1, <2>2
<1>7. Total(StakeAmount') + StakeAmount[id] = Total(StakeAmount) + StakeAmount'[id]
  <2> HIDE DEF D
  <2>1. id \in D
    BY DEF D
  <2> QED BY <1>4, <1>5, <1>6, <2>1, TotalUpdate
<1> QED
  BY <1>3, <1>5, <1>7

(* The settlement of a batch pays out exactly the stakes it resolves.      *)
LEMMA SettleConserves ==
  ASSUME TypeOK, NEW bal \in [Addr -> Nat], NEW acc, NEW claims, PaysRegistered(claims),
         SettleClaims(bal, acc, claims)
  PROVE  /\ Total(balance') + Total(StakeAmount') = Total(bal) + Total(StakeAmount)
         /\ burned' = burned
<1> DEFINE D == DOMAIN bond
           S == SettledBonds(claims)
           paid == [id \in S |-> bond[id].amount]
           to == [id \in S |-> PaidTo(claims, id)]
<1>1. IsFiniteSet(D) /\ StakeAmount \in [D -> Nat] /\ IsFiniteSet(Addr)
  BY PoolTypes
<1>2. S \in SUBSET D /\ \A id \in S : ActiveBond(id)
  BY DEF SettledBonds, Settling, ActiveBond
<1>3. IsFiniteSet(S)
  BY <1>1, <1>2, FS_Subset
<1>4. \A id \in S : StakeAmount[id] = bond[id].amount
  BY <1>2 DEF StakeAmount
<1>5. paid = [id \in S |-> StakeAmount[id]] /\ paid \in [S -> Nat]
  BY <1>1, <1>2, <1>4
<1>6. to \in [S -> Addr]
  BY PaidToRegistered
<1>7. Payout(claims) = [a \in Addr |-> Total([b \in {c \in S : to[c] = a} |-> paid[b]])]
  <2>1. ASSUME NEW a \in Addr
        PROVE  [id \in {b \in S : PaidTo(claims, b) = a} |-> bond[id].amount]
                 = [b \in {c \in S : to[c] = a} |-> paid[b]]
    <3>1. {b \in S : PaidTo(claims, b) = a} = {c \in S : to[c] = a}
      OBVIOUS
    <3> QED BY <3>1
  <2> QED BY <2>1 DEF Payout
<1>8. Payout(claims) \in [Addr -> Nat] /\ Total(Payout(claims)) = Total(paid)
  <2> HIDE DEF paid, to, S
  <2>1. Payout(claims) = Grouped(Addr, S, paid, to)
    BY <1>7 DEF Grouped
  <2> QED BY <1>1, <1>3, <1>5, <1>6, <2>1, TotalRegroup
<1>9. Total(balance') = Total(bal) + Total(paid)
  <2>1. balance' = [a \in Addr |-> bal[a] + Payout(claims)[a]]
    BY DEF SettleClaims
  <2> HIDE DEF paid, to, S
  <2> QED BY <1>1, <1>8, <2>1, TotalPlus
<1>10. StakeAmount' = [id \in D |-> IF id \in S THEN 0 ELSE StakeAmount[id]]
  <2>1. bond' = [id \in D |->
                   IF id \in S
                   THEN [bond[id] EXCEPT !.status = SettledStatus(ClaimOn(claims, id))]
                   ELSE bond[id]]
    BY DEF SettleClaims
  <2>2. ASSUME NEW id \in S PROVE bond'[id].status # "active"
    <3>1. bond[id] \in BondRecord
      BY <1>2 DEF TypeOK, BondsTypeOK
    <3>2. SettledStatus(ClaimOn(claims, id)) # "active"
      BY DEF SettledStatus
    <3>3. bond'[id] = [bond[id] EXCEPT !.status = SettledStatus(ClaimOn(claims, id))]
      BY <1>2, <2>1
    <3> QED BY <3>1, <3>2, <3>3 DEF BondRecord
  <2>3. DOMAIN bond' = D /\ \A id \in D \ S : bond'[id] = bond[id]
    BY <2>1
  <2> HIDE DEF S
  <2> QED BY <1>2, <2>2, <2>3 DEF StakeAmount, ActiveBond
<1>11. Total(StakeAmount) = Total(StakeAmount') + Total(paid)
  <2> HIDE DEF S
  <2>1. Total(StakeAmount) = Total([id \in D |-> IF id \in S THEN 0 ELSE StakeAmount[id]])
                             + Total([id \in S |-> StakeAmount[id]])
    <3> HIDE DEF D
    <3> QED BY <1>1, <1>2, TotalRelease
  <2> HIDE DEF paid
  <2> QED BY <1>5, <1>10, <2>1
<1>12. Total(bal) \in Nat /\ Total(paid) \in Nat
  <2> HIDE DEF paid, S
  <2> QED BY <1>1, <1>3, <1>5, CoinsFinite
<1>13. Total(StakeAmount') \in Nat
  <2>1. StakeAmount' \in [D -> Nat]
    <3> HIDE DEF S, D
    <3> QED BY <1>1, <1>10
  <2> QED BY <1>1, <2>1, CoinsFinite
<1>14. burned' = burned
  BY DEF SettleClaims
<1> QED
  <2> HIDE DEF paid
  <2> QED BY <1>9, <1>11, <1>12, <1>13, <1>14

(* What the escrows hold after a step.                                     *)
LEMMA HeldTypes ==
  ASSUME TypeOK'
  PROVE  HeldAmount' \in [DOMAIN escrow' -> Nat] /\ Total(HeldAmount') \in Nat
<1>1. DOMAIN escrow' = 0..(escrowSeq' - 1) /\ escrowSeq' \in Nat
  BY DEF TypeOK, EscrowsTypeOK
<1>2. IsFiniteSet(DOMAIN escrow')
  BY <1>1, FS_Interval
<1>3. \A i \in DOMAIN escrow' : escrow'[i].amount \in Nat
  BY DEF TypeOK, EscrowsTypeOK, EscrowRecord
<1>4. HeldAmount' \in [DOMAIN escrow' -> Nat]
  BY <1>3 DEF HeldAmount
<1> QED
  BY <1>2, <1>4, CoinsFinite

(* Changing one escrow changes what the escrows hold by as much.           *)
LEMMA HeldUpdate ==
  ASSUME TypeOK, TypeOK', NEW id \in DOMAIN escrow, DOMAIN escrow' = DOMAIN escrow,
         \A i \in DOMAIN escrow \ {id} : escrow'[i] = escrow[i]
  PROVE  Total(HeldAmount') + HeldAmount[id] = Total(HeldAmount) + HeldAmount'[id]
<1> DEFINE D == DOMAIN escrow
<1>1. IsFiniteSet(D) /\ HeldAmount \in [D -> Nat]
  BY PoolTypes
<1>2. HeldAmount' \in [D -> Nat]
  BY HeldTypes
<1>3. \A i \in D \ {id} : HeldAmount'[i] = HeldAmount[i]
  BY DEF HeldAmount, Held
<1>4. id \in D
  OBVIOUS
<1> HIDE DEF D
<1> QED
  BY <1>1, <1>2, <1>3, <1>4, TotalUpdate

HeldStatus == {"locked", "submitted", "disputed", "fail_attested", "in_jury"}

(* An update that keeps the amount and stays on the same side.             *)
LEMMA HeldKept ==
  ASSUME TypeOK, TypeOK', NEW id \in DOMAIN escrow, DOMAIN escrow' = DOMAIN escrow,
         \A i \in DOMAIN escrow \ {id} : escrow'[i] = escrow[i],
         escrow'[id].amount = escrow[id].amount,
         escrow[id].status \in HeldStatus <=> escrow'[id].status \in HeldStatus
  PROVE  Total(HeldAmount') = Total(HeldAmount)
<1>1. Total(HeldAmount') + HeldAmount[id] = Total(HeldAmount) + HeldAmount'[id]
  BY HeldUpdate
<1>2. HeldAmount'[id] = HeldAmount[id]
  BY DEF HeldAmount, Held, HeldStatus
<1>3. Total(HeldAmount) \in Nat /\ HeldAmount[id] \in Nat
  BY PoolTypes
<1>4. Total(HeldAmount') \in Nat
  BY HeldTypes
<1> QED
  BY <1>1, <1>2, <1>3, <1>4

-----------------------------------------------------------------------------
(* One lemma per kind of step; AllCoins is the left side of Conservation.  *)
AllCoins == Total(balance) + Total(HeldAmount) + Total(StakeAmount) + burned

(* The pools after a step are numbers too.                                 *)
LEMMA NextPools ==
  ASSUME TypeOK'
  PROVE  /\ balance' \in [Addr -> Nat] /\ Total(balance') \in Nat
         /\ Total(HeldAmount') \in Nat /\ Total(StakeAmount') \in Nat
         /\ burned' \in Nat
<1>1. balance' \in [Addr -> Nat] /\ burned' \in Nat
  BY DEF TypeOK, LedgerTypeOK, BondsTypeOK
<1>2. DOMAIN bond' = 0..(bondSeq' - 1) /\ bondSeq' \in Nat
  BY DEF TypeOK, BondsTypeOK
<1>3. IsFiniteSet(DOMAIN bond')
  BY <1>2, FS_Interval
<1>4. \A i \in DOMAIN bond' : bond'[i].amount \in Nat
  BY DEF TypeOK, BondsTypeOK, BondRecord
<1>5. StakeAmount' \in [DOMAIN bond' -> Nat]
  BY <1>4 DEF StakeAmount
<1>6. Total(StakeAmount') \in Nat
  BY <1>3, <1>5, CoinsFinite
<1> QED
  BY <1>1, <1>6, AddrAssumption, HeldTypes, CoinsFinite

(* A credit, and what it adds to the balances.                             *)
LEMMA CreditTotal ==
  ASSUME NEW bal \in [Addr -> Nat], NEW to \in Addr, NEW n \in Nat
  PROVE  Credited(bal, to, n) \in [Addr -> Nat] /\ Total(Credited(bal, to, n)) = Total(bal) + n
<1> DEFINE new == Credited(bal, to, n)
<1>1. /\ new \in [Addr -> Nat] /\ new[to] = bal[to] + n
      /\ \A y \in Addr \ {to} : new[y] = bal[y]
  BY DEF Credited
<1> HIDE DEF new
<1>2. Total(new) = Total(bal) + n
  BY <1>1, AddrAssumption, TotalCredit
<1> QED BY <1>1, <1>2 DEF new

(* Register overwrites an unregistered record, which held nothing.         *)
LEMMA RegisterConserves ==
  ASSUME TypeOK, UnregisteredHoldNothing, NEW a \in Addr, Register(a),
         UNCHANGED <<bondVars, escrowVars>>
  PROVE  AllCoins' = AllCoins
<1>1. balance \in [Addr -> Nat]
  BY DEF TypeOK, LedgerTypeOK
<1>2. balance' = balance
  BY <1>1 DEF Register, UnregisteredHoldNothing
<1>3. escrow' = escrow /\ bond' = bond /\ burned' = burned
  BY DEF bondVars, escrowVars
<1> QED
  BY <1>2, <1>3, SameHeld, SameStakes DEF AllCoins

LEMMA TransferConserves ==
  ASSUME TypeOK, NEW from \in Addr, NEW to \in Addr, NEW n \in Nat, Transfer(from, to, n),
         UNCHANGED <<bondVars, escrowVars>>
  PROVE  AllCoins' = AllCoins
<1> DEFINE mid == [balance EXCEPT ![from] = @ - n]
<1>1. IsFiniteSet(Addr) /\ balance \in [Addr -> Nat] /\ Total(balance) \in Nat
  BY PoolTypes
<1>2. n <= balance[from]
  BY <1>1 DEF Transfer, CanPay
<1>3. mid \in [Addr -> Nat] /\ Total(mid) + n = Total(balance)
  <2>1. /\ mid \in [Addr -> Nat] /\ mid[from] = balance[from] - n
        /\ \A y \in Addr \ {from} : mid[y] = balance[y]
    BY <1>1, <1>2
  <2> HIDE DEF mid
  <2> QED BY <1>1, <2>1, TotalDebit
<1>4. balance' = Credited(mid, to, n)
  BY DEF Transfer, CreditAccount, Debited
<1> HIDE DEF mid
<1>5. Total(balance') = Total(mid) + n
  BY <1>3, <1>4, CreditTotal
<1>6. Total(mid) \in Nat
  BY <1>1, <1>3, CoinsFinite
<1>7. Total(balance') = Total(balance)
  BY <1>3, <1>5, <1>6
<1>8. escrow' = escrow /\ bond' = bond /\ burned' = burned
  BY DEF bondVars, escrowVars
<1> QED
  BY <1>7, <1>8, SameHeld, SameStakes DEF AllCoins

(* ReleaseBond and SlashBond: the stake goes to an account or is burned.   *)
LEMMA ResolveBondConserves ==
  ASSUME TypeOK, TypeOK', NEW c \in Addr, NEW id \in DOMAIN bond,
         ReleaseBond(c, id) \/ \E b \in Addr \cup {NoAddr} : SlashBond(c, id, b),
         UNCHANGED escrowVars
  PROVE  AllCoins' = AllCoins
<1> DEFINE n == bond[id].amount
<1>1. n \in Nat /\ bond[id].poster \in Addr
  BY DEF TypeOK, BondsTypeOK, BondRecord
<1>2. ActiveBond(id)
  BY DEF ReleaseBond, SlashBond, MayResolve
<1>3. \E s \in {"released", "slashed"} : bond' = [bond EXCEPT ![id].status = s]
  BY DEF ReleaseBond, SlashBond
<1>4. Total(StakeAmount') + n = Total(StakeAmount)
  BY <1>2, <1>3, ResolveStake
<1>5. \/ (\E to \in Addr : balance' = Credited(balance, to, n)) /\ burned' = burned
      \/ balance' = balance /\ burned' = burned + n
  <2>1. CASE ReleaseBond(c, id)
    BY <1>1, <2>1 DEF ReleaseBond
  <2>2. CASE \E b \in Addr \cup {NoAddr} : SlashBond(c, id, b)
    BY <2>2 DEF SlashBond, CreditAccount, ledgerVars
  <2> QED BY <2>1, <2>2
<1> HIDE DEF n
<1>6. Total(balance') + burned' = Total(balance) + burned + n
  <2>1. Total(balance) \in Nat /\ burned \in Nat
    BY PoolTypes
  <2>2. CASE \E to \in Addr : balance' = Credited(balance, to, n) /\ burned' = burned
    BY <1>1, <2>1, <2>2, CreditTotal, PoolTypes
  <2>3. CASE balance' = balance /\ burned' = burned + n
    BY <1>1, <2>1, <2>3
  <2> QED BY <1>5, <2>2, <2>3
<1>7. Total(HeldAmount') = Total(HeldAmount)
  BY SameHeld DEF escrowVars
<1> QED
  BY <1>1, <1>4, <1>6, <1>7, PoolTypes, NextPools DEF AllCoins

(* A stake that is locked while the escrows keep what they hold.           *)
LEMMA StakeConserves ==
  ASSUME TypeOK, TypeOK', NEW p \in Addr, NEW n \in Nat, NEW u, NEW s, LockStake(p, n, u, s),
         Total(HeldAmount') = Total(HeldAmount)
  PROVE  AllCoins' = AllCoins
<1>1. Free' = Free
  BY LockStakeConserves
<1> QED
  BY <1>1, PoolTypes, NextPools DEF Free, AllCoins

(* LockEscrow moves coins from the payer's balance into the new escrow.    *)
LEMMA LockConserves ==
  ASSUME TypeOK, TypeOK', NEW p \in Addr, NEW t \in LockTerms, LockEscrow(p, t)
  PROVE  AllCoins' = AllCoins
<1> DEFINE n == t.amount
           D == DOMAIN escrow
           e == LockedEscrow(p, t)
<1>1. n \in Nat
  BY EscrowAssumption, AmountAssumption
<1>2. Total(balance') + n = Total(balance)
  <2>1. IsFiniteSet(Addr) /\ balance \in [Addr -> Nat]
    BY PoolTypes
  <2>2. balance'[p] = balance[p] - n /\ \A a \in Addr \ {p} : balance'[a] = balance[a]
    BY <2>1 DEF LockEscrow, Debited
  <2>3. balance' \in [Addr -> Nat]
    BY NextPools
  <2> HIDE DEF n
  <2> QED BY <1>1, <2>1, <2>2, <2>3, TotalDebit
<1>3. Total(HeldAmount') = Total(HeldAmount) + n
  <2>1. escrowSeq \notin D
    BY DEF TypeOK, EscrowsTypeOK
  <2>2. escrow' = Put(escrow, escrowSeq, e)
    BY DEF LockEscrow
  <2>3. e.amount = n /\ e.status = "locked"
    BY DEF LockedEscrow
  <2>4. /\ DOMAIN escrow' = D \cup {escrowSeq} /\ escrow'[escrowSeq] = e
        /\ \A i \in D : escrow'[i] = escrow[i]
    <3> HIDE DEF e
    <3> QED BY <2>1, <2>2 DEF Put
  <2> HIDE DEF e, n
  <2>5. HeldAmount'[escrowSeq] = n
    BY <2>3, <2>4 DEF HeldAmount, Held
  <2>6. \A i \in D : HeldAmount'[i] = HeldAmount[i]
    BY <2>4 DEF HeldAmount, Held
  <2>7. HeldAmount' \in [D \cup {escrowSeq} -> Nat]
    BY <2>4, HeldTypes
  <2>8. IsFiniteSet(D) /\ HeldAmount \in [D -> Nat]
    BY PoolTypes
  <2> HIDE DEF D
  <2> QED BY <2>1, <2>5, <2>6, <2>7, <2>8, TotalExtend
<1>4. Total(StakeAmount') = Total(StakeAmount) /\ burned' = burned
  BY SameStakes DEF LockEscrow, bondVars
<1> HIDE DEF n
<1> QED
  BY <1>1, <1>2, <1>3, <1>4, PoolTypes, NextPools DEF AllCoins

(* An escrow that stops holding its amount and pays it to an account.      *)
LEMMA PayConserves ==
  ASSUME TypeOK, TypeOK', NEW id \in DOMAIN escrow, Held(id), NEW to \in Addr,
         balance' = Credited(balance, to, escrow[id].amount), UNCHANGED bondVars,
         DOMAIN escrow' = DOMAIN escrow,
         \A i \in DOMAIN escrow \ {id} : escrow'[i] = escrow[i],
         escrow'[id].status \notin HeldStatus
  PROVE  AllCoins' = AllCoins
<1> DEFINE n == escrow[id].amount
<1>1. n \in Nat
  BY EscrowFields
<1>2. HeldAmount[id] = n /\ HeldAmount'[id] = 0
  BY DEF HeldAmount, Held, HeldStatus
<1>3. Total(HeldAmount') + n = Total(HeldAmount) + 0
  BY <1>2, HeldUpdate
<1>4. Total(balance') = Total(balance) + n
  BY <1>1, CreditTotal, PoolTypes
<1>5. Total(StakeAmount') = Total(StakeAmount) /\ burned' = burned
  BY SameStakes DEF bondVars
<1> HIDE DEF n
<1> QED
  BY <1>1, <1>3, <1>4, <1>5, PoolTypes, NextPools DEF AllCoins

(* What an update of one escrow does, whichever fields it writes.          *)
OnlyEscrow(id) ==
  /\ DOMAIN escrow' = DOMAIN escrow
  /\ \A i \in DOMAIN escrow \ {id} : escrow'[i] = escrow[i]
  /\ escrow'[id].amount = escrow[id].amount

LEMMA StatusUpdate ==
  ASSUME TypeOK, NEW id \in DOMAIN escrow, NEW s, escrow' = [escrow EXCEPT ![id].status = s]
  PROVE  OnlyEscrow(id) /\ escrow'[id].status = s
BY EscrowFields DEF OnlyEscrow, EscrowRecord

LEMMA SubmitUpdate ==
  ASSUME TypeOK, NEW c, NEW id \in DOMAIN escrow, NEW t, SubmitEscrow(c, id, t)
  PROVE  OnlyEscrow(id) /\ escrow'[id].status = "submitted"
<1> DEFINE e == [escrow[id] EXCEPT !.status = "submitted",
                                   !.pins.deliveryHash = t.deliveryHash,
                                   !.pins.keyHash = t.keyHash,
                                   !.submittedAt = now]
<1>1. e.amount = escrow[id].amount /\ e.status = "submitted"
  BY EscrowFields DEF EscrowRecord
<1>2. escrow' = [escrow EXCEPT ![id] = e]
  BY DEF SubmitEscrow
<1> HIDE DEF e
<1> QED BY <1>1, <1>2 DEF OnlyEscrow

LEMMA AttestUpdate ==
  ASSUME TypeOK, NEW c, NEW id \in DOMAIN escrow, NEW t, AttestEscrow(c, id, t)
  PROVE  OnlyEscrow(id) /\ escrow'[id].status \in {"submitted", "fail_attested"}
<1> DEFINE a == [verifier |-> c, passed |-> t.passed, bondId |-> bondSeq,
                 pins |-> escrow[id].pins, attestedAt |-> now]
           e == AttestedEscrow(escrow[id], a)
<1>1. escrow[id].status = "submitted"
  BY DEF AttestEscrow, Attestable
<1>2. e.amount = escrow[id].amount /\ e.status \in {"submitted", "fail_attested"}
  <2> HIDE DEF a
  <2> QED BY <1>1, EscrowFields DEF EscrowRecord, AttestedEscrow
<1>3. escrow' = [escrow EXCEPT ![id] = e]
  BY DEF AttestEscrow
<1> HIDE DEF e
<1> QED BY <1>2, <1>3 DEF OnlyEscrow

LEMMA VerifiedReleaseUpdate ==
  ASSUME TypeOK, NEW id \in DOMAIN escrow, NEW key, VerifiedRelease(id, key)
  PROVE  OnlyEscrow(id) /\ escrow'[id].status = "released"
<1> DEFINE e == [escrow[id] EXCEPT !.status = "released",
                                   !.challengeDeadline = now + ChallengeWindow]
<1>1. e.amount = escrow[id].amount /\ e.status = "released"
  BY EscrowFields DEF EscrowRecord
<1>2. escrow' = [escrow EXCEPT ![id] = e]
  BY DEF VerifiedRelease
<1> HIDE DEF e
<1> QED BY <1>1, <1>2 DEF OnlyEscrow

(* The messages of the escrow component.                                   *)
LEMMA EscrowsConserve ==
  ASSUME TypeOK, TypeOK', PartiesRegistered, EscrowsNext
  PROVE  AllCoins' = AllCoins
<1>1. CASE \E a \in Addr, t \in LockTerms : LockEscrow(a, t)
  BY <1>1, LockConserves
<1>2. ASSUME NEW id \in DOMAIN escrow, NEW c \in Addr, ReleaseEscrow(c, id)
      PROVE  AllCoins' = AllCoins
  <2>1. OnlyEscrow(id) /\ escrow'[id].status = "released"
    BY <1>2, StatusUpdate DEF ReleaseEscrow
  <2>2. Held(id)
    BY <1>2 DEF ReleaseEscrow, Releasable, Held
  <2>3. balance' = Credited(balance, escrow[id].payee, escrow[id].amount) /\ UNCHANGED bondVars
    BY <1>2 DEF ReleaseEscrow, CreditAccount
  <2> QED BY <2>1, <2>2, <2>3, EscrowFields, PayConserves DEF OnlyEscrow, HeldStatus
<1>3. ASSUME NEW id \in DOMAIN escrow, NEW c \in Addr, RefundEscrow(c, id)
      PROVE  AllCoins' = AllCoins
  <2>1. OnlyEscrow(id) /\ escrow'[id].status = "refunded"
    BY <1>3, StatusUpdate DEF RefundEscrow
  <2>2. Held(id)
    BY <1>3 DEF RefundEscrow, Refundable, Held
  <2>3. balance' = Credited(balance, escrow[id].payer, escrow[id].amount) /\ UNCHANGED bondVars
    BY <1>3 DEF RefundEscrow, CreditAccount
  <2> QED BY <2>1, <2>2, <2>3, EscrowFields, PayConserves DEF OnlyEscrow, HeldStatus
<1>4. ASSUME NEW id \in DOMAIN escrow, NEW key \in Key, VerifiedRelease(id, key)
      PROVE  AllCoins' = AllCoins
  <2>1. OnlyEscrow(id) /\ escrow'[id].status = "released"
    BY <1>4, VerifiedReleaseUpdate
  <2>2. Held(id)
    BY <1>4 DEF VerifiedRelease, Held
  <2>3. balance' = Credited(balance, escrow[id].payee, escrow[id].amount) /\ UNCHANGED bondVars
    BY <1>4 DEF VerifiedRelease, CreditAccount
  <2> QED BY <2>1, <2>2, <2>3, EscrowFields, PayConserves DEF OnlyEscrow, HeldStatus
<1>5. ASSUME NEW id \in DOMAIN escrow, NEW c \in Addr, NEW t,
             SubmitEscrow(c, id, t) \/ DisputeEscrow(c, id)
      PROVE  AllCoins' = AllCoins
  <2>1. /\ OnlyEscrow(id) /\ escrow'[id].status \in {"submitted", "disputed"}
        /\ escrow[id].status \in {"locked", "submitted"}
    BY <1>5, SubmitUpdate, StatusUpdate DEF SubmitEscrow, Submittable, DisputeEscrow
  <2>2. Total(HeldAmount') = Total(HeldAmount)
    BY <2>1, HeldKept DEF OnlyEscrow, HeldStatus
  <2>3. balance' = balance /\ bond' = bond /\ burned' = burned
    BY <1>5 DEF SubmitEscrow, DisputeEscrow, ledgerVars, bondVars
  <2> QED BY <2>2, <2>3, SameStakes DEF AllCoins
<1>6. ASSUME NEW id \in DOMAIN escrow, NEW c \in Addr, NEW t \in AttestTerms,
             AttestEscrow(c, id, t)
      PROVE  AllCoins' = AllCoins
  <2>1. t.stake \in Nat
    BY EscrowAssumption, AmountAssumption
  <2>2. escrow[id].status = "submitted"
    BY <1>6 DEF AttestEscrow, Attestable
  <2>3. OnlyEscrow(id) /\ escrow'[id].status \in {"submitted", "fail_attested"}
    BY <1>6, AttestUpdate
  <2>4. Total(HeldAmount') = Total(HeldAmount)
    BY <2>2, <2>3, HeldKept DEF OnlyEscrow, HeldStatus
  <2>5. LockStake(c, t.stake, AttestationPurpose(id), NoAddr)
    BY <1>6 DEF AttestEscrow
  <2> QED BY <2>1, <2>4, <2>5, StakeConserves
<1>7. ASSUME NEW id \in DOMAIN escrow, ReclaimAttestationBonds(id)
      PROVE  AllCoins' = AllCoins
  <2>1. SettleClaims(balance, account, ReclaimClaims(id)) /\ escrow' = escrow
    BY <1>7 DEF ReclaimAttestationBonds, escrowVars
  <2>2. balance \in [Addr -> Nat]
    BY PoolTypes
  <2>3. /\ Total(balance') + Total(StakeAmount') = Total(balance) + Total(StakeAmount)
        /\ burned' = burned
    BY <2>1, <2>2, ReclaimPaysRegistered, SettleConserves
  <2>4. Total(HeldAmount') = Total(HeldAmount)
    BY <2>1, SameHeld
  <2> QED BY <2>3, <2>4, PoolTypes, NextPools DEF AllCoins
<1>8. CASE Tick
  <2>1. balance' = balance /\ bond' = bond /\ burned' = burned /\ escrow' = escrow
    BY <1>8 DEF Tick, ledgerVars, bondVars
  <2> QED BY <2>1, SameHeld, SameStakes DEF AllCoins
<1> QED
  BY <1>1, <1>2, <1>3, <1>4, <1>5, <1>6, <1>7, <1>8 DEF EscrowsNext

(* A verdict pays out the escrow, unless it was paid before, and settles   *)
(* the stakes.                                                             *)
LEMMA VerdictConserves ==
  ASSUME TypeOK, TypeOK', DisputesRefer, PartiesRegistered, NEW d \in DOMAIN dispute,
         ResolveDispute(d)
  PROVE  AllCoins' = AllCoins
<1> DEFINE id == dispute[d].escrowId
           n == IF Challenged(d) THEN 0 ELSE escrow[id].amount
<1>1. id \in DOMAIN escrow
  BY DEF DisputesRefer
<1>2. Winner(d) \in Addr /\ escrow[id].amount \in Nat /\ n \in Nat
  BY <1>1, EscrowFields DEF Winner, Case
<1>3. balance \in [Addr -> Nat]
  BY PoolTypes
<1>4. EscrowToWinner(d) \in [Addr -> Nat] /\ Total(EscrowToWinner(d)) = Total(balance) + n
  <2>1. CASE Challenged(d)
    BY <1>3, <2>1, PoolTypes DEF EscrowToWinner
  <2>2. CASE ~Challenged(d)
    BY <1>2, <1>3, <2>2, CreditTotal DEF EscrowToWinner, Case
  <2> QED BY <2>1, <2>2
<1>5. /\ Total(balance') + Total(StakeAmount')
           = Total(EscrowToWinner(d)) + Total(StakeAmount)
      /\ burned' = burned
  BY <1>4, VerdictPaysRegistered, SettleConserves DEF ResolveDispute
<1>6. Total(HeldAmount') + n = Total(HeldAmount)
  <2>1. OnlyEscrow(id) /\ escrow'[id].status \in {"released", "refunded"}
    BY <1>1, StatusUpdate DEF ResolveDispute, VerdictStatus
  <2>2. HeldAmount'[id] = 0
    BY <1>1, <2>1 DEF HeldAmount, Held, OnlyEscrow
  <2>3. HeldAmount[id] = n
    BY <1>1 DEF HeldAmount, Held, ResolveDispute, Challenged, Case
  <2>4. Total(HeldAmount') + HeldAmount[id] = Total(HeldAmount) + HeldAmount'[id]
    BY <1>1, <2>1, HeldUpdate DEF OnlyEscrow
  <2> HIDE DEF n
  <2> QED BY <2>2, <2>3, <2>4, PoolTypes
<1> HIDE DEF n
<1> QED
  BY <1>2, <1>4, <1>5, <1>6, PoolTypes, NextPools DEF AllCoins

LEMMA JuryConserves ==
  ASSUME TypeOK, TypeOK', DisputesRefer, PartiesRegistered, JuryNext
  PROVE  AllCoins' = AllCoins
<1>1. ASSUME NEW c \in Addr, NEW id \in DOMAIN escrow, NEW n \in Amount, OpenDispute(c, id, n)
      PROVE  AllCoins' = AllCoins
  <2>1. n \in Nat
    BY AmountAssumption
  <2>2. OnlyEscrow(id) /\ escrow'[id].status = FrozenStatus(id)
    BY <1>1, StatusUpdate DEF OpenDispute
  <2>3. escrow[id].status \in HeldStatus <=> escrow'[id].status \in HeldStatus
    BY <1>1, <2>2 DEF OpenDispute, MayOpenDispute, FrozenStatus, HeldStatus
  <2>4. Total(HeldAmount') = Total(HeldAmount)
    BY <2>2, <2>3, HeldKept DEF OnlyEscrow
  <2>5. LockStake(c, n, DisputePurpose(disputeSeq), NoAddr)
    BY <1>1 DEF OpenDispute
  <2> QED BY <2>1, <2>4, <2>5, StakeConserves
<1>2. ASSUME NEW c \in Addr, NEW d, NEW v, NEW n \in Amount, CastVote(c, d, v, n)
      PROVE  AllCoins' = AllCoins
  <2>1. n \in Nat
    BY AmountAssumption
  <2>2. Total(HeldAmount') = Total(HeldAmount)
    BY <1>2, SameHeld DEF CastVote, escrowVars
  <2>3. LockStake(c, n, JurorPurpose(d), NoAddr)
    BY <1>2 DEF CastVote
  <2> QED BY <2>1, <2>2, <2>3, StakeConserves
<1>3. ASSUME NEW new, UpdateParams(new) PROVE AllCoins' = AllCoins
  <2>1. balance' = balance /\ bond' = bond /\ burned' = burned /\ escrow' = escrow
    BY <1>3 DEF UpdateParams, ledgerVars, bondVars, escrowVars
  <2> QED BY <2>1, SameHeld, SameStakes DEF AllCoins
<1> QED
  BY <1>1, <1>2, <1>3, VerdictConserves DEF JuryNext

(* Every step keeps the number of coins.                                   *)
LEMMA ConservationStep ==
  ASSUME LedgerInv, [Next]_vars, LedgerInv'
  PROVE  AllCoins' = AllCoins
<1>0. TypeOK /\ TypeOK' /\ DisputesRefer /\ PartiesRegistered /\ UnregisteredHoldNothing
  BY DEF LedgerInv
<1>1. CASE LedgerNext /\ UNCHANGED <<bondVars, escrowVars, juryVars>>
  <2>1. ASSUME NEW t \in TransferTerms, Transfer(t.from, t.to, t.amount)
        PROVE  AllCoins' = AllCoins
    <3>1. t.from \in Addr /\ t.to \in Addr /\ t.amount \in Nat
      BY AmountAssumption
    <3> QED BY <1>0, <1>1, <2>1, <3>1, TransferConserves
  <2> QED BY <1>0, <1>1, <2>1, RegisterConserves DEF LedgerNext
<1>2. CASE BondsNext /\ UNCHANGED <<escrowVars, juryVars>>
  <2>1. ASSUME NEW a \in Addr, NEW t \in BondTerms, PostBond(a, t)
        PROVE  AllCoins' = AllCoins
    <3>1. t.amount \in Nat
      BY BondAssumption, AmountAssumption
    <3>2. LockStake(a, t.amount, t.purpose, t.slasher)
      BY <2>1 DEF PostBond
    <3>3. Total(HeldAmount') = Total(HeldAmount)
      BY <1>2, SameHeld DEF escrowVars
    <3> QED BY <1>0, <3>1, <3>2, <3>3, StakeConserves
  <2> QED BY <1>0, <1>2, <2>1, ResolveBondConserves DEF BondsNext
<1>3. CASE EscrowsNext /\ UNCHANGED juryVars
  BY <1>0, <1>3, EscrowsConserve
<1>4. CASE JuryNext
  BY <1>0, <1>4, JuryConserves
<1>5. CASE UNCHANGED vars
  <2>1. balance' = balance /\ bond' = bond /\ burned' = burned /\ escrow' = escrow
    BY <1>5 DEF vars, ledgerVars, bondVars, escrowVars
  <2> QED BY <2>1, SameHeld, SameStakes DEF AllCoins
<1> QED
  BY <1>1, <1>2, <1>3, <1>4, <1>5 DEF Next

(* At genesis nothing is escrowed, staked or burned.                       *)
LEMMA GenesisCoins ==
  ASSUME Init
  PROVE  AllCoins = Total(GenesisBalance)
<1>1. balance = GenesisBalance /\ burned = 0
  BY DEF Init, LedgerInit, BondsInit
<1>2. DOMAIN HeldAmount = {} /\ DOMAIN StakeAmount = {}
  BY DEF Init, BondsInit, EscrowsInit, HeldAmount, StakeAmount
<1>3. ASSUME NEW f, DOMAIN f = {} PROVE Total(f) = 0
  <2>1. Coins(f) = {}
    BY <1>3 DEF Coins
  <2> QED BY <2>1, FS_EmptySet DEF Total
<1>4. Total(GenesisBalance) \in Nat
  BY AddrAssumption, GenesisAssumption, CoinsFinite
<1> QED
  BY <1>1, <1>2, <1>3, <1>4 DEF AllCoins

(***************************************************************************)
(* No message creates or destroys a coin: balances, unpaid escrows, active *)
(* bonds and burned coins add up to the genesis supply in every reachable  *)
(* state, whatever disputes, verdicts, reclaims and slashes have happened. *)
(***************************************************************************)
THEOREM ConservationHolds == Spec => []Conservation
<1>1. Init => Conservation
  BY GenesisCoins DEF Conservation, AllCoins
<1>2. LedgerInv /\ LedgerInv' /\ Conservation /\ [Next]_vars => Conservation'
  <2> SUFFICES ASSUME LedgerInv, LedgerInv', Conservation, [Next]_vars PROVE Conservation'
    OBVIOUS
  <2>1. AllCoins' = AllCoins
    BY ConservationStep
  <2> QED BY <2>1 DEF Conservation, AllCoins
<1> QED
  BY <1>1, <1>2, LedgerCorrect, PTL DEF Spec

(* What Register relies on: an account that is not registered is empty.    *)
THEOREM UnregisteredAreEmpty == Spec => []UnregisteredHoldNothing
<1>1. LedgerInv => UnregisteredHoldNothing
  BY DEF LedgerInv
<1> QED
  BY <1>1, LedgerCorrect, PTL

(* No account, escrow or active bond holds more than the genesis supply.   *)
WithinSupply ==
  /\ \A a \in Addr : balance[a] <= Total(GenesisBalance)
  /\ \A id \in DOMAIN escrow : Held(id) => escrow[id].amount <= Total(GenesisBalance)
  /\ \A b \in DOMAIN bond : ActiveBond(b) => bond[b].amount <= Total(GenesisBalance)

(***************************************************************************)
(* The uint64 additions of creditAccount and of the settlement loops never *)
(* wrap when the genesis supply fits in a uint64: whatever a message adds  *)
(* up is a balance within that supply afterwards.                          *)
(***************************************************************************)
THEOREM NothingOverflows == Spec => []WithinSupply
<1>1. LedgerInv /\ Conservation => WithinSupply
  <2> SUFFICES ASSUME LedgerInv, Conservation PROVE WithinSupply
    OBVIOUS
  <2>0. TypeOK
    BY DEF LedgerInv
  <2>1. /\ Total(balance) <= Total(GenesisBalance)
        /\ Total(HeldAmount) <= Total(GenesisBalance)
        /\ Total(StakeAmount) <= Total(GenesisBalance)
    BY <2>0, PoolTypes DEF Conservation
  <2>2. Total(GenesisBalance) \in Nat
    BY AddrAssumption, GenesisAssumption, CoinsFinite
  <2>3. ASSUME NEW a \in Addr PROVE balance[a] <= Total(GenesisBalance)
    <3>1. balance[a] <= Total(balance) /\ balance[a] \in Nat
      BY <2>0, PoolTypes, TotalBound
    <3> QED BY <2>0, <2>1, <2>2, <3>1, PoolTypes
  <2>4. ASSUME NEW id \in DOMAIN escrow, Held(id)
        PROVE  escrow[id].amount <= Total(GenesisBalance)
    <3>1. HeldAmount[id] <= Total(HeldAmount) /\ HeldAmount[id] \in Nat
      BY <2>0, PoolTypes, TotalBound
    <3>2. HeldAmount[id] = escrow[id].amount
      BY <2>4 DEF HeldAmount
    <3> QED BY <2>0, <2>1, <2>2, <3>1, <3>2, PoolTypes
  <2>5. ASSUME NEW b \in DOMAIN bond, ActiveBond(b)
        PROVE  bond[b].amount <= Total(GenesisBalance)
    <3>1. StakeAmount[b] <= Total(StakeAmount) /\ StakeAmount[b] \in Nat
      BY <2>0, PoolTypes, TotalBound
    <3>2. StakeAmount[b] = bond[b].amount
      BY <2>5 DEF StakeAmount
    <3> QED BY <2>0, <2>1, <2>2, <3>1, <3>2, PoolTypes
  <2> QED BY <2>3, <2>4, <2>5 DEF WithinSupply
<1> QED
  BY <1>1, LedgerCorrect, ConservationHolds, PTL

LEMMA VerdictCanSettle == LedgerInv => VerdictNeverAborts
<1> SUFFICES ASSUME LedgerInv, NEW d \in DOMAIN dispute
             PROVE  /\ CheckNewAccountCredit(Winner(d), Case(d).amount)
                    /\ \A c \in Settling(VerdictClaims(d)) :
                         RegisteredWinner(d)[Recipient(c)] # "absent"
  BY DEF VerdictNeverAborts
<1>1. TypeOK /\ DisputesRefer /\ PartiesRegistered
  BY DEF LedgerInv
<1>2. Winner(d) \in Addr /\ IsRegistered(Winner(d))
  BY <1>1, EscrowFields DEF DisputesRefer, PartiesRegistered, Winner, Case
<1>3. CheckNewAccountCredit(Winner(d), Case(d).amount)
  BY <1>2 DEF CheckNewAccountCredit, IsRegistered
<1>4. ASSUME NEW c \in Settling(VerdictClaims(d))
      PROVE  RegisteredWinner(d)[Recipient(c)] # "absent"
  <2>1. Recipient(c) \in Addr /\ IsRegistered(Recipient(c))
    BY <1>1, VerdictPaysRegistered DEF PaysRegistered, Settling
  <2>2. account \in [Addr -> AccountState]
    BY <1>1 DEF TypeOK, LedgerTypeOK
  <2> QED BY <1>2, <2>1, <2>2 DEF RegisteredWinner, IsRegistered
<1> QED BY <1>3, <1>4

(***************************************************************************)
(* A decided case can always be settled: everybody ResolveDispute pays is  *)
(* registered, so neither a missing account nor the dust guard aborts it.  *)
(***************************************************************************)
THEOREM VerdictsNeverAbort == Spec => []VerdictNeverAborts
BY VerdictCanSettle, LedgerCorrect, PTL
=============================================================================
