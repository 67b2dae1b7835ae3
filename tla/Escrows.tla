------------------------------ MODULE Escrows ------------------------------
(***************************************************************************)
(* Protocol-held escrows: ordinary ones (payer, payee, deadline), jury-    *)
(* bound ones (no automatic release) and verifier-bound ones (a named set  *)
(* of verifiers whose staked verdicts release or fail the delivery).       *)
(* Block time is the variable now; a unit of it is one second.             *)
(***************************************************************************)
EXTENDS Bonds, Sequences

CONSTANTS
  Digest,            \* well-formed hex sha256 strings
  NoHash,            \* the empty string in a hash field
  BadHash,           \* any other string: neither empty nor a digest
  Key,               \* decryption keys
  EmptyKey,          \* the empty string as a key
  Sha256,            \* the digest of each key
  LockTerms,         \* what LockEscrow may ask for
  SubmitTerms,       \* what SubmitEscrow may commit: [deliveryHash, keyHash]
  AttestTerms,       \* what AttestEscrow may state: [passed, stake, pins]
  ChallengeWindow,   \* ChallengeWindowSeconds
  Word,              \* 2^64: the number of uint64 values
  StartTime,         \* block time of the first block
  MaxTime,           \* bound on block time
  MaxEscrows         \* bound on the number of escrows

HashField == Digest \cup {NoHash, BadHash}

(* What a delivery and the procedure that judges it are pinned to.         *)
Pins == [deliveryHash : HashField, keyHash : HashField, acceptanceHash : HashField]

ASSUME EscrowAssumption ==
  /\ NoHash \notin Digest /\ BadHash \notin Digest /\ NoHash # BadHash
  /\ EmptyKey \in Key /\ Sha256 \in [Key -> Digest]
  /\ LockTerms \subseteq
       [payee : Addr, amount : Amount, seconds : 0..(Word - 1), noAutoRelease : BOOLEAN,
        verifiers : Seq(Addr), quorum : Nat, acceptanceHash : HashField]
  /\ SubmitTerms \subseteq [deliveryHash : HashField, keyHash : HashField]
  /\ AttestTerms \subseteq [passed : BOOLEAN, stake : Amount, pins : Pins]
  /\ ChallengeWindow \in Nat \ {0}
  /\ Word \in Nat \ {0, 1}
  /\ StartTime \in Nat \ {0}
  /\ MaxTime \in Nat /\ MaxEscrows \in Nat

VARIABLES
  escrow,      \* escrow id -> record
  escrowSeq,   \* the next escrow id (EscrowSeq)
  now,         \* block time
  revealed,    \* history: escrows whose key a VerifiedRelease event published
  conceded     \* history: escrows the payer released

escrowVars == <<escrow, escrowSeq, now, revealed, conceded>>

AttestationRecord ==
  [verifier : Addr, passed : BOOLEAN, bondId : Nat, pins : Pins, attestedAt : Nat]

EscrowStatus ==
  {"locked", "submitted", "disputed", "in_jury", "released", "refunded",
   "fail_attested", "challenged"}

(* The code keeps verifiers and attestations in lists.  The verifiers are  *)
(* distinct and used as a set; the attestations were appended in the order *)
(* of their bond ids, so a set of them loses nothing.                      *)
EscrowRecord ==
  [payer : Addr, payee : Addr, amount : Nat, status : EscrowStatus, deadline : Int,
   noAutoRelease : BOOLEAN, verifiers : SUBSET Addr, quorum : Nat, pins : Pins,
   attestations : SUBSET AttestationRecord, submittedAt : Nat, challengeDeadline : Nat]

EscrowsTypeOK ==
  /\ escrowSeq \in Nat
  /\ escrow \in [0..(escrowSeq - 1) -> EscrowRecord]
  /\ now \in Nat \ {0}
  /\ revealed \subseteq Nat
  /\ conceded \subseteq Nat

EscrowsInit ==
  /\ escrow = [i \in {} |-> NoAddr]
  /\ escrowSeq = 0
  /\ now = StartTime
  /\ revealed = {}
  /\ conceded = {}

IsHexSHA256(h) == h \in Digest

(* int64(x), and int64 addition: two's complement in Word values.          *)
Int64(x) == ((x + Word \div 2) % Word) - Word \div 2

(* The addresses in a list, and that it names nobody twice.                *)
Members(s)   == {s[i] : i \in DOMAIN s}
Distinct(s)  == \A i, j \in DOMAIN s : i # j => s[i] # s[j]

ValidVerifiers(payer, t) ==
  IF t.verifiers # <<>>
  THEN /\ t.quorum \in 1..Len(t.verifiers)
       /\ payer \notin Members(t.verifiers) /\ t.payee \notin Members(t.verifiers)
       /\ Distinct(t.verifiers)
       /\ IsHexSHA256(t.acceptanceHash)
  ELSE /\ t.quorum = 0
       /\ t.acceptanceHash # NoHash => IsHexSHA256(t.acceptanceHash)

LockedEscrow(payer, t) ==
  [payer |-> payer, payee |-> t.payee, amount |-> t.amount, status |-> "locked",
   deadline |-> Int64(now + Int64(t.seconds)),
   noAutoRelease |-> t.noAutoRelease \/ t.verifiers # <<>>,
   verifiers |-> Members(t.verifiers), quorum |-> t.quorum,
   pins |-> [deliveryHash |-> NoHash, keyHash |-> NoHash,
             acceptanceHash |-> t.acceptanceHash],
   attestations |-> {}, submittedAt |-> 0, challengeDeadline |-> 0]

LockEscrow(payer, t) ==
  /\ escrowSeq < MaxEscrows
  /\ t.amount # 0
  /\ payer # t.payee
  /\ ValidVerifiers(payer, t)
  /\ CanPay(payer, t.amount)
  /\ EnsureRegistered(t.payee, t.amount)
  /\ balance' = Debited(balance, payer, t.amount)
  /\ escrow' = Put(escrow, escrowSeq, LockedEscrow(payer, t))
  /\ escrowSeq' = escrowSeq + 1
  /\ UNCHANGED <<bondVars, now, revealed, conceded>>

VerifierBound(id) == escrow[id].verifiers # {}

(* A verifier-bound delivery must commit both hashes; an ordinary one may  *)
(* leave them out but may not commit a malformed one.                      *)
ValidCommitment(id, t) ==
  \A h \in {t.deliveryHash, t.keyHash} :
     IsHexSHA256(h) \/ (h = NoHash /\ ~VerifierBound(id))

Submittable(id) == escrow[id].status = "locked"

SubmitEscrow(c, id, t) ==
  /\ Submittable(id)
  /\ c = escrow[id].payee
  /\ ValidCommitment(id, t)
  /\ escrow' = [escrow EXCEPT ![id].status = "submitted",
                              ![id].pins.deliveryHash = t.deliveryHash,
                              ![id].pins.keyHash = t.keyHash,
                              ![id].submittedAt = now]
  /\ UNCHANGED <<ledgerVars, bondVars, escrowSeq, now, revealed, conceded>>

Releasable(id) ==
  escrow[id].status \in {"locked", "submitted", "disputed", "fail_attested"}

(* Mutants: jury-bound escrows release by deadline too; no deadline.       *)
MayReleaseJuryBound(c, id) ==
  c = escrow[id].payer \/ (escrow[id].status # "disputed" /\ now >= escrow[id].deadline)
MayReleasePayerOnly(c, id) == c = escrow[id].payer

(* Anyone but the payer: never while the payer disputes, never when the    *)
(* escrow is jury- or verifier-bound, and only once the deadline is over.  *)
MayRelease(c, id) ==
  \/ c = escrow[id].payer
  \/ /\ escrow[id].status # "disputed"
     /\ ~escrow[id].noAutoRelease
     /\ now >= escrow[id].deadline

ReleaseEscrow(c, id) ==
  /\ Releasable(id)
  /\ MayRelease(c, id)
  /\ CreditAccount(balance, escrow[id].payee, escrow[id].amount)
  /\ escrow' = [escrow EXCEPT ![id].status = "released"]
  /\ conceded' = IF c = escrow[id].payer THEN conceded \cup {id} ELSE conceded
  /\ UNCHANGED <<bondVars, escrowSeq, now, revealed>>

(* Before the deadline while nothing is delivered, or once the contest     *)
(* window of a fail verdict is over.                                       *)
Refundable(id) ==
  \/ escrow[id].status = "locked" /\ now < escrow[id].deadline
  \/ escrow[id].status = "fail_attested" /\ now >= escrow[id].challengeDeadline

RefundEscrow(c, id) ==
  /\ Refundable(id)
  /\ c = escrow[id].payer
  /\ CreditAccount(balance, escrow[id].payer, escrow[id].amount)
  /\ escrow' = [escrow EXCEPT ![id].status = "refunded"]
  /\ UNCHANGED <<bondVars, escrowSeq, now, revealed, conceded>>

(* The payer's free freeze of a delivery, not of a verifier-bound one.     *)
DisputeEscrow(c, id) ==
  /\ escrow[id].status = "submitted"
  /\ c = escrow[id].payer
  /\ ~VerifierBound(id)
  /\ escrow' = [escrow EXCEPT ![id].status = "disputed"]
  /\ UNCHANGED <<ledgerVars, bondVars, escrowSeq, now, revealed, conceded>>

-----------------------------------------------------------------------------
(* Verifier verdicts.                                                      *)

Attestable(id) == escrow[id].status = "submitted"

MayAttest(c, id) ==
  /\ c \in escrow[id].verifiers
  /\ \A a \in escrow[id].attestations : a.verifier # c

(* Mutant: any positive stake will do.                                     *)
CoversNothing(id, stake) == stake > 0

(* The stake alone must cover the escrow.                                  *)
CoversEscrow(id, stake) == stake >= escrow[id].amount

(* Mutant: the contest window runs from the delivery.                      *)
AttestedSinceDelivery(e, attestation) ==
  [e EXCEPT !.attestations = @ \cup {attestation},
            !.status = IF attestation.passed THEN @ ELSE "fail_attested",
            !.challengeDeadline =
               IF attestation.passed THEN @ ELSE e.submittedAt + ChallengeWindow]

(* A fail verdict opens the contest window; a pass verdict only counts.    *)
AttestedEscrow(e, attestation) ==
  [e EXCEPT !.attestations = @ \cup {attestation},
            !.status = IF attestation.passed THEN @ ELSE "fail_attested",
            !.challengeDeadline = IF attestation.passed THEN @ ELSE now + ChallengeWindow]

(* The verdict restates the pins it judged.                                *)
AttestEscrow(c, id, t) ==
  /\ Attestable(id)
  /\ MayAttest(c, id)
  /\ t.pins = escrow[id].pins
  /\ CoversEscrow(id, t.stake)
  /\ LockStake(c, t.stake, AttestationPurpose(id), NoAddr)
  /\ escrow' = [escrow EXCEPT ![id] =
                  AttestedEscrow(@, [verifier |-> c, passed |-> t.passed,
                                     bondId |-> bondSeq, pins |-> escrow[id].pins,
                                     attestedAt |-> now])]
  /\ UNCHANGED <<escrowSeq, now, revealed, conceded>>

(* The pass verdicts that count: those about exactly what was committed.   *)
CountedPasses(id) ==
  {a \in escrow[id].attestations : a.passed /\ a.pins = escrow[id].pins}

VerifierQuorum(id) == Cardinality(CountedPasses(id)) >= escrow[id].quorum

(* The preimage of the committed hash, or no key if none was committed.    *)
OpensCommitment(id, key) ==
  IF escrow[id].pins.keyHash # NoHash
  THEN Sha256[key] = escrow[id].pins.keyHash
  ELSE key = EmptyKey

(* The payment to the payee and the publication of the key are one step.   *)
(* Anyone may send it, so the signer does not matter.                      *)
VerifiedRelease(id, key) ==
  /\ VerifierBound(id)
  /\ escrow[id].status = "submitted"
  /\ VerifierQuorum(id)
  /\ OpensCommitment(id, key)
  /\ CreditAccount(balance, escrow[id].payee, escrow[id].amount)
  /\ escrow' = [escrow EXCEPT ![id].status = "released",
                              ![id].challengeDeadline = now + ChallengeWindow]
  /\ revealed' = revealed \cup {id}
  /\ UNCHANGED <<bondVars, escrowSeq, now, conceded>>

(* Mutants: over a second early; never over if it was never opened.        *)
WindowOverEarly(id) ==
  escrow[id].challengeDeadline = 0 \/ now + 1 >= escrow[id].challengeDeadline
WindowOverOpened(id) ==
  escrow[id].challengeDeadline # 0 /\ now >= escrow[id].challengeDeadline

(* The window in which verdicts can be contested or challenged is over, or *)
(* was never opened.                                                       *)
WindowOver(id) ==
  escrow[id].challengeDeadline = 0 \/ now >= escrow[id].challengeDeadline

ReclaimClaims(id) ==
  {[id |-> a.bondId, purpose |-> AttestationPurpose(id), keeps |-> TRUE,
    owner |-> bond[a.bondId].poster, forfeitTo |-> bond[a.bondId].poster] :
     a \in {x \in escrow[id].attestations : x.bondId \in DOMAIN bond}}

ReclaimAttestationBonds(id) ==
  /\ escrow[id].attestations # {}
  /\ escrow[id].status \in {"released", "refunded", "fail_attested"}
  /\ WindowOver(id)
  /\ SettleClaims(balance, account, ReclaimClaims(id))
  /\ UNCHANGED escrowVars

(* The next block.                                                         *)
Tick ==
  /\ now < MaxTime
  /\ now' = now + 1
  /\ UNCHANGED <<ledgerVars, bondVars, escrow, escrowSeq, revealed, conceded>>

EscrowsNext ==
  \/ \E a \in Addr, t \in LockTerms : LockEscrow(a, t)
  \/ \E id \in DOMAIN escrow :
       \/ \E a \in Addr, t \in SubmitTerms : SubmitEscrow(a, id, t)
       \/ \E a \in Addr :
            \/ ReleaseEscrow(a, id)
            \/ RefundEscrow(a, id)
            \/ DisputeEscrow(a, id)
       \/ \E a \in Addr, t \in AttestTerms : AttestEscrow(a, id, t)
       \/ \E key \in Key : VerifiedRelease(id, key)
       \/ ReclaimAttestationBonds(id)
  \/ Tick
=============================================================================
