----------------------------- MODULE JuryProofs -----------------------------
(***************************************************************************)
(* The escrow market keeps its promises about disputes, stakes and payouts *)
(* for every value of the constants.  The properties of Market are not     *)
(* inductive as they stand; what they rest on is stated first, as the      *)
(* parts of MarketInv.  A step is then described once, by what it does to  *)
(* a single escrow, dispute or bond, and every part is shown to survive    *)
(* each kind of change.                                                    *)
(***************************************************************************)
EXTENDS MarketCustody, MarketProofs

(* A bond of the protocol: nobody signs as its slasher.                    *)
IsStake(b, purpose) ==
  b \in DOMAIN bond /\ bond[b].slasher = NoAddr /\ bond[b].purpose = purpose

(* What a dispute records as stakes are stakes, and each names its case.   *)
DisputeStakes ==
  \A d \in DOMAIN dispute :
    /\ IsStake(dispute[d].bondId, DisputePurpose(d))
    /\ \A v \in dispute[d].votes : IsStake(v.bondId, JurorPurpose(d))

(* What an attestation records as its stake is one, and covers the escrow. *)
AttestationsBacked ==
  \A id \in DOMAIN escrow : \A a \in escrow[id].attestations :
    /\ IsStake(a.bondId, AttestationPurpose(id))
    /\ bond[a.bondId].amount >= escrow[id].amount

(* One verdict per verifier, and one stake per verdict.                    *)
AttestationsDiffer ==
  \A id \in DOMAIN escrow : \A a \in escrow[id].attestations :
    /\ a.verifier \in escrow[id].verifiers
    /\ \A b \in escrow[id].attestations :
         a.verifier = b.verifier \/ a.bondId = b.bondId => a = b

(* How the status of an escrow relates to what has been delivered and      *)
(* attested.                                                               *)
EscrowLifecycle(id) ==
  /\ escrow[id].verifiers # {} => escrow[id].quorum >= 1
  /\ escrow[id].status = "locked" => escrow[id].attestations = {} /\ escrow[id].submittedAt = 0
  /\ escrow[id].status = "disputed" => escrow[id].verifiers = {}
  /\ escrow[id].submittedAt <= now
  /\ escrow[id].status = "fail_attested" =>
       \E a \in escrow[id].attestations :
         ~a.passed /\ escrow[id].challengeDeadline = a.attestedAt + ChallengeWindow
  /\ id \in revealed => \E a \in escrow[id].attestations : a.passed

Lifecycle == revealed \subseteq DOMAIN escrow /\ \A id \in DOMAIN escrow : EscrowLifecycle(id)

(* After a verdict the escrow is paid out, or was challenged later.        *)
VerdictsLast ==
  \A d \in DOMAIN dispute :
    dispute[d].status = "resolved" => Case(d).status \in {"released", "refunded", "challenged"}

(* Only the payer challenges a payout.                                     *)
PayerChallenges ==
  \A d \in DOMAIN dispute :
    dispute[d].status = "open" /\ Challenged(d) => dispute[d].opener = Case(d).payer

MarketInv ==
  /\ TypeOK /\ DisputesRefer
  /\ DisputeStakes /\ AttestationsBacked /\ AttestationsDiffer
  /\ Lifecycle /\ VerdictsLast /\ PayerChallenges
  /\ JuryControl /\ VerdictSettlesStakes /\ CollateralThroughWindow
  /\ PaidWithAuthority /\ RefundJustified

-----------------------------------------------------------------------------
(* What a step does to one escrow.                                         *)

SameTerms(id) ==
  /\ escrow'[id].payer = escrow[id].payer /\ escrow'[id].payee = escrow[id].payee
  /\ escrow'[id].amount = escrow[id].amount /\ escrow'[id].deadline = escrow[id].deadline
  /\ escrow'[id].noAutoRelease = escrow[id].noAutoRelease
  /\ escrow'[id].verifiers = escrow[id].verifiers
  /\ escrow'[id].quorum = escrow[id].quorum

SameWork(id) ==
  /\ escrow'[id].attestations = escrow[id].attestations
  /\ escrow'[id].submittedAt = escrow[id].submittedAt
  /\ escrow'[id].pins = escrow[id].pins

SameWindow(id) == escrow'[id].challengeDeadline = escrow[id].challengeDeadline

(* The status changes to s and nothing else does.                          *)
Becomes(id, s) ==
  SameTerms(id) /\ SameWork(id) /\ SameWindow(id) /\ escrow'[id].status = s

(* The step locks a stake of the protocol, under the next bond id.         *)
NewStake(purpose) ==
  /\ bondSeq \notin DOMAIN bond /\ bondSeq \in DOMAIN bond'
  /\ bond'[bondSeq].slasher = NoAddr /\ bond'[bondSeq].purpose = purpose
  /\ bond'[bondSeq].status = "active"

Stays(id) == escrow'[id] = escrow[id]

Submits(id) ==
  /\ escrow[id].status = "locked" /\ escrow'[id].status = "submitted"
  /\ SameTerms(id) /\ SameWindow(id)
  /\ escrow'[id].attestations = escrow[id].attestations
  /\ escrow'[id].submittedAt = now

Releases(id) ==
  /\ Releasable(id) /\ Becomes(id, "released")
  /\ id \in conceded' \/ (~escrow[id].noAutoRelease /\ now >= escrow[id].deadline)

Refunds(id) == Refundable(id) /\ Becomes(id, "refunded")

Freezes(id) ==
  escrow[id].status = "submitted" /\ escrow[id].verifiers = {} /\ Becomes(id, "disputed")

(* a is the attestation that is added, with its stake.                     *)
Attests(id, a) ==
  /\ Attestable(id) /\ MayAttest(a.verifier, id) /\ a.bondId = bondSeq /\ a.attestedAt = now
  /\ NewStake(AttestationPurpose(id)) /\ bond'[bondSeq].amount >= escrow[id].amount
  /\ SameTerms(id) /\ escrow'[id].submittedAt = escrow[id].submittedAt
  /\ escrow'[id].attestations = escrow[id].attestations \cup {a}
  /\ escrow'[id].status = IF a.passed THEN "submitted" ELSE "fail_attested"
  /\ escrow'[id].challengeDeadline =
       IF a.passed THEN escrow[id].challengeDeadline ELSE now + ChallengeWindow

Verifies(id) ==
  /\ VerifierBound(id) /\ escrow[id].status = "submitted" /\ VerifierQuorum(id)
  /\ SameTerms(id) /\ SameWork(id) /\ escrow'[id].status = "released"
  /\ escrow'[id].challengeDeadline = now + ChallengeWindow
  /\ id \in revealed'

Contests(id) ==
  /\ \E c \in Addr, n \in Amount : OpenDispute(c, id, n)
  /\ \E c \in Addr : MayOpenDispute(c, id)
  /\ Becomes(id, FrozenStatus(id))

Judges(id) ==
  \E d \in DOMAIN dispute :
    /\ ResolveDispute(d)
    /\ dispute[d].status = "open" /\ dispute[d].escrowId = id
    /\ Frozen(id) /\ Becomes(id, VerdictStatus(d))
    /\ d \in DOMAIN dispute' /\ dispute'[d].escrowId = id
    /\ dispute'[d].status = "resolved"
    /\ dispute'[d].resolution = IF Accepted(d) THEN "accept" ELSE "reject"

Moves(id) ==
  \/ Stays(id) \/ Submits(id) \/ Releases(id) \/ Refunds(id) \/ Freezes(id)
  \/ \E a \in AttestationRecord : Attests(id, a)
  \/ Verifies(id) \/ Contests(id) \/ Judges(id)

(* A new escrow.                                                           *)
Fresh(id) ==
  /\ escrow'[id].status = "locked" /\ escrow'[id].attestations = {}
  /\ escrow'[id].submittedAt = 0 /\ escrow'[id].challengeDeadline = 0
  /\ escrow'[id].verifiers # {} => escrow'[id].quorum >= 1

(* What a step does to the escrows, and to the history about them.         *)
EscrowStep ==
  /\ DOMAIN escrow \subseteq DOMAIN escrow'
  /\ \A id \in DOMAIN escrow : Moves(id)
  /\ \A id \in DOMAIN escrow' \ DOMAIN escrow : Fresh(id)
  /\ now' >= now /\ conceded \subseteq conceded'
  /\ revealed \subseteq revealed'
  /\ \A id \in revealed' \ revealed : id \in DOMAIN escrow /\ Verifies(id)

(* A change of one escrow only.                                            *)
OneMoves(id) ==
  /\ DOMAIN escrow' = DOMAIN escrow
  /\ \A i \in DOMAIN escrow \ {id} : escrow'[i] = escrow[i]
  /\ Moves(id)

LEMMA StatusBecomes ==
  ASSUME TypeOK, NEW id \in DOMAIN escrow, NEW s, escrow' = [escrow EXCEPT ![id].status = s]
  PROVE  /\ DOMAIN escrow' = DOMAIN escrow
         /\ \A i \in DOMAIN escrow \ {id} : escrow'[i] = escrow[i]
         /\ Becomes(id, s)
<1> DEFINE e == [escrow[id] EXCEPT !.status = s]
<1>1. /\ e.payer = escrow[id].payer /\ e.payee = escrow[id].payee /\ e.amount = escrow[id].amount
      /\ e.deadline = escrow[id].deadline /\ e.noAutoRelease = escrow[id].noAutoRelease
      /\ e.verifiers = escrow[id].verifiers /\ e.quorum = escrow[id].quorum
      /\ e.attestations = escrow[id].attestations /\ e.submittedAt = escrow[id].submittedAt
      /\ e.challengeDeadline = escrow[id].challengeDeadline /\ e.status = s
      /\ e.pins = escrow[id].pins
  BY EscrowFields DEF EscrowRecord
<1>2. escrow' = [escrow EXCEPT ![id] = e]
  OBVIOUS
<1> HIDE DEF e
<1> QED BY <1>1, <1>2 DEF Becomes, SameTerms, SameWork, SameWindow

LEMMA LockStakeIsNew ==
  ASSUME TypeOK, NEW p, NEW n, NEW u, LockStake(p, n, u, NoAddr)
  PROVE  NewStake(u) /\ bond'[bondSeq].amount = n /\ bond'[bondSeq].poster = p
<1> DEFINE b == [poster |-> p, amount |-> n, purpose |-> u, slasher |-> NoAddr,
                 status |-> "active"]
<1>1. /\ b.poster = p /\ b.amount = n /\ b.purpose = u /\ b.slasher = NoAddr
      /\ b.status = "active"
  OBVIOUS
<1>2. bond' = Put(bond, bondSeq, b)
  BY DEF LockStake
<1>3. bondSeq \notin DOMAIN bond
  BY DEF TypeOK, BondsTypeOK
<1> HIDE DEF b
<1> QED BY <1>1, <1>2, <1>3 DEF Put, NewStake

LEMMA SubmitMoves ==
  ASSUME TypeOK, NEW c, NEW id \in DOMAIN escrow, NEW t, SubmitEscrow(c, id, t)
  PROVE  OneMoves(id)
<1> DEFINE e == [escrow[id] EXCEPT !.status = "submitted",
                                   !.pins.deliveryHash = t.deliveryHash,
                                   !.pins.keyHash = t.keyHash,
                                   !.submittedAt = now]
<1>1. /\ e.payer = escrow[id].payer /\ e.payee = escrow[id].payee /\ e.amount = escrow[id].amount
      /\ e.deadline = escrow[id].deadline /\ e.noAutoRelease = escrow[id].noAutoRelease
      /\ e.verifiers = escrow[id].verifiers /\ e.quorum = escrow[id].quorum
      /\ e.attestations = escrow[id].attestations /\ e.submittedAt = now
      /\ e.challengeDeadline = escrow[id].challengeDeadline /\ e.status = "submitted"
  BY EscrowFields DEF EscrowRecord
<1>2. escrow' = [escrow EXCEPT ![id] = e] /\ escrow[id].status = "locked"
  BY DEF SubmitEscrow, Submittable
<1> HIDE DEF e
<1>3. Submits(id)
  BY <1>1, <1>2 DEF Submits, SameTerms, SameWindow
<1> QED BY <1>2, <1>3 DEF OneMoves, Moves

LEMMA AttestMoves ==
  ASSUME TypeOK, NEW c \in Addr, NEW id \in DOMAIN escrow, NEW t \in AttestTerms,
         AttestEscrow(c, id, t)
  PROVE  /\ OneMoves(id)
         /\ \E a \in AttestationRecord : Attests(id, a)
<1> DEFINE a == [verifier |-> c, passed |-> t.passed, bondId |-> bondSeq,
                 pins |-> escrow[id].pins, attestedAt |-> now]
           e == AttestedEscrow(escrow[id], a)
<1>1. escrow[id].status = "submitted" /\ MayAttest(c, id)
  BY DEF AttestEscrow, Attestable
<1>2. a \in AttestationRecord
  <2>1. t.passed \in BOOLEAN
    BY EscrowAssumption
  <2> QED BY <2>1, EscrowFields DEF AttestationRecord, TypeOK, BondsTypeOK, EscrowsTypeOK
<1>3. a.verifier = c /\ a.bondId = bondSeq /\ a.attestedAt = now
  OBVIOUS
<1>4. /\ e.payer = escrow[id].payer /\ e.payee = escrow[id].payee /\ e.amount = escrow[id].amount
      /\ e.deadline = escrow[id].deadline /\ e.noAutoRelease = escrow[id].noAutoRelease
      /\ e.verifiers = escrow[id].verifiers /\ e.quorum = escrow[id].quorum
      /\ e.attestations = escrow[id].attestations \cup {a}
      /\ e.submittedAt = escrow[id].submittedAt
      /\ e.status = (IF a.passed THEN "submitted" ELSE "fail_attested")
      /\ e.challengeDeadline =
           (IF a.passed THEN escrow[id].challengeDeadline ELSE now + ChallengeWindow)
  <2> HIDE DEF a
  <2> QED BY <1>1, EscrowFields DEF EscrowRecord, AttestedEscrow
<1>5. escrow' = [escrow EXCEPT ![id] = e]
  BY DEF AttestEscrow
<1>6. NewStake(AttestationPurpose(id)) /\ bond'[bondSeq].amount >= escrow[id].amount
  BY LockStakeIsNew DEF AttestEscrow, CoversEscrow
<1> HIDE DEF e, a
<1>7. Attests(id, a)
  BY <1>1, <1>3, <1>4, <1>5, <1>6 DEF Attests, Attestable, SameTerms
<1> QED BY <1>2, <1>5, <1>7 DEF OneMoves, Moves

LEMMA VerifiedReleaseMoves ==
  ASSUME TypeOK, NEW id \in DOMAIN escrow, NEW key, VerifiedRelease(id, key)
  PROVE  OneMoves(id) /\ Verifies(id)
<1> DEFINE e == [escrow[id] EXCEPT !.status = "released",
                                   !.challengeDeadline = now + ChallengeWindow]
<1>1. /\ e.payer = escrow[id].payer /\ e.payee = escrow[id].payee /\ e.amount = escrow[id].amount
      /\ e.deadline = escrow[id].deadline /\ e.noAutoRelease = escrow[id].noAutoRelease
      /\ e.verifiers = escrow[id].verifiers /\ e.quorum = escrow[id].quorum
      /\ e.attestations = escrow[id].attestations /\ e.submittedAt = escrow[id].submittedAt
      /\ e.challengeDeadline = now + ChallengeWindow /\ e.status = "released"
      /\ e.pins = escrow[id].pins
  BY EscrowFields DEF EscrowRecord
<1>2. escrow' = [escrow EXCEPT ![id] = e]
  BY DEF VerifiedRelease
<1> HIDE DEF e
<1>3. Verifies(id)
  BY <1>1, <1>2 DEF Verifies, VerifiedRelease, SameTerms, SameWork
<1> QED BY <1>2, <1>3 DEF OneMoves, Moves

LEMMA JudgeMoves ==
  ASSUME TypeOK, DisputesRefer, NEW d \in DOMAIN dispute, ResolveDispute(d)
  PROVE  OneMoves(dispute[d].escrowId) /\ Judges(dispute[d].escrowId)
<1> DEFINE id == dispute[d].escrowId
<1>1. id \in DOMAIN escrow
  BY DEF DisputesRefer
<1>2. escrow' = [escrow EXCEPT ![id].status = VerdictStatus(d)]
  BY DEF ResolveDispute
<1>3. dispute[d].status = "open" /\ Frozen(id)
  BY DEF ResolveDispute, Case, Frozen
<1>4. /\ d \in DOMAIN dispute' /\ dispute'[d].escrowId = id
      /\ dispute'[d].status = "resolved"
      /\ dispute'[d].resolution = IF Accepted(d) THEN "accept" ELSE "reject"
  BY DisputeFields DEF ResolveDispute, DisputeRecord
<1> HIDE DEF id
<1>5. /\ DOMAIN escrow' = DOMAIN escrow
      /\ \A i \in DOMAIN escrow \ {id} : escrow'[i] = escrow[i]
      /\ Becomes(id, VerdictStatus(d))
  BY <1>1, <1>2, StatusBecomes
<1>6. Judges(id)
  BY <1>3, <1>4, <1>5 DEF Judges, id
<1> QED BY <1>5, <1>6 DEF OneMoves, Moves, id

LEMMA LockFresh ==
  ASSUME TypeOK, NEW p \in Addr, NEW t \in LockTerms, LockEscrow(p, t)
  PROVE  /\ DOMAIN escrow' = DOMAIN escrow \cup {escrowSeq} /\ escrowSeq \notin DOMAIN escrow
         /\ \A id \in DOMAIN escrow : escrow'[id] = escrow[id]
         /\ Fresh(escrowSeq)
<1> DEFINE e == LockedEscrow(p, t)
<1>1. /\ e.status = "locked" /\ e.attestations = {} /\ e.submittedAt = 0
      /\ e.challengeDeadline = 0 /\ e.verifiers = Members(t.verifiers) /\ e.quorum = t.quorum
  BY DEF LockedEscrow
<1>2. t.verifiers \in Seq(Addr) /\ t.quorum \in Nat
  BY EscrowAssumption
<1>3. Members(t.verifiers) # {} => t.quorum >= 1
  <2>1. ASSUME t.verifiers # <<>> PROVE t.quorum >= 1
    <3>1. t.quorum \in 1..Len(t.verifiers)
      BY <2>1 DEF LockEscrow, ValidVerifiers
    <3>2. Len(t.verifiers) \in Nat
      BY <1>2
    <3> QED BY <3>1, <3>2
  <2>2. t.verifiers = <<>> => Members(t.verifiers) = {}
    BY DEF Members
  <2> QED BY <2>1, <2>2
<1>4. escrow' = Put(escrow, escrowSeq, e)
  BY DEF LockEscrow
<1>5. escrowSeq \notin DOMAIN escrow
  BY DEF TypeOK, EscrowsTypeOK
<1> HIDE DEF e
<1> QED BY <1>1, <1>3, <1>4, <1>5 DEF Put, Fresh

(* Every step of the market moves every escrow in one of these ways.       *)
LEMMA EscrowSteps ==
  ASSUME TypeOK, DisputesRefer, [Next]_vars
  PROVE  EscrowStep
<1>0. now \in Nat
  BY DEF TypeOK, EscrowsTypeOK
<1>1. CASE UNCHANGED <<escrow, conceded, revealed>> /\ now' >= now
  BY <1>1 DEF EscrowStep, Moves, Stays
<1>2. ASSUME NEW id \in DOMAIN escrow, OneMoves(id), now' = now, conceded \subseteq conceded',
             revealed' = revealed \/ (revealed' = revealed \cup {id} /\ Verifies(id))
      PROVE  EscrowStep
  <2>1. \A i \in DOMAIN escrow : Moves(i)
    BY <1>2 DEF OneMoves, Moves, Stays
  <2> QED BY <1>0, <1>2, <2>1 DEF OneMoves, EscrowStep
<1>3. ASSUME NEW p \in Addr, NEW t \in LockTerms, LockEscrow(p, t)
      PROVE  EscrowStep
  <2>1. UNCHANGED <<now, revealed, conceded>>
    BY <1>3 DEF LockEscrow
  <2>2. \A id \in DOMAIN escrow : Moves(id)
    BY <1>3, LockFresh DEF Moves, Stays
  <2> QED BY <1>0, <1>3, <2>1, <2>2, LockFresh DEF EscrowStep
<1>4. ASSUME NEW id \in DOMAIN escrow, NEW c \in Addr, NEW t \in SubmitTerms,
             SubmitEscrow(c, id, t)
      PROVE  EscrowStep
  <2>1. OneMoves(id)
    BY <1>4, SubmitMoves
  <2> QED BY <1>2, <1>4, <2>1 DEF SubmitEscrow
<1>5. ASSUME NEW id \in DOMAIN escrow, NEW c \in Addr, ReleaseEscrow(c, id)
      PROVE  EscrowStep
  <2>1. /\ DOMAIN escrow' = DOMAIN escrow
        /\ \A i \in DOMAIN escrow \ {id} : escrow'[i] = escrow[i]
        /\ Becomes(id, "released")
    BY <1>5, StatusBecomes DEF ReleaseEscrow
  <2>2. Releases(id)
    BY <1>5, <2>1 DEF ReleaseEscrow, Releases, MayRelease
  <2>3. OneMoves(id)
    BY <2>1, <2>2 DEF OneMoves, Moves
  <2> QED BY <1>2, <1>5, <2>3 DEF ReleaseEscrow
<1>6. ASSUME NEW id \in DOMAIN escrow, NEW c \in Addr, RefundEscrow(c, id)
      PROVE  EscrowStep
  <2>1. /\ DOMAIN escrow' = DOMAIN escrow
        /\ \A i \in DOMAIN escrow \ {id} : escrow'[i] = escrow[i]
        /\ Becomes(id, "refunded")
    BY <1>6, StatusBecomes DEF RefundEscrow
  <2>2. OneMoves(id)
    BY <1>6, <2>1 DEF OneMoves, Moves, Refunds, RefundEscrow
  <2> QED BY <1>2, <1>6, <2>2 DEF RefundEscrow
<1>7. ASSUME NEW id \in DOMAIN escrow, NEW c \in Addr, DisputeEscrow(c, id)
      PROVE  EscrowStep
  <2>1. /\ DOMAIN escrow' = DOMAIN escrow
        /\ \A i \in DOMAIN escrow \ {id} : escrow'[i] = escrow[i]
        /\ Becomes(id, "disputed")
    BY <1>7, StatusBecomes DEF DisputeEscrow
  <2>2. OneMoves(id)
    BY <1>7, <2>1 DEF OneMoves, Moves, Freezes, DisputeEscrow, VerifierBound
  <2> QED BY <1>2, <1>7, <2>2 DEF DisputeEscrow
<1>8. ASSUME NEW id \in DOMAIN escrow, NEW c \in Addr, NEW t \in AttestTerms,
             AttestEscrow(c, id, t)
      PROVE  EscrowStep
  <2>1. OneMoves(id)
    BY <1>8, AttestMoves
  <2> QED BY <1>2, <1>8, <2>1 DEF AttestEscrow
<1>9. ASSUME NEW id \in DOMAIN escrow, NEW key \in Key, VerifiedRelease(id, key)
      PROVE  EscrowStep
  <2>1. OneMoves(id) /\ Verifies(id)
    BY <1>9, VerifiedReleaseMoves
  <2> QED BY <1>2, <1>9, <2>1 DEF VerifiedRelease
<1>10. ASSUME NEW id \in DOMAIN escrow, NEW c \in Addr, NEW n \in Amount, OpenDispute(c, id, n)
       PROVE  EscrowStep
  <2>1. /\ DOMAIN escrow' = DOMAIN escrow
        /\ \A i \in DOMAIN escrow \ {id} : escrow'[i] = escrow[i]
        /\ Becomes(id, FrozenStatus(id))
    BY <1>10, StatusBecomes DEF OpenDispute
  <2>2. MayOpenDispute(c, id)
    BY <1>10 DEF OpenDispute
  <2>3. Contests(id)
    BY <1>10, <2>1, <2>2 DEF Contests
  <2>4. OneMoves(id)
    BY <2>1, <2>3 DEF OneMoves, Moves
  <2> QED BY <1>2, <1>10, <2>4 DEF OpenDispute
<1>11. ASSUME NEW d \in DOMAIN dispute, ResolveDispute(d)
       PROVE  EscrowStep
  <2>1. dispute[d].escrowId \in DOMAIN escrow
    BY DEF DisputesRefer
  <2>2. OneMoves(dispute[d].escrowId)
    BY <1>11, JudgeMoves
  <2> QED BY <1>2, <1>11, <2>1, <2>2 DEF ResolveDispute
<1>12. CASE LedgerNext /\ UNCHANGED <<bondVars, escrowVars, juryVars>>
  BY <1>0, <1>1, <1>12 DEF escrowVars
<1>13. CASE BondsNext /\ UNCHANGED <<escrowVars, juryVars>>
  BY <1>0, <1>1, <1>13 DEF escrowVars
<1>14. CASE EscrowsNext /\ UNCHANGED juryVars
  <2>1. CASE Tick
    BY <1>0, <1>1, <2>1 DEF Tick
  <2>2. ASSUME NEW id \in DOMAIN escrow, ReclaimAttestationBonds(id) PROVE EscrowStep
    BY <1>0, <1>1, <2>2 DEF ReclaimAttestationBonds, escrowVars
  <2> QED
    BY <1>3, <1>4, <1>5, <1>6, <1>7, <1>8, <1>9, <1>14, <2>1, <2>2 DEF EscrowsNext
<1>15. CASE JuryNext
  <2>1. ASSUME NEW c \in Addr, NEW d \in DOMAIN dispute, NEW accept \in BOOLEAN,
               NEW n \in Amount, CastVote(c, d, accept, n)
        PROVE  EscrowStep
    BY <1>0, <1>1, <2>1 DEF CastVote, escrowVars
  <2>2. ASSUME NEW new \in AnchorSets, UpdateParams(new) PROVE EscrowStep
    BY <1>0, <1>1, <2>2 DEF UpdateParams, escrowVars
  <2> QED
    BY <1>10, <1>11, <1>15, <2>1, <2>2 DEF JuryNext
<1>16. CASE UNCHANGED vars
  BY <1>0, <1>1, <1>16 DEF vars, escrowVars
<1> QED
  BY <1>12, <1>13, <1>14, <1>15, <1>16 DEF Next

-----------------------------------------------------------------------------
(* What a step does to one bond: it keeps its terms, and if it changes at  *)
(* all, an active bond is resolved, by its slasher, by a verdict or by a   *)
(* reclaim.                                                                *)

BySlasher(b) ==
  /\ bond[b].slasher # NoAddr /\ UNCHANGED <<escrow, dispute, now>>
  /\ \A x \in DOMAIN bond \ {b} : bond'[x] = bond[x]

ByVerdict(b) ==
  \E d \in DOMAIN dispute : ResolveDispute(d) /\ b \in SettledBonds(VerdictClaims(d))

ByReclaim(b) ==
  \E id \in DOMAIN escrow :
    ReclaimAttestationBonds(id) /\ UNCHANGED juryVars /\ b \in SettledBonds(ReclaimClaims(id))

BondMoves(b) ==
  /\ b \in DOMAIN bond'
  /\ bond'[b].amount = bond[b].amount /\ bond'[b].purpose = bond[b].purpose
  /\ bond'[b].slasher = bond[b].slasher
  /\ \/ bond'[b] = bond[b]
     \/ /\ ActiveBond(b) /\ bond'[b].status # "active"
        /\ BySlasher(b) \/ ByVerdict(b) \/ ByReclaim(b)

LEMMA BondFields ==
  ASSUME TypeOK, NEW b \in DOMAIN bond
  PROVE  bond[b] \in BondRecord /\ b \in Nat /\ bond[b].amount \in Nat
BY DEF TypeOK, BondsTypeOK, BondRecord

LEMMA SettledMoves ==
  ASSUME TypeOK, NEW bal, NEW acc, NEW claims, SettleClaims(bal, acc, claims),
         NEW b \in DOMAIN bond
  PROVE  /\ b \in DOMAIN bond'
         /\ bond'[b].amount = bond[b].amount /\ bond'[b].purpose = bond[b].purpose
         /\ bond'[b].slasher = bond[b].slasher
         /\ b \notin SettledBonds(claims) => bond'[b] = bond[b]
         /\ b \in SettledBonds(claims) => ActiveBond(b) /\ bond'[b].status # "active"
<1> DEFINE s == SettledStatus(ClaimOn(claims, b))
<1>1. s # "active"
  BY DEF SettledStatus
<1>2. bond[b] \in BondRecord
  BY BondFields
<1>3. /\ b \in DOMAIN bond'
      /\ bond'[b] = IF b \in SettledBonds(claims) THEN [bond[b] EXCEPT !.status = s] ELSE bond[b]
  BY DEF SettleClaims
<1>4. b \in SettledBonds(claims) => ActiveBond(b)
  BY DEF SettledBonds, Settling
<1> HIDE DEF s
<1> QED BY <1>1, <1>2, <1>3, <1>4 DEF BondRecord

LEMMA ResolvedMoves ==
  ASSUME TypeOK, NEW id \in DOMAIN bond, NEW s \in {"released", "slashed"}, ActiveBond(id),
         bond[id].slasher # NoAddr, bond' = [bond EXCEPT ![id].status = s],
         UNCHANGED <<escrow, dispute, now>>, NEW b \in DOMAIN bond
  PROVE  BondMoves(b)
<1>1. \A x \in DOMAIN bond \ {id} : bond'[x] = bond[x]
  OBVIOUS
<1>2. /\ b \in DOMAIN bond'
      /\ bond'[b].amount = bond[b].amount /\ bond'[b].purpose = bond[b].purpose
      /\ bond'[b].slasher = bond[b].slasher
  BY BondFields DEF BondRecord
<1>3. CASE b = id
  <2>1. bond'[b].status # "active"
    BY <1>3, BondFields DEF BondRecord
  <2>2. BySlasher(b)
    BY <1>1, <1>3 DEF BySlasher
  <2> QED BY <1>2, <1>3, <2>1, <2>2 DEF BondMoves
<1>4. CASE b # id
  BY <1>1, <1>2, <1>4 DEF BondMoves
<1> QED BY <1>3, <1>4

(* Every step of the market keeps every bond or resolves it so.            *)
LEMMA BondSteps ==
  ASSUME TypeOK, [Next]_vars, NEW b \in DOMAIN bond
  PROVE  BondMoves(b)
<1>1. CASE UNCHANGED bond
  BY <1>1 DEF BondMoves
<1>2. ASSUME NEW p, NEW n, NEW u, NEW s, LockStake(p, n, u, s)
      PROVE  BondMoves(b)
  <2>1. b \in DOMAIN bond' /\ bond'[b] = bond[b]
    BY <1>2 DEF LockStake, Put, TypeOK, BondsTypeOK
  <2> QED BY <2>1 DEF BondMoves
<1>3. CASE BondsNext /\ UNCHANGED <<escrowVars, juryVars>>
  <2>0. UNCHANGED <<escrow, dispute, now>>
    BY <1>3 DEF escrowVars, juryVars
  <2>1. ASSUME NEW a \in Addr, NEW t \in BondTerms, PostBond(a, t) PROVE BondMoves(b)
    BY <1>2, <2>1 DEF PostBond
  <2>2. ASSUME NEW a \in Addr, NEW id \in DOMAIN bond, MayResolve(a, id)
        PROVE  ActiveBond(id) /\ bond[id].slasher # NoAddr
    BY <2>2, AddrAssumption DEF MayResolve
  <2>3. ASSUME NEW a \in Addr, NEW id \in DOMAIN bond, ReleaseBond(a, id) PROVE BondMoves(b)
    <3>1. bond' = [bond EXCEPT ![id].status = "released"] /\ MayResolve(a, id)
      BY <2>3 DEF ReleaseBond
    <3> QED BY <2>0, <2>2, <3>1, ResolvedMoves
  <2>4. ASSUME NEW a \in Addr, NEW id \in DOMAIN bond, NEW to \in Addr \cup {NoAddr},
               SlashBond(a, id, to)
        PROVE  BondMoves(b)
    <3>1. bond' = [bond EXCEPT ![id].status = "slashed"] /\ MayResolve(a, id)
      BY <2>4 DEF SlashBond
    <3> QED BY <2>0, <2>2, <3>1, ResolvedMoves
  <2> QED BY <1>3, <2>1, <2>3, <2>4 DEF BondsNext
<1>4. CASE EscrowsNext /\ UNCHANGED juryVars
  <2>1. ASSUME NEW id \in DOMAIN escrow, NEW c \in Addr, NEW t \in AttestTerms,
               AttestEscrow(c, id, t)
        PROVE  BondMoves(b)
    BY <1>2, <2>1 DEF AttestEscrow
  <2>2. ASSUME NEW id \in DOMAIN escrow, ReclaimAttestationBonds(id)
        PROVE  BondMoves(b)
    <3>1. SettleClaims(balance, account, ReclaimClaims(id))
      BY <2>2 DEF ReclaimAttestationBonds
    <3>2. b \in SettledBonds(ReclaimClaims(id)) => ByReclaim(b)
      BY <1>4, <2>2 DEF ByReclaim
    <3> QED BY <3>1, <3>2, SettledMoves DEF BondMoves
  <2> QED
    BY <1>1, <1>4, <2>1, <2>2 DEF EscrowsNext, LockEscrow, SubmitEscrow, ReleaseEscrow,
       RefundEscrow, DisputeEscrow, VerifiedRelease, Tick, bondVars
<1>5. CASE JuryNext
  <2>1. ASSUME NEW c \in Addr, NEW id \in DOMAIN escrow, NEW n \in Amount, OpenDispute(c, id, n)
        PROVE  BondMoves(b)
    BY <1>2, <2>1 DEF OpenDispute
  <2>2. ASSUME NEW c \in Addr, NEW d \in DOMAIN dispute, NEW accept \in BOOLEAN,
               NEW n \in Amount, CastVote(c, d, accept, n)
        PROVE  BondMoves(b)
    BY <1>2, <2>2 DEF CastVote
  <2>3. ASSUME NEW d \in DOMAIN dispute, ResolveDispute(d)
        PROVE  BondMoves(b)
    <3>1. SettleClaims(EscrowToWinner(d), RegisteredWinner(d), VerdictClaims(d))
      BY <2>3 DEF ResolveDispute
    <3>2. b \in SettledBonds(VerdictClaims(d)) => ByVerdict(b)
      BY <2>3 DEF ByVerdict
    <3> QED BY <3>1, <3>2, SettledMoves DEF BondMoves
  <2> QED
    BY <1>1, <1>5, <2>1, <2>2, <2>3 DEF JuryNext, UpdateParams, bondVars
<1> QED
  BY <1>1, <1>3, <1>4, <1>5 DEF Next, bondVars, vars

-----------------------------------------------------------------------------
(* What a step does to one dispute.                                        *)

SameCase(d) ==
  /\ d \in DOMAIN dispute' /\ dispute'[d].escrowId = dispute[d].escrowId
  /\ dispute'[d].opener = dispute[d].opener /\ dispute'[d].bondId = dispute[d].bondId

SameOutcome(d) ==
  dispute'[d].status = dispute[d].status /\ dispute'[d].resolution = dispute[d].resolution

Votes(d) ==
  /\ dispute[d].status = "open" /\ SameOutcome(d) /\ NewStake(JurorPurpose(d))
  /\ \E v \in VoteRecord :
       v.bondId = bondSeq /\ dispute'[d].votes = dispute[d].votes \cup {v}

Concludes(d) ==
  /\ ResolveDispute(d) /\ dispute[d].status = "open" /\ dispute'[d].status = "resolved"
  /\ dispute'[d].votes = dispute[d].votes
  /\ dispute'[d].resolution = IF Accepted(d) THEN "accept" ELSE "reject"

DisputeMoves(d) ==
  /\ SameCase(d)
  /\ dispute'[d] = dispute[d] \/ Votes(d) \/ Concludes(d)

Opens(d) ==
  \E c \in Addr, id \in DOMAIN escrow, n \in Amount :
    /\ OpenDispute(c, id, n)
    /\ dispute'[d].escrowId = id /\ dispute'[d].opener = c /\ dispute'[d].status = "open"
    /\ dispute'[d].votes = {} /\ dispute'[d].bondId = bondSeq
    /\ NewStake(DisputePurpose(d))

LEMMA OpenEffect ==
  ASSUME TypeOK, NEW c \in Addr, NEW id \in DOMAIN escrow, NEW n \in Amount,
         OpenDispute(c, id, n)
  PROVE  /\ DOMAIN dispute' = DOMAIN dispute \cup {disputeSeq}
         /\ disputeSeq \notin DOMAIN dispute
         /\ \A d \in DOMAIN dispute : dispute'[d] = dispute[d]
         /\ Opens(disputeSeq)
<1> DEFINE r == [escrowId |-> id, opener |-> c, status |-> "open",
                 resolution |-> "none", votes |-> {}, bondId |-> bondSeq]
<1>1. /\ r.escrowId = id /\ r.opener = c /\ r.status = "open" /\ r.votes = {}
      /\ r.bondId = bondSeq
  OBVIOUS
<1>2. dispute' = Put(dispute, disputeSeq, r)
  BY DEF OpenDispute
<1>3. disputeSeq \notin DOMAIN dispute
  BY DEF TypeOK, JuryTypeOK
<1>4. NewStake(DisputePurpose(disputeSeq))
  BY LockStakeIsNew DEF OpenDispute
<1> HIDE DEF r
<1>5. /\ DOMAIN dispute' = DOMAIN dispute \cup {disputeSeq}
      /\ dispute'[disputeSeq] = r
      /\ \A d \in DOMAIN dispute : dispute'[d] = dispute[d]
  BY <1>2, <1>3 DEF Put
<1> QED BY <1>1, <1>3, <1>4, <1>5 DEF Opens

LEMMA VoteEffect ==
  ASSUME TypeOK, NEW c \in Addr, NEW d \in DOMAIN dispute, NEW accept \in BOOLEAN,
         NEW n \in Amount, CastVote(c, d, accept, n)
  PROVE  /\ DOMAIN dispute' = DOMAIN dispute
         /\ \A e \in DOMAIN dispute \ {d} : dispute'[e] = dispute[e]
         /\ SameCase(d) /\ Votes(d)
<1> DEFINE v == [juror |-> c, accept |-> accept, bondId |-> bondSeq]
           r == [dispute[d] EXCEPT !.votes = @ \cup {v}]
<1>1. v \in VoteRecord /\ v.bondId = bondSeq
  BY DEF VoteRecord, TypeOK, BondsTypeOK
<1>2. dispute' = [dispute EXCEPT ![d] = r]
  BY DEF CastVote
<1> HIDE DEF v
<1>3. /\ r.escrowId = dispute[d].escrowId /\ r.opener = dispute[d].opener
      /\ r.bondId = dispute[d].bondId /\ r.status = dispute[d].status
      /\ r.resolution = dispute[d].resolution /\ r.votes = dispute[d].votes \cup {v}
  BY DisputeFields DEF DisputeRecord
<1>4. NewStake(JurorPurpose(d)) /\ dispute[d].status = "open"
  BY LockStakeIsNew DEF CastVote
<1> HIDE DEF r
<1>5. DOMAIN dispute' = DOMAIN dispute /\ dispute'[d] = r
      /\ \A e \in DOMAIN dispute \ {d} : dispute'[e] = dispute[e]
  BY <1>2
<1>6. Votes(d)
  BY <1>1, <1>3, <1>4, <1>5 DEF Votes, SameOutcome
<1> QED BY <1>3, <1>5, <1>6 DEF SameCase

LEMMA ResolveEffect ==
  ASSUME TypeOK, NEW d \in DOMAIN dispute, ResolveDispute(d)
  PROVE  /\ DOMAIN dispute' = DOMAIN dispute
         /\ \A e \in DOMAIN dispute \ {d} : dispute'[e] = dispute[e]
         /\ SameCase(d) /\ Concludes(d)
<1> DEFINE out == IF Accepted(d) THEN "accept" ELSE "reject"
           r == [dispute[d] EXCEPT !.status = "resolved", !.resolution = out]
<1>1. dispute' = [dispute EXCEPT ![d] = r] /\ dispute[d].status = "open"
  BY DEF ResolveDispute
<1>2. /\ r.escrowId = dispute[d].escrowId /\ r.opener = dispute[d].opener
      /\ r.bondId = dispute[d].bondId /\ r.status = "resolved"
      /\ r.resolution = out /\ r.votes = dispute[d].votes
  <2> HIDE DEF out
  <2> QED BY DisputeFields DEF DisputeRecord
<1> HIDE DEF r
<1>3. DOMAIN dispute' = DOMAIN dispute /\ dispute'[d] = r
      /\ \A e \in DOMAIN dispute \ {d} : dispute'[e] = dispute[e]
  BY <1>1
<1> QED BY <1>1, <1>2, <1>3 DEF SameCase, Concludes

(* Every step keeps the cases, and opens a new one only by OpenDispute.    *)
LEMMA DisputeSteps ==
  ASSUME TypeOK, [Next]_vars
  PROVE  /\ \A d \in DOMAIN dispute : DisputeMoves(d)
         /\ \A d \in DOMAIN dispute' \ DOMAIN dispute : Opens(d)
<1>1. CASE UNCHANGED dispute
  BY <1>1 DEF DisputeMoves, SameCase
<1>2. ASSUME NEW c \in Addr, NEW id \in DOMAIN escrow, NEW n \in Amount, OpenDispute(c, id, n)
      PROVE  /\ \A d \in DOMAIN dispute : DisputeMoves(d)
             /\ \A d \in DOMAIN dispute' \ DOMAIN dispute : Opens(d)
  BY <1>2, OpenEffect DEF DisputeMoves, SameCase
<1>3. ASSUME NEW c \in Addr, NEW d \in DOMAIN dispute, NEW accept \in BOOLEAN,
             NEW n \in Amount, CastVote(c, d, accept, n)
      PROVE  DOMAIN dispute' = DOMAIN dispute /\ \A e \in DOMAIN dispute : DisputeMoves(e)
  BY <1>3, VoteEffect DEF DisputeMoves, SameCase
<1>4. ASSUME NEW d \in DOMAIN dispute, ResolveDispute(d)
      PROVE  DOMAIN dispute' = DOMAIN dispute /\ \A e \in DOMAIN dispute : DisputeMoves(e)
  BY <1>4, ResolveEffect DEF DisputeMoves, SameCase
<1> QED
  BY <1>1, <1>2, <1>3, <1>4 DEF Next, JuryNext, UpdateParams, juryVars, vars

-----------------------------------------------------------------------------
(* The parts of MarketInv survive every step.                              *)

LEMMA StakeStays ==
  ASSUME TypeOK, [Next]_vars, NEW b, NEW u, IsStake(b, u)
  PROVE  IsStake(b, u)' /\ bond'[b].amount = bond[b].amount
<1>1. BondMoves(b)
  BY BondSteps DEF IsStake
<1> QED BY <1>1 DEF BondMoves, IsStake

LEMMA DisputeStakesStep ==
  ASSUME TypeOK, DisputeStakes, [Next]_vars
  PROVE  DisputeStakes'
<1> DEFINE Stake(b, u) ==
      b \in DOMAIN bond' /\ bond'[b].slasher = NoAddr /\ bond'[b].purpose = u
<1> SUFFICES ASSUME NEW d \in DOMAIN dispute'
             PROVE  /\ Stake(dispute'[d].bondId, DisputePurpose(d))
                    /\ \A v \in dispute'[d].votes : Stake(v.bondId, JurorPurpose(d))
  BY DEF DisputeStakes, IsStake, DisputePurpose, JurorPurpose
<1>0. ASSUME NEW u, NewStake(u) PROVE Stake(bondSeq, u)
  BY <1>0 DEF NewStake
<1>1. ASSUME NEW b, NEW u, IsStake(b, u) PROVE Stake(b, u)
  BY <1>1, StakeStays DEF IsStake
<1> HIDE DEF Stake
<1>2. CASE d \in DOMAIN dispute
  <2>1. DisputeMoves(d)
    BY <1>2, DisputeSteps
  <2>2. Stake(dispute'[d].bondId, DisputePurpose(d))
    BY <1>1, <1>2, <2>1 DEF DisputeMoves, SameCase, DisputeStakes
  <2>3. ASSUME NEW v \in dispute'[d].votes PROVE Stake(v.bondId, JurorPurpose(d))
    <3>1. CASE v \in dispute[d].votes
      BY <1>1, <1>2, <3>1 DEF DisputeStakes
    <3>2. CASE v \notin dispute[d].votes
      <4>1. Votes(d)
        BY <2>1, <2>3, <3>2 DEF DisputeMoves, Concludes
      <4>2. v.bondId = bondSeq /\ NewStake(JurorPurpose(d))
        BY <2>3, <3>2, <4>1 DEF Votes
      <4> QED BY <1>0, <4>2
    <3> QED BY <3>1, <3>2
  <2> QED BY <2>2, <2>3
<1>3. CASE d \notin DOMAIN dispute
  <2>1. Opens(d)
    BY <1>3, DisputeSteps
  <2> QED BY <1>0, <2>1 DEF Opens
<1> QED BY <1>2, <1>3

(* Attestations are added only by AttestEscrow.                            *)
LEMMA AttestationsMove ==
  ASSUME NEW id, Moves(id)
  PROVE  \/ escrow'[id].attestations = escrow[id].attestations
         \/ \E a \in AttestationRecord : Attests(id, a)
BY DEF Moves, Stays, Submits, Releases, Refunds, Freezes, Verifies, Contests, Judges, Becomes,
       SameWork

LEMMA TermsStay ==
  ASSUME NEW id, Moves(id)
  PROVE  SameTerms(id)
BY DEF Moves, Stays, Submits, Releases, Refunds, Freezes, Attests, Verifies, Contests, Judges,
       Becomes, SameTerms

LEMMA AttestationsBackedStep ==
  ASSUME TypeOK, DisputesRefer, AttestationsBacked, [Next]_vars
  PROVE  AttestationsBacked'
<1> SUFFICES ASSUME NEW id \in DOMAIN escrow', NEW a \in escrow'[id].attestations
             PROVE  /\ IsStake(a.bondId, AttestationPurpose(id))'
                    /\ bond'[a.bondId].amount >= escrow'[id].amount
  BY DEF AttestationsBacked, AttestationPurpose
<1>0. EscrowStep
  BY EscrowSteps
<1>1. id \in DOMAIN escrow /\ Moves(id) /\ SameTerms(id)
  BY <1>0, TermsStay DEF EscrowStep, Fresh
<1>2. CASE a \in escrow[id].attestations
  <2>1. IsStake(a.bondId, AttestationPurpose(id)) /\ bond[a.bondId].amount >= escrow[id].amount
    BY <1>1, <1>2 DEF AttestationsBacked
  <2> QED BY <1>1, <2>1, StakeStays DEF SameTerms
<1>3. CASE a \notin escrow[id].attestations
  <2>1. PICK b \in AttestationRecord : Attests(id, b)
    BY <1>1, <1>3, AttestationsMove
  <2>2. a.bondId = bondSeq /\ NewStake(AttestationPurpose(id))
        /\ bond'[bondSeq].amount >= escrow[id].amount
    BY <1>3, <2>1 DEF Attests
  <2> QED BY <1>1, <2>2 DEF NewStake, IsStake, SameTerms
<1> QED BY <1>2, <1>3

LEMMA AttestationsDifferStep ==
  ASSUME TypeOK, DisputesRefer, AttestationsBacked, AttestationsDiffer, [Next]_vars
  PROVE  AttestationsDiffer'
<1> SUFFICES ASSUME NEW id \in DOMAIN escrow'
             PROVE  \A a \in escrow'[id].attestations :
                      /\ a.verifier \in escrow'[id].verifiers
                      /\ \A b \in escrow'[id].attestations :
                           a.verifier = b.verifier \/ a.bondId = b.bondId => a = b
  BY DEF AttestationsDiffer
<1>0. EscrowStep
  BY EscrowSteps
<1>1. CASE id \notin DOMAIN escrow
  BY <1>0, <1>1 DEF EscrowStep, Fresh
<1>2. CASE id \in DOMAIN escrow
  <2>1. Moves(id) /\ escrow'[id].verifiers = escrow[id].verifiers
    BY <1>0, <1>2, TermsStay DEF EscrowStep, SameTerms
  <2>2. CASE escrow'[id].attestations = escrow[id].attestations
    BY <1>2, <2>1, <2>2 DEF AttestationsDiffer
  <2>3. ASSUME NEW x \in AttestationRecord, Attests(id, x)
        PROVE  \A a \in escrow'[id].attestations :
                 /\ a.verifier \in escrow'[id].verifiers
                 /\ \A b \in escrow'[id].attestations :
                      a.verifier = b.verifier \/ a.bondId = b.bondId => a = b
    <3>1. /\ escrow'[id].attestations = escrow[id].attestations \cup {x}
          /\ MayAttest(x.verifier, id) /\ x.bondId = bondSeq /\ bondSeq \notin DOMAIN bond
      BY <2>3 DEF Attests, NewStake
    <3>2. \A a \in escrow[id].attestations : a.verifier # x.verifier /\ a.bondId # x.bondId
      BY <1>2, <3>1 DEF AttestationsBacked, IsStake, MayAttest
    <3>3. x.verifier \in escrow[id].verifiers
      BY <3>1 DEF MayAttest
    <3> QED BY <1>2, <2>1, <3>1, <3>2, <3>3 DEF AttestationsDiffer
  <2> QED BY <2>1, <2>2, <2>3, AttestationsMove
<1> QED BY <1>1, <1>2

(* The numbers an escrow holds.                                            *)
LEMMA EscrowNumbers ==
  ASSUME TypeOK, NEW id \in DOMAIN escrow
  PROVE  /\ escrow[id].submittedAt \in Nat /\ escrow[id].challengeDeadline \in Nat
         /\ escrow[id].quorum \in Nat /\ escrow[id].deadline \in Int
         /\ escrow[id].verifiers \subseteq Addr
         /\ \A a \in escrow[id].attestations : a.passed \in BOOLEAN /\ a.attestedAt \in Nat
<1>1. escrow[id] \in EscrowRecord
  BY EscrowFields
<1>2. escrow[id].attestations \subseteq AttestationRecord
  BY EscrowFields
<1>3. \A a \in escrow[id].attestations : a.passed \in BOOLEAN /\ a.attestedAt \in Nat
  BY <1>2 DEF AttestationRecord
<1> QED BY <1>1, <1>3 DEF EscrowRecord

LEMMA TimeTypes ==
  ASSUME TypeOK
  PROVE  now \in Nat /\ now > 0 /\ ChallengeWindow \in Nat /\ ChallengeWindow > 0
BY EscrowAssumption DEF TypeOK, EscrowsTypeOK

(* A quorum of at least one verdict contains one.                          *)
LEMMA QuorumPasses ==
  ASSUME TypeOK, NEW id \in DOMAIN escrow, VerifierQuorum(id), escrow[id].quorum >= 1
  PROVE  \E a \in escrow[id].attestations : a.passed
<1>1. CountedPasses(id) # {}
  <2>1. SUFFICES ASSUME CountedPasses(id) = {} PROVE FALSE
    OBVIOUS
  <2>2. Cardinality(CountedPasses(id)) = 0
    BY <2>1, FS_EmptySet
  <2> QED BY <2>2, EscrowNumbers DEF VerifierQuorum
<1> QED BY <1>1 DEF CountedPasses

LEMMA LifecycleStep ==
  ASSUME TypeOK, TypeOK', DisputesRefer, AttestationsDiffer, Lifecycle, [Next]_vars
  PROVE  Lifecycle'
<1>0. EscrowStep
  BY EscrowSteps
<1>1. revealed' \subseteq DOMAIN escrow'
  BY <1>0 DEF EscrowStep, Lifecycle
<1>2. ASSUME NEW id \in DOMAIN escrow' PROVE EscrowLifecycle(id)'
  <2>0. now' \in Nat /\ now \in Nat /\ now' >= now /\ ChallengeWindow \in Nat
    BY <1>0, TimeTypes DEF EscrowStep, TypeOK, EscrowsTypeOK
  <2>1. CASE id \notin DOMAIN escrow
    <3>1. Fresh(id) /\ id \notin revealed'
      BY <1>0, <1>2, <2>1 DEF EscrowStep, Lifecycle
    <3> QED BY <2>0, <3>1 DEF Fresh, EscrowLifecycle
  <2>2. CASE id \in DOMAIN escrow
    <3>0. EscrowLifecycle(id) /\ Moves(id) /\ (id \in revealed' => id \in revealed \/ Verifies(id))
      BY <1>0, <2>2 DEF EscrowStep, Lifecycle
    <3>1. /\ escrow[id].submittedAt \in Nat /\ escrow[id].challengeDeadline \in Nat
          /\ escrow[id].quorum \in Nat
      BY <2>2, EscrowNumbers
    <3>a. id \in revealed' => \E a \in escrow[id].attestations : a.passed
      BY <2>2, <3>0, QuorumPasses DEF Verifies, VerifierBound, EscrowLifecycle
    <3>2. CASE Stays(id)
      BY <2>0, <3>0, <3>1, <3>2 DEF Stays, EscrowLifecycle, Verifies
    <3>3. CASE Submits(id)
      BY <2>0, <3>0, <3>1, <3>3 DEF Submits, SameTerms, SameWindow, EscrowLifecycle, Verifies
    <3>4. CASE Releases(id)
      BY <2>0, <3>0, <3>1, <3>4, <3>a DEF Releases, Releasable, Becomes, SameTerms, SameWork,
         SameWindow, EscrowLifecycle
    <3>5. CASE Refunds(id)
      BY <2>0, <3>0, <3>1, <3>5 DEF Refunds, Refundable, Becomes, SameTerms, SameWork,
         SameWindow, EscrowLifecycle, Verifies
    <3>6. CASE Freezes(id)
      BY <2>0, <3>0, <3>1, <3>6 DEF Freezes, Becomes, SameTerms, SameWork, SameWindow,
         EscrowLifecycle, Verifies
    <3>7. ASSUME NEW a \in AttestationRecord, Attests(id, a) PROVE EscrowLifecycle(id)'
      BY <2>0, <3>0, <3>1, <3>7 DEF Attests, Attestable, SameTerms, EscrowLifecycle, Verifies,
         AttestationRecord
    <3>8. CASE Verifies(id)
      BY <2>0, <3>0, <3>1, <3>8, <3>a DEF Verifies, SameTerms, SameWork, EscrowLifecycle
    <3>9. CASE Contests(id)
      <4>1. escrow'[id].status \in {"challenged", "in_jury"}
        BY <3>9 DEF Contests, Becomes, FrozenStatus
      <4> QED
        BY <2>0, <3>0, <3>1, <3>9, <4>1 DEF Contests, Becomes, SameTerms, SameWork,
           SameWindow, EscrowLifecycle, Verifies
    <3>10. CASE Judges(id)
      <4>1. escrow'[id].status \in {"released", "refunded"}
        BY <3>10 DEF Judges, Becomes, VerdictStatus
      <4>2. SameTerms(id) /\ SameWork(id) /\ SameWindow(id) /\ Frozen(id)
        BY <3>10 DEF Judges, Becomes
      <4> QED
        BY <2>0, <3>0, <3>1, <4>1, <4>2 DEF SameTerms, SameWork,
           SameWindow, EscrowLifecycle, Verifies, Frozen
    <3> QED
      BY <3>0, <3>2, <3>3, <3>4, <3>5, <3>6, <3>7, <3>8, <3>9, <3>10 DEF Moves
  <2> QED BY <2>1, <2>2
<1> QED BY <1>1, <1>2 DEF Lifecycle

(* A case that is not concluded by the step keeps its outcome.             *)
LEMMA OutcomeStays ==
  ASSUME NEW d, DisputeMoves(d)
  PROVE  SameCase(d) /\ (SameOutcome(d) \/ Concludes(d))
BY DEF DisputeMoves, Votes, SameOutcome

(* Where an escrow with a verdict can go.                                  *)
LEMMA AfterVerdict ==
  ASSUME NEW id, Moves(id), escrow[id].status \in {"released", "refunded", "challenged"}
  PROVE  /\ escrow'[id].status \in {"released", "refunded", "challenged"}
         /\ escrow'[id].attestations = escrow[id].attestations
<1>1. ~Submits(id) /\ ~Releases(id) /\ ~Refunds(id) /\ ~Freezes(id) /\ ~Verifies(id)
  BY DEF Submits, Releases, Releasable, Refunds, Refundable, Freezes, Verifies
<1>2. \A a \in AttestationRecord : ~Attests(id, a)
  BY DEF Attests, Attestable
<1>3. CASE Stays(id)
  BY <1>3 DEF Stays
<1>4. CASE Contests(id)
  <2>1. escrow[id].status = "released"
    BY <1>4 DEF Contests, MayOpenDispute
  <2> QED BY <1>4, <2>1 DEF Contests, FrozenStatus, Becomes, SameWork
<1>5. CASE Judges(id)
  <2>1. PICK d \in DOMAIN dispute : Becomes(id, VerdictStatus(d))
    BY <1>5 DEF Judges
  <2> QED BY <2>1 DEF Becomes, VerdictStatus, SameWork
<1> QED BY <1>1, <1>2, <1>3, <1>4, <1>5 DEF Moves

LEMMA VerdictsLastStep ==
  ASSUME TypeOK, DisputesRefer, VerdictsLast, [Next]_vars
  PROVE  VerdictsLast'
<1> SUFFICES ASSUME NEW d \in DOMAIN dispute', dispute'[d].status = "resolved"
             PROVE  escrow'[dispute'[d].escrowId].status \in {"released", "refunded", "challenged"}
  BY DEF VerdictsLast, Case
<1>1. d \in DOMAIN dispute
  BY DisputeSteps DEF Opens
<1>2. SameCase(d) /\ (SameOutcome(d) \/ Concludes(d))
  BY <1>1, DisputeSteps, OutcomeStays
<1> DEFINE id == dispute[d].escrowId
<1>3. id \in DOMAIN escrow /\ dispute'[d].escrowId = id
  BY <1>1, <1>2 DEF DisputesRefer, SameCase
<1>4. CASE SameOutcome(d)
  <2>1. escrow[id].status \in {"released", "refunded", "challenged"}
    BY <1>1, <1>4 DEF VerdictsLast, Case, SameOutcome
  <2>2. Moves(id)
    BY <1>3, EscrowSteps DEF EscrowStep
  <2> HIDE DEF id
  <2> QED BY <1>3, <2>1, <2>2, AfterVerdict
<1>5. CASE Concludes(d)
  <2>1. Becomes(id, VerdictStatus(d))
    BY <1>1, <1>3, <1>5, StatusBecomes DEF Concludes, ResolveDispute
  <2> QED BY <1>3, <2>1 DEF Becomes, VerdictStatus
<1> QED BY <1>2, <1>4, <1>5

(* A step that neither opens nor concludes a case about an escrow leaves   *)
(* it frozen, or not frozen.                                               *)
LEMMA FrozenStays ==
  ASSUME NEW id, Moves(id), ~Contests(id), ~Judges(id)
  PROVE  Frozen(id)' <=> Frozen(id)
<1>1. CASE Stays(id)
  BY <1>1 DEF Stays, Frozen
<1>2. CASE Submits(id) \/ Releases(id) \/ Refunds(id) \/ Freezes(id) \/ Verifies(id)
  BY <1>2 DEF Submits, Releases, Releasable, Refunds, Refundable, Freezes, Verifies, Becomes,
     Frozen
<1>3. ASSUME NEW a \in AttestationRecord, Attests(id, a) PROVE Frozen(id)' <=> Frozen(id)
  BY <1>3 DEF Attests, Attestable, Frozen
<1> QED BY <1>1, <1>2, <1>3 DEF Moves

LEMMA JuryControlStep ==
  ASSUME TypeOK, DisputesRefer, DisputesRefer', JuryControl, [Next]_vars
  PROVE  JuryControl'
<1> SUFFICES ASSUME NEW id \in DOMAIN escrow'
             PROVE  /\ Frozen(id)' <=> OpenOn(id)' # {}
                    /\ \A d, e \in OpenOn(id)' : d = e
  BY DEF JuryControl, DisputesRefer
<1>0. EscrowStep
  BY EscrowSteps
<1>1. \A d \in DOMAIN dispute' \ DOMAIN dispute : Opens(d) /\ dispute'[d].escrowId \in DOMAIN escrow
  BY DisputeSteps DEF Opens
<1>2. ASSUME NEW d \in DOMAIN dispute
      PROVE  /\ d \in DOMAIN dispute' /\ dispute'[d].escrowId = dispute[d].escrowId
             /\ dispute[d].escrowId \in DOMAIN escrow
             /\ SameOutcome(d) \/ Concludes(d)
  BY <1>2, DisputeSteps, OutcomeStays DEF SameCase, DisputesRefer
<1>3. CASE id \notin DOMAIN escrow
  <2>1. OpenOn(id)' = {}
    BY <1>1, <1>2, <1>3 DEF OpenOn
  <2>2. ~Frozen(id)'
    BY <1>0, <1>3 DEF EscrowStep, Fresh, Frozen
  <2> QED BY <2>1, <2>2
<1>4. CASE id \in DOMAIN escrow /\ Contests(id)
  <2>1. PICK c \in Addr, n \in Amount : OpenDispute(c, id, n)
    BY <1>4 DEF Contests
  <2>2. /\ DOMAIN dispute' = DOMAIN dispute \cup {disputeSeq}
        /\ disputeSeq \notin DOMAIN dispute
        /\ \A d \in DOMAIN dispute : dispute'[d] = dispute[d]
        /\ dispute'[disputeSeq].status = "open"
    BY <1>4, <2>1, OpenEffect DEF Opens
  <2>3. dispute'[disputeSeq].escrowId = id
    BY <2>1, DisputeFields DEF OpenDispute, Put
  <2>4. ~Frozen(id)
    BY <1>4 DEF Contests, MayOpenDispute, Frozen
  <2>5. OpenOn(id) = {}
    BY <1>4, <2>4 DEF JuryControl
  <2>6. OpenOn(id)' = {disputeSeq}
    BY <2>2, <2>3, <2>5 DEF OpenOn
  <2>7. Frozen(id)'
    BY <1>4 DEF Contests, Becomes, FrozenStatus, Frozen
  <2> QED BY <2>6, <2>7
<1>5. CASE id \in DOMAIN escrow /\ Judges(id)
  <2>1. PICK d \in DOMAIN dispute : /\ ResolveDispute(d) /\ dispute[d].escrowId = id
                                    /\ dispute[d].status = "open"
                                    /\ Becomes(id, VerdictStatus(d))
    BY <1>5 DEF Judges
  <2>2. /\ DOMAIN dispute' = DOMAIN dispute
        /\ \A e \in DOMAIN dispute \ {d} : dispute'[e] = dispute[e]
        /\ dispute'[d].status = "resolved"
    BY <2>1, ResolveEffect DEF Concludes
  <2>3. d \in OpenOn(id)
    BY <2>1 DEF OpenOn
  <2>4. OpenOn(id)' = {}
    BY <1>5, <2>2, <2>3 DEF OpenOn, JuryControl
  <2>5. ~Frozen(id)'
    BY <2>1 DEF Becomes, VerdictStatus, Frozen
  <2> QED BY <2>4, <2>5
<1>6. CASE id \in DOMAIN escrow /\ ~Contests(id) /\ ~Judges(id)
  <2>1. Frozen(id)' <=> Frozen(id)
    BY <1>0, <1>6, FrozenStays DEF EscrowStep
  <2>2. ASSUME NEW d \in DOMAIN dispute' \ DOMAIN dispute PROVE dispute'[d].escrowId # id
    <3>1. SUFFICES ASSUME dispute'[d].escrowId = id PROVE FALSE
      OBVIOUS
    <3>2. PICK c \in Addr, n \in Amount : OpenDispute(c, id, n)
      BY <2>2, <3>1, DisputeSteps DEF Opens
    <3>3. Becomes(id, FrozenStatus(id)) /\ MayOpenDispute(c, id)
      BY <1>6, <3>2, StatusBecomes DEF OpenDispute
    <3>4. Contests(id)
      BY <3>2, <3>3 DEF Contests
    <3> QED BY <1>6, <3>4
  <2>3. ASSUME NEW d \in DOMAIN dispute, dispute[d].escrowId = id PROVE SameOutcome(d)
    <3>1. SUFFICES ASSUME ResolveDispute(d) PROVE FALSE
      BY <1>2 DEF Concludes
    <3>2. Judges(id)
      BY <2>3, <3>1, JudgeMoves
    <3> QED BY <1>6, <3>2
  <2>4. OpenOn(id)' = OpenOn(id)
    BY <1>2, <2>2, <2>3 DEF OpenOn, SameOutcome
  <2> QED BY <1>6, <2>1, <2>4 DEF JuryControl
<1> QED BY <1>3, <1>4, <1>5, <1>6

LEMMA PayerChallengesStep ==
  ASSUME TypeOK, DisputesRefer, JuryControl, PayerChallenges, [Next]_vars
  PROVE  PayerChallenges'
<1> SUFFICES ASSUME NEW d \in DOMAIN dispute', dispute'[d].status = "open",
                    escrow'[dispute'[d].escrowId].status = "challenged"
             PROVE  dispute'[d].opener = escrow'[dispute'[d].escrowId].payer
  BY DEF PayerChallenges, Challenged, Case
<1>1. CASE d \notin DOMAIN dispute
  <2>1. PICK c \in Addr, id \in DOMAIN escrow, n \in Amount :
          OpenDispute(c, id, n) /\ dispute'[d].escrowId = id /\ dispute'[d].opener = c
    BY <1>1, DisputeSteps DEF Opens
  <2>2. Becomes(id, FrozenStatus(id)) /\ MayOpenDispute(c, id)
    BY <2>1, StatusBecomes DEF OpenDispute
  <2>3. escrow[id].status = "released"
    BY <2>1, <2>2 DEF Becomes, FrozenStatus
  <2>4. c = escrow[id].payer
    BY <2>2, <2>3 DEF MayOpenDispute
  <2> QED BY <2>1, <2>2, <2>4 DEF Becomes, SameTerms
<1>2. CASE d \in DOMAIN dispute
  <2> DEFINE id == dispute[d].escrowId
  <2>1. SameCase(d) /\ SameOutcome(d) /\ id \in DOMAIN escrow
    BY <1>2, DisputeSteps, OutcomeStays DEF Concludes, DisputesRefer
  <2>2. d \in OpenOn(id) /\ Frozen(id)
    BY <1>2, <2>1 DEF OpenOn, SameOutcome, JuryControl
  <2>3. Moves(id)
    BY <2>1, EscrowSteps DEF EscrowStep
  <2> HIDE DEF id
  <2>4. escrow[id].status = "challenged"
    <3>1. ~Contests(id)
      BY <2>2 DEF Contests, MayOpenDispute, Frozen
    <3>2. ~Submits(id) /\ ~Releases(id) /\ ~Refunds(id) /\ ~Freezes(id) /\ ~Verifies(id)
          /\ \A a \in AttestationRecord : ~Attests(id, a)
      BY <2>2 DEF Submits, Releases, Releasable, Refunds, Refundable, Freezes, Verifies,
         Attests, Attestable, Frozen
    <3>3. escrow'[id].status = "challenged"
      BY <2>1 DEF id, SameCase
    <3>4. ~Judges(id)
      BY <3>3 DEF Judges, Becomes, VerdictStatus
    <3> QED BY <2>3, <3>1, <3>2, <3>3, <3>4 DEF Moves, Stays
  <2>5. dispute[d].opener = escrow[id].payer
    BY <1>2, <2>2, <2>4 DEF PayerChallenges, Challenged, Case, OpenOn, id
  <2>6. SameTerms(id)
    BY <2>3, TermsStay
  <2> QED BY <2>1, <2>5, <2>6 DEF SameCase, SameTerms, id
<1> QED BY <1>1, <1>2

-----------------------------------------------------------------------------
(* Which bonds a verdict or a reclaim settles.                             *)

LEMMA VerdictSettles ==
  ASSUME NEW d, NEW b, b \in SettledBonds(VerdictClaims(d))
  PROVE  \/ b = dispute[d].bondId /\ bond[b].purpose = DisputePurpose(d)
         \/ b \in StakesOf(d) /\ bond[b].purpose = JurorPurpose(d)
         \/ /\ b \in AttestationStakes(dispute[d].escrowId)
            /\ bond[b].purpose = AttestationPurpose(dispute[d].escrowId)
BY DEF SettledBonds, Settling, VerdictClaims, DisputeClaims, JurorClaims, AttestationClaims,
       StakesOf, AttestationStakes, Case

LEMMA VerdictSettlesOwn ==
  ASSUME DisputeStakes, AttestationsBacked, DisputesRefer, NEW d \in DOMAIN dispute, NEW b,
         ActiveBond(b), b \in StakesOf(d) \cup AttestationStakes(dispute[d].escrowId)
  PROVE  b \in SettledBonds(VerdictClaims(d))
<1>1. CASE b = dispute[d].bondId
  <2> DEFINE c == [id |-> dispute[d].bondId, purpose |-> DisputePurpose(d),
                   keeps |-> OpenerUpheld(d), owner |-> dispute[d].opener,
                   forfeitTo |-> Griefed(d)]
  <2>1. c \in VerdictClaims(d) /\ c.id = b /\ c.purpose = DisputePurpose(d)
    BY <1>1 DEF VerdictClaims, DisputeClaims
  <2> HIDE DEF c
  <2>2. bond[b].purpose = DisputePurpose(d)
    BY <1>1 DEF DisputeStakes, IsStake
  <2> QED BY <2>1, <2>2 DEF SettledBonds, Settling
<1>2. ASSUME NEW v \in dispute[d].votes, b = v.bondId PROVE b \in SettledBonds(VerdictClaims(d))
  <2> DEFINE c == [id |-> v.bondId, purpose |-> JurorPurpose(d),
                   keeps |-> v.accept = Accepted(d), owner |-> v.juror,
                   forfeitTo |-> Winner(d)]
  <2>1. c \in VerdictClaims(d) /\ c.id = b /\ c.purpose = JurorPurpose(d)
    BY <1>2 DEF VerdictClaims, JurorClaims
  <2> HIDE DEF c
  <2>2. bond[b].purpose = JurorPurpose(d)
    BY <1>2 DEF DisputeStakes, IsStake
  <2> QED BY <2>1, <2>2 DEF SettledBonds, Settling
<1>3. ASSUME NEW a \in escrow[dispute[d].escrowId].attestations, b = a.bondId
      PROVE  b \in SettledBonds(VerdictClaims(d))
  <2> DEFINE c == [id |-> a.bondId, purpose |-> AttestationPurpose(dispute[d].escrowId),
                   keeps |-> a.passed = Accepted(d), owner |-> a.verifier,
                   forfeitTo |-> Winner(d)]
  <2>1. c \in VerdictClaims(d) /\ c.id = b
        /\ c.purpose = AttestationPurpose(dispute[d].escrowId)
    BY <1>3 DEF VerdictClaims, AttestationClaims, Case
  <2> HIDE DEF c
  <2>2. bond[b].purpose = AttestationPurpose(dispute[d].escrowId)
    BY <1>3 DEF AttestationsBacked, IsStake, DisputesRefer
  <2> QED BY <2>1, <2>2 DEF SettledBonds, Settling
<1> QED BY <1>1, <1>2, <1>3 DEF StakesOf, AttestationStakes

LEMMA ReclaimSettles ==
  ASSUME NEW id, NEW b, b \in SettledBonds(ReclaimClaims(id))
  PROVE  b \in AttestationStakes(id) /\ bond[b].purpose = AttestationPurpose(id)
BY DEF SettledBonds, Settling, ReclaimClaims, AttestationStakes

(* Purposes of different kinds, or about different ids, differ.            *)
LEMMA PurposesDiffer ==
  /\ \A i, j : DisputePurpose(i) = DisputePurpose(j) => i = j
  /\ \A i, j : JurorPurpose(i) = JurorPurpose(j) => i = j
  /\ \A i, j : AttestationPurpose(i) = AttestationPurpose(j) => i = j
  /\ \A i, j : /\ DisputePurpose(i) # JurorPurpose(j)
               /\ DisputePurpose(i) # AttestationPurpose(j)
               /\ JurorPurpose(i) # AttestationPurpose(j)
BY DEF DisputePurpose, JurorPurpose, AttestationPurpose

(* A stake of a case is resolved only by its own verdict.                  *)
LEMMA CaseStakesHeld ==
  ASSUME TypeOK, DisputeStakes, [Next]_vars,
         NEW d \in DOMAIN dispute, NEW b \in StakesOf(d), ~ResolveDispute(d)
  PROVE  ActiveBond(b)' <=> ActiveBond(b)
<1>1. b \in DOMAIN bond /\ bond[b].slasher = NoAddr
      /\ bond[b].purpose \in {DisputePurpose(d), JurorPurpose(d)}
  BY DEF DisputeStakes, StakesOf, IsStake
<1>2. BondMoves(b)
  BY <1>1, BondSteps
<1>3. ~BySlasher(b)
  BY <1>1 DEF BySlasher
<1>4. ~ByVerdict(b)
  BY <1>1, VerdictSettles, PurposesDiffer DEF ByVerdict
<1>5. ~ByReclaim(b)
  BY <1>1, ReclaimSettles, PurposesDiffer DEF ByReclaim
<1> QED BY <1>1, <1>2, <1>3, <1>4, <1>5 DEF BondMoves, ActiveBond

LEMMA VerdictSettlesStakesStep ==
  ASSUME TypeOK, DisputesRefer, DisputeStakes, AttestationsBacked, VerdictsLast,
         VerdictSettlesStakes, [Next]_vars
  PROVE  VerdictSettlesStakes'
<1> SUFFICES ASSUME NEW d \in DOMAIN dispute'
             PROVE  /\ \A b \in StakesOf(d)' : ActiveBond(b)' <=> dispute'[d].status = "open"
                    /\ dispute'[d].status = "resolved" =>
                         \A b \in AttestationStakes(dispute[d].escrowId)' : ~ActiveBond(b)'
  BY DEF VerdictSettlesStakes
<1>1. CASE d \notin DOMAIN dispute
  <2>1. Opens(d)
    BY <1>1, DisputeSteps
  <2>2. dispute'[d].status = "open" /\ StakesOf(d)' = {bondSeq}
    BY <2>1 DEF Opens, StakesOf
  <2>3. bondSeq \in DOMAIN bond' /\ bond'[bondSeq].status = "active"
    BY <2>1 DEF Opens, NewStake
  <2> QED BY <2>2, <2>3 DEF ActiveBond
<1>2. CASE d \in DOMAIN dispute
  <2> DEFINE id == dispute[d].escrowId
  <2>1. DisputeMoves(d) /\ SameCase(d) /\ (SameOutcome(d) \/ Concludes(d))
    BY <1>2, DisputeSteps, OutcomeStays
  <2>2. id \in DOMAIN escrow /\ Moves(id) /\ dispute'[d].escrowId = id
    BY <1>2, <2>1, EscrowSteps DEF EscrowStep, SameCase, DisputesRefer
  <2>3. CASE Concludes(d)
    <3>1. StakesOf(d)' = StakesOf(d)
      BY <2>1, <2>3 DEF Concludes, SameCase, StakesOf
    <3>2. AttestationStakes(id)' = AttestationStakes(id)
      BY <1>2, <2>2, <2>3, StatusBecomes
         DEF Concludes, ResolveDispute, Becomes, SameWork, AttestationStakes
    <3>3. ASSUME NEW b \in StakesOf(d) \cup AttestationStakes(id) PROVE ~ActiveBond(b)'
      <4>1. SettleClaims(EscrowToWinner(d), RegisteredWinner(d), VerdictClaims(d))
        BY <2>3 DEF Concludes, ResolveDispute
      <4>2. b \in DOMAIN bond
        BY <1>2, <2>2, <3>3 DEF StakesOf, AttestationStakes, DisputeStakes, AttestationsBacked,
           IsStake
      <4>3. CASE ActiveBond(b)
        BY <1>2, <3>3, <4>1, <4>2, <4>3, VerdictSettlesOwn, SettledMoves DEF ActiveBond
      <4>4. CASE ~ActiveBond(b)
        BY <4>2, <4>4, BondSteps DEF BondMoves, ActiveBond
      <4> QED BY <4>3, <4>4
    <3> QED BY <2>2, <2>3, <3>1, <3>2, <3>3 DEF Concludes
  <2>4. CASE SameOutcome(d)
    <3>0. ~ResolveDispute(d)
      BY <1>2, <2>4, ResolveEffect DEF Concludes, SameOutcome
    <3>1. ASSUME NEW b \in StakesOf(d)' PROVE ActiveBond(b)' <=> dispute'[d].status = "open"
      <4>1. CASE b \in StakesOf(d)
        BY <1>2, <2>4, <3>0, <4>1, CaseStakesHeld DEF SameOutcome, VerdictSettlesStakes
      <4>2. CASE b \notin StakesOf(d)
        <5>1. Votes(d)
          BY <2>1, <2>4, <3>1, <4>2 DEF DisputeMoves, Concludes, SameOutcome, SameCase, StakesOf
        <5>2. b = bondSeq
          BY <2>1, <3>1, <4>2, <5>1 DEF Votes, StakesOf, SameCase
        <5> QED BY <5>1, <5>2 DEF Votes, SameOutcome, NewStake, ActiveBond
      <4> QED BY <4>1, <4>2
    <3>2. ASSUME dispute'[d].status = "resolved", NEW b \in AttestationStakes(id)'
          PROVE  ~ActiveBond(b)'
      <4>1. dispute[d].status = "resolved"
        BY <2>4, <3>2 DEF SameOutcome
      <4>2. escrow[id].status \in {"released", "refunded", "challenged"}
        BY <1>2, <4>1 DEF VerdictsLast, Case
      <4>3. b \in AttestationStakes(id)
        <5>1. escrow'[id].attestations = escrow[id].attestations
          <6> HIDE DEF id
          <6> QED BY <2>2, <4>2, AfterVerdict
        <5> QED BY <2>2, <3>2, <5>1 DEF AttestationStakes
      <4>4. b \in DOMAIN bond /\ ~ActiveBond(b)
        BY <1>2, <2>2, <4>1, <4>3 DEF VerdictSettlesStakes, AttestationStakes,
           AttestationsBacked, IsStake
      <4> QED BY <4>4, BondSteps DEF BondMoves, ActiveBond
    <3> QED BY <2>2, <3>1, <3>2
  <2> QED BY <2>1, <2>3, <2>4
<1> QED BY <1>1, <1>2

-----------------------------------------------------------------------------
(* Verdicts are for good.                                                  *)

LEMMA VerdictsStay ==
  ASSUME TypeOK, [Next]_vars, NEW id
  PROVE  /\ Verdicts(id) \subseteq Verdicts(id)'
         /\ \A r : VerdictOn(id, r) => VerdictOn(id, r)'
<1>1. ASSUME NEW d \in Verdicts(id)
      PROVE  d \in Verdicts(id)' /\ dispute'[d].resolution = dispute[d].resolution
  <2>1. d \in DOMAIN dispute /\ dispute[d].status = "resolved" /\ dispute[d].escrowId = id
    BY DEF Verdicts
  <2>2. SameCase(d) /\ SameOutcome(d)
    BY <2>1, DisputeSteps, OutcomeStays DEF Concludes
  <2> QED BY <2>1, <2>2 DEF SameCase, SameOutcome, Verdicts
<1> QED BY <1>1 DEF VerdictOn

(* The stakes behind the verdicts on an escrow are still needed.           *)
InWindow(id) ==
  escrow[id].status = "submitted" \/ Frozen(id) \/ escrow[id].challengeDeadline > now

(* No step opens the window again: it was open before, or there was        *)
(* nothing to back.                                                        *)
LEMMA WindowNotReopened ==
  ASSUME TypeOK, TypeOK', DisputesRefer, Lifecycle, AttestationsDiffer, [Next]_vars,
         NEW id \in DOMAIN escrow, Moves(id), InWindow(id)'
  PROVE  InWindow(id) \/ escrow[id].attestations = {}
<1>0. now \in Nat /\ now' \in Nat /\ now' >= now
  BY EscrowSteps DEF EscrowStep, TypeOK, EscrowsTypeOK
<1>1. escrow[id].challengeDeadline \in Nat
  BY EscrowNumbers
<1>2. EscrowLifecycle(id)
  BY DEF Lifecycle
<1>3. escrow[id].verifiers = {} => escrow[id].attestations = {}
  BY DEF AttestationsDiffer
<1>4. CASE Stays(id)
  BY <1>0, <1>1, <1>4 DEF Stays, InWindow, Frozen
<1>5. CASE Submits(id)
  BY <1>2, <1>5 DEF Submits, EscrowLifecycle
<1>6. CASE Releases(id) \/ Refunds(id)
  <2>1. Becomes(id, "released") \/ Becomes(id, "refunded")
    BY <1>6 DEF Releases, Refunds
  <2>2. escrow[id].challengeDeadline > now
    BY <1>0, <1>1, <2>1 DEF Becomes, SameWindow, InWindow, Frozen
  <2> QED BY <2>2 DEF InWindow
<1>7. CASE Freezes(id) \/ Verifies(id)
  BY <1>7 DEF Freezes, Verifies, InWindow
<1>8. ASSUME NEW a \in AttestationRecord, Attests(id, a) PROVE InWindow(id)
  BY <1>8 DEF Attests, Attestable, InWindow
<1>9. CASE Contests(id)
  BY <1>2, <1>3, <1>9 DEF Contests, MayOpenDispute, EscrowLifecycle, InWindow
<1>10. CASE Judges(id)
  BY <1>10 DEF Judges, InWindow
<1> QED BY <1>4, <1>5, <1>6, <1>7, <1>8, <1>9, <1>10 DEF Moves

LEMMA CollateralStep ==
  ASSUME TypeOK, TypeOK', DisputesRefer, AttestationsBacked, AttestationsBacked',
         AttestationsDiffer, Lifecycle, CollateralThroughWindow, [Next]_vars
  PROVE  CollateralThroughWindow'
<1> SUFFICES ASSUME NEW id \in DOMAIN escrow', Verdicts(id)' = {}, InWindow(id)',
                    NEW a \in escrow'[id].attestations
             PROVE  Covered(id, a.bondId)'
  BY DEF CollateralThroughWindow, InWindow, AttestationStakes
<1>0. EscrowStep
  BY EscrowSteps
<1>1. id \in DOMAIN escrow /\ Moves(id)
  BY <1>0 DEF EscrowStep, Fresh
<1>2. bond'[a.bondId].amount >= escrow'[id].amount
  BY DEF AttestationsBacked
<1>3. CASE a \in escrow[id].attestations
  <2>1. InWindow(id)
    BY <1>1, <1>3, WindowNotReopened
  <2>2. Verdicts(id) = {}
    BY VerdictsStay
  <2>3. Covered(id, a.bondId)
    BY <1>1, <1>3, <2>1, <2>2 DEF CollateralThroughWindow, InWindow, AttestationStakes
  <2>4. a.bondId \in DOMAIN bond /\ bond[a.bondId].slasher = NoAddr
        /\ bond[a.bondId].purpose = AttestationPurpose(id)
    BY <1>1, <1>3 DEF AttestationsBacked, IsStake
  <2>5. ~BySlasher(a.bondId)
    BY <2>4 DEF BySlasher
  <2>6. ~ByVerdict(a.bondId)
    <3>1. SUFFICES ASSUME NEW d \in DOMAIN dispute, ResolveDispute(d),
                          a.bondId \in SettledBonds(VerdictClaims(d))
                   PROVE  FALSE
      BY DEF ByVerdict
    <3>2. dispute[d].escrowId = id
      BY <2>4, <3>1, VerdictSettles, PurposesDiffer
    <3>3. d \in Verdicts(id)'
      BY <3>1, <3>2, ResolveEffect DEF Verdicts, SameCase, Concludes
    <3> QED BY <3>3
  <2>7. ~ByReclaim(a.bondId)
    <3>1. SUFFICES ASSUME NEW i \in DOMAIN escrow, ReclaimAttestationBonds(i),
                          a.bondId \in SettledBonds(ReclaimClaims(i))
                   PROVE  FALSE
      BY DEF ByReclaim
    <3>2. i = id
      BY <2>4, <3>1, ReclaimSettles, PurposesDiffer
    <3>3. escrow' = escrow /\ now' = now
          /\ escrow[id].status \in {"released", "refunded", "fail_attested"}
          /\ (escrow[id].challengeDeadline = 0 \/ now >= escrow[id].challengeDeadline)
      BY <3>1, <3>2 DEF ReclaimAttestationBonds, WindowOver, escrowVars
    <3> QED BY <1>1, <3>3, TimeTypes, EscrowNumbers DEF InWindow, Frozen
  <2>8. bond'[a.bondId] = bond[a.bondId] /\ a.bondId \in DOMAIN bond'
    BY <2>4, <2>5, <2>6, <2>7, BondSteps DEF BondMoves
  <2> QED BY <1>2, <2>3, <2>8 DEF Covered, ActiveBond
<1>4. CASE a \notin escrow[id].attestations
  <2>1. PICK x \in AttestationRecord : Attests(id, x)
    BY <1>1, <1>4, AttestationsMove
  <2>2. a.bondId = bondSeq /\ bondSeq \in DOMAIN bond' /\ bond'[bondSeq].status = "active"
    BY <1>4, <2>1 DEF Attests, NewStake
  <2> QED BY <1>2, <2>2 DEF Covered, ActiveBond
<1> QED BY <1>3, <1>4

(* Pass verdicts are counted per attestation, and no verifier attests      *)
(* twice: the quorum is one of verifiers.                                  *)
LEMMA QuorumOfVerifiers ==
  ASSUME TypeOK, AttestationsDiffer, NEW id \in DOMAIN escrow, VerifierQuorum(id)
  PROVE  Cardinality(PassVerifiers(id)) >= escrow[id].quorum
<1> DEFINE f == [a \in CountedPasses(id) |-> a.verifier]
<1>1. f \in Injection(CountedPasses(id), PassVerifiers(id))
  <2>1. f \in [CountedPasses(id) -> PassVerifiers(id)]
    BY DEF CountedPasses, PassVerifiers, AttestationsDiffer
  <2>2. \A a, b \in CountedPasses(id) : f[a] = f[b] => a = b
    BY DEF CountedPasses, AttestationsDiffer
  <2> QED BY <2>1, <2>2 DEF Injection, IsInjective
<1>2. IsFiniteSet(PassVerifiers(id))
  <2>1. PassVerifiers(id) \in SUBSET Addr
    BY EscrowNumbers DEF PassVerifiers
  <2> QED BY <2>1, AddrAssumption, FS_Subset
<1>3. /\ Cardinality(CountedPasses(id)) <= Cardinality(PassVerifiers(id))
      /\ IsFiniteSet(CountedPasses(id))
  <2> HIDE DEF f
  <2> QED BY <1>1, <1>2, FS_Injection
<1>4. Cardinality(CountedPasses(id)) \in Nat /\ Cardinality(PassVerifiers(id)) \in Nat
      /\ escrow[id].quorum \in Nat
  BY <1>2, <1>3, FS_CardinalityType, EscrowNumbers
<1> QED BY <1>3, <1>4 DEF VerifierQuorum

LEMMA PaidWithAuthorityStep ==
  ASSUME TypeOK, TypeOK', DisputesRefer, AttestationsDiffer, PaidWithAuthority, [Next]_vars
  PROVE  PaidWithAuthority'
<1> DEFINE Authority(id) ==
      \/ id \in conceded
      \/ VerdictOn(id, "accept")
      \/ id \in revealed /\ Cardinality(PassVerifiers(id)) >= escrow[id].quorum
      \/ ~escrow[id].noAutoRelease /\ now >= escrow[id].deadline
<1> SUFFICES ASSUME NEW id \in DOMAIN escrow',
                    escrow'[id].status \in {"released", "challenged"}
             PROVE  Authority(id)'
  BY DEF PaidWithAuthority
<1>0. EscrowStep
  BY EscrowSteps
<1>1. id \in DOMAIN escrow /\ Moves(id) /\ SameTerms(id)
  BY <1>0, TermsStay DEF EscrowStep, Fresh
<1>2. now \in Nat /\ now' \in Nat /\ now' >= now /\ escrow[id].deadline \in Int
      /\ conceded \subseteq conceded' /\ revealed \subseteq revealed'
  BY <1>0, <1>1, EscrowNumbers DEF EscrowStep, TypeOK, EscrowsTypeOK
<1>3. ASSUME SameWork(id) PROVE PassVerifiers(id)' = PassVerifiers(id)
  BY <1>1, <1>3 DEF SameTerms, SameWork, PassVerifiers
<1>4. ASSUME escrow[id].status \in {"released", "challenged"}, SameWork(id)
      PROVE  Authority(id)'
  <2>1. Authority(id)
    BY <1>1, <1>4 DEF PaidWithAuthority
  <2> QED BY <1>1, <1>2, <1>3, <1>4, <2>1, VerdictsStay DEF SameTerms
<1>5. CASE Stays(id)
  BY <1>4, <1>5 DEF Stays, SameWork
<1>6. CASE Releases(id)
  BY <1>1, <1>2, <1>6 DEF Releases, SameTerms
<1>7. CASE Verifies(id)
  <2>1. Cardinality(PassVerifiers(id)) >= escrow[id].quorum
    BY <1>1, <1>7, QuorumOfVerifiers DEF Verifies
  <2> QED BY <1>1, <1>3, <1>7, <2>1 DEF Verifies, SameTerms
<1>8. CASE Contests(id)
  <2>1. escrow[id].status = "released"
    BY <1>8 DEF Contests, Becomes, FrozenStatus
  <2> QED BY <1>4, <1>8, <2>1 DEF Contests, Becomes
<1>9. CASE Judges(id)
  <2>1. PICK d \in DOMAIN dispute :
          /\ dispute[d].escrowId = id /\ Becomes(id, VerdictStatus(d))
          /\ d \in DOMAIN dispute' /\ dispute'[d].escrowId = id
          /\ dispute'[d].status = "resolved"
          /\ dispute'[d].resolution = IF Accepted(d) THEN "accept" ELSE "reject"
    BY <1>9 DEF Judges
  <2>2. CASE Challenged(d)
    BY <1>4, <2>1, <2>2 DEF Challenged, Case, Becomes
  <2>3. CASE Accepted(d)
    BY <2>1, <2>3 DEF VerdictOn, Verdicts
  <2> QED BY <2>1, <2>2, <2>3 DEF VerdictStatus, Becomes
<1>10. ~Submits(id) /\ ~Refunds(id) /\ ~Freezes(id) /\ \A a \in AttestationRecord : ~Attests(id, a)
  BY DEF Submits, Refunds, Freezes, Becomes, Attests
<1> QED BY <1>1, <1>5, <1>6, <1>7, <1>8, <1>9, <1>10 DEF Moves

(* While an escrow can be refunded no case about it was ever opened.       *)
LEMMA FailNeverContested ==
  ASSUME TypeOK, JuryControl, VerdictsLast, NEW id \in DOMAIN escrow,
         escrow[id].status = "fail_attested"
  PROVE  NeverContested(id)
<1> SUFFICES ASSUME NEW d \in DOMAIN dispute, dispute[d].escrowId = id PROVE FALSE
  BY DEF NeverContested
<1>1. dispute[d].status # "resolved"
  BY DEF VerdictsLast, Case
<1>2. dispute[d].status = "open" => Frozen(id)
  BY DEF JuryControl, OpenOn
<1>3. ~Frozen(id)
  BY DEF Frozen
<1>4. dispute[d].status \in {"open", "resolved"}
  BY DisputeFields DEF DisputeRecord
<1> QED BY <1>1, <1>2, <1>3, <1>4

(* A refunded escrow is not contested either.                              *)
LEMMA StillNeverContested ==
  ASSUME TypeOK, DisputesRefer, [Next]_vars, NEW id \in DOMAIN escrow, NeverContested(id),
         escrow'[id].status = "refunded"
  PROVE  NeverContested(id)'
<1> SUFFICES ASSUME NEW d \in DOMAIN dispute', dispute'[d].escrowId = id PROVE FALSE
  BY DEF NeverContested
<1>1. CASE d \in DOMAIN dispute
  BY <1>1, DisputeSteps DEF DisputeMoves, SameCase, NeverContested
<1>2. CASE d \notin DOMAIN dispute
  <2>1. PICK c \in Addr, n \in Amount : OpenDispute(c, id, n)
    BY <1>2, DisputeSteps DEF Opens
  <2>2. Becomes(id, FrozenStatus(id))
    BY <2>1, StatusBecomes DEF OpenDispute
  <2> QED BY <2>2 DEF Becomes, FrozenStatus
<1> QED BY <1>1, <1>2

LEMMA RefundJustifiedStep ==
  ASSUME TypeOK, TypeOK', DisputesRefer, Lifecycle, JuryControl, VerdictsLast,
         RefundJustified, [Next]_vars
  PROVE  RefundJustified'
<1> DEFINE Reason(id) == VerdictOn(id, "reject") \/ (NeverContested(id) /\ FailStood(id))
<1> SUFFICES ASSUME NEW id \in DOMAIN escrow',
                    escrow'[id].status = "refunded", escrow'[id].submittedAt # 0
             PROVE  Reason(id)'
  BY DEF RefundJustified
<1>0. EscrowStep
  BY EscrowSteps
<1>1. id \in DOMAIN escrow /\ Moves(id) /\ EscrowLifecycle(id)
  BY <1>0 DEF EscrowStep, Fresh, Lifecycle
<1>2. now \in Nat /\ now' \in Nat /\ now' >= now /\ ChallengeWindow \in Nat
      /\ \A a \in escrow[id].attestations : a.attestedAt \in Nat
  BY <1>0, <1>1, EscrowNumbers, TimeTypes DEF EscrowStep, TypeOK, EscrowsTypeOK
<1>3. CASE Stays(id)
  <2>1. Reason(id)
    BY <1>1, <1>3 DEF RefundJustified, Stays
  <2>2. FailStood(id) => FailStood(id)'
    BY <1>2, <1>3 DEF FailStood, Stays
  <2>3. NeverContested(id) => NeverContested(id)'
    BY <1>1, StillNeverContested
  <2> QED BY <2>1, <2>2, <2>3, VerdictsStay
<1>4. CASE Refunds(id)
  <2>1. /\ SameWork(id) /\ escrow[id].status = "fail_attested"
        /\ now >= escrow[id].challengeDeadline
    BY <1>1, <1>4 DEF Refunds, Refundable, Becomes, SameWork, EscrowLifecycle
  <2>2. PICK a \in escrow[id].attestations :
          ~a.passed /\ escrow[id].challengeDeadline = a.attestedAt + ChallengeWindow
    BY <1>1, <2>1 DEF EscrowLifecycle
  <2>3. now' >= a.attestedAt + ChallengeWindow
    BY <1>2, <2>1, <2>2
  <2>4. FailStood(id)'
    BY <2>1, <2>2, <2>3 DEF FailStood, SameWork
  <2>5. NeverContested(id)'
    BY <1>1, <2>1, FailNeverContested, StillNeverContested
  <2> QED BY <2>4, <2>5
<1>5. CASE Judges(id)
  <2>1. PICK d \in DOMAIN dispute :
          /\ dispute[d].escrowId = id /\ Becomes(id, VerdictStatus(d))
          /\ d \in DOMAIN dispute' /\ dispute'[d].escrowId = id
          /\ dispute'[d].status = "resolved"
          /\ dispute'[d].resolution = IF Accepted(d) THEN "accept" ELSE "reject"
    BY <1>5 DEF Judges
  <2>2. ~Accepted(d)
    BY <2>1 DEF VerdictStatus, Becomes
  <2> QED BY <2>1, <2>2 DEF VerdictOn, Verdicts
<1>6. ~Submits(id) /\ ~Releases(id) /\ ~Freezes(id) /\ ~Verifies(id) /\ ~Contests(id)
      /\ \A a \in AttestationRecord : ~Attests(id, a)
  BY DEF Submits, Releases, Freezes, Becomes, Verifies, Contests, FrozenStatus, Attests
<1> QED BY <1>1, <1>3, <1>4, <1>5, <1>6 DEF Moves

-----------------------------------------------------------------------------
LEMMA MarketInvInit == Init => MarketInv
<1> SUFFICES ASSUME Init PROVE MarketInv
  OBVIOUS
<1>1. /\ DOMAIN escrow = {} /\ DOMAIN dispute = {} /\ revealed = {}
  BY DEF Init, EscrowsInit, JuryInit
<1>2. TypeOK
  BY InitTypes
<1> QED
  BY <1>1, <1>2 DEF MarketInv, DisputesRefer, DisputeStakes, AttestationsBacked,
     AttestationsDiffer, Lifecycle, VerdictsLast, PayerChallenges, JuryControl,
     VerdictSettlesStakes, CollateralThroughWindow, PaidWithAuthority, RefundJustified

LEMMA MarketInvStep == MarketInv /\ [Next]_vars => MarketInv'
<1> SUFFICES ASSUME MarketInv, [Next]_vars PROVE MarketInv'
  OBVIOUS
<1>1. /\ TypeOK /\ DisputesRefer /\ DisputeStakes /\ AttestationsBacked /\ AttestationsDiffer
      /\ Lifecycle /\ VerdictsLast /\ PayerChallenges /\ JuryControl
      /\ VerdictSettlesStakes /\ CollateralThroughWindow /\ PaidWithAuthority
      /\ RefundJustified
  BY DEF MarketInv
<1>2. TypeOK'
  BY <1>1, TypeStep
<1>3. DisputesRefer'
  BY <1>1, <1>2, DisputesReferStep
<1>4. DisputeStakes' /\ AttestationsBacked' /\ AttestationsDiffer'
  BY <1>1, DisputeStakesStep, AttestationsBackedStep, AttestationsDifferStep
<1>5. Lifecycle' /\ VerdictsLast' /\ PayerChallenges'
  BY <1>1, <1>2, LifecycleStep, VerdictsLastStep, PayerChallengesStep
<1>6. JuryControl' /\ VerdictSettlesStakes'
  BY <1>1, <1>3, JuryControlStep, VerdictSettlesStakesStep
<1>7. CollateralThroughWindow'
  BY <1>1, <1>2, <1>4, CollateralStep
<1>8. PaidWithAuthority' /\ RefundJustified'
  BY <1>1, <1>2, PaidWithAuthorityStep, RefundJustifiedStep
<1> QED BY <1>2, <1>3, <1>4, <1>5, <1>6, <1>7, <1>8 DEF MarketInv

(***************************************************************************)
(* The inductive invariant of the market holds in every reachable state.   *)
(***************************************************************************)
THEOREM MarketCorrect == Spec => []MarketInv
BY MarketInvInit, MarketInvStep, PTL DEF Spec

(***************************************************************************)
(* For any number of escrows, disputes and jurors: an escrow is frozen     *)
(* exactly while one dispute about it is open, and never two.              *)
(***************************************************************************)
THEOREM JuryControlHolds == Spec => []JuryControl
<1>1. MarketInv => JuryControl
  BY DEF MarketInv
<1> QED BY <1>1, MarketCorrect, PTL

(***************************************************************************)
(* The stakes of a case are locked exactly while it is open, whatever      *)
(* changes of the juror set, reclaims and slashes come in between, and its *)
(* verdict leaves no stake of an attester behind.                          *)
(***************************************************************************)
THEOREM VerdictsSettleStakes == Spec => []VerdictSettlesStakes
<1>1. MarketInv => VerdictSettlesStakes
  BY DEF MarketInv
<1> QED BY <1>1, MarketCorrect, PTL

(***************************************************************************)
(* Every attestation on an escrow without a verdict is backed by a locked  *)
(* stake of at least the escrow amount as long as it can be contested.     *)
(***************************************************************************)
THEOREM CollateralHolds == Spec => []CollateralThroughWindow
<1>1. MarketInv => CollateralThroughWindow
  BY DEF MarketInv
<1> QED BY <1>1, MarketCorrect, PTL

(***************************************************************************)
(* The payee is paid only by the payer's release, a jury that accepts, a   *)
(* quorum of pass verdicts by distinct verifiers with the key published,   *)
(* or, in an ordinary escrow, by the passing of the deadline.              *)
(***************************************************************************)
THEOREM PaymentsHaveAuthority == Spec => []PaidWithAuthority
<1>1. MarketInv => PaidWithAuthority
  BY DEF MarketInv
<1> QED BY <1>1, MarketCorrect, PTL

(***************************************************************************)
(* Delivered work is refunded only by a jury that rejects it, or if nobody *)
(* ever opened a case about it and the whole contest window has passed     *)
(* since the block time at which a fail verdict was attested.              *)
(***************************************************************************)
THEOREM RefundsJustified == Spec => []RefundJustified
<1>1. MarketInv => RefundJustified
  BY DEF MarketInv
<1> QED BY <1>1, MarketCorrect, PTL

-----------------------------------------------------------------------------
(* What a step may never do.                                               *)

(* The stakes a verdict or a reclaim settles are stakes of the protocol.   *)
LEMMA SettledAreStakes ==
  ASSUME MarketInv, NEW b, ByVerdict(b) \/ ByReclaim(b)
  PROVE  bond[b].slasher = NoAddr
<1>1. DisputesRefer /\ DisputeStakes /\ AttestationsBacked
  BY DEF MarketInv
<1>2. ASSUME NEW d \in DOMAIN dispute, b \in StakesOf(d) PROVE bond[b].slasher = NoAddr
  BY <1>1, <1>2 DEF StakesOf, DisputeStakes, IsStake
<1>3. ASSUME NEW id \in DOMAIN escrow, b \in AttestationStakes(id)
      PROVE  bond[b].slasher = NoAddr
  BY <1>1, <1>3 DEF AttestationStakes, AttestationsBacked, IsStake
<1>4. CASE ByVerdict(b)
  <2>1. PICK d \in DOMAIN dispute : b \in SettledBonds(VerdictClaims(d))
    BY <1>4 DEF ByVerdict
  <2>2. dispute[d].escrowId \in DOMAIN escrow
    BY <1>1 DEF DisputesRefer
  <2>3. dispute[d].bondId \in StakesOf(d)
    BY DEF StakesOf
  <2> QED BY <1>2, <1>3, <2>1, <2>2, <2>3, VerdictSettles
<1>5. CASE ByReclaim(b)
  BY <1>3, <1>5, ReclaimSettles DEF ByReclaim
<1> QED BY <1>4, <1>5

LEMMA BondAuthorityStep ==
  MarketInv /\ [Next]_vars => \A b \in DOMAIN bond : ResolvedByAuthority(b)
<1>1. ASSUME MarketInv, [Next]_vars, NEW b \in DOMAIN bond, bond'[b] # bond[b]
      PROVE  /\ ActiveBond(b)
             /\ bond[b].slasher # NoAddr =>
                  UNCHANGED dispute /\ \A c \in DOMAIN bond \ {b} : bond'[c] = bond[c]
             /\ bond[b].slasher = NoAddr =>
                  \/ \E d \in DOMAIN dispute :
                       /\ ResolvedNow(d)
                       /\ b \in StakesOf(d) \cup AttestationStakes(dispute[d].escrowId)
                  \/ \E id \in DOMAIN escrow :
                       /\ b \in AttestationStakes(id) /\ ~Frozen(id)
                       /\ escrow[id].challengeDeadline <= now
  <2>0. TypeOK
    BY <1>1 DEF MarketInv
  <2>1. ActiveBond(b) /\ (BySlasher(b) \/ ByVerdict(b) \/ ByReclaim(b))
    BY <1>1, <2>0, BondSteps DEF BondMoves
  <2>2. CASE BySlasher(b)
    BY <2>1, <2>2 DEF BySlasher
  <2>3. CASE ByVerdict(b)
    <3>1. PICK d \in DOMAIN dispute : ResolveDispute(d) /\ b \in SettledBonds(VerdictClaims(d))
      BY <2>3 DEF ByVerdict
    <3>2. ResolvedNow(d)
      BY <2>0, <3>1, ResolveEffect DEF ResolvedNow, Concludes
    <3>3. b \in StakesOf(d) \cup AttestationStakes(dispute[d].escrowId)
      BY <3>1, VerdictSettles DEF StakesOf
    <3>4. bond[b].slasher = NoAddr
      BY <1>1, <2>3, SettledAreStakes
    <3> QED BY <2>1, <3>2, <3>3, <3>4
  <2>4. CASE ByReclaim(b)
    <3>1. PICK id \in DOMAIN escrow :
            ReclaimAttestationBonds(id) /\ b \in SettledBonds(ReclaimClaims(id))
      BY <2>4 DEF ByReclaim
    <3>2. escrow[id].status \in {"released", "refunded", "fail_attested"}
          /\ (escrow[id].challengeDeadline = 0 \/ now >= escrow[id].challengeDeadline)
      BY <3>1 DEF ReclaimAttestationBonds, WindowOver
    <3>3. ~Frozen(id) /\ escrow[id].challengeDeadline <= now
      BY <2>0, <3>2, EscrowNumbers, TimeTypes DEF Frozen
    <3>4. b \in AttestationStakes(id)
      BY <3>1, ReclaimSettles
    <3>5. bond[b].slasher = NoAddr
      BY <1>1, <2>4, SettledAreStakes
    <3> QED BY <2>1, <3>3, <3>4, <3>5
  <2> QED BY <2>1, <2>2, <2>3, <2>4
<1> QED
  BY <1>1 DEF ResolvedByAuthority

(***************************************************************************)
(* Every bond is resolved once and by whom it belongs to: a posted bond    *)
(* only by its slasher's message, also when its purpose string is forged;  *)
(* a stake of the protocol only by the verdict of its own case or by a     *)
(* reclaim for the escrow it backs, outside the window.                    *)
(***************************************************************************)
THEOREM BondsHaveAuthority == Spec => BondAuthority
BY BondAuthorityStep, MarketCorrect, PTL DEF Spec, BondAuthority

(* Two stakes paid to the same account are both in its payout.             *)
LEMMA PayoutOfTwo ==
  ASSUME TypeOK, NEW claims, NEW a \in Addr,
         NEW b \in SettledBonds(claims), NEW c \in SettledBonds(claims), b # c,
         PaidTo(claims, b) = a, PaidTo(claims, c) = a
  PROVE  Payout(claims)[a] >= bond[b].amount + bond[c].amount
<1> DEFINE S == {x \in SettledBonds(claims) : PaidTo(claims, x) = a}
           f == [x \in S |-> bond[x].amount]
           g == [x \in S \ {b} |-> f[x]]
<1>1. Payout(claims)[a] = Total(f)
  BY DEF Payout
<1>2. S \in SUBSET (0..(bondSeq - 1)) /\ bondSeq \in Int
  BY DEF SettledBonds, Settling, ActiveBond, TypeOK, BondsTypeOK
<1>3. b \in S /\ c \in S \ {b}
  OBVIOUS
<1>4. f[b] = bond[b].amount /\ f[c] = bond[c].amount
  BY <1>3
<1>5. \A x \in S : bond[x].amount \in Nat
  BY <1>2, BondFields DEF TypeOK, BondsTypeOK
<1> HIDE DEF S
<1>6. IsFiniteSet(S)
  <2>1. IsFiniteSet(0..(bondSeq - 1))
    BY <1>2, FS_Interval
  <2> QED BY <1>2, <2>1, FS_Subset
<1>7. f \in [S -> Nat]
  BY <1>5
<1>8. g \in [S \ {b} -> Nat] /\ g[c] = f[c]
  BY <1>3, <1>7
<1>9. IsFiniteSet(S \ {b})
  BY <1>6, FS_RemoveElement
<1> HIDE DEF f
<1>10. Total(g) \in Nat /\ Total(f) = Total(g) + f[b]
  BY <1>3, <1>6, <1>7, TotalRemove
<1> HIDE DEF g
<1>11. g[c] <= Total(g)
  BY <1>3, <1>8, <1>9, TotalBound
<1>12. f[b] \in Nat /\ f[c] \in Nat
  BY <1>3, <1>7
<1> QED BY <1>1, <1>4, <1>8, <1>10, <1>11, <1>12

(* A challenge that the jury upholds returns the challenger's bond and     *)
(* forfeits the stake of every pass verdict to the payer.                  *)
LEMMA UpheldChallengePays ==
  ASSUME MarketInv, NEW d \in DOMAIN dispute, dispute[d].status = "open", Challenged(d),
         ~Accepted(d), NEW a \in Case(d).attestations, a.passed, ActiveBond(a.bondId)
  PROVE  /\ dispute[d].bondId \in SettledBonds(VerdictClaims(d))
         /\ a.bondId \in SettledBonds(VerdictClaims(d))
         /\ dispute[d].bondId # a.bondId
         /\ PaidTo(VerdictClaims(d), dispute[d].bondId) = Case(d).payer
         /\ PaidTo(VerdictClaims(d), a.bondId) = Case(d).payer
<1> DEFINE claims == VerdictClaims(d)
           id == dispute[d].escrowId
<1>0. /\ TypeOK /\ DisputesRefer /\ DisputeStakes /\ AttestationsBacked /\ AttestationsDiffer
      /\ PayerChallenges /\ VerdictSettlesStakes
  BY DEF MarketInv
<1>1. id \in DOMAIN escrow /\ Case(d) = escrow[id]
  BY <1>0 DEF DisputesRefer, Case
<1>2. dispute[d].bondId \in StakesOf(d) /\ a.bondId \in AttestationStakes(id)
  BY <1>1 DEF StakesOf, AttestationStakes
<1>3. ActiveBond(dispute[d].bondId)
  BY <1>0, <1>2 DEF VerdictSettlesStakes
<1>4. dispute[d].bondId \in SettledBonds(claims) /\ a.bondId \in SettledBonds(claims)
  BY <1>0, <1>2, <1>3, VerdictSettlesOwn
<1>5. /\ bond[dispute[d].bondId].purpose = DisputePurpose(d)
      /\ bond[a.bondId].purpose = AttestationPurpose(id)
  BY <1>0, <1>1 DEF DisputeStakes, AttestationsBacked, IsStake
<1>6. dispute[d].bondId # a.bondId
  BY <1>5, PurposesDiffer
<1>7. dispute[d].opener = Case(d).payer /\ Winner(d) = Case(d).payer
  BY <1>0 DEF PayerChallenges, Winner
<1>8. OpenerUpheld(d)
  BY <1>7 DEF OpenerUpheld
<1>9. ASSUME NEW c \in Settling(claims), c.id = dispute[d].bondId
      PROVE  Recipient(c) = Case(d).payer
  <2>1. c.purpose = DisputePurpose(d) /\ c \in claims
    BY <1>5, <1>9 DEF Settling
  <2>2. c \notin JurorClaims(d) /\ c \notin AttestationClaims(d)
    BY <2>1, PurposesDiffer DEF JurorClaims, AttestationClaims
  <2>3. c \in DisputeClaims(d)
    BY <2>1, <2>2 DEF VerdictClaims
  <2>4. c.keeps = OpenerUpheld(d) /\ c.owner = dispute[d].opener
    BY <2>3 DEF DisputeClaims
  <2> QED BY <1>7, <1>8, <2>4 DEF Recipient
<1>10. ASSUME NEW c \in Settling(claims), c.id = a.bondId
       PROVE  Recipient(c) = Case(d).payer
  <2>1. c.purpose = AttestationPurpose(id) /\ c \in claims
    BY <1>5, <1>10 DEF Settling
  <2>2. c \notin JurorClaims(d) /\ c \notin DisputeClaims(d)
    BY <2>1, PurposesDiffer DEF JurorClaims, DisputeClaims
  <2>3. c \in AttestationClaims(d)
    BY <2>1, <2>2 DEF VerdictClaims
  <2>4. PICK x \in Case(d).attestations :
          c.id = x.bondId /\ c.keeps = (x.passed = Accepted(d)) /\ c.forfeitTo = Winner(d)
    BY <2>3 DEF AttestationClaims
  <2>5. x = a
    BY <1>0, <1>1, <1>10, <2>4 DEF AttestationsDiffer
  <2>6. ~c.keeps
    BY <2>4, <2>5
  <2> QED BY <1>7, <2>4, <2>6 DEF Recipient
<1>11. ASSUME NEW b \in SettledBonds(claims)
       PROVE  ClaimOn(claims, b) \in Settling(claims) /\ ClaimOn(claims, b).id = b
  <2>1. \E c \in Settling(claims) : c.id = b
    BY DEF SettledBonds
  <2> HIDE DEF claims
  <2> QED BY <2>1 DEF ClaimOn
<1> HIDE DEF claims
<1> QED BY <1>4, <1>6, <1>9, <1>10, <1>11 DEF PaidTo, claims

LEMMA BuyerMadeWholeStep ==
  MarketInv /\ [Next]_vars => \A d \in DOMAIN dispute : MakesBuyerWhole(d)
<1>1. ASSUME MarketInv, [Next]_vars, NEW d \in DOMAIN dispute, ResolvedNow(d),
             Challenged(d), dispute[d].escrowId \in revealed,
             Verdicts(dispute[d].escrowId) = {}, dispute'[d].resolution = "reject"
      PROVE  /\ balance'[Case(d).payer] >=
                  balance[Case(d).payer] + bond[dispute[d].bondId].amount + Case(d).amount
             /\ balance'[Case(d).payee] >= balance[Case(d).payee]
  <2> DEFINE id == dispute[d].escrowId
             claims == VerdictClaims(d)
  <2>0. /\ TypeOK /\ DisputesRefer /\ AttestationsBacked /\ Lifecycle
        /\ CollateralThroughWindow /\ DisputeStakes
    BY <1>1 DEF MarketInv
  <2>1. Concludes(d)
    BY <1>1, <2>0, DisputeSteps, OutcomeStays DEF ResolvedNow, SameOutcome
  <2>2. dispute[d].status = "open" /\ ~Accepted(d)
        /\ SettleClaims(EscrowToWinner(d), RegisteredWinner(d), claims)
    BY <1>1, <2>1 DEF Concludes, ResolveDispute
  <2>3. id \in DOMAIN escrow /\ Case(d) = escrow[id]
    BY <2>0 DEF DisputesRefer, Case
  <2>4. PICK a \in escrow[id].attestations : a.passed
    BY <1>1, <2>0, <2>3 DEF Lifecycle, EscrowLifecycle
  <2>5. ActiveBond(a.bondId) /\ bond[a.bondId].amount >= escrow[id].amount
    BY <1>1, <2>0, <2>3 DEF CollateralThroughWindow, Challenged, Case, Frozen,
       AttestationStakes, Covered
  <2>6. /\ dispute[d].bondId \in SettledBonds(claims) /\ a.bondId \in SettledBonds(claims)
        /\ dispute[d].bondId # a.bondId
        /\ PaidTo(claims, dispute[d].bondId) = Case(d).payer
        /\ PaidTo(claims, a.bondId) = Case(d).payer
    BY <1>1, <2>2, <2>3, <2>4, <2>5, UpheldChallengePays
  <2>7. Case(d).payer \in Addr /\ Case(d).payee \in Addr /\ Case(d).amount \in Nat
    BY <2>0, <2>3, EscrowFields
  <2>8. Payout(claims) \in [Addr -> Nat]
    BY <2>0, PayoutType DEF TypeOK
  <2>9. balance' = [x \in Addr |-> balance[x] + Payout(claims)[x]]
    BY <1>1, <2>2 DEF SettleClaims, EscrowToWinner
  <2>10. balance \in [Addr -> Nat]
    BY <2>0 DEF TypeOK, LedgerTypeOK
  <2>11. bond[dispute[d].bondId].amount \in Nat /\ bond[a.bondId].amount \in Nat
    BY <2>0, <2>3, BondFields DEF DisputeStakes, AttestationsBacked, IsStake
  <2>12. Payout(claims)[Case(d).payer] >=
           bond[dispute[d].bondId].amount + bond[a.bondId].amount
    <3> HIDE DEF claims
    <3> QED BY <2>0, <2>6, <2>7, PayoutOfTwo
  <2> HIDE DEF claims, id
  <2>13. Payout(claims)[Case(d).payer] \in Nat /\ Payout(claims)[Case(d).payee] \in Nat
         /\ balance[Case(d).payer] \in Nat /\ balance[Case(d).payee] \in Nat
    BY <2>7, <2>8, <2>10
  <2>14. balance'[Case(d).payer] = balance[Case(d).payer] + Payout(claims)[Case(d).payer]
         /\ balance'[Case(d).payee] = balance[Case(d).payee] + Payout(claims)[Case(d).payee]
    BY <2>7, <2>9
  <2>15. bond[a.bondId].amount >= Case(d).amount
    BY <2>3, <2>5
  <2> QED BY <2>7, <2>11, <2>12, <2>13, <2>14, <2>15
<1> QED
  BY <1>1 DEF MakesBuyerWhole

(***************************************************************************)
(* The buyer is made whole: the first verdict that finds a release by      *)
(* verifiers fraudulent pays the payer its bond back and at least the      *)
(* escrow amount, whatever else the same verdict settles.                  *)
(***************************************************************************)
THEOREM BuyersAreMadeWhole == Spec => BuyerMadeWhole
BY BuyerMadeWholeStep, MarketCorrect, PTL DEF Spec, BuyerMadeWhole

-----------------------------------------------------------------------------
(* The market implements Custody.                                          *)

DepositAmount ==
  [x \in DepositIds |-> IF x[1] = "escrow" THEN escrow[x[2]].amount ELSE bond[x[2]].amount]

ClosedDeposits ==
  {x \in DepositIds : IF x[1] = "escrow" THEN ~Held(x[2]) ELSE ~ActiveBond(x[2])}

OpenDeposits == [x \in DOMAIN DepositAmount \ ClosedDeposits |-> DepositAmount[x]]

(* The open deposits hold what the conservation law counts.                *)
LEMMA OpenDepositsTotal ==
  ASSUME TypeOK
  PROVE  Total(OpenDeposits) = Total(HeldAmount) + Total(StakeAmount)
<1> DEFINE SE == {id \in DOMAIN escrow : Held(id)}
           SB == {id \in DOMAIN bond : ActiveBond(id)}
           NE == {<<"escrow", x>> : x \in SE}
           NB == {<<"bond", x>> : x \in SB}
           fe == [y \in NE |-> HeldAmount[y[2]]]
           fb == [y \in NB |-> StakeAmount[y[2]]]
<1>1. /\ IsFiniteSet(DOMAIN escrow) /\ HeldAmount \in [DOMAIN escrow -> Nat]
      /\ IsFiniteSet(DOMAIN bond) /\ StakeAmount \in [DOMAIN bond -> Nat]
  BY PoolTypes
<1>2. \A x \in DOMAIN escrow \ SE : HeldAmount[x] = 0
  BY DEF HeldAmount
<1>3. \A x \in DOMAIN bond \ SB : StakeAmount[x] = 0
  BY DEF StakeAmount
<1>4. SE \in SUBSET DOMAIN escrow /\ SB \in SUBSET DOMAIN bond
  OBVIOUS
<1>5. fe \in [NE -> Nat] /\ fb \in [NB -> Nat]
  BY <1>1
<1>6. \A x \in SE : fe[<<"escrow", x>>] = HeldAmount[x]
  OBVIOUS
<1>7. \A x \in SB : fb[<<"bond", x>>] = StakeAmount[x]
  OBVIOUS
<1>8. IsFiniteSet(NE) /\ Total(fe) = Total(HeldAmount)
  <2> DEFINE r == [x \in SE |-> <<"escrow", x>>]
  <2>1. r \in [SE -> NE] /\ (\A x, y \in SE : r[x] = r[y] => x = y)
        /\ \A y \in NE : \E x \in SE : r[x] = y
    OBVIOUS
  <2>2. \A x \in SE : fe[r[x]] = HeldAmount[x]
    BY <1>6
  <2> HIDE DEF r, SE, NE, fe
  <2> QED BY <1>1, <1>2, <1>4, <1>5, <2>1, <2>2, TotalRename
<1>9. IsFiniteSet(NB) /\ Total(fb) = Total(StakeAmount)
  <2> DEFINE r == [x \in SB |-> <<"bond", x>>]
  <2>1. r \in [SB -> NB] /\ (\A x, y \in SB : r[x] = r[y] => x = y)
        /\ \A y \in NB : \E x \in SB : r[x] = y
    OBVIOUS
  <2>2. \A x \in SB : fb[r[x]] = StakeAmount[x]
    BY <1>7
  <2>3. SB \in SUBSET DOMAIN bond /\ fb \in [NB -> Nat]
    BY <1>4, <1>5
  <2> HIDE DEF r, SB, NB, fb
  <2> QED BY <1>1, <1>3, <2>1, <2>2, <2>3, TotalRename
<1>10. DOMAIN OpenDeposits = NE \cup NB
  <2>1. ASSUME NEW x PROVE x \in DOMAIN OpenDeposits <=> x \in NE \cup NB
    BY DEF OpenDeposits, DepositAmount, ClosedDeposits, DepositIds
  <2> QED BY <2>1 DEF OpenDeposits
<1>11. \A y \in NE : OpenDeposits[y] = fe[y]
  BY <1>10 DEF OpenDeposits, DepositAmount, DepositIds, HeldAmount
<1>12. \A y \in NB : OpenDeposits[y] = fb[y]
  BY <1>10 DEF OpenDeposits, DepositAmount, DepositIds, StakeAmount
<1>13. NE \cap NB = {}
  OBVIOUS
<1>14. DOMAIN fe = NE /\ DOMAIN fb = NB
  OBVIOUS
<1> HIDE DEF fe, fb, NE, NB
<1>15. Coins(OpenDeposits) = Coins(fe) \cup Coins(fb)
  BY <1>10, <1>11, <1>12, <1>14 DEF Coins
<1>16. Coins(fe) \cap Coins(fb) = {}
  BY <1>13, <1>14 DEF Coins
<1>17. Total(OpenDeposits) = Total(fe) + Total(fb)
  BY <1>5, <1>8, <1>9, <1>15, <1>16, TotalSplit
<1> QED BY <1>8, <1>9, <1>17

(* No step reopens an escrow that was paid out or changes its amount.      *)
LEMMA ClosedStayClosed ==
  ASSUME MarketInv, [Next]_vars
  PROVE  /\ \A id \in DOMAIN escrow :
              /\ id \in DOMAIN escrow' /\ escrow'[id].amount = escrow[id].amount
              /\ ~Held(id) => ~Held(id)'
         /\ \A b \in DOMAIN bond :
              /\ b \in DOMAIN bond' /\ bond'[b].amount = bond[b].amount
              /\ ~ActiveBond(b) => ~ActiveBond(b)'
<1>0. TypeOK /\ DisputesRefer
  BY DEF MarketInv
<1>1. ASSUME NEW id \in DOMAIN escrow
      PROVE  /\ id \in DOMAIN escrow' /\ escrow'[id].amount = escrow[id].amount
             /\ ~Held(id) => ~Held(id)'
  <2>1. id \in DOMAIN escrow' /\ Moves(id) /\ SameTerms(id)
    BY <1>0, EscrowSteps, TermsStay DEF EscrowStep
  <2>2. ~Held(id) => escrow[id].status \in {"released", "refunded", "challenged"}
    BY <1>0, EscrowFields DEF EscrowRecord, EscrowStatus, Held
  <2>3. ~Held(id) => ~Held(id)'
    BY <2>1, <2>2, AfterVerdict DEF Held
  <2> QED BY <2>1, <2>3 DEF SameTerms
<1>2. ASSUME NEW b \in DOMAIN bond
      PROVE  /\ b \in DOMAIN bond' /\ bond'[b].amount = bond[b].amount
             /\ ~ActiveBond(b) => ~ActiveBond(b)'
  BY <1>0, BondSteps DEF BondMoves, ActiveBond
<1> QED BY <1>1, <1>2

LEMMA DepositsStay ==
  ASSUME MarketInv, [Next]_vars
  PROVE  /\ DOMAIN DepositAmount \subseteq DOMAIN DepositAmount'
         /\ \A x \in DOMAIN DepositAmount : DepositAmount'[x] = DepositAmount[x]
         /\ ClosedDeposits \subseteq ClosedDeposits'
         /\ ClosedDeposits' \subseteq DOMAIN DepositAmount'
<1>1. ASSUME NEW x \in DepositIds
      PROVE  /\ x \in DepositIds' /\ DepositAmount'[x] = DepositAmount[x]
             /\ x \in ClosedDeposits => x \in ClosedDeposits'
  <2>1. CASE \E id \in DOMAIN escrow : x = <<"escrow", id>>
    BY <2>1, ClosedStayClosed DEF DepositIds, DepositAmount, ClosedDeposits
  <2>2. CASE \E b \in DOMAIN bond : x = <<"bond", b>>
    BY <2>2, ClosedStayClosed DEF DepositIds, DepositAmount, ClosedDeposits
  <2> QED BY <1>1, <2>1, <2>2 DEF DepositIds
<1>2. DOMAIN DepositAmount = DepositIds /\ (DOMAIN DepositAmount)' = DepositIds'
  BY DEF DepositAmount
<1>3. ClosedDeposits \subseteq DepositIds /\ ClosedDeposits' \subseteq DepositIds'
  BY DEF ClosedDeposits
<1> QED BY <1>1, <1>2, <1>3

(* The coins outside the deposits and those in open ones are the supply.   *)
DepositsBalance == Total(balance) + Total(OpenDeposits) = Total(GenesisBalance) - burned

LEMMA DepositsAreBalanced == TypeOK /\ Conservation => DepositsBalance
<1> SUFFICES ASSUME TypeOK, Conservation PROVE DepositsBalance
  OBVIOUS
<1>1. /\ Total(balance) \in Nat /\ Total(HeldAmount) \in Nat /\ Total(StakeAmount) \in Nat
      /\ burned \in Nat
  BY PoolTypes
<1> QED BY <1>1, OpenDepositsTotal DEF Conservation, DepositsBalance

LEMMA SameTotal ==
  ASSUME NEW f
  PROVE  Deposits!Total(f) = Total(f)
BY DEF Deposits!Total, Deposits!Coins, Total, Coins, Deposits!Cardinality, Cardinality

(***************************************************************************)
(* The market implements Custody: for every value of the constants, every  *)
(* escrow and every bond is a deposit that keeps its amount, is closed     *)
(* once and never reopened, and free coins plus open deposits are all the  *)
(* coins that have not been burned.                                        *)
(***************************************************************************)
THEOREM MarketImplementsCustody == Spec => EscrowsAreDeposits
<1>1. Init => Deposits!CustodyInit
  <2> SUFFICES ASSUME Init PROVE Deposits!CustodyInit
    OBVIOUS
  <2>1. DepositIds = {}
    BY DEF Init, BondsInit, EscrowsInit, DepositIds
  <2>2. Total(balance) = Total(GenesisBalance) - burned
    <3>1. Total(GenesisBalance) \in Nat
      BY AddrAssumption, GenesisAssumption, CoinsFinite
    <3> QED BY <3>1 DEF Init, LedgerInit, BondsInit
  <2> QED BY <2>1, <2>2 DEF Deposits!CustodyInit
<1>2. MarketInv /\ DepositsBalance' /\ [Next]_vars => Deposits!Transact
  <2> SUFFICES ASSUME MarketInv, DepositsBalance', [Next]_vars PROVE Deposits!Transact
    OBVIOUS
  <2>1. Deposits!Open' = OpenDeposits'
    BY DEF Deposits!Open, OpenDeposits, DepositAmount, ClosedDeposits
  <2>2. Total(balance)' + Deposits!Total(Deposits!Open') = (Total(GenesisBalance) - burned)'
    BY <2>1, SameTotal DEF DepositsBalance
  <2> QED BY <2>2, DepositsStay DEF Deposits!Transact, DepositAmount, ClosedDeposits
<1>3. MarketInv => TypeOK
  BY DEF MarketInv
<1> QED
  BY <1>1, <1>2, <1>3, DepositsAreBalanced, MarketCorrect, ConservationHolds, PTL
     DEF Spec, EscrowsAreDeposits, Deposits!CustodySpec
=============================================================================
