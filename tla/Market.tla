------------------------------- MODULE Market -------------------------------
(***************************************************************************)
(* The whole escrow market: ledger, bonds, escrows and the jury that       *)
(* settles disputes about them (OpenDispute, CastVote, ResolveDispute),    *)
(* with the governed juror set (Params.Anchors).  A step of the            *)
(* specification is one transaction of some signer, or the next block.     *)
(***************************************************************************)
EXTENDS Escrows

CONSTANTS
  MinDisputeBond,   \* least dispute bond
  MinJurorStake,    \* least juror stake
  AnchorSets,       \* the juror sets governance may install
  NodeAnchors,      \* the juror set a node reads from its environment or file
  GenesisAnchors,   \* Params.Anchors at genesis
  MaxDisputes       \* bound on the number of disputes

ASSUME JuryAssumption ==
  /\ MinDisputeBond \in Nat /\ MinJurorStake \in Nat /\ MaxDisputes \in Nat
  /\ AnchorSets \subseteq SUBSET Addr
  /\ NodeAnchors \subseteq Addr
  /\ GenesisAnchors \subseteq Addr

VARIABLES
  dispute,      \* dispute id -> record
  disputeSeq,   \* the next dispute id (DisputeSeq)
  anchors       \* Params.Anchors

juryVars == <<dispute, disputeSeq, anchors>>

vars == <<ledgerVars, bondVars, escrowVars, juryVars>>

VoteRecord == [juror : Addr, accept : BOOLEAN, bondId : Nat]

(* A juror votes once on a dispute and only the counts matter, so the list *)
(* of votes is a set.                                                      *)
DisputeRecord ==
  [escrowId : Nat, opener : Addr, status : {"open", "resolved"},
   resolution : {"none", "accept", "reject"}, votes : SUBSET VoteRecord, bondId : Nat]

JuryTypeOK ==
  /\ disputeSeq \in Nat
  /\ dispute \in [0..(disputeSeq - 1) -> DisputeRecord]
  /\ anchors \subseteq Addr

JuryInit ==
  /\ dispute = [i \in {} |-> NoAddr]
  /\ disputeSeq = 0
  /\ anchors = GenesisAnchors

(* resolveAnchors: the governed set, or what the node finds locally if it  *)
(* is empty.                                                               *)
Jurors == IF anchors # {} THEN anchors ELSE NodeAnchors

UpdateParams(new) ==
  /\ anchors' = new
  /\ UNCHANGED <<ledgerVars, bondVars, escrowVars, dispute, disputeSeq>>

(* Mutant: a case may be opened on a frozen escrow.                        *)
MayOpenDisputeTwice(c, id) ==
  /\ escrow[id].status \in {"submitted", "disputed", "in_jury"}
  /\ c \in {escrow[id].payer, escrow[id].payee}

(* Who may open a case, and when: either party about a delivery, the payee *)
(* about a fail verdict while its contest window is open, the payer about  *)
(* a release with attestations while the challenge window is open.         *)
MayOpenDispute(c, id) ==
  \/ /\ escrow[id].status \in {"submitted", "disputed"}
     /\ c \in {escrow[id].payer, escrow[id].payee}
  \/ /\ escrow[id].status = "fail_attested"
     /\ c = escrow[id].payee
     /\ now < escrow[id].challengeDeadline
  \/ /\ escrow[id].status = "released"
     /\ c = escrow[id].payer
     /\ escrow[id].attestations # {}
     /\ escrow[id].challengeDeadline # 0
     /\ now < escrow[id].challengeDeadline

(* A case about a release can only settle the stakes behind it.            *)
FrozenStatus(id) == IF escrow[id].status = "released" THEN "challenged" ELSE "in_jury"

OpenDispute(c, id, stake) ==
  /\ disputeSeq < MaxDisputes
  /\ MayOpenDispute(c, id)
  /\ stake >= MinDisputeBond
  /\ LockStake(c, stake, DisputePurpose(disputeSeq), NoAddr)
  /\ dispute' = Put(dispute, disputeSeq,
                    [escrowId |-> id, opener |-> c, status |-> "open",
                     resolution |-> "none", votes |-> {}, bondId |-> bondSeq])
  /\ disputeSeq' = disputeSeq + 1
  /\ escrow' = [escrow EXCEPT ![id].status = FrozenStatus(id)]
  /\ UNCHANGED <<escrowSeq, now, revealed, conceded, anchors>>

HasVoted(c, d) == \E v \in dispute[d].votes : v.juror = c

CastVote(c, d, accept, stake) ==
  /\ dispute[d].status = "open"
  /\ c \in Jurors
  /\ ~HasVoted(c, d)
  /\ stake >= MinJurorStake
  /\ LockStake(c, stake, JurorPurpose(d), NoAddr)
  /\ dispute' = [dispute EXCEPT ![d].votes =
                   @ \cup {[juror |-> c, accept |-> accept, bondId |-> bondSeq]}]
  /\ UNCHANGED <<escrowVars, disputeSeq, anchors>>

-----------------------------------------------------------------------------
(* The verdict.                                                            *)

Tally(d, accept) == Cardinality({v \in dispute[d].votes : v.accept = accept})

JuryQuorum == Cardinality(Jurors) \div 2 + 1

(* Mutant: more votes are asked for than there are jurors.                 *)
DecidedBeyond(d) ==
  /\ Cardinality(dispute[d].votes) > Cardinality(Jurors)
  /\ Tally(d, TRUE) # Tally(d, FALSE)

(* A strict majority of the jurors has voted and they do not tie.          *)
Decided(d) ==
  /\ Cardinality(dispute[d].votes) >= JuryQuorum
  /\ Tally(d, TRUE) # Tally(d, FALSE)

Accepted(d) == Tally(d, TRUE) > Tally(d, FALSE)

Case(d) == escrow[dispute[d].escrowId]

Challenged(d) == Case(d).status = "challenged"

(* The party the verdict favours.                                          *)
Winner(d) == IF Accepted(d) THEN Case(d).payee ELSE Case(d).payer

OpenerUpheld(d) ==
  \/ dispute[d].opener = Case(d).payer /\ ~Accepted(d)
  \/ dispute[d].opener = Case(d).payee /\ Accepted(d)

PassAttestations(d) == {a \in Case(d).attestations : a.passed}

FirstPass(d) ==
  CHOOSE a \in PassAttestations(d) : \A b \in PassAttestations(d) : a.bondId <= b.bondId

(* Who is paid the bond of an opener who lost: the first pass attester if  *)
(* the case was a challenge, else the other party.                         *)
Griefed(d) ==
  IF Challenged(d) /\ PassAttestations(d) # {}
  THEN FirstPass(d).verifier
  ELSE IF dispute[d].opener = Case(d).payer THEN Case(d).payee ELSE Case(d).payer

(* Mutant: every bond that carries the purpose is settled.                 *)
DisputeClaimsByPurpose(d) ==
  {[id |-> b, purpose |-> DisputePurpose(d), keeps |-> OpenerUpheld(d),
    owner |-> dispute[d].opener, forfeitTo |-> Griefed(d)] :
     b \in {x \in DOMAIN bond : bond[x].purpose = DisputePurpose(d)}}

DisputeClaims(d) ==
  {[id |-> dispute[d].bondId, purpose |-> DisputePurpose(d), keeps |-> OpenerUpheld(d),
    owner |-> dispute[d].opener, forfeitTo |-> Griefed(d)]}

(* Mutant: only the jurors of today are settled.                           *)
JurorClaimsEligible(d) ==
  {[id |-> v.bondId, purpose |-> JurorPurpose(d), keeps |-> v.accept = Accepted(d),
    owner |-> v.juror, forfeitTo |-> Winner(d)] :
     v \in {x \in dispute[d].votes : x.juror \in Jurors}}

JurorClaims(d) ==
  {[id |-> v.bondId, purpose |-> JurorPurpose(d), keeps |-> v.accept = Accepted(d),
    owner |-> v.juror, forfeitTo |-> Winner(d)] : v \in dispute[d].votes}

AttestationClaims(d) ==
  {[id |-> a.bondId, purpose |-> AttestationPurpose(dispute[d].escrowId),
    keeps |-> a.passed = Accepted(d), owner |-> a.verifier,
    forfeitTo |-> Winner(d)] : a \in Case(d).attestations}

(* Mutant: the attesters' stakes are forgotten.                            *)
VerdictClaimsOfJury(d) == DisputeClaims(d) \cup JurorClaims(d)

VerdictClaims(d) == DisputeClaims(d) \cup JurorClaims(d) \cup AttestationClaims(d)

VerdictStatus(d) == IF Challenged(d) \/ Accepted(d) THEN "released" ELSE "refunded"

(* Mutant: a challenge pays the escrow out a second time.                  *)
EscrowPaidTwice(d) == Credited(balance, Winner(d), Case(d).amount)

(* The escrow money goes to the winner, unless it was paid out before the  *)
(* case was opened; then the stakes are settled.                           *)
EscrowToWinner(d) ==
  IF Challenged(d) THEN balance ELSE Credited(balance, Winner(d), Case(d).amount)

RegisteredWinner(d) ==
  IF Challenged(d) THEN account ELSE [account EXCEPT ![Winner(d)] = "registered"]

ResolveDispute(d) ==
  /\ dispute[d].status = "open"
  /\ Decided(d)
  /\ Case(d).status \in {"in_jury", "challenged"}
  /\ ~Challenged(d) => CheckNewAccountCredit(Winner(d), Case(d).amount)
  /\ SettleClaims(EscrowToWinner(d), RegisteredWinner(d), VerdictClaims(d))
  /\ escrow' = [escrow EXCEPT ![dispute[d].escrowId].status = VerdictStatus(d)]
  /\ dispute' = [dispute EXCEPT ![d].status = "resolved",
                                ![d].resolution = IF Accepted(d) THEN "accept" ELSE "reject"]
  /\ UNCHANGED <<escrowSeq, now, revealed, conceded, disputeSeq, anchors>>

JuryNext ==
  \/ \E a \in Addr, id \in DOMAIN escrow, stake \in Amount : OpenDispute(a, id, stake)
  \/ \E a \in Addr, d \in DOMAIN dispute, accept \in BOOLEAN, stake \in Amount :
       CastVote(a, d, accept, stake)
  \/ \E d \in DOMAIN dispute : ResolveDispute(d)
  \/ \E new \in AnchorSets : UpdateParams(new)

-----------------------------------------------------------------------------
Init == LedgerInit /\ BondsInit /\ EscrowsInit /\ JuryInit

Next ==
  \/ LedgerNext /\ UNCHANGED <<bondVars, escrowVars, juryVars>>
  \/ BondsNext /\ UNCHANGED <<escrowVars, juryVars>>
  \/ EscrowsNext /\ UNCHANGED juryVars
  \/ JuryNext

Spec == Init /\ [][Next]_vars

(* Every variable has its type, and ids are handed out in sequence.        *)
TypeOK == LedgerTypeOK /\ BondsTypeOK /\ EscrowsTypeOK /\ JuryTypeOK

-----------------------------------------------------------------------------
(* Where the coins are: in balances, in escrows that have not been paid    *)
(* out, in active bonds, or burned.                                        *)
Held(id) ==
  escrow[id].status \in {"locked", "submitted", "disputed", "fail_attested", "in_jury"}

HeldAmount  == [id \in DOMAIN escrow |-> IF Held(id) THEN escrow[id].amount ELSE 0]
StakeAmount == [id \in DOMAIN bond |-> IF ActiveBond(id) THEN bond[id].amount ELSE 0]

(***************************************************************************)
(* No message creates or destroys a coin, except a slash without           *)
(* beneficiary: whatever the order of locks, verdicts, reclaims and        *)
(* slashes, every escrow and every bond is paid out exactly once.  Hence a *)
(* uint64 balance never wraps: it is at most the genesis supply.           *)
(***************************************************************************)
Conservation ==
  Total(balance) + Total(HeldAmount) + Total(StakeAmount) + burned = Total(GenesisBalance)

Frozen(id)  == escrow[id].status \in {"in_jury", "challenged"}
OpenOn(id)  == {d \in DOMAIN dispute : dispute[d].status = "open" /\ dispute[d].escrowId = id}
Verdicts(id) ==
  {d \in DOMAIN dispute : dispute[d].status = "resolved" /\ dispute[d].escrowId = id}

(***************************************************************************)
(* An escrow is under jury control exactly while one, and only one,        *)
(* dispute about it is open (OpenDispute freezes it, ResolveDispute        *)
(* restores a terminal status, nothing else leaves or enters those).       *)
(***************************************************************************)
JuryControl ==
  /\ \A d \in DOMAIN dispute : dispute[d].escrowId \in DOMAIN escrow
  /\ \A id \in DOMAIN escrow :
       /\ Frozen(id) <=> OpenOn(id) # {}
       /\ \A d, e \in OpenOn(id) : d = e

StakesOf(d) == {dispute[d].bondId} \cup {v.bondId : v \in dispute[d].votes}

AttestationStakes(id) == {a.bondId : a \in escrow[id].attestations}

(***************************************************************************)
(* The opener's bond and every juror's stake are locked exactly while      *)
(* their dispute is open, and a verdict leaves no attestation stake of its *)
(* escrow locked: ResolveDispute settles them all, and no ReleaseBond,     *)
(* SlashBond or reclaim touches them before.                               *)
(***************************************************************************)
VerdictSettlesStakes ==
  \A d \in DOMAIN dispute :
    /\ \A b \in StakesOf(d) : ActiveBond(b) <=> dispute[d].status = "open"
    /\ dispute[d].status = "resolved" =>
         \A b \in AttestationStakes(dispute[d].escrowId) : ~ActiveBond(b)

Covered(id, b) == ActiveBond(b) /\ bond[b].amount >= escrow[id].amount

(***************************************************************************)
(* Until a first verdict, and as long as a challenge or contest can still  *)
(* be opened or is being judged, every attestation is backed by a locked   *)
(* stake of at least the escrow amount (the bond-coverage rule): no        *)
(* reclaim slips in before the window closes.                              *)
(***************************************************************************)
CollateralThroughWindow ==
  \A id \in DOMAIN escrow :
    /\ Verdicts(id) = {}
    /\ \/ escrow[id].status = "submitted"
       \/ Frozen(id)
       \/ escrow[id].challengeDeadline > now
    => \A b \in AttestationStakes(id) : Covered(id, b)

(***************************************************************************)
(* A case that has been decided can be settled: no recipient lacks an      *)
(* account and no dust guard rejects the payout, so ResolveDispute never   *)
(* aborts on a verdict and strands the escrow.                             *)
(***************************************************************************)
VerdictNeverAborts ==
  \A d \in DOMAIN dispute :
    dispute[d].status = "open" /\ Decided(d) =>
      /\ ~Challenged(d) => CheckNewAccountCredit(Winner(d), Case(d).amount)
      /\ \A c \in Settling(VerdictClaims(d)) : RegisteredWinner(d)[Recipient(c)] # "absent"

PassVerifiers(id) == {v \in escrow[id].verifiers :
                       \E a \in escrow[id].attestations :
                         a.verifier = v /\ a.passed /\ a.pins = escrow[id].pins}

NeverContested(id) == \A d \in DOMAIN dispute : dispute[d].escrowId # id

(* A fail verdict that is at least a contest window old.                   *)
FailStood(id) ==
  \E a \in escrow[id].attestations : ~a.passed /\ now >= a.attestedAt + ChallengeWindow

VerdictOn(id, resolution) == \E d \in Verdicts(id) : dispute[d].resolution = resolution

(***************************************************************************)
(* The payee is paid only by somebody's authority: the payer's own         *)
(* release, a jury that accepts, a quorum of verifiers who passed exactly  *)
(* what the payee committed, with the key published, or, for an ordinary   *)
(* escrow only, the passing of the deadline (a jury- or verifier-bound     *)
(* payee cannot wait out the clock, nor replace what was attested).        *)
(***************************************************************************)
PaidWithAuthority ==
  \A id \in DOMAIN escrow :
    escrow[id].status \in {"released", "challenged"} =>
      \/ id \in conceded
      \/ VerdictOn(id, "accept")
      \/ id \in revealed /\ Cardinality(PassVerifiers(id)) >= escrow[id].quorum
      \/ ~escrow[id].noAutoRelease /\ now >= escrow[id].deadline

(***************************************************************************)
(* Delivered work is refunded only by a jury that rejects it, or if no     *)
(* case was ever opened about it and a whole contest window has passed     *)
(* since the block time of a fail verdict (RefundEscrow's timing guard):   *)
(* neither payer nor payer and verifier together can claw a delivery back  *)
(* before the payee had the whole window to contest.  The state right      *)
(* after the refund has the block time of the refund, so the window was    *)
(* over then and not only later.                                           *)
(***************************************************************************)
RefundJustified ==
  \A id \in DOMAIN escrow :
    escrow[id].status = "refunded" /\ escrow[id].submittedAt # 0 =>
      VerdictOn(id, "reject") \/ (NeverContested(id) /\ FailStood(id))

-----------------------------------------------------------------------------
(* What a step may never do.                                               *)

ResolvedNow(d) == dispute[d].status = "open" /\ dispute'[d].status = "resolved"

ResolvedByAuthority(b) ==
  bond'[b] # bond[b] =>
    /\ ActiveBond(b)
    /\ bond[b].slasher # NoAddr =>
         UNCHANGED dispute /\ \A c \in DOMAIN bond \ {b} : bond'[c] = bond[c]
    /\ bond[b].slasher = NoAddr =>
         \/ \E d \in DOMAIN dispute :
              ResolvedNow(d) /\ b \in StakesOf(d) \cup AttestationStakes(dispute[d].escrowId)
         \/ \E id \in DOMAIN escrow :
              /\ b \in AttestationStakes(id) /\ ~Frozen(id)
              /\ escrow[id].challengeDeadline <= now

(***************************************************************************)
(* Every bond is resolved once, and by whom it belongs to: a stake of the  *)
(* protocol only by the verdict of its own case, or by a reclaim for the   *)
(* escrow it backs outside the window; a posted bond never by a verdict or *)
(* a reclaim, whatever purpose string its poster chose.                    *)
(***************************************************************************)
BondAuthority == [][\A b \in DOMAIN bond : ResolvedByAuthority(b)]_vars

MakesBuyerWhole(d) ==
  LET id == dispute[d].escrowId IN
  ResolvedNow(d) /\ Challenged(d) /\ id \in revealed /\ Verdicts(id) = {}
    /\ dispute'[d].resolution = "reject" =>
      /\ balance'[Case(d).payer] >=
           balance[Case(d).payer] + bond[dispute[d].bondId].amount + Case(d).amount
      /\ balance'[Case(d).payee] >= balance[Case(d).payee]

(***************************************************************************)
(* The buyer is made whole: when a jury finds a verifier-triggered release *)
(* fraudulent for the first time, the payer receives at least the escrow   *)
(* amount from the convicted stakes, beyond its own dispute bond, and the  *)
(* payee keeps the payout.                                                 *)
(***************************************************************************)
BuyerMadeWhole == [][\A d \in DOMAIN dispute : MakesBuyerWhole(d)]_vars

-----------------------------------------------------------------------------
(* What must eventually happen.  Blocks keep coming (Tick); the other      *)
(* fairness conditions say that somebody who gains from a message sends it *)
(* once it is accepted for good: the payee collects after the deadline, an *)
(* attester reclaims, a party has the case resolved (anybody may send the  *)
(* last two).  That every juror votes is an assumption about jurors, whom  *)
(* the code pays no fee.  Time stops at MaxTime, so the properties are     *)
(* about windows that end by then.                                         *)

PayeeCollects(id) ==
  id \in DOMAIN escrow /\ ReleaseEscrow(escrow[id].payee, id) /\ UNCHANGED juryVars

AttesterReclaims(id) ==
  id \in DOMAIN escrow /\ ReclaimAttestationBonds(id) /\ UNCHANGED juryVars
    /\ bond' # bond

JurorVotes(j, d) ==
  d \in DOMAIN dispute /\ \E accept \in BOOLEAN, stake \in Amount : CastVote(j, d, accept, stake)

CaseResolves(d) == d \in DOMAIN dispute /\ ResolveDispute(d)

FairSpec ==
  /\ Spec
  /\ WF_vars(Tick /\ UNCHANGED juryVars)
  /\ \A id \in 0..(MaxEscrows - 1) :
       WF_vars(PayeeCollects(id)) /\ WF_vars(AttesterReclaims(id))
  /\ \A d \in 0..(MaxDisputes - 1) :
       /\ WF_vars(CaseResolves(d))
       /\ \A j \in Addr : WF_vars(JurorVotes(j, d))

(***************************************************************************)
(* A ghosting payer cannot trap a delivery: an ordinary escrow that was    *)
(* submitted is paid, or is contested, whatever the payer does not do      *)
(* (the deadline release of ReleaseEscrow).                                *)
(***************************************************************************)
DeliveryNotTrapped ==
  \A id \in 0..(MaxEscrows - 1) :
    (/\ id \in DOMAIN escrow /\ escrow[id].status = "submitted"
     /\ ~escrow[id].noAutoRelease /\ escrow[id].deadline <= MaxTime)
      ~> (id \in DOMAIN escrow /\ escrow[id].status # "submitted")

(***************************************************************************)
(* No attester's stake stays locked once its escrow is settled: it comes   *)
(* back by ReclaimAttestationBonds when the window is over, or a jury      *)
(* settles it.                                                             *)
(***************************************************************************)
StakesComeBack ==
  \A id \in 0..(MaxEscrows - 1) :
    (/\ id \in DOMAIN escrow /\ escrow[id].status \in {"released", "refunded", "fail_attested"}
     /\ escrow[id].challengeDeadline <= MaxTime)
      ~> (id \in DOMAIN escrow /\ \A b \in AttestationStakes(id) : ~ActiveBond(b))

(***************************************************************************)
(* A case is settled once its jurors have voted: with an odd jury that     *)
(* does not change while it sits, no sequence of votes leaves the escrow   *)
(* frozen in a tie or with the quorum out of reach.                        *)
(***************************************************************************)
CasesSettle ==
  \A d \in 0..(MaxDisputes - 1) :
    (d \in DOMAIN dispute /\ dispute[d].status = "open")
      ~> (d \in DOMAIN dispute /\ dispute[d].status = "resolved")

-----------------------------------------------------------------------------
(* What comments and docs of the repository say and the code does not do.  *)

(***************************************************************************)
(* OpenDispute's comment: only a verifier-triggered release can be         *)
(* challenged; a release by the payer or by a jury is final.               *)
(***************************************************************************)
OtherReleasesFinal ==
  \A id \in DOMAIN escrow :
    escrow[id].status = "challenged" => id \notin conceded /\ ~VerdictOn(id, "accept")
=============================================================================
