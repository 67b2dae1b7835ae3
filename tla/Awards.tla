------------------------------- MODULE Awards -------------------------------
(***************************************************************************)
(* Contribution awards: an anchor mints a capped reward to the author of a *)
(* contribution, pinned by the hash of its artifact.                       *)
(***************************************************************************)
EXTENDS Emission

CONSTANTS
  AwardTerms,     \* what AwardContribution may ask for
  MaxAward,       \* MaxContributionAward
  MaxAwards       \* bound on the number of awards

(* described: the repository, commit, artifact and scope are not blank;    *)
(* reviewed: a review of the founder's own work is referred to.            *)
AwardTerm ==
  [recipient : Addr, contributor : Addr, amount : Nat, founderAuthored : BOOLEAN,
   reviewed : BOOLEAN, described : BOOLEAN, artifact : HashField, evidence : HashField,
   rationale : HashField]

ASSUME AwardAssumption ==
  /\ AwardTerms \subseteq AwardTerm
  /\ MaxAward \in Nat /\ MaxAwards \in Nat

VARIABLES
  award,      \* award id -> record
  awardSeq    \* the next award id (ContributionAwardSeq)

awardVars == <<award, awardSeq>>

AwardRecord == [anchor : Addr, recipient : Addr, amount : Nat, artifact : Digest]

AwardsTypeOK ==
  /\ awardSeq \in Nat
  /\ award \in [0..(awardSeq - 1) -> AwardRecord]

AwardsInit ==
  /\ award = [i \in {} |-> NoAddr]
  /\ awardSeq = 0

(* The author is paid; an anchor that pays itself says so and points to a  *)
(* review.                                                                 *)
ProperRecipient(c, t) ==
  /\ t.recipient = t.contributor
  /\ t.founderAuthored <=> t.recipient = c
  /\ t.founderAuthored => t.reviewed

ProperEvidence(t) ==
  /\ t.described
  /\ IsHexSHA256(t.artifact) /\ IsHexSHA256(t.evidence)
  /\ t.rationale # NoHash => IsHexSHA256(t.rationale)

NotAwarded(t) == \A id \in DOMAIN award : award[id].artifact # t.artifact

AwardContribution(c, t) ==
  /\ awardSeq < MaxAwards
  /\ c \in Jurors
  /\ t.amount \in 1..MaxAward
  /\ ProperRecipient(c, t)
  /\ ProperEvidence(t)
  /\ NotAwarded(t)
  /\ MintProtocolReward({t.recipient}, t.amount)
  /\ award' = Put(award, awardSeq, [anchor |-> c, recipient |-> t.recipient,
                                    amount |-> t.amount, artifact |-> t.artifact])
  /\ awardSeq' = awardSeq + 1

AwardsNext == \E a \in Addr, t \in AwardTerms : AwardContribution(a, t)

(***************************************************************************)
(* One artifact is paid for once, whichever anchors accept it for          *)
(* whichever authors, also after the chain was exported and imported.      *)
(***************************************************************************)
ArtifactPaidOnce ==
  \A i, j \in DOMAIN award : award[i].artifact = award[j].artifact => i = j
=============================================================================
