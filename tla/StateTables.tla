---------------------------- MODULE StateTables -----------------------------
(***************************************************************************)
(* The records of the stores, the genesis state and the configuration. Of  *)
(* a message M, MOut lists the fields that MarshalToSizedBuffer writes, as *)
(* they follow each other in the bytes, and MIn is the set of the cases of *)
(* Unmarshal.                                                              *)
(***************************************************************************)
EXTENDS Wire

AccountOut ==
  <<Str(1, "Address"), U64(2, "Balance"), U64(3, "Nonce"), Bool(4, "Registered"),
    Bool(5, "FaucetClaimed")>>
AccountIn ==
  {Str(1, "Address"), U64(2, "Balance"), U64(3, "Nonce"), Bool(4, "Registered"),
   Bool(5, "FaucetClaimed")}

BondOut ==
  <<U64(1, "Id"), Str(2, "Poster"), U64(3, "Amount"), Str(4, "Purpose"),
    Str(5, "Slasher"), Str(6, "Status"), Str(7, "Ref")>>
BondIn ==
  {U64(1, "Id"), Str(2, "Poster"), U64(3, "Amount"), Str(4, "Purpose"),
   Str(5, "Slasher"), Str(6, "Status"), Str(7, "Ref")}

ContributionAwardOut ==
  <<U64(1, "Id"), Str(2, "Anchor"), Str(3, "Recipient"), Str(4, "RepoUrl"),
    Str(5, "PrUrl"), Str(6, "CommitSha"), Str(7, "ArtifactUri"),
    Str(8, "ArtifactSha256"), Str(9, "EvidenceSha256"), Str(10, "Scope"),
    Str(11, "RationaleHash"), U64(12, "Amount"), Str(13, "Contributor"),
    Bool(14, "FounderAuthored"), Str(15, "ReviewEvidenceUri")>>
ContributionAwardIn ==
  {U64(1, "Id"), Str(2, "Anchor"), Str(3, "Recipient"), Str(4, "RepoUrl"),
   Str(5, "PrUrl"), Str(6, "CommitSha"), Str(7, "ArtifactUri"),
   Str(8, "ArtifactSha256"), Str(9, "EvidenceSha256"), Str(10, "Scope"),
   Str(11, "RationaleHash"), U64(12, "Amount"), Str(13, "Contributor"),
   Bool(14, "FounderAuthored"), Str(15, "ReviewEvidenceUri")}

VoteOut == <<Str(1, "Juror"), Bool(2, "Accept"), U64(3, "BondId")>>
VoteIn == {Str(1, "Juror"), Bool(2, "Accept"), U64(3, "BondId")}

DisputeOut ==
  <<U64(1, "Id"), U64(2, "EscrowId"), Str(3, "Opener"), Str(4, "Reason"),
    Str(5, "Status"), Str(6, "Resolution"), Subs(7, "Votes", VoteOut),
    U64(8, "BondId")>>
DisputeIn ==
  {U64(1, "Id"), U64(2, "EscrowId"), Str(3, "Opener"), Str(4, "Reason"),
   Str(5, "Status"), Str(6, "Resolution"), Subs(7, "Votes", VoteIn), U64(8, "BondId")}

EmissionStateOut ==
  <<U64(1, "MaxSupply"), U64(2, "EpochLengthSeconds"), U64(3, "EpochRewardDivisor"),
    I64(4, "GenesisTime"), U64(5, "CurrentEpoch"), I64(6, "EpochStartedAt"),
    U64(7, "EpochScheduled"), U64(8, "EpochMined"), U64(9, "TotalMined"),
    U64(10, "TotalBurnedUnclaimed")>>
EmissionStateIn ==
  {U64(1, "MaxSupply"), U64(2, "EpochLengthSeconds"), U64(3, "EpochRewardDivisor"),
   I64(4, "GenesisTime"), U64(5, "CurrentEpoch"), I64(6, "EpochStartedAt"),
   U64(7, "EpochScheduled"), U64(8, "EpochMined"), U64(9, "TotalMined"),
   U64(10, "TotalBurnedUnclaimed")}

AttestationOut ==
  <<Str(1, "Verifier"), Bool(2, "Passed"), U64(3, "BondId"), Str(4, "DeliveryHash"),
    Str(5, "KeyHash"), Str(6, "AcceptanceHash"), I64(7, "AttestedAt")>>
AttestationIn ==
  {Str(1, "Verifier"), Bool(2, "Passed"), U64(3, "BondId"), Str(4, "DeliveryHash"),
   Str(5, "KeyHash"), Str(6, "AcceptanceHash"), I64(7, "AttestedAt")}

EscrowOut ==
  <<U64(1, "Id"), Str(2, "Payer"), Str(3, "Payee"), U64(4, "Amount"), Str(5, "Ref"),
    Str(6, "Status"), I64(7, "Deadline"), Bool(8, "NoAutoRelease"),
    Str(9, "DeliveryHash"), Strs(10, "VerifierAddrs"), U64(11, "VerifierQuorum"),
    Str(12, "AcceptanceHash"), Str(13, "KeyHash"), I64(14, "ChallengeDeadline"),
    Subs(15, "Attestations", AttestationOut), Str(16, "ArtifactUri"),
    I64(17, "SubmittedAt"), I64(18, "ReleasedAt")>>
EscrowIn ==
  {U64(1, "Id"), Str(2, "Payer"), Str(3, "Payee"), U64(4, "Amount"), Str(5, "Ref"),
   Str(6, "Status"), I64(7, "Deadline"), Bool(8, "NoAutoRelease"),
   Str(9, "DeliveryHash"), Strs(10, "VerifierAddrs"), U64(11, "VerifierQuorum"),
   Str(12, "AcceptanceHash"), Str(13, "KeyHash"), I64(14, "ChallengeDeadline"),
   Subs(15, "Attestations", AttestationIn), Str(16, "ArtifactUri"),
   I64(17, "SubmittedAt"), I64(18, "ReleasedAt")}

ScopedEvidenceVouchOut ==
  <<U64(1, "Id"), Str(2, "Issuer"), Str(3, "Recipient"), Str(4, "Scope"),
    U64(5, "Weight"), Str(6, "ArtifactUri"), Str(7, "ArtifactSha256"),
    Str(8, "EvidenceUri"), Str(9, "EvidenceSha256"), Str(10, "RationaleHash"),
    I64(11, "ExpiresAt")>>
ScopedEvidenceVouchIn ==
  {U64(1, "Id"), Str(2, "Issuer"), Str(3, "Recipient"), Str(4, "Scope"),
   U64(5, "Weight"), Str(6, "ArtifactUri"), Str(7, "ArtifactSha256"),
   Str(8, "EvidenceUri"), Str(9, "EvidenceSha256"), Str(10, "RationaleHash"),
   I64(11, "ExpiresAt")}

GateAnswerOut ==
  <<Str(1, "Agent"), Str(2, "Commit"), Str(3, "Answer"), Bool(4, "Revealed"),
    Bool(5, "Paid")>>
GateAnswerIn ==
  {Str(1, "Agent"), Str(2, "Commit"), Str(3, "Answer"), Bool(4, "Revealed"),
   Bool(5, "Paid")}

GateOut ==
  <<U64(1, "Id"), Str(2, "Poster"), Str(3, "PayloadUri"), Str(4, "PayloadHash"),
    Str(5, "GoldCommit"), U64(6, "Drip"), U64(7, "MaxAnswers"),
    I64(8, "CommitDeadline"), I64(9, "RevealDeadline"), Str(10, "Status"),
    Subs(11, "Answers", GateAnswerOut), Str(12, "GoldAnswer"), Str(13, "Consensus")>>
GateIn ==
  {U64(1, "Id"), Str(2, "Poster"), Str(3, "PayloadUri"), Str(4, "PayloadHash"),
   Str(5, "GoldCommit"), U64(6, "Drip"), U64(7, "MaxAnswers"),
   I64(8, "CommitDeadline"), I64(9, "RevealDeadline"), Str(10, "Status"),
   Subs(11, "Answers", GateAnswerIn), Str(12, "GoldAnswer"), Str(13, "Consensus")}

ParamsOut == <<Strs(1, "Anchors")>>
ParamsIn == {Strs(1, "Anchors")}

VouchOut ==
  <<U64(1, "Id"), Str(2, "FromAddr"), Str(3, "ToAddr"), U64(4, "Weight"),
    U64(5, "Stake")>>
VouchIn ==
  {U64(1, "Id"), Str(2, "FromAddr"), Str(3, "ToAddr"), U64(4, "Weight"),
   U64(5, "Stake")}

GenesisStateOut ==
  <<Sub(1, "Params", ParamsOut), Subs(2, "AccountMap", AccountOut),
    Subs(3, "VouchList", VouchOut), U64(4, "VouchCount"),
    Subs(5, "EscrowList", EscrowOut), U64(6, "EscrowCount"),
    Subs(7, "ContributionAwardList", ContributionAwardOut),
    U64(8, "ContributionAwardCount"),
    Subs(9, "ScopedEvidenceVouchList", ScopedEvidenceVouchOut),
    U64(10, "ScopedEvidenceVouchCount"), Sub(11, "EmissionState", EmissionStateOut)>>
GenesisStateIn ==
  {Sub(1, "Params", ParamsIn), Subs(2, "AccountMap", AccountIn),
   Subs(3, "VouchList", VouchIn), U64(4, "VouchCount"),
   Subs(5, "EscrowList", EscrowIn), U64(6, "EscrowCount"),
   Subs(7, "ContributionAwardList", ContributionAwardIn),
   U64(8, "ContributionAwardCount"),
   Subs(9, "ScopedEvidenceVouchList", ScopedEvidenceVouchIn),
   U64(10, "ScopedEvidenceVouchCount"), Sub(11, "EmissionState", EmissionStateIn)}

ModuleOut == <<Str(1, "Authority")>>
ModuleIn == {Str(1, "Authority")}

StateMessages ==
  [Account |-> [out |-> AccountOut, in |-> AccountIn],
   Bond |-> [out |-> BondOut, in |-> BondIn],
   ContributionAward |-> [out |-> ContributionAwardOut, in |-> ContributionAwardIn],
   Vote |-> [out |-> VoteOut, in |-> VoteIn],
   Dispute |-> [out |-> DisputeOut, in |-> DisputeIn],
   EmissionState |-> [out |-> EmissionStateOut, in |-> EmissionStateIn],
   Attestation |-> [out |-> AttestationOut, in |-> AttestationIn],
   Escrow |-> [out |-> EscrowOut, in |-> EscrowIn],
   ScopedEvidenceVouch |-> [out |-> ScopedEvidenceVouchOut, in |-> ScopedEvidenceVouchIn],
   GateAnswer |-> [out |-> GateAnswerOut, in |-> GateAnswerIn],
   Gate |-> [out |-> GateOut, in |-> GateIn],
   Params |-> [out |-> ParamsOut, in |-> ParamsIn],
   Vouch |-> [out |-> VouchOut, in |-> VouchIn],
   GenesisState |-> [out |-> GenesisStateOut, in |-> GenesisStateIn],
   Module |-> [out |-> ModuleOut, in |-> ModuleIn]]
=============================================================================
