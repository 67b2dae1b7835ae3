------------------------------ MODULE TxTables ------------------------------
(***************************************************************************)
(* The transactions and their responses (tx.pb.go). Of a message M, MOut   *)
(* lists the fields that MarshalToSizedBuffer writes, as they follow each  *)
(* other in the bytes, and MIn is the set of the cases of Unmarshal.       *)
(***************************************************************************)
EXTENDS StateTables

MsgUpdateParamsOut == <<Str(1, "Authority"), Sub(2, "Params", ParamsOut)>>
MsgUpdateParamsIn == {Str(1, "Authority"), Sub(2, "Params", ParamsIn)}

MsgUpdateParamsResponseOut == <<>>
MsgUpdateParamsResponseIn == {}

MsgRegisterOut == <<Str(1, "Creator")>>
MsgRegisterIn == {Str(1, "Creator")}

MsgRegisterResponseOut == <<>>
MsgRegisterResponseIn == {}

MsgFaucetOut == <<Str(1, "Creator")>>
MsgFaucetIn == {Str(1, "Creator")}

MsgFaucetResponseOut == <<>>
MsgFaucetResponseIn == {}

MsgTransferOut ==
  <<Str(1, "Creator"), Str(2, "ToAddr"), U64(3, "Amount"), Str(4, "Memo")>>
MsgTransferIn ==
  {Str(1, "Creator"), Str(2, "ToAddr"), U64(3, "Amount"), Str(4, "Memo")}

MsgTransferResponseOut == <<>>
MsgTransferResponseIn == {}

MsgCastvouchOut ==
  <<Str(1, "Creator"), Str(2, "ToAddr"), U64(3, "Weight"), U64(4, "Stake")>>
MsgCastvouchIn ==
  {Str(1, "Creator"), Str(2, "ToAddr"), U64(3, "Weight"), U64(4, "Stake")}

MsgCastvouchResponseOut == <<>>
MsgCastvouchResponseIn == {}

MsgUnvouchOut == <<Str(1, "Creator"), Str(2, "ToAddr")>>
MsgUnvouchIn == {Str(1, "Creator"), Str(2, "ToAddr")}

MsgUnvouchResponseOut == <<>>
MsgUnvouchResponseIn == {}

MsgLockEscrowOut ==
  <<Str(1, "Creator"), Str(2, "Payee"), U64(3, "Amount"), Str(4, "Ref"),
    U64(5, "DisputeSeconds"), Bool(6, "NoAutoRelease"), Strs(7, "VerifierAddrs"),
    U64(8, "VerifierQuorum"), Str(9, "AcceptanceHash")>>
MsgLockEscrowIn ==
  {Str(1, "Creator"), Str(2, "Payee"), U64(3, "Amount"), Str(4, "Ref"),
   U64(5, "DisputeSeconds"), Bool(6, "NoAutoRelease"), Strs(7, "VerifierAddrs"),
   U64(8, "VerifierQuorum"), Str(9, "AcceptanceHash")}

MsgLockEscrowResponseOut == <<U64(1, "Id")>>
MsgLockEscrowResponseIn == {U64(1, "Id")}

MsgReleaseEscrowOut == <<Str(1, "Creator"), U64(2, "Id")>>
MsgReleaseEscrowIn == {Str(1, "Creator"), U64(2, "Id")}

MsgReleaseEscrowResponseOut == <<>>
MsgReleaseEscrowResponseIn == {}

MsgRefundEscrowOut == <<Str(1, "Creator"), U64(2, "Id")>>
MsgRefundEscrowIn == {Str(1, "Creator"), U64(2, "Id")}

MsgRefundEscrowResponseOut == <<>>
MsgRefundEscrowResponseIn == {}

MsgSubmitEscrowOut ==
  <<Str(1, "Creator"), U64(2, "Id"), Str(3, "DeliveryHash"), Str(4, "KeyHash"),
    Str(5, "ArtifactUri")>>
MsgSubmitEscrowIn ==
  {Str(1, "Creator"), U64(2, "Id"), Str(3, "DeliveryHash"), Str(4, "KeyHash"),
   Str(5, "ArtifactUri")}

MsgSubmitEscrowResponseOut == <<>>
MsgSubmitEscrowResponseIn == {}

MsgDisputeEscrowOut == <<Str(1, "Creator"), U64(2, "Id")>>
MsgDisputeEscrowIn == {Str(1, "Creator"), U64(2, "Id")}

MsgDisputeEscrowResponseOut == <<>>
MsgDisputeEscrowResponseIn == {}

MsgOpenDisputeOut ==
  <<Str(1, "Creator"), U64(2, "EscrowId"), Str(3, "Reason"), U64(4, "BondAmount")>>
MsgOpenDisputeIn ==
  {Str(1, "Creator"), U64(2, "EscrowId"), Str(3, "Reason"), U64(4, "BondAmount")}

MsgOpenDisputeResponseOut == <<U64(1, "Id")>>
MsgOpenDisputeResponseIn == {U64(1, "Id")}

MsgCastVoteOut ==
  <<Str(1, "Creator"), U64(2, "DisputeId"), Bool(3, "Accept"), U64(4, "StakeAmount")>>
MsgCastVoteIn ==
  {Str(1, "Creator"), U64(2, "DisputeId"), Bool(3, "Accept"), U64(4, "StakeAmount")}

MsgCastVoteResponseOut == <<>>
MsgCastVoteResponseIn == {}

MsgResolveDisputeOut == <<Str(1, "Creator"), U64(2, "DisputeId")>>
MsgResolveDisputeIn == {Str(1, "Creator"), U64(2, "DisputeId")}

MsgResolveDisputeResponseOut == <<Str(1, "Resolution")>>
MsgResolveDisputeResponseIn == {Str(1, "Resolution")}

MsgPostBondOut ==
  <<Str(1, "Creator"), U64(2, "Amount"), Str(3, "Purpose"), Str(4, "Slasher"),
    Str(5, "Ref")>>
MsgPostBondIn ==
  {Str(1, "Creator"), U64(2, "Amount"), Str(3, "Purpose"), Str(4, "Slasher"),
   Str(5, "Ref")}

MsgPostBondResponseOut == <<U64(1, "Id")>>
MsgPostBondResponseIn == {U64(1, "Id")}

MsgReleaseBondOut == <<Str(1, "Creator"), U64(2, "Id")>>
MsgReleaseBondIn == {Str(1, "Creator"), U64(2, "Id")}

MsgReleaseBondResponseOut == <<>>
MsgReleaseBondResponseIn == {}

MsgSlashBondOut == <<Str(1, "Creator"), U64(2, "Id"), Str(3, "Beneficiary")>>
MsgSlashBondIn == {Str(1, "Creator"), U64(2, "Id"), Str(3, "Beneficiary")}

MsgSlashBondResponseOut == <<>>
MsgSlashBondResponseIn == {}

MsgAttestEscrowOut ==
  <<Str(1, "Creator"), U64(2, "EscrowId"), Bool(3, "Passed"), U64(4, "StakeAmount"),
    Str(5, "DeliveryHash"), Str(6, "KeyHash"), Str(7, "AcceptanceHash")>>
MsgAttestEscrowIn ==
  {Str(1, "Creator"), U64(2, "EscrowId"), Bool(3, "Passed"), U64(4, "StakeAmount"),
   Str(5, "DeliveryHash"), Str(6, "KeyHash"), Str(7, "AcceptanceHash")}

MsgAttestEscrowResponseOut == <<U64(1, "BondId")>>
MsgAttestEscrowResponseIn == {U64(1, "BondId")}

MsgVerifiedReleaseOut == <<Str(1, "Creator"), U64(2, "EscrowId"), Str(3, "Key")>>
MsgVerifiedReleaseIn == {Str(1, "Creator"), U64(2, "EscrowId"), Str(3, "Key")}

MsgVerifiedReleaseResponseOut == <<>>
MsgVerifiedReleaseResponseIn == {}

MsgReclaimAttestationBondsOut == <<Str(1, "Creator"), U64(2, "EscrowId")>>
MsgReclaimAttestationBondsIn == {Str(1, "Creator"), U64(2, "EscrowId")}

MsgReclaimAttestationBondsResponseOut == <<>>
MsgReclaimAttestationBondsResponseIn == {}

MsgPostGateOut ==
  <<Str(1, "Creator"), Str(2, "PayloadUri"), Str(3, "PayloadHash"),
    Str(4, "GoldCommit"), U64(5, "Drip"), U64(6, "MaxAnswers")>>
MsgPostGateIn ==
  {Str(1, "Creator"), Str(2, "PayloadUri"), Str(3, "PayloadHash"),
   Str(4, "GoldCommit"), U64(5, "Drip"), U64(6, "MaxAnswers")}

MsgPostGateResponseOut == <<U64(1, "Id")>>
MsgPostGateResponseIn == {U64(1, "Id")}

MsgCommitAnswerOut == <<Str(1, "Creator"), U64(2, "GateId"), Str(3, "Commit")>>
MsgCommitAnswerIn == {Str(1, "Creator"), U64(2, "GateId"), Str(3, "Commit")}

MsgCommitAnswerResponseOut == <<>>
MsgCommitAnswerResponseIn == {}

MsgRevealAnswerOut ==
  <<Str(1, "Creator"), U64(2, "GateId"), Str(3, "Answer"), Str(4, "Salt")>>
MsgRevealAnswerIn ==
  {Str(1, "Creator"), U64(2, "GateId"), Str(3, "Answer"), Str(4, "Salt")}

MsgRevealAnswerResponseOut == <<>>
MsgRevealAnswerResponseIn == {}

MsgSettleGateOut ==
  <<Str(1, "Creator"), U64(2, "GateId"), Str(3, "GoldAnswer"), Str(4, "GoldSalt")>>
MsgSettleGateIn ==
  {Str(1, "Creator"), U64(2, "GateId"), Str(3, "GoldAnswer"), Str(4, "GoldSalt")}

MsgSettleGateResponseOut == <<Str(1, "Consensus")>>
MsgSettleGateResponseIn == {Str(1, "Consensus")}

MsgAwardContributionOut ==
  <<Str(1, "Creator"), Str(2, "Recipient"), Str(3, "RepoUrl"), Str(4, "PrUrl"),
    Str(5, "CommitSha"), Str(6, "ArtifactUri"), Str(7, "ArtifactSha256"),
    Str(8, "EvidenceSha256"), Str(9, "Scope"), Str(10, "RationaleHash"),
    U64(11, "Amount"), Str(12, "Contributor"), Bool(13, "FounderAuthored"),
    Str(14, "ReviewEvidenceUri")>>
MsgAwardContributionIn ==
  {Str(1, "Creator"), Str(2, "Recipient"), Str(3, "RepoUrl"), Str(4, "PrUrl"),
   Str(5, "CommitSha"), Str(6, "ArtifactUri"), Str(7, "ArtifactSha256"),
   Str(8, "EvidenceSha256"), Str(9, "Scope"), Str(10, "RationaleHash"),
   U64(11, "Amount"), Str(12, "Contributor"), Bool(13, "FounderAuthored"),
   Str(14, "ReviewEvidenceUri")}

MsgAwardContributionResponseOut == <<U64(1, "Id")>>
MsgAwardContributionResponseIn == {U64(1, "Id")}

MsgCastScopedEvidenceVouchOut ==
  <<Str(1, "Creator"), Str(2, "Recipient"), Str(3, "Scope"), U64(4, "Weight"),
    Str(5, "ArtifactUri"), Str(6, "ArtifactSha256"), Str(7, "EvidenceUri"),
    Str(8, "EvidenceSha256"), Str(9, "RationaleHash"), I64(10, "ExpiresAt")>>
MsgCastScopedEvidenceVouchIn ==
  {Str(1, "Creator"), Str(2, "Recipient"), Str(3, "Scope"), U64(4, "Weight"),
   Str(5, "ArtifactUri"), Str(6, "ArtifactSha256"), Str(7, "EvidenceUri"),
   Str(8, "EvidenceSha256"), Str(9, "RationaleHash"), I64(10, "ExpiresAt")}

MsgCastScopedEvidenceVouchResponseOut == <<U64(1, "Id")>>
MsgCastScopedEvidenceVouchResponseIn == {U64(1, "Id")}

TxMessages ==
  [MsgUpdateParams |-> [out |-> MsgUpdateParamsOut, in |-> MsgUpdateParamsIn],
   MsgUpdateParamsResponse |-> [out |-> MsgUpdateParamsResponseOut, in |-> MsgUpdateParamsResponseIn],
   MsgRegister |-> [out |-> MsgRegisterOut, in |-> MsgRegisterIn],
   MsgRegisterResponse |-> [out |-> MsgRegisterResponseOut, in |-> MsgRegisterResponseIn],
   MsgFaucet |-> [out |-> MsgFaucetOut, in |-> MsgFaucetIn],
   MsgFaucetResponse |-> [out |-> MsgFaucetResponseOut, in |-> MsgFaucetResponseIn],
   MsgTransfer |-> [out |-> MsgTransferOut, in |-> MsgTransferIn],
   MsgTransferResponse |-> [out |-> MsgTransferResponseOut, in |-> MsgTransferResponseIn],
   MsgCastvouch |-> [out |-> MsgCastvouchOut, in |-> MsgCastvouchIn],
   MsgCastvouchResponse |-> [out |-> MsgCastvouchResponseOut, in |-> MsgCastvouchResponseIn],
   MsgUnvouch |-> [out |-> MsgUnvouchOut, in |-> MsgUnvouchIn],
   MsgUnvouchResponse |-> [out |-> MsgUnvouchResponseOut, in |-> MsgUnvouchResponseIn],
   MsgLockEscrow |-> [out |-> MsgLockEscrowOut, in |-> MsgLockEscrowIn],
   MsgLockEscrowResponse |-> [out |-> MsgLockEscrowResponseOut, in |-> MsgLockEscrowResponseIn],
   MsgReleaseEscrow |-> [out |-> MsgReleaseEscrowOut, in |-> MsgReleaseEscrowIn],
   MsgReleaseEscrowResponse |-> [out |-> MsgReleaseEscrowResponseOut, in |-> MsgReleaseEscrowResponseIn],
   MsgRefundEscrow |-> [out |-> MsgRefundEscrowOut, in |-> MsgRefundEscrowIn],
   MsgRefundEscrowResponse |-> [out |-> MsgRefundEscrowResponseOut, in |-> MsgRefundEscrowResponseIn],
   MsgSubmitEscrow |-> [out |-> MsgSubmitEscrowOut, in |-> MsgSubmitEscrowIn],
   MsgSubmitEscrowResponse |-> [out |-> MsgSubmitEscrowResponseOut, in |-> MsgSubmitEscrowResponseIn],
   MsgDisputeEscrow |-> [out |-> MsgDisputeEscrowOut, in |-> MsgDisputeEscrowIn],
   MsgDisputeEscrowResponse |-> [out |-> MsgDisputeEscrowResponseOut, in |-> MsgDisputeEscrowResponseIn],
   MsgOpenDispute |-> [out |-> MsgOpenDisputeOut, in |-> MsgOpenDisputeIn],
   MsgOpenDisputeResponse |-> [out |-> MsgOpenDisputeResponseOut, in |-> MsgOpenDisputeResponseIn],
   MsgCastVote |-> [out |-> MsgCastVoteOut, in |-> MsgCastVoteIn],
   MsgCastVoteResponse |-> [out |-> MsgCastVoteResponseOut, in |-> MsgCastVoteResponseIn],
   MsgResolveDispute |-> [out |-> MsgResolveDisputeOut, in |-> MsgResolveDisputeIn],
   MsgResolveDisputeResponse |-> [out |-> MsgResolveDisputeResponseOut, in |-> MsgResolveDisputeResponseIn],
   MsgPostBond |-> [out |-> MsgPostBondOut, in |-> MsgPostBondIn],
   MsgPostBondResponse |-> [out |-> MsgPostBondResponseOut, in |-> MsgPostBondResponseIn],
   MsgReleaseBond |-> [out |-> MsgReleaseBondOut, in |-> MsgReleaseBondIn],
   MsgReleaseBondResponse |-> [out |-> MsgReleaseBondResponseOut, in |-> MsgReleaseBondResponseIn],
   MsgSlashBond |-> [out |-> MsgSlashBondOut, in |-> MsgSlashBondIn],
   MsgSlashBondResponse |-> [out |-> MsgSlashBondResponseOut, in |-> MsgSlashBondResponseIn],
   MsgAttestEscrow |-> [out |-> MsgAttestEscrowOut, in |-> MsgAttestEscrowIn],
   MsgAttestEscrowResponse |-> [out |-> MsgAttestEscrowResponseOut, in |-> MsgAttestEscrowResponseIn],
   MsgVerifiedRelease |-> [out |-> MsgVerifiedReleaseOut, in |-> MsgVerifiedReleaseIn],
   MsgVerifiedReleaseResponse |-> [out |-> MsgVerifiedReleaseResponseOut, in |-> MsgVerifiedReleaseResponseIn],
   MsgReclaimAttestationBonds |-> [out |-> MsgReclaimAttestationBondsOut, in |-> MsgReclaimAttestationBondsIn],
   MsgReclaimAttestationBondsResponse |-> [out |-> MsgReclaimAttestationBondsResponseOut, in |-> MsgReclaimAttestationBondsResponseIn],
   MsgPostGate |-> [out |-> MsgPostGateOut, in |-> MsgPostGateIn],
   MsgPostGateResponse |-> [out |-> MsgPostGateResponseOut, in |-> MsgPostGateResponseIn],
   MsgCommitAnswer |-> [out |-> MsgCommitAnswerOut, in |-> MsgCommitAnswerIn],
   MsgCommitAnswerResponse |-> [out |-> MsgCommitAnswerResponseOut, in |-> MsgCommitAnswerResponseIn],
   MsgRevealAnswer |-> [out |-> MsgRevealAnswerOut, in |-> MsgRevealAnswerIn],
   MsgRevealAnswerResponse |-> [out |-> MsgRevealAnswerResponseOut, in |-> MsgRevealAnswerResponseIn],
   MsgSettleGate |-> [out |-> MsgSettleGateOut, in |-> MsgSettleGateIn],
   MsgSettleGateResponse |-> [out |-> MsgSettleGateResponseOut, in |-> MsgSettleGateResponseIn],
   MsgAwardContribution |-> [out |-> MsgAwardContributionOut, in |-> MsgAwardContributionIn],
   MsgAwardContributionResponse |-> [out |-> MsgAwardContributionResponseOut, in |-> MsgAwardContributionResponseIn],
   MsgCastScopedEvidenceVouch |-> [out |-> MsgCastScopedEvidenceVouchOut, in |-> MsgCastScopedEvidenceVouchIn],
   MsgCastScopedEvidenceVouchResponse |-> [out |-> MsgCastScopedEvidenceVouchResponseOut, in |-> MsgCastScopedEvidenceVouchResponseIn]]
=============================================================================
