---------------------------- MODULE QueryTables -----------------------------
(***************************************************************************)
(* The requests and responses of the queries (query.pb.go). Of a message   *)
(* M, MOut lists the fields that MarshalToSizedBuffer writes, as they      *)
(* follow each other in the bytes, and MIn is the set of the cases of      *)
(* Unmarshal.                                                              *)
(***************************************************************************)
EXTENDS StateTables

(* External: the pagination messages of the Cosmos SDK.                    *)
PageRequestOut ==
  <<Str(1, "Key"), U64(2, "Offset"), U64(3, "Limit"), Bool(4, "CountTotal"), Bool(5, "Reverse")>>
PageRequestIn ==
  {Str(1, "Key"), U64(2, "Offset"), U64(3, "Limit"), Bool(4, "CountTotal"), Bool(5, "Reverse")}

PageResponseOut == <<Str(1, "NextKey"), U64(2, "Total")>>
PageResponseIn == {Str(1, "NextKey"), U64(2, "Total")}

QueryParamsRequestOut == <<>>
QueryParamsRequestIn == {}

QueryParamsResponseOut == <<Sub(1, "Params", ParamsOut)>>
QueryParamsResponseIn == {Sub(1, "Params", ParamsIn)}

QueryGetAccountRequestOut == <<Str(1, "Address")>>
QueryGetAccountRequestIn == {Str(1, "Address")}

QueryGetAccountResponseOut == <<Sub(1, "Account", AccountOut)>>
QueryGetAccountResponseIn == {Sub(1, "Account", AccountIn)}

QueryAllAccountRequestOut == <<Ref(1, "Pagination", PageRequestOut)>>
QueryAllAccountRequestIn == {Ref(1, "Pagination", PageRequestIn)}

QueryAllAccountResponseOut ==
  <<Subs(1, "Account", AccountOut), Ref(2, "Pagination", PageResponseOut)>>
QueryAllAccountResponseIn ==
  {Subs(1, "Account", AccountIn), Ref(2, "Pagination", PageResponseIn)}

QueryEmissionRequestOut == <<>>
QueryEmissionRequestIn == {}

QueryEmissionResponseOut ==
  <<Sub(1, "Emission", EmissionStateOut), U64(2, "RemainingScheduled"),
    U64(3, "RemainingEpoch")>>
QueryEmissionResponseIn ==
  {Sub(1, "Emission", EmissionStateIn), U64(2, "RemainingScheduled"),
   U64(3, "RemainingEpoch")}

QueryGetVouchRequestOut == <<U64(1, "Id")>>
QueryGetVouchRequestIn == {U64(1, "Id")}

QueryGetVouchResponseOut == <<Sub(1, "Vouch", VouchOut)>>
QueryGetVouchResponseIn == {Sub(1, "Vouch", VouchIn)}

QueryAllVouchRequestOut == <<Ref(1, "Pagination", PageRequestOut)>>
QueryAllVouchRequestIn == {Ref(1, "Pagination", PageRequestIn)}

QueryAllVouchResponseOut ==
  <<Subs(1, "Vouch", VouchOut), Ref(2, "Pagination", PageResponseOut)>>
QueryAllVouchResponseIn ==
  {Subs(1, "Vouch", VouchIn), Ref(2, "Pagination", PageResponseIn)}

QueryReputationRequestOut == <<Str(1, "Address")>>
QueryReputationRequestIn == {Str(1, "Address")}

QueryReputationResponseOut == <<Str(1, "Score")>>
QueryReputationResponseIn == {Str(1, "Score")}

QueryGetEscrowRequestOut == <<U64(1, "Id")>>
QueryGetEscrowRequestIn == {U64(1, "Id")}

QueryGetEscrowResponseOut == <<Sub(1, "Escrow", EscrowOut)>>
QueryGetEscrowResponseIn == {Sub(1, "Escrow", EscrowIn)}

QueryAllEscrowRequestOut == <<Ref(1, "Pagination", PageRequestOut)>>
QueryAllEscrowRequestIn == {Ref(1, "Pagination", PageRequestIn)}

QueryAllEscrowResponseOut ==
  <<Subs(1, "Escrow", EscrowOut), Ref(2, "Pagination", PageResponseOut)>>
QueryAllEscrowResponseIn ==
  {Subs(1, "Escrow", EscrowIn), Ref(2, "Pagination", PageResponseIn)}

QueryGetDisputeRequestOut == <<U64(1, "Id")>>
QueryGetDisputeRequestIn == {U64(1, "Id")}

QueryGetDisputeResponseOut == <<Sub(1, "Dispute", DisputeOut)>>
QueryGetDisputeResponseIn == {Sub(1, "Dispute", DisputeIn)}

QueryAllDisputeRequestOut == <<Ref(1, "Pagination", PageRequestOut)>>
QueryAllDisputeRequestIn == {Ref(1, "Pagination", PageRequestIn)}

QueryAllDisputeResponseOut ==
  <<Subs(1, "Dispute", DisputeOut), Ref(2, "Pagination", PageResponseOut)>>
QueryAllDisputeResponseIn ==
  {Subs(1, "Dispute", DisputeIn), Ref(2, "Pagination", PageResponseIn)}

QueryGetBondRequestOut == <<U64(1, "Id")>>
QueryGetBondRequestIn == {U64(1, "Id")}

QueryGetBondResponseOut == <<Sub(1, "Bond", BondOut)>>
QueryGetBondResponseIn == {Sub(1, "Bond", BondIn)}

QueryAllBondRequestOut == <<Ref(1, "Pagination", PageRequestOut)>>
QueryAllBondRequestIn == {Ref(1, "Pagination", PageRequestIn)}

QueryAllBondResponseOut ==
  <<Subs(1, "Bond", BondOut), Ref(2, "Pagination", PageResponseOut)>>
QueryAllBondResponseIn ==
  {Subs(1, "Bond", BondIn), Ref(2, "Pagination", PageResponseIn)}

QueryGetContributionAwardRequestOut == <<U64(1, "Id")>>
QueryGetContributionAwardRequestIn == {U64(1, "Id")}

QueryGetContributionAwardResponseOut ==
  <<Sub(1, "ContributionAward", ContributionAwardOut)>>
QueryGetContributionAwardResponseIn ==
  {Sub(1, "ContributionAward", ContributionAwardIn)}

QueryAllContributionAwardRequestOut == <<Ref(1, "Pagination", PageRequestOut)>>
QueryAllContributionAwardRequestIn == {Ref(1, "Pagination", PageRequestIn)}

QueryAllContributionAwardResponseOut ==
  <<Subs(1, "ContributionAward", ContributionAwardOut),
    Ref(2, "Pagination", PageResponseOut)>>
QueryAllContributionAwardResponseIn ==
  {Subs(1, "ContributionAward", ContributionAwardIn),
   Ref(2, "Pagination", PageResponseIn)}

QueryGetGateRequestOut == <<U64(1, "Id")>>
QueryGetGateRequestIn == {U64(1, "Id")}

QueryGetGateResponseOut == <<Sub(1, "Gate", GateOut)>>
QueryGetGateResponseIn == {Sub(1, "Gate", GateIn)}

QueryAllGateRequestOut == <<Ref(1, "Pagination", PageRequestOut)>>
QueryAllGateRequestIn == {Ref(1, "Pagination", PageRequestIn)}

QueryAllGateResponseOut ==
  <<Subs(1, "Gate", GateOut), Ref(2, "Pagination", PageResponseOut)>>
QueryAllGateResponseIn ==
  {Subs(1, "Gate", GateIn), Ref(2, "Pagination", PageResponseIn)}

QueryGetScopedEvidenceVouchRequestOut == <<U64(1, "Id")>>
QueryGetScopedEvidenceVouchRequestIn == {U64(1, "Id")}

QueryGetScopedEvidenceVouchResponseOut ==
  <<Sub(1, "ScopedEvidenceVouch", ScopedEvidenceVouchOut)>>
QueryGetScopedEvidenceVouchResponseIn ==
  {Sub(1, "ScopedEvidenceVouch", ScopedEvidenceVouchIn)}

QueryAllScopedEvidenceVouchRequestOut == <<Ref(1, "Pagination", PageRequestOut)>>
QueryAllScopedEvidenceVouchRequestIn == {Ref(1, "Pagination", PageRequestIn)}

QueryAllScopedEvidenceVouchResponseOut ==
  <<Subs(1, "ScopedEvidenceVouch", ScopedEvidenceVouchOut),
    Ref(2, "Pagination", PageResponseOut)>>
QueryAllScopedEvidenceVouchResponseIn ==
  {Subs(1, "ScopedEvidenceVouch", ScopedEvidenceVouchIn),
   Ref(2, "Pagination", PageResponseIn)}

QueryMessages ==
  [QueryParamsRequest |-> [out |-> QueryParamsRequestOut, in |-> QueryParamsRequestIn],
   QueryParamsResponse |-> [out |-> QueryParamsResponseOut, in |-> QueryParamsResponseIn],
   QueryGetAccountRequest |-> [out |-> QueryGetAccountRequestOut, in |-> QueryGetAccountRequestIn],
   QueryGetAccountResponse |-> [out |-> QueryGetAccountResponseOut, in |-> QueryGetAccountResponseIn],
   QueryAllAccountRequest |-> [out |-> QueryAllAccountRequestOut, in |-> QueryAllAccountRequestIn],
   QueryAllAccountResponse |-> [out |-> QueryAllAccountResponseOut, in |-> QueryAllAccountResponseIn],
   QueryEmissionRequest |-> [out |-> QueryEmissionRequestOut, in |-> QueryEmissionRequestIn],
   QueryEmissionResponse |-> [out |-> QueryEmissionResponseOut, in |-> QueryEmissionResponseIn],
   QueryGetVouchRequest |-> [out |-> QueryGetVouchRequestOut, in |-> QueryGetVouchRequestIn],
   QueryGetVouchResponse |-> [out |-> QueryGetVouchResponseOut, in |-> QueryGetVouchResponseIn],
   QueryAllVouchRequest |-> [out |-> QueryAllVouchRequestOut, in |-> QueryAllVouchRequestIn],
   QueryAllVouchResponse |-> [out |-> QueryAllVouchResponseOut, in |-> QueryAllVouchResponseIn],
   QueryReputationRequest |-> [out |-> QueryReputationRequestOut, in |-> QueryReputationRequestIn],
   QueryReputationResponse |-> [out |-> QueryReputationResponseOut, in |-> QueryReputationResponseIn],
   QueryGetEscrowRequest |-> [out |-> QueryGetEscrowRequestOut, in |-> QueryGetEscrowRequestIn],
   QueryGetEscrowResponse |-> [out |-> QueryGetEscrowResponseOut, in |-> QueryGetEscrowResponseIn],
   QueryAllEscrowRequest |-> [out |-> QueryAllEscrowRequestOut, in |-> QueryAllEscrowRequestIn],
   QueryAllEscrowResponse |-> [out |-> QueryAllEscrowResponseOut, in |-> QueryAllEscrowResponseIn],
   QueryGetDisputeRequest |-> [out |-> QueryGetDisputeRequestOut, in |-> QueryGetDisputeRequestIn],
   QueryGetDisputeResponse |-> [out |-> QueryGetDisputeResponseOut, in |-> QueryGetDisputeResponseIn],
   QueryAllDisputeRequest |-> [out |-> QueryAllDisputeRequestOut, in |-> QueryAllDisputeRequestIn],
   QueryAllDisputeResponse |-> [out |-> QueryAllDisputeResponseOut, in |-> QueryAllDisputeResponseIn],
   QueryGetBondRequest |-> [out |-> QueryGetBondRequestOut, in |-> QueryGetBondRequestIn],
   QueryGetBondResponse |-> [out |-> QueryGetBondResponseOut, in |-> QueryGetBondResponseIn],
   QueryAllBondRequest |-> [out |-> QueryAllBondRequestOut, in |-> QueryAllBondRequestIn],
   QueryAllBondResponse |-> [out |-> QueryAllBondResponseOut, in |-> QueryAllBondResponseIn],
   QueryGetContributionAwardRequest |-> [out |-> QueryGetContributionAwardRequestOut, in |-> QueryGetContributionAwardRequestIn],
   QueryGetContributionAwardResponse |-> [out |-> QueryGetContributionAwardResponseOut, in |-> QueryGetContributionAwardResponseIn],
   QueryAllContributionAwardRequest |-> [out |-> QueryAllContributionAwardRequestOut, in |-> QueryAllContributionAwardRequestIn],
   QueryAllContributionAwardResponse |-> [out |-> QueryAllContributionAwardResponseOut, in |-> QueryAllContributionAwardResponseIn],
   QueryGetGateRequest |-> [out |-> QueryGetGateRequestOut, in |-> QueryGetGateRequestIn],
   QueryGetGateResponse |-> [out |-> QueryGetGateResponseOut, in |-> QueryGetGateResponseIn],
   QueryAllGateRequest |-> [out |-> QueryAllGateRequestOut, in |-> QueryAllGateRequestIn],
   QueryAllGateResponse |-> [out |-> QueryAllGateResponseOut, in |-> QueryAllGateResponseIn],
   QueryGetScopedEvidenceVouchRequest |-> [out |-> QueryGetScopedEvidenceVouchRequestOut, in |-> QueryGetScopedEvidenceVouchRequestIn],
   QueryGetScopedEvidenceVouchResponse |-> [out |-> QueryGetScopedEvidenceVouchResponseOut, in |-> QueryGetScopedEvidenceVouchResponseIn],
   QueryAllScopedEvidenceVouchRequest |-> [out |-> QueryAllScopedEvidenceVouchRequestOut, in |-> QueryAllScopedEvidenceVouchRequestIn],
   QueryAllScopedEvidenceVouchResponse |-> [out |-> QueryAllScopedEvidenceVouchResponseOut, in |-> QueryAllScopedEvidenceVouchResponseIn]]
=============================================================================
