---------------------------- MODULE ClientTables ----------------------------
(***************************************************************************)
(* The encoder of the client, written by hand (client/src/ag3nt.ts): one   *)
(* table per message that an agent can sign, with the fields as they are   *)
(* written, named after the Go fields they are meant for.                  *)
(***************************************************************************)
EXTENDS Wire

StrField(n, f)   == [num |-> n, name |-> f, kind |-> "string"]
NumField(n, f)   == [num |-> n, name |-> f, kind |-> "number"]
BoolField(n, f)  == [num |-> n, name |-> f, kind |-> "bool"]
GivenField(n, f) == [num |-> n, name |-> f, kind |-> "given"]   \* a text left out if empty

(* varint: a BigInt, so of any size; a negative one ends the loop at once  *)
(* and leaves its lowest byte.                                             *)
ClientVarint(v) ==
  LET groups[n \in Int] ==
        IF n > 127 THEN <<128 + (n % 128)>> \o groups[n \div 128] ELSE <<n % 256>>
  IN groups[v]

ClientTag(f) ==
  ClientVarint(f.num * 8 + (IF f.kind \in {"number", "bool"} THEN Varint ELSE Bytes))

ClientText(f, v) == ClientTag(f) \o ClientVarint(Len(v)) \o v

(* Zero and the empty text are written, unlike in Go.                      *)
ClientFieldBytes(f, v) ==
  CASE f.kind = "string" -> ClientText(f, v)
    [] f.kind = "given"  -> IF v = <<>> THEN <<>> ELSE ClientText(f, v)
    [] f.kind = "number" -> ClientTag(f) \o ClientVarint(v)
    [] f.kind = "bool"   -> IF v THEN ClientTag(f) \o <<1>> ELSE <<>>

ClientMarshal(table, m) ==
  FlattenSeq([i \in DOMAIN table |-> ClientFieldBytes(table[i], m[table[i].name])])

ClientRegister == <<StrField(1, "Creator")>>

ClientFaucet == <<StrField(1, "Creator")>>

ClientTransfer ==
  <<StrField(1, "Creator"), StrField(2, "ToAddr"), NumField(3, "Amount")>>

ClientCastvouch ==
  <<StrField(1, "Creator"), StrField(2, "ToAddr"), NumField(3, "Weight"),
    NumField(4, "Stake")>>

ClientUnvouch == <<StrField(1, "Creator"), StrField(2, "ToAddr")>>

ClientLockEscrow ==
  <<StrField(1, "Creator"), StrField(2, "Payee"), NumField(3, "Amount"),
    StrField(4, "Ref"), NumField(5, "DisputeSeconds"), BoolField(6, "NoAutoRelease")>>

ClientReleaseEscrow == <<StrField(1, "Creator"), NumField(2, "Id")>>

ClientRefundEscrow == <<StrField(1, "Creator"), NumField(2, "Id")>>

ClientSubmitEscrow ==
  <<StrField(1, "Creator"), NumField(2, "Id"), GivenField(3, "DeliveryHash")>>

ClientDisputeEscrow == <<StrField(1, "Creator"), NumField(2, "Id")>>

(* Mutant: a bond and a reason change places.                              *)
ClientOpenDisputeSwapped ==
  <<StrField(1, "Creator"), NumField(2, "EscrowId"), StrField(4, "Reason"),
    NumField(3, "BondAmount")>>

ClientOpenDispute ==
  <<StrField(1, "Creator"), NumField(2, "EscrowId"), StrField(3, "Reason"),
    NumField(4, "BondAmount")>>

ClientCastVote ==
  <<StrField(1, "Creator"), NumField(2, "DisputeId"), BoolField(3, "Accept"),
    NumField(4, "StakeAmount")>>

ClientResolveDispute == <<StrField(1, "Creator"), NumField(2, "DisputeId")>>

ClientPostBond ==
  <<StrField(1, "Creator"), NumField(2, "Amount"), StrField(3, "Purpose"),
    StrField(4, "Slasher"), StrField(5, "Ref")>>

ClientReleaseBond == <<StrField(1, "Creator"), NumField(2, "Id")>>

ClientSlashBond ==
  <<StrField(1, "Creator"), NumField(2, "Id"), GivenField(3, "Beneficiary")>>

ClientPostGate ==
  <<StrField(1, "Creator"), StrField(2, "PayloadUri"), StrField(3, "PayloadHash"),
    StrField(4, "GoldCommit"), NumField(5, "Drip"), NumField(6, "MaxAnswers")>>

ClientCommitAnswer ==
  <<StrField(1, "Creator"), NumField(2, "GateId"), StrField(3, "Commit")>>

ClientRevealAnswer ==
  <<StrField(1, "Creator"), NumField(2, "GateId"), StrField(3, "Answer"),
    StrField(4, "Salt")>>

ClientSettleGate ==
  <<StrField(1, "Creator"), NumField(2, "GateId"), StrField(3, "GoldAnswer"),
    StrField(4, "GoldSalt")>>

ClientAwardContribution ==
  <<StrField(1, "Creator"), StrField(2, "Recipient"), StrField(3, "RepoUrl"),
    StrField(4, "PrUrl"), StrField(5, "CommitSha"), StrField(6, "ArtifactUri"),
    StrField(7, "ArtifactSha256"), StrField(8, "EvidenceSha256"),
    StrField(9, "Scope"), StrField(10, "RationaleHash"), NumField(11, "Amount"),
    StrField(12, "Contributor"), BoolField(13, "FounderAuthored"),
    StrField(14, "ReviewEvidenceUri")>>

ClientCastScopedEvidenceVouch ==
  <<StrField(1, "Creator"), StrField(2, "Recipient"), StrField(3, "Scope"),
    NumField(4, "Weight"), StrField(5, "ArtifactUri"),
    StrField(6, "ArtifactSha256"), StrField(7, "EvidenceUri"),
    StrField(8, "EvidenceSha256"), StrField(9, "RationaleHash"),
    NumField(10, "ExpiresAt")>>

ClientMessages ==
  [MsgRegister |-> ClientRegister,
   MsgFaucet |-> ClientFaucet,
   MsgTransfer |-> ClientTransfer,
   MsgCastvouch |-> ClientCastvouch,
   MsgUnvouch |-> ClientUnvouch,
   MsgLockEscrow |-> ClientLockEscrow,
   MsgReleaseEscrow |-> ClientReleaseEscrow,
   MsgRefundEscrow |-> ClientRefundEscrow,
   MsgSubmitEscrow |-> ClientSubmitEscrow,
   MsgDisputeEscrow |-> ClientDisputeEscrow,
   MsgOpenDispute |-> ClientOpenDispute,
   MsgCastVote |-> ClientCastVote,
   MsgResolveDispute |-> ClientResolveDispute,
   MsgPostBond |-> ClientPostBond,
   MsgReleaseBond |-> ClientReleaseBond,
   MsgSlashBond |-> ClientSlashBond,
   MsgPostGate |-> ClientPostGate,
   MsgCommitAnswer |-> ClientCommitAnswer,
   MsgRevealAnswer |-> ClientRevealAnswer,
   MsgSettleGate |-> ClientSettleGate,
   MsgAwardContribution |-> ClientAwardContribution,
   MsgCastScopedEvidenceVouch |-> ClientCastScopedEvidenceVouch]
=============================================================================
