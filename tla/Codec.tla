------------------------------- MODULE Codec -------------------------------
(***************************************************************************)
(* A message on its way: a Go program (a node, the daemon, the store) or   *)
(* the client turns it into bytes, a Go program reads them.  On the way    *)
(* the bytes may lose their end, carry a field of a newer version, or gain *)
(* a field with a length that is not there.                                *)
(***************************************************************************)
EXTENDS StateTables, TxTables, QueryTables, ClientTables, TLC

CONSTANTS
  Texts,       \* texts that are sent
  Words,       \* unsigned numbers that are sent
  Integers64,  \* signed numbers that are sent
  BigInts,     \* numbers the client is given, in or out of the range of a field
  Extras,      \* encoded fields of a newer version
  Overlong     \* encoded lengths that no field here has

ASSUME CodecAssumption ==
  /\ Texts \subseteq Seq(Byte) /\ Extras \subseteq Seq(Byte) /\ Overlong \subseteq Seq(Byte)
  /\ Words \subseteq UInt64 /\ Integers64 \subseteq SInt64 /\ BigInts \subseteq Int

VARIABLES
  name,     \* the name of the message
  sender,   \* "go" or "client"
  sent,     \* the message
  bytes,    \* the bytes on their way
  fate,     \* what happened to them
  got       \* what the reader made of them; <<>> until it has read them

vars == <<name, sender, sent, bytes, fate, got>>

GoMessages == StateMessages @@ TxMessages @@ QueryMessages

(* RegisterInterfaces: the messages that the codec of transactions knows.  *)
Registered ==
  {"MsgCastvouch", "MsgUnvouch", "MsgLockEscrow", "MsgReleaseEscrow", "MsgRefundEscrow",
   "MsgSubmitEscrow", "MsgDisputeEscrow", "MsgTransfer", "MsgFaucet", "MsgRegister",
   "MsgUpdateParams", "MsgOpenDispute", "MsgCastVote", "MsgResolveDispute", "MsgPostBond",
   "MsgReleaseBond", "MsgSlashBond", "MsgAttestEscrow", "MsgVerifiedRelease",
   "MsgReclaimAttestationBonds", "MsgPostGate", "MsgCommitAnswer", "MsgRevealAnswer",
   "MsgSettleGate", "MsgAwardContribution", "MsgCastScopedEvidenceVouch"}

-----------------------------------------------------------------------------
(* What is sent: the message without any field set and the one with every  *)
(* field set to a value of its own, with one field changed.                *)

RECURSIVE Full(_)

FullOf(f) ==
  CASE f.kind = "string"  -> <<f.num, 200>>
    [] f.kind = "strings" -> <<<<f.num>>, <<>>, <<200, f.num>>>>
    [] f.kind = "uint64"  -> 100 + 3 * f.num
    [] f.kind = "int64"   -> -f.num
    [] f.kind = "bool"    -> TRUE
    [] f.kind = "message" -> Full(f.of)
    [] f.kind = "pointer" -> <<Full(f.of)>>
    [] f.kind = "messages" -> <<Full(f.of), Zero(f.of), Full(f.of)>>

Full(table) == [n \in Names(table) |-> FullOf(FieldNamed(table, n))]

ValuesOf(f) ==
  CASE f.kind = "string"  -> Texts
    [] f.kind = "strings" -> {<<t>> : t \in Texts}
    [] f.kind = "uint64"  -> Words
    [] f.kind = "int64"   -> Integers64
    [] f.kind = "bool"    -> BOOLEAN
    [] f.kind = "message" -> {Zero(f.of), Full(f.of)}
    [] f.kind \in {"pointer", "messages"} -> {<<>>, <<Zero(f.of)>>}

Bases(table) == {Zero(table), Full(table)}

Sendable(table) ==
  Bases(table) \cup
  UNION {UNION {{[base EXCEPT ![f.name] = v] : v \in ValuesOf(f)} : f \in table} :
           base \in Bases(table)}

(* The client has no arguments for some fields.                            *)
ClientBases(n) ==
  {[x \in DOMAIN base |->
      IF x \in Names(Range(ClientMessages[n])) THEN base[x] ELSE Zero(GoMessages[n].in)[x]] :
     base \in Bases(GoMessages[n].in)}

(* A number is any BigInt: nothing between the command line and varint     *)
(* asks whether it is negative or too large for the field.                 *)
ClientValuesOf(f) ==
  CASE f.kind \in {"string", "given"} -> Texts
    [] f.kind = "number" -> BigInts
    [] f.kind = "bool"   -> BOOLEAN

ClientSendable(n) ==
  ClientBases(n) \cup
  UNION {UNION {{[base EXCEPT ![f.name] = v] : v \in ClientValuesOf(f)} :
                  f \in Range(ClientMessages[n])} : base \in ClientBases(n)}

-----------------------------------------------------------------------------
Init ==
  /\ name = "" /\ sender = "" /\ sent = <<>>
  /\ bytes = <<>> /\ fate = "" /\ got = <<>>

GoSends(n, m) ==
  /\ name = ""
  /\ name' = n /\ sender' = "go" /\ sent' = m /\ fate' = "intact" /\ got' = <<>>
  /\ bytes' = Marshal(GoMessages[n].out, m)

ClientSends(n, m) ==
  /\ name = ""
  /\ name' = n /\ sender' = "client" /\ sent' = m /\ fate' = "intact" /\ got' = <<>>
  /\ bytes' = ClientMarshal(ClientMessages[n], m)

(* Bound: of the messages of a table, the empty and the full one suffer.   *)
MayBeDamaged ==
  /\ name # "" /\ fate = "intact" /\ got = <<>>
  /\ sent \in IF sender = "go" THEN Bases(GoMessages[name].in) ELSE ClientBases(name)

Cut(k) ==
  /\ MayBeDamaged
  /\ fate' = "cut"
  /\ bytes' = SubSeq(bytes, 1, k)
  /\ UNCHANGED <<name, sender, sent, got>>

Extend(extra, before) ==
  /\ MayBeDamaged
  /\ fate' = "extended"
  /\ bytes' = IF before THEN extra \o bytes ELSE bytes \o extra
  /\ UNCHANGED <<name, sender, sent, got>>

(* The fields with a length, and one that only a newer version has.        *)
Breakable ==
  IF name = "" THEN {}
  ELSE {f.num : f \in {x \in GoMessages[name].in : WireType(x.kind) = Bytes}} \cup {100}

(* Such a field, with a length that leads nowhere.                         *)
Break(num, length) ==
  /\ MayBeDamaged
  /\ fate' = "broken"
  /\ bytes' = bytes \o EncodeVarint(num * 8 + Bytes) \o length
  /\ UNCHANGED <<name, sender, sent, got>>

(* The messages in a transaction are unpacked by their registered type.    *)
GoReads ==
  /\ name # "" /\ got = <<>>
  /\ LET r == Unmarshal(GoMessages[name].in, bytes)
     IN got' = IF (sender = "client" => name \in Registered) /\ r.ok
               THEN [ok |-> TRUE, value |-> r.value]
               ELSE Failed
  /\ UNCHANGED <<name, sender, sent, bytes, fate>>

Next ==
  \/ \E n \in DOMAIN GoMessages : \E m \in Sendable(GoMessages[n].in) : GoSends(n, m)
  \/ \E n \in DOMAIN ClientMessages : \E m \in ClientSendable(n) : ClientSends(n, m)
  \/ \E k \in 0..(Len(bytes) - 1) : Cut(k)
  \/ \E extra \in Extras, before \in BOOLEAN : Extend(extra, before)
  \/ \E num \in Breakable, length \in Overlong : Break(num, length)
  \/ GoReads

Spec == Init /\ [][Next]_vars

-----------------------------------------------------------------------------
Understood == got = [ok |-> TRUE, value |-> sent]

(* The numbers of a client's message that its varint can carry: a negative *)
(* one loses all but its lowest byte, one over the word its upper bits.    *)
Carried ==
  \A f \in Range(ClientMessages[name]) :
    f.kind = "number" =>
      sent[f.name] \in IF FieldNamed(GoMessages[name].in, f.name).kind = "int64"
                       THEN SInt64 \cap Nat ELSE UInt64

AsMeant == sender = "client" => Carried

(***************************************************************************)
(* What is encoded is read back as it was meant: for every message of the  *)
(* chain the cases of Unmarshal agree with what MarshalToSizedBuffer       *)
(* writes, negative numbers included, and with what the hand-written       *)
(* encoder of the client writes, for zero values, numbers and lengths of   *)
(* several bytes and nested messages; and a field of a newer version, of   *)
(* whatever wire type and wherever it is, does not disturb the others.     *)
(* The client's encoder does so exactly for the numbers that its varint    *)
(* can carry: given a negative one or one over the word, it signs and      *)
(* sends another message, or one that the chain cannot read.               *)
(***************************************************************************)
RoundTrip == got # <<>> /\ fate \in {"intact", "extended"} => (Understood <=> AsMeant)

(* Part of a value: all of it, nothing, or the first elements.             *)
PartOf(f, part, whole) ==
  \/ part = whole
  \/ part = ZeroOf(f)
  \/ f.kind \in {"strings", "messages"} /\ IsPrefix(part, whole)

(***************************************************************************)
(* Bytes that lost their end are refused, or read as the fields that are   *)
(* complete: a cut never invents a value, such as a smaller amount or      *)
(* another address.  A length beyond the end, negative as an int or longer *)
(* than a word is refused, for a field that is known or skipped.           *)
(***************************************************************************)
DamageInventsNothing ==
  /\ fate = "cut" /\ got # <<>> /\ got.ok /\ AsMeant =>
       \A f \in GoMessages[name].in :
         f.kind # "message" => PartOf(f, got.value[f.name], sent[f.name])
  /\ fate = "broken" /\ got # <<>> => ~got.ok
=============================================================================
