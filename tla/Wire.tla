-------------------------------- MODULE Wire --------------------------------
(***************************************************************************)
(* The wire format of the generated code (types/*.pb.go): how a message is *)
(* turned into bytes and read back.  The control of every Marshal and      *)
(* Unmarshal is the same and is here; what differs from message to message *)
(* is the table of its fields (modules StateTables, TxTables and           *)
(* QueryTables).                                                           *)
(*                                                                         *)
(* A message is a function from the names of its Go fields to values: a    *)
(* text is the sequence of its bytes, an optional message (a pointer) a    *)
(* sequence of at most one, a repeated field a sequence.                   *)
(***************************************************************************)
EXTENDS Framing, FiniteSets, Functions, SequencesExt

Str(n, f)    == [num |-> n, name |-> f, kind |-> "string"]
Strs(n, f)   == [num |-> n, name |-> f, kind |-> "strings"]
U64(n, f)    == [num |-> n, name |-> f, kind |-> "uint64"]
I64(n, f)    == [num |-> n, name |-> f, kind |-> "int64"]
Bool(n, f)   == [num |-> n, name |-> f, kind |-> "bool"]
Sub(n, f, t)  == [num |-> n, name |-> f, kind |-> "message", of |-> t]
Ref(n, f, t)  == [num |-> n, name |-> f, kind |-> "pointer", of |-> t]
Subs(n, f, t) == [num |-> n, name |-> f, kind |-> "messages", of |-> t]

-----------------------------------------------------------------------------
(* Marshal.  The code fills the buffer from its end with the last field    *)
(* first, so the bytes are in the order of the table.                      *)

RECURSIVE Marshal(_, _)

(* Values that are zero, empty or nil are not written; a message that is   *)
(* not a pointer always is.                                                *)
FieldBytes(f, v) ==
  CASE f.kind = "string" -> IF v = <<>> THEN <<>> ELSE Framed(f, v)
    [] f.kind = "strings" -> FlattenSeq([i \in DOMAIN v |-> Framed(f, v[i])])
    [] f.kind \in {"uint64", "int64"} ->
         IF v = 0 THEN <<>> ELSE Tag(f) \o EncodeVarint(Unsigned(v))
    [] f.kind = "bool" -> IF v THEN Tag(f) \o <<1>> ELSE <<>>
    [] f.kind = "message" -> Framed(f, Marshal(f.of, v))
    [] f.kind \in {"pointer", "messages"} ->
         FlattenSeq([i \in DOMAIN v |-> Framed(f, Marshal(f.of, v[i]))])

(* table: the sequence of the fields as they are written.                  *)
Marshal(table, m) ==
  FlattenSeq([i \in DOMAIN table |-> FieldBytes(table[i], m[table[i].name])])

-----------------------------------------------------------------------------
(* Unmarshal.                                                              *)

RECURSIVE SkipFrom(_, _, _)

(* skipTx and its copies: past one field, or one group of fields.          *)
SkipFrom(bytes, at, depth) ==
  LET tag  == ReadVarint(bytes, at)
      wire == WireOf(tag.value)
      body == CASE wire = Varint  -> ReadVarint(bytes, tag.next)
                [] wire = Bytes   ->
                     LET n == ReadVarint(bytes, tag.next)
                     IN IF n.ok /\ Signed(n.value, WordBits) >= 0
                        THEN Read(0, n.next + n.value) ELSE Failed
                [] wire = Fixed64 -> Read(0, tag.next + 8)
                [] wire = Fixed32 -> Read(0, tag.next + 4)
                [] wire = 3       -> Read(1, tag.next)
                [] wire = 4       -> IF depth > 0 THEN Read(-1, tag.next) ELSE Failed
                [] OTHER          -> Failed
      level == IF wire \in {3, 4} THEN depth + body.value ELSE depth
  IN IF at > Len(bytes) \/ ~tag.ok \/ ~body.ok THEN Failed
     ELSE IF level = 0 THEN body
     ELSE SkipFrom(bytes, body.next, level)

Skip(bytes, at) == SkipFrom(bytes, at, 0)

ZeroOf(f) ==
  CASE f.kind \in {"uint64", "int64"} -> 0
    [] f.kind = "bool" -> FALSE
    [] OTHER -> <<>>

Names(table) == {f.name : f \in table}
FieldNamed(table, name) == CHOOSE f \in table : f.name = name

RECURSIVE Zero(_)

(* A Go message without any field set.                                     *)
Zero(table) ==
  [name \in Names(table) |->
     LET f == FieldNamed(table, name)
     IN IF f.kind = "message" THEN Zero(f.of) ELSE ZeroOf(f)]

RECURSIVE UnmarshalFrom(_, _, _, _)

(* The case of the field f: a message that is there already is read into,  *)
(* a repeated field grows, other fields are overwritten.                   *)
ReadField(f, old, bytes, at) ==
  LET r == IF WireType(f.kind) = Varint THEN ReadVarint(bytes, at) ELSE ReadBytes(bytes, at)
      into == CASE f.kind = "message" -> old
                [] f.kind = "pointer" /\ old # <<>> -> old[1]
                [] OTHER -> Zero(f.of)
      inner == UnmarshalFrom(f.of, into, r.value, 1)
  IN CASE ~r.ok               -> Failed
       [] f.kind = "uint64"   -> r
       [] f.kind = "int64"    -> Read(Signed(r.value, WordBits), r.next)
       [] f.kind = "bool"     -> Read(r.value # 0, r.next)
       [] f.kind = "string"   -> r
       [] f.kind = "strings"  -> Read(Append(old, r.value), r.next)
       [] OTHER ->
            CASE ~inner.ok             -> Failed
              [] f.kind = "message"    -> Read(inner.value, r.next)
              [] f.kind = "pointer"    -> Read(<<inner.value>>, r.next)
              [] f.kind = "messages"   -> Read(Append(old, inner.value), r.next)

(* table: the set of the fields the switch has a case for.                 *)
UnmarshalFrom(table, m, bytes, at) ==
  LET tag  == ReadVarint(bytes, at)
      num  == FieldNum(tag.value)
      wire == WireOf(tag.value)
      case == {f \in table : f.num = num}
      f    == CHOOSE x \in case : TRUE
      skip == Skip(bytes, at)
      read == ReadField(f, m[f.name], bytes, tag.next)
  IN CASE at > Len(bytes) -> Read(m, at)
       [] ~tag.ok         -> Failed
       [] wire = 4 \/ num <= 0 -> Failed
       [] case = {} ->
            IF ~skip.ok \/ skip.next - 1 > Len(bytes) THEN Failed
            ELSE UnmarshalFrom(table, m, bytes, skip.next)
       [] OTHER ->
            IF wire # WireType(f.kind) \/ ~read.ok THEN Failed
            ELSE UnmarshalFrom(table, [m EXCEPT ![f.name] = read.value], bytes, read.next)

Unmarshal(table, bytes) == UnmarshalFrom(table, Zero(table), bytes, 1)
=============================================================================
