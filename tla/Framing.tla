------------------------------ MODULE Framing ------------------------------
(***************************************************************************)
(* The parts that the generated code (types/*.pb.go) writes a message      *)
(* from: numbers in groups of 7 bits (varints), the tag of a field, and    *)
(* bytes behind their length; and how they are read at a place in a buffer.*)
(***************************************************************************)
EXTENDS Integers, Sequences

CONSTANTS
  WordBits,   \* the width of uint64, int64 and int: 64 in the code
  TagBits     \* the width of int32, which holds a field number: 32 in the code

ASSUME WireAssumption ==
  /\ WordBits \in Nat /\ TagBits \in Nat
  /\ TagBits >= 1 /\ TagBits + 3 <= WordBits   \* a tag is a word

Byte == 0..255

(* 1 << n.                                                                 *)
Pow2[n \in Nat] == IF n = 0 THEN 1 ELSE 2 * Pow2[n - 1]

UInt64 == 0..(Pow2[WordBits] - 1)
SInt64 == (-Pow2[WordBits - 1])..(Pow2[WordBits - 1] - 1)

(* The two's complement of a word.                                         *)
Unsigned(n)     == n % Pow2[WordBits]
Signed(n, bits) == IF n >= Pow2[bits - 1] THEN n - Pow2[bits] ELSE n

(* Wire types: a number is a varint, everything else has a length.         *)
Varint  == 0
Fixed64 == 1
Bytes   == 2
Fixed32 == 5

WireType(kind) == IF kind \in {"uint64", "int64", "bool"} THEN Varint ELSE Bytes

-----------------------------------------------------------------------------
(* Marshal.                                                                *)

(* The loops over shift: at most so many groups of 7 bits.                 *)
MaxGroups == (WordBits + 6) \div 7

(* math_bits.Len64(x | 1), and the bytes that Size reserves for x.         *)
BitLen(x) == CHOOSE n \in 1..WordBits : x < Pow2[n] /\ (n = 1 \/ Pow2[n - 1] <= x)
Sov(x)    == (BitLen(x) + 6) \div 7

(* What is left of v after i groups.                                       *)
Rest(v) ==
  LET rest[i \in Nat] == IF i = 0 THEN v ELSE rest[i - 1] \div 128
  IN rest

(* The loop ends before its first group that fits into 7 bits.             *)
Continued(v) ==
  CHOOSE n \in 0..MaxGroups : Rest(v)[n] < 128 /\ \A i \in 0..(n - 1) : Rest(v)[i] >= 128

EncodeVarint(v) ==
  [i \in 1..(Continued(v) + 1) |->
     IF i <= Continued(v) THEN 128 + (Rest(v)[i - 1] % 128) ELSE Rest(v)[i - 1]]

TagNumber(f) == f.num * 8 + WireType(f.kind)

Tag(f) == EncodeVarint(TagNumber(f))

Framed(f, bytes) == Tag(f) \o EncodeVarint(Len(bytes)) \o bytes

-----------------------------------------------------------------------------
(* Unmarshal.  A read at a place ends at another one with a value, or      *)
(* fails; the messages of the errors are left out.                         *)

Failed == [ok |-> FALSE]
Read(value, next) == [ok |-> TRUE, value |-> value, next |-> next]

(* The places where a varint that starts at a place may end.               *)
Ends(bytes, at) ==
  {k \in 1..MaxGroups :
     /\ at + k - 1 <= Len(bytes)
     /\ bytes[at + k - 1] < 128
     /\ \A j \in 1..(k - 1) : bytes[at + j - 1] >= 128}

(* The number that the first groups make.                                  *)
Groups(bytes, at) ==
  LET value[k \in 0..(Len(bytes) - at + 1)] ==
        IF k = 0 THEN 0
        ELSE value[k - 1] + (bytes[at + k - 1] % 128) * Pow2[7 * (k - 1)]
  IN value

(* The bits that leave the word are lost without an error.                 *)
ReadVarint(bytes, at) ==
  IF Ends(bytes, at) = {} THEN Failed
  ELSE LET k == CHOOSE x \in Ends(bytes, at) : TRUE
       IN Read(Unsigned(Groups(bytes, at)[k]), at + k)

(* Mutant: what is missing at the end is not noticed.                      *)
ReadBytesShort(bytes, at) ==
  LET length == ReadVarint(bytes, at)
  IN IF ~length.ok THEN Failed
     ELSE Read(SubSeq(bytes, length.next,
                      IF length.next + length.value - 1 > Len(bytes)
                      THEN Len(bytes) ELSE length.next + length.value - 1),
               length.next + length.value)

(* A length and as many bytes.                                             *)
ReadBytes(bytes, at) ==
  LET length == ReadVarint(bytes, at)
      end    == length.next + length.value
  IN IF ~length.ok \/ Signed(length.value, WordBits) < 0 \/ end - 1 > Len(bytes)
     THEN Failed
     ELSE Read(SubSeq(bytes, length.next, end - 1), end)

(* The field number and the wire type of a tag.                            *)
FieldNum(tag) == Signed((tag \div 8) % Pow2[TagBits], TagBits)
WireOf(tag)   == tag % 8
=============================================================================
