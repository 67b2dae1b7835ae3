------------------------------ MODULE MCCodec ------------------------------
(***************************************************************************)
(* Messages for TLC, with words of 15 bits: like 64, one more than a       *)
(* multiple of 7, so that the last group of a varint has bits that do not  *)
(* fit.                                                                    *)
(***************************************************************************)
EXTENDS Codec

SomeTexts == {<<>>, <<65>>, [i \in 1..130 |-> 66]}
SomeWords == {0, 1, 127, 128, Pow2[WordBits] - 1}
SomeInts  == {0, 1, -1, Pow2[WordBits - 1] - 1, -Pow2[WordBits - 1]}

(* The client is also given a number over the word, and negative ones with *)
(* a low byte that looks like a number, zero or the start of a longer one. *)
SomeBigInts == SomeWords \cup SomeInts \cup {Pow2[WordBits], -129, -200, -256}

(* Lengths beyond the end, negative as an int, and without an end.         *)
SomeOverlong ==
  {EncodeVarint(Pow2[WordBits - 1] - 1), EncodeVarint(Pow2[WordBits - 1]),
   EncodeVarint(Pow2[WordBits] - 1), <<255, 255, 255, 1>>}

(* Field 100, as a number, 8 bytes, bytes, a group and 4 bytes.            *)
NewTag(wire) == EncodeVarint(100 * 8 + wire)
SomeExtras ==
  {NewTag(Varint) \o <<200, 1>>, NewTag(Fixed64) \o [i \in 1..8 |-> 8],
   NewTag(Bytes) \o <<2, 10, 1>>, NewTag(Fixed32) \o <<8, 8, 8, 255>>,
   NewTag(3) \o <<8, 1>> \o NewTag(4)}
=============================================================================
