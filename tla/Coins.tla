------------------------------- MODULE Coins -------------------------------
(***************************************************************************)
(* Sums of amounts, defined by counting coins: a function f from holders   *)
(* to amounts stands for the set of coins <<holder, serial number>>, and   *)
(* the total held is the number of those coins.  Unlike a recursive sum,   *)
(* this definition can be reasoned about with the theorems on the          *)
(* cardinality of finite sets.                                             *)
(***************************************************************************)
EXTENDS Integers, FiniteSets

(* The coins of f: f[x] of them for every holder x.                        *)
Coins(f) == UNION {{x} \X (1..f[x]) : x \in DOMAIN f}

(* The sum of f[x] over the domain of f.                                   *)
Total(f) == Cardinality(Coins(f))

(* A map with one more entry, or with one entry replaced (collections.Map  *)
(* Set in the Cosmos SDK).                                                 *)
Put(f, x, v) == [y \in DOMAIN f \cup {x} |-> IF y = x THEN v ELSE f[y]]
=============================================================================
