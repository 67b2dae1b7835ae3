------------------------------ MODULE MCTrade ------------------------------
(***************************************************************************)
(* Instances of the marketplace on Base for TLC.                           *)
(***************************************************************************)
EXTENDS Trade

CONSTANTS ann, wes, wil

TwoEach   == [a \in Agent |-> 2]
OneOrTwo  == {1, 2}
ZeroOrOne == {0, 1}

JobsSpec ==
  /\ TradeInit
  /\ [][JobNext(OneOrTwo, ZeroOrOne, {"title"}) /\ UNCHANGED <<buyer, workerVars>>]_tradeVars
=============================================================================
