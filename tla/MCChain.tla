------------------------------ MODULE MCChain ------------------------------
(***************************************************************************)
(* Instances of the whole module for TLC.                                  *)
(***************************************************************************)
EXTENDS Chain, MCMarket

Nobody  == [a \in Addr |-> 0]
TwoEach == [a \in Addr |-> 2]
StandingHoldings == [a \in Addr |-> IF a = payer THEN 4 ELSE 2]
OneNew  == [a \in Addr |-> IF a = ver2 THEN "absent" ELSE "registered"]

FreshEmission == DefaultEmissionState(0)
UnsetEmission == [DefaultEmissionState(0) EXCEPT !.maxSupply = 0, !.scheduled = 0]

-----------------------------------------------------------------------------
(* Texts over the characters y, n, s and ":".                              *)
Yes == <<"y">>
No  == <<"n">>
S   == <<"s">>

GateAnswers   == {EmptyText, Yes, No}
OneSalt       == {S}
AnswerCommits == {GateAnswerCommit(x, S) : x \in {Yes, No}}
ThreeAnswers  == {EmptyText, Yes, No, S}
ThreeCommits  == {GateAnswerCommit(x, S) : x \in {Yes, No, S}}

Gate(gold, drip, answers) ==
  [payloadHash |-> d1, goldCommit |-> gold, drip |-> drip, maxAnswers |-> answers]
LiveGold  == GateAnswerCommit(EmptyText, S)
DecoyGold == GateAnswerCommit(Yes, S)
RewardGates ==
  {Gate(LiveGold, 1, 4), Gate(DecoyGold, 1, 1), Gate(BadHash, 1, 1), Gate(LiveGold, 3, 1)}

AwardTo(to, amount, artifact) ==
  [recipient |-> to, contributor |-> to, amount |-> amount, founderAuthored |-> FALSE,
   reviewed |-> FALSE, described |-> TRUE, artifact |-> artifact, evidence |-> d1,
   rationale |-> NoHash]
RewardAwards ==
  {AwardTo(ver2, n, d1) : n \in {1, 3}} \cup {AwardTo(payer, 1, BadHash)} \cup
  {[AwardTo(jur1, 1, d1) EXCEPT !.founderAuthored = f] : f \in BOOLEAN}

TrustVouches ==
  {[to |-> payee, weight |-> 1, stake |-> n] : n \in {1, 2}} \cup
  {[to |-> ver1, weight |-> 1, stake |-> 2]}
TrustAwards ==
  {AwardTo(payee, 1, d1),
   [AwardTo(jur1, 1, d1) EXCEPT !.founderAuthored = TRUE, !.reviewed = TRUE]}
FewEvidence ==
  [recipient : {payee}, scope : {"", "go"}, weight : {1}, located : {TRUE},
   artifact : {d1}, evidence : {d1}, rationale : {NoHash}]
=============================================================================
