------------------------------ MODULE MCMarket ------------------------------
(***************************************************************************)
(* Instances of the market for TLC.  Each configuration file picks the     *)
(* addresses, the genesis ledger and the terms of the messages from the    *)
(* definitions below.                                                      *)
(***************************************************************************)
EXTENDS MarketCustody

CONSTANTS
  payer, payee,          \* the two parties of the escrow
  ver1, ver2,            \* verifiers
  jur1, jur2, jur3,      \* jurors
  d1, d2,                \* digests
  k1, k2                 \* keys

-----------------------------------------------------------------------------
(* Genesis ledgers: everybody registered with a fixed amount; or a payee   *)
(* nobody has heard of.                                                    *)

AllRegistered == [a \in Addr |-> "registered"]
NewPayee      == [a \in Addr |-> IF a = payee THEN "absent" ELSE "registered"]
OneNewcomer   == [a \in Addr |-> IF a = jur2 THEN "absent" ELSE "registered"]

Holdings     == [a \in Addr |-> CASE a = payer -> 4 [] a = payee -> 0 [] OTHER -> 2]
LiveHoldings == [a \in Addr |-> CASE a = payer -> 6 [] a = ver1 -> 3 [] OTHER -> 2]
RichHoldings ==
  [a \in Addr |-> CASE a = payer -> 6 [] a = payee -> 2 [] a = jur2 -> 0 [] OTHER -> 4]

-----------------------------------------------------------------------------
(* The terms of the messages.                                              *)

None == {}

SomeTransfers == {[from |-> payer, to |-> jur2, amount |-> n] : n \in {0, 2}}

(* A bond that pretends to be the bond of the first dispute.               *)
ForgedBond ==
  [amount : {2}, purpose : {DisputePurpose(0)}, slasher : {jur1}]

Lock(amount, seconds, jurybound, verifiers, quorum, hash) ==
  [payee |-> payee, amount |-> amount, seconds |-> seconds, noAutoRelease |-> jurybound,
   verifiers |-> verifiers, quorum |-> quorum, acceptanceHash |-> hash]

OrdinaryLocks == {Lock(2, 1, FALSE, <<>>, 0, NoHash), Lock(2, 1, TRUE, <<>>, 0, NoHash),
                  Lock(1, 1, FALSE, <<>>, 0, NoHash), Lock(0, 1, FALSE, <<>>, 0, NoHash),
                  Lock(2, 1, FALSE, <<>>, 0, BadHash), Lock(2, 1, FALSE, <<>>, 1, NoHash)}
JuryLock      == {Lock(2, 1, TRUE, <<>>, 0, NoHash)}
OneVerifier   == {Lock(2, 1, FALSE, <<ver1>>, 1, d1)}
TwoVerifiers  == {Lock(2, 1, FALSE, <<ver1, ver2>>, q, d1) : q \in {1, 2}}
RejectedVerifierLocks ==
  {Lock(2, 1, FALSE, <<ver1>>, 0, d1), Lock(2, 1, FALSE, <<ver1>>, 2, d1),
   Lock(2, 1, FALSE, <<ver1, ver1>>, 2, d1), Lock(2, 1, FALSE, <<payer>>, 1, d1),
   Lock(2, 1, FALSE, <<payee>>, 1, d1), Lock(2, 1, FALSE, <<ver1>>, 1, NoHash)}
LiveLocks     == {Lock(3, 1, FALSE, <<>>, 0, NoHash), Lock(3, 1, FALSE, <<ver1>>, 1, d1)}
VerifierLocks == TwoVerifiers \cup RejectedVerifierLocks

(* Ordinary escrows for a payee nobody has heard of, verifier-bound ones   *)
(* for a payee with something to stake, and one whose deadline wraps.      *)
MarketLocks ==
  {[t EXCEPT !.payee = jur2] : t \in OrdinaryLocks} \cup VerifierLocks \cup
  {Lock(2, Word - 1, FALSE, <<>>, 0, NoHash)}

Commit(delivery, key) == [deliveryHash |-> delivery, keyHash |-> key]
PlainCommits    == {Commit(NoHash, NoHash), Commit(BadHash, NoHash)}
VerifierCommits == {Commit(d1, d1), Commit(d1, d2), Commit(d1, NoHash), Commit(NoHash, d1)}
MarketCommits   == PlainCommits \cup VerifierCommits
LiveCommits     == {Commit(NoHash, NoHash), Commit(d1, d1)}
OneCommit       == {Commit(d1, d1)}

Verdict(passed, stake, key) ==
  [passed |-> passed, stake |-> stake,
   pins |-> [deliveryHash |-> d1, keyHash |-> key, acceptanceHash |-> d1]]
AnyVerdict == {Verdict(p, n, k) : p \in BOOLEAN, n \in {1, 2}, k \in {d1, d2}}
LiveVerdict == {Verdict(p, 3, d1) : p \in BOOLEAN}
FullVerdict == {Verdict(p, 2, d1) : p \in BOOLEAN}

KeyDigest == [k \in Key |-> IF k = k1 THEN d1 ELSE d2]

ThreeJurors == {jur1, jur2, jur3}
OneJuror    == {jur1}
ChangingJury == {{}, {jur1, jur2}}
=============================================================================
