------------------------------- MODULE Bonds -------------------------------
(***************************************************************************)
(* Slashable collateral (Bond records): the messages PostBond, ReleaseBond *)
(* and SlashBond, and the two operations the protocol itself performs on   *)
(* bonds: locking a stake when a verifier attests, a party disputes or a   *)
(* juror votes, and settling a batch of such stakes.                       *)
(***************************************************************************)
EXTENDS Ledger

CONSTANTS
  BondTerms,   \* what PostBond may ask for: [amount, purpose, slasher]
  MaxBonds     \* bound on the number of bonds

(* The Purpose string: a kind and the id it refers to.  PostBond lets its  *)
(* signer choose any string, also one the protocol uses for its own bonds. *)
Purpose == [kind : {"attestation", "dispute", "jurorstake", "other"}, ref : Nat]
AttestationPurpose(id) == [kind |-> "attestation", ref |-> id]
DisputePurpose(id)     == [kind |-> "dispute", ref |-> id]
JurorPurpose(id)       == [kind |-> "jurorstake", ref |-> id]

ASSUME BondAssumption ==
  /\ BondTerms \subseteq [amount : Amount, purpose : Purpose, slasher : Addr]
  /\ MaxBonds \in Nat

VARIABLES
  bond,      \* bond id -> record
  bondSeq,   \* the next bond id (BondSeq)
  burned     \* history: coins of bonds slashed to no beneficiary

bondVars == <<bond, bondSeq, burned>>

BondRecord ==
  [poster : Addr, amount : Nat, purpose : Purpose, slasher : Addr \cup {NoAddr},
   status : {"active", "released", "slashed"}]

BondsTypeOK ==
  /\ bondSeq \in Nat
  /\ bond \in [0..(bondSeq - 1) -> BondRecord]
  /\ burned \in Nat

BondsInit ==
  /\ bond = [i \in {} |-> NoAddr]
  /\ bondSeq = 0
  /\ burned = 0

ActiveBond(id) == id \in DOMAIN bond /\ bond[id].status = "active"

(* Debits the poster and stores an active bond under the next id: the tail *)
(* of PostBond, AttestEscrow, OpenDispute and CastVote.                    *)
LockStake(poster, amount, purpose, slasher) ==
  /\ bondSeq < MaxBonds
  /\ CanPay(poster, amount)
  /\ balance' = Debited(balance, poster, amount)
  /\ bond' = Put(bond, bondSeq,
                 [poster |-> poster, amount |-> amount, purpose |-> purpose,
                  slasher |-> slasher, status |-> "active"])
  /\ bondSeq' = bondSeq + 1
  /\ UNCHANGED <<account, burned>>

PostBond(poster, t) ==
  /\ t.amount # 0
  /\ poster # t.slasher
  /\ LockStake(poster, t.amount, t.purpose, t.slasher)

(* Only the slasher of an active bond may resolve it.  The bonds of the    *)
(* protocol have the empty slasher, which signs nothing.                   *)
MayResolve(c, id) == ActiveBond(id) /\ c = bond[id].slasher

ReleaseBond(c, id) ==
  /\ MayResolve(c, id)
  /\ account[bond[id].poster] # "absent"
  /\ balance' = Credited(balance, bond[id].poster, bond[id].amount)
  /\ bond' = [bond EXCEPT ![id].status = "released"]
  /\ UNCHANGED <<account, bondSeq, burned>>

(* An empty beneficiary burns the collateral.                              *)
SlashBond(c, id, beneficiary) ==
  /\ MayResolve(c, id)
  /\ \/ /\ beneficiary \in Addr
        /\ CreditAccount(balance, beneficiary, bond[id].amount)
        /\ UNCHANGED burned
     \/ /\ beneficiary = NoAddr
        /\ burned' = burned + bond[id].amount
        /\ UNCHANGED ledgerVars
  /\ bond' = [bond EXCEPT ![id].status = "slashed"]
  /\ UNCHANGED bondSeq

BondsNext ==
  \/ \E a \in Addr, t \in BondTerms : PostBond(a, t)
  \/ \E a \in Addr, id \in DOMAIN bond : ReleaseBond(a, id)
  \/ \E a \in Addr, id \in DOMAIN bond, b \in Addr \cup {NoAddr} : SlashBond(a, id, b)

-----------------------------------------------------------------------------
(***************************************************************************)
(* Settlement of stakes by the protocol.  A claim [id, purpose, keeps,     *)
(* owner, forfeitTo] says which bond it is about, the purpose the bond     *)
(* must have, whether the stake is kept, who gets it back if it is and who *)
(* gets it otherwise.  Claims on bonds that do not exist, are no longer    *)
(* active or have another purpose are skipped.                             *)
(* The loops of ResolveDispute and ReclaimAttestationBonds settle one      *)
(* stake at a time; every bond is settled at most once, so the balances    *)
(* they end with are the sums below, in whatever order they run.           *)
(***************************************************************************)
Recipient(c) == IF c.keeps THEN c.owner ELSE c.forfeitTo

Settling(claims) ==
  {c \in claims : ActiveBond(c.id) /\ bond[c.id].purpose = c.purpose}

SettledBonds(claims) == {c.id : c \in Settling(claims)}

ClaimOn(claims, id) == CHOOSE c \in Settling(claims) : c.id = id

PaidTo(claims, id) == Recipient(ClaimOn(claims, id))

(* What each account receives.                                             *)
Payout(claims) ==
  [a \in Addr |->
     Total([id \in {b \in SettledBonds(claims) : PaidTo(claims, b) = a} |->
              bond[id].amount])]

SettledStatus(c) == IF c.keeps THEN "released" ELSE "slashed"

(* The settlement proper; bal and acc are the ledger after the credits the *)
(* same message has already made.  A recipient without a record aborts it. *)
SettleClaims(bal, acc, claims) ==
  /\ \A c \in Settling(claims) : acc[Recipient(c)] # "absent"
  /\ balance' = [a \in Addr |-> bal[a] + Payout(claims)[a]]
  /\ bond' = [id \in DOMAIN bond |->
                IF id \in SettledBonds(claims)
                THEN [bond[id] EXCEPT !.status = SettledStatus(ClaimOn(claims, id))]
                ELSE bond[id]]
  /\ account' = acc
  /\ UNCHANGED <<bondSeq, burned>>
=============================================================================
