----------------------------- MODULE JobEscrow -----------------------------
(***************************************************************************)
(* The job marketplace on Base: contracts/src/JobEscrow.sol and its token  *)
(* contracts/src/Ag3nt.sol.  Every external function is one transaction,   *)
(* sent by c; a function that reverts changes nothing.                     *)
(***************************************************************************)
EXTENDS Coins

CONSTANTS
  Agent,           \* externally owned addresses
  NoAgent,         \* the zero address
  GenesisTokens,   \* the balances after the pre-mint was handed out
  MaxSupply,       \* MAX_SUPPLY of the token
  JobReward,       \* JOB_REWARD
  DisputeWindow,   \* DISPUTE_WINDOW
  ClaimTimeout,    \* CLAIM_TIMEOUT
  MaxJobs,         \* bound on the number of jobs
  MaxTime          \* bound on the block time

ASSUME JobAssumption ==
  /\ IsFiniteSet(Agent) /\ NoAgent \notin Agent /\ GenesisTokens \in [Agent -> Nat]
  /\ MaxSupply \in Nat /\ Total(GenesisTokens) <= MaxSupply
  /\ JobReward \in Nat /\ DisputeWindow \in Nat /\ ClaimTimeout \in Nat
  /\ MaxJobs \in Nat /\ MaxTime \in Nat

VARIABLES
  tokens,     \* the balances of the token
  vault,      \* the balance of the escrow contract
  job,        \* job id -> Job; the ids are 1..nextJobId
  time        \* block.timestamp

jobVars == <<tokens, vault, job, time>>

JobState ==
  {"Posted", "Claimed", "Submitted", "Released", "Disputed", "Cancelled", "Expired"}

(* The results that a buyer tells apart; the contract does not.            *)
Results == {"title", "too long"}

Job ==
  [buyer : Agent, worker : Agent \cup {NoAgent}, payment : Nat, workerBond : Nat,
   claimedAt : Nat, submittedAt : Nat, result : {""} \cup Results, state : JobState]

NextJobId == Cardinality(DOMAIN job)

(* Every variable has its type, and jobs are numbered in sequence.         *)
JobTypeOK ==
  /\ tokens \in [Agent -> Nat] /\ vault \in Nat /\ time \in Nat
  /\ DOMAIN job = 1..NextJobId /\ job \in [DOMAIN job -> Job]

JobInit ==
  /\ tokens = GenesisTokens
  /\ vault = 0
  /\ job = [i \in {} |-> 0]
  /\ time = 0

-----------------------------------------------------------------------------
(* The token.                                                              *)

TotalSupply == Total(tokens) + vault

(* safeTransferFrom(c, escrow, n); the agents approve without limit.       *)
Deposit(c, n) ==
  /\ tokens[c] >= n
  /\ tokens' = [tokens EXCEPT ![c] = @ - n]
  /\ vault' = vault + n

(* Several safeTransfers of the escrow: paid[a] to the agent a.            *)
Pay(paid) ==
  /\ vault >= Total(paid)
  /\ tokens' = [a \in Agent |-> tokens[a] + paid[a]]
  /\ vault' = vault - Total(paid)

To(a, n) == [b \in Agent |-> IF b = a THEN n ELSE 0]
Both(f, g) == [a \in Agent |-> f[a] + g[a]]

(* mintForJob: the reward, or what is left below the cap.                  *)
Minted == IF JobReward > MaxSupply - TotalSupply THEN MaxSupply - TotalSupply ELSE JobReward

-----------------------------------------------------------------------------
(* The functions of the escrow.                                            *)

PostJob(c, payment) ==
  /\ NextJobId < MaxJobs
  /\ payment # 0
  /\ Deposit(c, payment)
  /\ job' = Put(job, NextJobId + 1,
       [buyer |-> c, worker |-> NoAgent, payment |-> payment, workerBond |-> 0,
        claimedAt |-> 0, submittedAt |-> 0, result |-> "", state |-> "Posted"])
  /\ UNCHANGED time

CancelJob(c, id) ==
  /\ job[id].state = "Posted"
  /\ c = job[id].buyer
  /\ job' = [job EXCEPT ![id].state = "Cancelled"]
  /\ Pay(To(c, job[id].payment))
  /\ UNCHANGED time

(* Mutant: a claimed job may be claimed again.                             *)
ClaimableTwice(id) == job[id].state \in {"Posted", "Claimed"}

Claimable(id) == job[id].state = "Posted"

ClaimJob(c, id, bond) ==
  /\ Claimable(id)
  /\ Deposit(c, bond)
  /\ job' = [job EXCEPT ![id].worker = c, ![id].workerBond = bond,
                        ![id].claimedAt = time, ![id].state = "Claimed"]
  /\ UNCHANGED time

SubmitResult(c, id, result) ==
  /\ job[id].state = "Claimed"
  /\ c = job[id].worker
  /\ job' = [job EXCEPT ![id].result = result, ![id].submittedAt = time,
                        ![id].state = "Submitted"]
  /\ UNCHANGED <<tokens, vault, time>>

(* Mutant: a stranger may release in the first second of the window.       *)
WindowOverEarly(id) == time + 1 >= job[id].submittedAt + DisputeWindow

WindowOver(id) == time >= job[id].submittedAt + DisputeWindow

CanRelease(c, id) ==
  /\ job[id].state = "Submitted"
  /\ c = job[id].buyer \/ WindowOver(id)
  /\ vault >= job[id].payment + job[id].workerBond

Release(c, id) ==
  /\ CanRelease(c, id)
  /\ job' = [job EXCEPT ![id].state = "Released"]
  /\ vault' = vault - job[id].payment - job[id].workerBond
  /\ tokens' = [tokens EXCEPT
       ![job[id].worker] = @ + job[id].payment + job[id].workerBond + Minted]
  /\ UNCHANGED time

(* The payment back to the buyer, the bond back to the worker.             *)
Returned(id) ==
  Both(To(job[id].buyer, job[id].payment), To(job[id].worker, job[id].workerBond))

CanDispute(c, id) ==
  /\ job[id].state = "Submitted"
  /\ c = job[id].buyer
  /\ time < job[id].submittedAt + DisputeWindow
  /\ vault >= Total(Returned(id))

Dispute(c, id) ==
  /\ CanDispute(c, id)
  /\ job' = [job EXCEPT ![id].state = "Disputed"]
  /\ Pay(Returned(id))
  /\ UNCHANGED time

Reclaim(c, id) ==
  /\ job[id].state = "Claimed"
  /\ c = job[id].buyer
  /\ time >= job[id].claimedAt + ClaimTimeout
  /\ job' = [job EXCEPT ![id].state = "Expired"]
  /\ Pay(To(c, job[id].payment + job[id].workerBond))
  /\ UNCHANGED time

NewBlock ==
  /\ time < MaxTime
  /\ time' = time + 1
  /\ UNCHANGED <<tokens, vault, job>>

JobNext(payments, bonds, results) ==
  \/ NewBlock
  \/ \E c \in Agent :
       \/ \E n \in payments : PostJob(c, n)
       \/ \E id \in DOMAIN job :
            \/ CancelJob(c, id) \/ Release(c, id) \/ Dispute(c, id) \/ Reclaim(c, id)
            \/ \E n \in bonds : ClaimJob(c, id, n)
            \/ \E r \in results : SubmitResult(c, id, r)

(* Anybody may call the contract, with any amounts.                        *)
ContractSpec == JobInit /\ [][JobNext(Nat, Nat, Results)]_jobVars

-----------------------------------------------------------------------------
Unsettled(id) == job[id].state \in {"Posted", "Claimed", "Submitted"}

(* The escrow holds exactly the payments and bonds of unsettled jobs.      *)
Solvent ==
  vault = Total([id \in DOMAIN job |->
                   IF Unsettled(id) THEN job[id].payment + job[id].workerBond ELSE 0])

HardCap == TotalSupply <= MaxSupply

(***************************************************************************)
(* The contract can always pay: it holds exactly what the jobs that are    *)
(* not settled will be paid, so no settlement uses the coins of another    *)
(* job and none can fail; and whatever is released near the cap, the token *)
(* stays below it.                                                         *)
(***************************************************************************)
ContractSound == JobTypeOK /\ Solvent /\ HardCap

(***************************************************************************)
(* The dispute window belongs to the buyer: at every second either the     *)
(* buyer can dispute a submitted job or others can release it, never both  *)
(* (a race for the payment) and never neither (a job nobody can settle).   *)
(***************************************************************************)
NoRaceAtTheWindow ==
  \A id \in DOMAIN job : job[id].state = "Submitted" =>
    \A c \in Agent \ {job[id].buyer} :
      CanRelease(c, id) <=> ~CanDispute(job[id].buyer, id)

(* Payments and bonds as the deposits of Custody.                          *)
PaymentIds == {<<id, "payment">> : id \in DOMAIN job}
BondIds    == {<<id, "bond">> : id \in {i \in DOMAIN job : job[i].worker # NoAgent}}

Deposits == INSTANCE Custody WITH
  free    <- Total(tokens),
  supply  <- TotalSupply,
  deposit <- [x \in PaymentIds \cup BondIds |->
                IF x[2] = "payment" THEN job[x[1]].payment ELSE job[x[1]].workerBond],
  closed  <- {x \in PaymentIds \cup BondIds : ~Unsettled(x[1])}

(***************************************************************************)
(* The contract implements Custody: payments and bonds are deposits that   *)
(* are closed once and as a whole.                                         *)
(***************************************************************************)
JobsAreDeposits == Deposits!CustodySpec
=============================================================================
