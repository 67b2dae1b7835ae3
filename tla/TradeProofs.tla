---------------------------- MODULE TradeProofs ----------------------------
(***************************************************************************)
(* Proofs about JobEscrow and Trade: the contract on Base can always pay,  *)
(* its token never exceeds the cap and its jobs are deposits, whoever      *)
(* calls it and with whatever amounts; the agents' programs use it as it   *)
(* is meant to be used; and only the winner of a race works.               *)
(***************************************************************************)
EXTENDS Trade, CoinsProofs

(* What the escrow owes for a job.                                         *)
JobWorth ==
  [id \in DOMAIN job |-> IF Unsettled(id) THEN job[id].payment + job[id].workerBond ELSE 0]

(* A job has a worker and a bond from its claim on, and not before.        *)
JobsStaffed ==
  \A id \in DOMAIN job :
    /\ job[id].state = "Posted" => job[id].worker = NoAgent
    /\ job[id].state \in {"Claimed", "Submitted"} => job[id].worker \in Agent
    /\ job[id].worker = NoAgent => job[id].workerBond = 0

(***************************************************************************)
(* The inductive invariant of the contract.                                *)
(***************************************************************************)
ContractInv == ContractSound /\ JobsStaffed /\ IsFiniteSet(DOMAIN job)

-----------------------------------------------------------------------------
(* Sums of payments.                                                       *)

LEMMA NothingPaid == Total([a \in Agent |-> 0]) = 0
<1>1. Coins([a \in Agent |-> 0]) = {}
  BY CoinMembership
<1> QED BY <1>1, FS_EmptySet DEF Total

LEMMA ToTotal ==
  ASSUME NEW a \in Agent, NEW n \in Nat
  PROVE  To(a, n) \in [Agent -> Nat] /\ Total(To(a, n)) = n
<1> DEFINE zero == [b \in Agent |-> 0]
           g == To(a, n)
<1>1. zero \in [Agent -> Nat] /\ g \in [Agent -> Nat] /\ g[a] = zero[a] + n
      /\ \A y \in Agent \ {a} : g[y] = zero[y]
  BY DEF To
<1>2. IsFiniteSet(Agent) /\ Total(zero) = 0
  BY JobAssumption, NothingPaid
<1> HIDE DEF zero, g
<1>3. Total(g) = Total(zero) + n
  BY <1>1, <1>2, TotalCredit
<1> QED BY <1>1, <1>2, <1>3 DEF g

LEMMA PayTotal ==
  ASSUME tokens \in [Agent -> Nat], NEW paid \in [Agent -> Nat], Pay(paid)
  PROVE  tokens' \in [Agent -> Nat] /\ Total(tokens') = Total(tokens) + Total(paid)
<1>1. tokens' = [a \in Agent |-> tokens[a] + paid[a]]
  BY DEF Pay
<1>2. IsFiniteSet(Agent)
  BY JobAssumption
<1> QED BY <1>1, <1>2, TotalPlus

LEMMA TokensTotal == tokens \in [Agent -> Nat] => Total(tokens) \in Nat
BY JobAssumption, CoinsFinite

-----------------------------------------------------------------------------
(* What the functions of the contract do to the jobs and to the coins.     *)

LEMMA JobFields ==
  ASSUME JobTypeOK, NEW id \in DOMAIN job
  PROVE  /\ job[id] \in Job
         /\ job[id].buyer \in Agent /\ job[id].worker \in Agent \cup {NoAgent}
         /\ job[id].payment \in Nat /\ job[id].workerBond \in Nat
         /\ job[id].claimedAt \in Nat /\ job[id].submittedAt \in Nat
         /\ job[id].result \in {""} \cup Results /\ job[id].state \in JobState
BY DEF JobTypeOK, Job

LEMMA WorthType ==
  ASSUME JobTypeOK
  PROVE  JobWorth \in [DOMAIN job -> Nat]
<1>1. \A id \in DOMAIN job : job[id].payment \in Nat /\ job[id].workerBond \in Nat
  BY JobFields
<1> QED BY <1>1 DEF JobWorth

(* A new job is paid for.                                                  *)
Posts ==
  \E c \in Agent, n \in Nat \ {0} :
    /\ tokens[c] >= n /\ tokens' = [tokens EXCEPT ![c] = @ - n] /\ vault' = vault + n
    /\ job' = Put(job, NextJobId + 1,
         [buyer |-> c, worker |-> NoAgent, payment |-> n, workerBond |-> 0,
          claimedAt |-> 0, submittedAt |-> 0, result |-> "", state |-> "Posted"])
    /\ time' = time

(* A job that is unsettled and stays so changes into r.                    *)
Continues(id, r) ==
  /\ Unsettled(id) /\ r.state \in {"Claimed", "Submitted"}
  /\ r.buyer = job[id].buyer /\ r.payment = job[id].payment
  /\ r.worker \in Agent
  /\ job' = [job EXCEPT ![id] = r]

(* A bond is paid for a posted job.                                        *)
Stakes(id, r) ==
  /\ Continues(id, r) /\ job[id].state = "Posted"
  /\ \E c \in Agent : tokens[c] >= r.workerBond
       /\ tokens' = [tokens EXCEPT ![c] = @ - r.workerBond]
  /\ vault' = vault + r.workerBond
  /\ time' = time

Submits(id, r) ==
  /\ Continues(id, r)
  /\ job[id].state = "Claimed"
  /\ r.worker = job[id].worker /\ r.workerBond = job[id].workerBond
  /\ UNCHANGED <<tokens, vault, time>>

(* The payment and the bond of a job leave the escrow, and m is minted.    *)
Closes(id, r) ==
  /\ Unsettled(id) /\ r.state \in JobState \ {"Posted", "Claimed", "Submitted"}
  /\ r.buyer = job[id].buyer /\ r.payment = job[id].payment
  /\ r.worker = job[id].worker /\ r.workerBond = job[id].workerBond
  /\ job' = [job EXCEPT ![id] = r]
  /\ vault' = vault - (job[id].payment + job[id].workerBond)
  /\ tokens' \in [Agent -> Nat]
  /\ \E m \in Nat :
       /\ m <= MaxSupply - (Total(tokens) + vault)
       /\ Total(tokens') = Total(tokens) + (job[id].payment + job[id].workerBond) + m
  /\ time' = time

ContractStep ==
  \/ Posts
  \/ \E id \in DOMAIN job, r \in Job : Stakes(id, r) \/ Submits(id, r) \/ Closes(id, r)
  \/ time' = time + 1 /\ UNCHANGED <<tokens, vault, job>>
  \/ UNCHANGED jobVars

(* A job whose state changes to s.                                         *)
LEMMA StateChange ==
  ASSUME JobTypeOK, NEW id \in DOMAIN job, NEW s \in JobState,
         job' = [job EXCEPT ![id].state = s]
  PROVE  \E r \in Job :
           /\ job' = [job EXCEPT ![id] = r] /\ r.state = s
           /\ r.buyer = job[id].buyer /\ r.payment = job[id].payment
           /\ r.worker = job[id].worker /\ r.workerBond = job[id].workerBond
<1> DEFINE r == [job[id] EXCEPT !.state = s]
<1>1. /\ r \in Job /\ r.state = s /\ r.buyer = job[id].buyer /\ r.payment = job[id].payment
      /\ r.worker = job[id].worker /\ r.workerBond = job[id].workerBond
  BY JobFields DEF Job
<1>2. job' = [job EXCEPT ![id] = r]
  OBVIOUS
<1> HIDE DEF r
<1> QED BY <1>1, <1>2

(* Settling a job with a payment of what it is worth, without minting.     *)
LEMMA PaidOut ==
  ASSUME ContractInv, NEW id \in DOMAIN job, Unsettled(id),
         NEW s \in JobState \ {"Posted", "Claimed", "Submitted"},
         job' = [job EXCEPT ![id].state = s],
         NEW paid \in [Agent -> Nat], Pay(paid),
         Total(paid) = job[id].payment + job[id].workerBond, time' = time
  PROVE  \E r \in Job : Closes(id, r)
<1>1. JobTypeOK /\ HardCap /\ tokens \in [Agent -> Nat] /\ vault \in Nat
  BY DEF ContractInv, ContractSound, JobTypeOK
<1>2. PICK r \in Job :
        /\ job' = [job EXCEPT ![id] = r] /\ r.state = s
        /\ r.buyer = job[id].buyer /\ r.payment = job[id].payment
        /\ r.worker = job[id].worker /\ r.workerBond = job[id].workerBond
  BY <1>1, StateChange
<1>3. tokens' \in [Agent -> Nat] /\ Total(tokens') = Total(tokens) + Total(paid)
  BY <1>1, PayTotal
<1>4. vault' = vault - (job[id].payment + job[id].workerBond)
  BY DEF Pay
<1>5. Total(tokens) \in Nat /\ job[id].payment \in Nat /\ job[id].workerBond \in Nat
      /\ MaxSupply \in Nat
  BY <1>1, TokensTotal, JobFields, JobAssumption
<1>6. 0 \in Nat /\ 0 <= MaxSupply - (Total(tokens) + vault)
      /\ Total(tokens') = Total(tokens) + (job[id].payment + job[id].workerBond) + 0
  BY <1>1, <1>3, <1>5 DEF HardCap, TotalSupply
<1> QED BY <1>2, <1>3, <1>4, <1>6 DEF Closes

LEMMA ContractSteps ==
  ASSUME ContractInv, [JobNext(Nat, Nat, Results)]_jobVars
  PROVE  ContractStep
<1>0. /\ JobTypeOK /\ HardCap /\ JobsStaffed /\ tokens \in [Agent -> Nat] /\ vault \in Nat
      /\ time \in Nat
  BY DEF ContractInv, ContractSound, JobTypeOK
<1>1. ASSUME NEW c \in Agent, NEW n \in Nat, PostJob(c, n)
      PROVE  ContractStep
  BY <1>1 DEF PostJob, Deposit, Posts, ContractStep
<1>2. ASSUME NEW c \in Agent, NEW id \in DOMAIN job, CancelJob(c, id)
      PROVE  ContractStep
  <2>1. Unsettled(id) /\ job[id].workerBond = 0 /\ job[id].payment \in Nat
    BY <1>0, <1>2, JobFields DEF CancelJob, Unsettled, JobsStaffed
  <2>2. To(c, job[id].payment) \in [Agent -> Nat]
        /\ Total(To(c, job[id].payment)) = job[id].payment + job[id].workerBond
    BY <2>1, ToTotal
  <2>3. "Cancelled" \in JobState \ {"Posted", "Claimed", "Submitted"}
    BY DEF JobState
  <2>4. \E r \in Job : Closes(id, r)
    BY <1>2, <2>1, <2>2, <2>3, PaidOut DEF CancelJob
  <2> QED BY <2>4 DEF ContractStep
<1>3. ASSUME NEW c \in Agent, NEW id \in DOMAIN job, Dispute(c, id)
      PROVE  ContractStep
  <2>1. Unsettled(id) /\ job[id].worker \in Agent
        /\ job[id].payment \in Nat /\ job[id].workerBond \in Nat
    BY <1>0, <1>3, JobFields DEF Dispute, CanDispute, Unsettled, JobsStaffed
  <2> DEFINE f == To(c, job[id].payment)
             g == To(job[id].worker, job[id].workerBond)
  <2>2. f \in [Agent -> Nat] /\ g \in [Agent -> Nat]
        /\ Total(f) = job[id].payment /\ Total(g) = job[id].workerBond
    BY <2>1, ToTotal
  <2>3. Both(f, g) \in [Agent -> Nat] /\ Total(Both(f, g)) = Total(f) + Total(g)
    <3> HIDE DEF f, g
    <3>1. IsFiniteSet(Agent)
      BY JobAssumption
    <3> QED BY <2>2, <3>1, TotalPlus DEF Both
  <2>4. "Disputed" \in JobState \ {"Posted", "Claimed", "Submitted"}
    BY DEF JobState
  <2>5. Pay(Both(f, g)) /\ job' = [job EXCEPT ![id].state = "Disputed"] /\ time' = time
    BY <1>3 DEF Dispute, CanDispute, Returned
  <2> HIDE DEF f, g
  <2>6. \E r \in Job : Closes(id, r)
    BY <2>1, <2>2, <2>3, <2>4, <2>5, PaidOut
  <2> QED BY <2>6 DEF ContractStep
<1>4. ASSUME NEW c \in Agent, NEW id \in DOMAIN job, Reclaim(c, id)
      PROVE  ContractStep
  <2>1. Unsettled(id) /\ job[id].payment \in Nat /\ job[id].workerBond \in Nat
    BY <1>0, <1>4, JobFields DEF Reclaim, Unsettled
  <2> DEFINE n == job[id].payment + job[id].workerBond
  <2>2. n \in Nat
    BY <2>1
  <2>3. To(c, n) \in [Agent -> Nat] /\ Total(To(c, n)) = n
    <3> HIDE DEF n
    <3> QED BY <2>2, ToTotal
  <2>4. "Expired" \in JobState \ {"Posted", "Claimed", "Submitted"}
    BY DEF JobState
  <2>5. \E r \in Job : Closes(id, r)
    BY <1>4, <2>1, <2>3, <2>4, PaidOut DEF Reclaim
  <2> QED BY <2>5 DEF ContractStep
<1>5. ASSUME NEW c \in Agent, NEW id \in DOMAIN job, NEW n \in Nat, ClaimJob(c, id, n)
      PROVE  ContractStep
  <2> DEFINE r == [job[id] EXCEPT !.worker = c, !.workerBond = n, !.claimedAt = time,
                                  !.state = "Claimed"]
  <2>1. r \in Job /\ r.state = "Claimed" /\ r.worker = c /\ r.workerBond = n
        /\ r.buyer = job[id].buyer /\ r.payment = job[id].payment
    BY <1>0, JobFields DEF Job, JobState
  <2>2. job' = [job EXCEPT ![id] = r]
    BY <1>5 DEF ClaimJob
  <2> HIDE DEF r
  <2>3. Stakes(id, r)
    BY <1>5, <2>1, <2>2 DEF ClaimJob, Claimable, Deposit, Stakes, Continues, Unsettled
  <2> QED BY <2>1, <2>3 DEF ContractStep
<1>6. ASSUME NEW c \in Agent, NEW id \in DOMAIN job, NEW x \in Results, SubmitResult(c, id, x)
      PROVE  ContractStep
  <2> DEFINE r == [job[id] EXCEPT !.result = x, !.submittedAt = time, !.state = "Submitted"]
  <2>1. r \in Job /\ r.state = "Submitted" /\ r.worker = job[id].worker
        /\ r.workerBond = job[id].workerBond
        /\ r.buyer = job[id].buyer /\ r.payment = job[id].payment
    BY <1>0, JobFields DEF Job, JobState
  <2>2. job' = [job EXCEPT ![id] = r]
    BY <1>6 DEF SubmitResult
  <2> HIDE DEF r
  <2>3. Submits(id, r)
    BY <1>6, <2>1, <2>2 DEF SubmitResult, Submits, Continues, Unsettled
  <2> QED BY <2>1, <2>3 DEF ContractStep
<1>7. ASSUME NEW c \in Agent, NEW id \in DOMAIN job, Release(c, id)
      PROVE  ContractStep
  <2>1. Unsettled(id) /\ job[id].worker \in Agent
        /\ job[id].payment \in Nat /\ job[id].workerBond \in Nat
    BY <1>0, <1>7, JobFields DEF Release, CanRelease, Unsettled, JobsStaffed
  <2>2. Total(tokens) \in Nat /\ MaxSupply \in Nat /\ JobReward \in Nat
    BY <1>0, TokensTotal, JobAssumption
  <2>3. Minted \in Nat /\ Minted <= MaxSupply - (Total(tokens) + vault)
    BY <1>0, <2>2 DEF Minted, TotalSupply, HardCap
  <2> DEFINE m == Minted
             w == job[id].worker
             n == job[id].payment + job[id].workerBond
  <2>4. /\ job' = [job EXCEPT ![id].state = "Released"] /\ time' = time
        /\ vault' = vault - job[id].payment - job[id].workerBond
        /\ tokens' = [tokens EXCEPT ![w] = @ + job[id].payment + job[id].workerBond + m]
    BY <1>7 DEF Release
  <2>5. vault' = vault - n
    BY <1>0, <2>1, <2>4
  <2>6. n \in Nat /\ n + m \in Nat /\ m \in Nat
    BY <2>1, <2>3
  <2>7. tokens' \in [Agent -> Nat] /\ tokens'[w] = tokens[w] + (n + m)
        /\ \A y \in Agent \ {w} : tokens'[y] = tokens[y]
    <3> HIDE DEF m
    <3> QED BY <1>0, <2>1, <2>4, <2>6
  <2>8. Total(tokens') = Total(tokens) + (n + m)
    <3>1. IsFiniteSet(Agent) /\ w \in Agent
      BY <2>1, JobAssumption
    <3> HIDE DEF m, w, n
    <3> QED BY <1>0, <2>6, <2>7, <3>1, TotalCredit
  <2>9. PICK r \in Job :
          /\ job' = [job EXCEPT ![id] = r] /\ r.state = "Released"
          /\ r.buyer = job[id].buyer /\ r.payment = job[id].payment
          /\ r.worker = job[id].worker /\ r.workerBond = job[id].workerBond
    BY <1>0, <2>4, StateChange DEF JobState
  <2>10. Total(tokens') = Total(tokens) + n + m
    <3> HIDE DEF m, n
    <3> QED BY <2>2, <2>3, <2>6, <2>8
  <2> HIDE DEF m
  <2>11. Closes(id, r)
    BY <2>1, <2>3, <2>4, <2>5, <2>6, <2>7, <2>9, <2>10 DEF Closes, JobState, m
  <2> QED BY <2>9, <2>11 DEF ContractStep
<1>8. CASE NewBlock
  BY <1>8 DEF NewBlock, ContractStep
<1>9. CASE UNCHANGED jobVars
  BY <1>9 DEF ContractStep
<1> QED BY <1>1, <1>2, <1>3, <1>4, <1>5, <1>6, <1>7, <1>8, <1>9 DEF JobNext

-----------------------------------------------------------------------------
(* The functions of the contract keep its invariant.                       *)

LEMMA PostsInv ==
  ASSUME ContractInv, Posts
  PROVE  ContractInv'
<1>0. /\ JobTypeOK /\ Solvent /\ HardCap /\ JobsStaffed /\ IsFiniteSet(DOMAIN job)
      /\ tokens \in [Agent -> Nat] /\ vault \in Nat /\ time \in Nat
  BY DEF ContractInv, ContractSound, JobTypeOK
<1>1. PICK c \in Agent, n \in Nat \ {0} :
        /\ tokens[c] >= n /\ tokens' = [tokens EXCEPT ![c] = @ - n] /\ vault' = vault + n
        /\ job' = Put(job, NextJobId + 1,
             [buyer |-> c, worker |-> NoAgent, payment |-> n, workerBond |-> 0,
              claimedAt |-> 0, submittedAt |-> 0, result |-> "", state |-> "Posted"])
        /\ time' = time
  BY DEF Posts
<1> DEFINE N == NextJobId
           k == N + 1
           r == [buyer |-> c, worker |-> NoAgent, payment |-> n, workerBond |-> 0,
                 claimedAt |-> 0, submittedAt |-> 0, result |-> "", state |-> "Posted"]
<1> HIDE <1>1
<1>a. vault' = vault + n /\ time' = time /\ n \in Nat
  BY <1>1
<1>2. N \in Nat /\ DOMAIN job = 1..N
  BY <1>0, FS_CardinalityType DEF JobTypeOK, NextJobId
<1>3. r \in Job /\ r.state = "Posted" /\ r.worker = NoAgent /\ r.workerBond = 0 /\ r.payment = n
  <2>1. "" \in {""} \cup Results
    OBVIOUS
  <2>2. n \in Nat /\ 0 \in Nat /\ c \in Agent
    OBVIOUS
  <2>3. "Posted" \in JobState
    BY DEF JobState
  <2> QED BY <2>1, <2>2, <2>3 DEF Job
<1>4. job' = Put(job, k, r)
  BY <1>1
<1> HIDE DEF r, N
<1>5. /\ k \notin DOMAIN job /\ DOMAIN job' = DOMAIN job \cup {k} /\ DOMAIN job' = 1..(N + 1)
      /\ job'[k] = r /\ \A id \in DOMAIN job : job'[id] = job[id]
  BY <1>2, <1>4 DEF Put
<1>6. IsFiniteSet(DOMAIN job') /\ Cardinality(DOMAIN job') = N + 1
  BY <1>0, <1>2, <1>5, FS_Interval
<1>7. tokens' \in [Agent -> Nat] /\ Total(tokens') + n = Total(tokens)
      /\ Total(tokens) \in Nat /\ Total(tokens') \in Nat
  <2>1. IsFiniteSet(Agent)
    BY JobAssumption
  <2>2. tokens' \in [Agent -> Nat] /\ tokens'[c] = tokens[c] - n
        /\ \A y \in Agent \ {c} : tokens'[y] = tokens[y]
    <3>1. tokens[c] \in Nat /\ tokens[c] >= n /\ tokens' = [tokens EXCEPT ![c] = tokens[c] - n]
      BY <1>0, <1>1
    <3>2. tokens[c] - n \in Nat
      BY <3>1
    <3> QED BY <1>0, <3>1, <3>2
  <2> QED BY <1>0, <2>1, <2>2, TotalDebit, CoinsFinite
<1>8. JobTypeOK'
  <2>1. job' \in [DOMAIN job' -> Job]
    BY <1>0, <1>3, <1>4, <1>5, JobFields DEF Put
  <2>2. vault' \in Nat /\ time' \in Nat
    BY <1>0, <1>a
  <2>3. DOMAIN job' = 1..NextJobId'
    BY <1>5, <1>6 DEF NextJobId
  <2> QED BY <1>7, <2>1, <2>2, <2>3 DEF JobTypeOK
<1>9. Solvent'
  <2>1. /\ JobWorth \in [DOMAIN job -> Nat]
        /\ JobWorth' \in [DOMAIN job \cup {k} -> Nat]
        /\ \A y \in DOMAIN job : JobWorth'[y] = JobWorth[y]
        /\ JobWorth'[k] = n
    <3>1. ASSUME NEW y \in DOMAIN job PROVE JobWorth'[y] = JobWorth[y] /\ JobWorth[y] \in Nat
      BY <1>0, <1>5, WorthType DEF JobWorth, Unsettled
    <3>2. JobWorth'[k] = n
      BY <1>3, <1>5 DEF JobWorth, Unsettled
    <3>3. JobWorth' = [y \in DOMAIN job \cup {k} |-> JobWorth'[y]]
      BY <1>5 DEF JobWorth
    <3> QED BY <1>0, <3>1, <3>2, <3>3, WorthType
  <2>2. Total(JobWorth') = Total(JobWorth) + JobWorth'[k]
    <3>1. IsFiniteSet(DOMAIN job) /\ k \notin DOMAIN job
      BY <1>0, <1>5
    <3> QED BY <2>1, <3>1, TotalExtend
  <2>3. vault = Total(JobWorth)
    BY <1>0 DEF Solvent, JobWorth
  <2> QED BY <1>1, <2>1, <2>2, <2>3 DEF Solvent, JobWorth
<1>10. HardCap'
  <2>1. Total(tokens') + (vault + n) = Total(tokens) + vault
    BY <1>0, <1>7
  <2> QED BY <1>0, <1>1, <2>1 DEF HardCap, TotalSupply
<1>11. JobsStaffed'
  BY <1>0, <1>3, <1>5 DEF JobsStaffed
<1> QED BY <1>6, <1>8, <1>9, <1>10, <1>11 DEF ContractInv, ContractSound

(* What the escrow owes changes with one job.                              *)
LEMMA OneJobChanges ==
  ASSUME ContractInv, NEW id \in DOMAIN job, NEW r \in Job, job' = [job EXCEPT ![id] = r]
  PROVE  /\ DOMAIN job' = DOMAIN job /\ job'[id] = r
         /\ \A y \in DOMAIN job \ {id} : job'[y] = job[y]
         /\ NextJobId' = NextJobId
         /\ job' \in [DOMAIN job' -> Job]
         /\ Total(JobWorth') + JobWorth[id] = Total(JobWorth) + JobWorth'[id]
         /\ JobWorth[id] \in Nat /\ JobWorth'[id] \in Nat
         /\ Total(JobWorth) \in Nat /\ Total(JobWorth') \in Nat
<1>0. JobTypeOK /\ IsFiniteSet(DOMAIN job) /\ job \in [DOMAIN job -> Job]
  BY DEF ContractInv, ContractSound, JobTypeOK
<1>1. /\ DOMAIN job' = DOMAIN job /\ job'[id] = r
      /\ \A y \in DOMAIN job \ {id} : job'[y] = job[y]
      /\ job' \in [DOMAIN job' -> Job] /\ NextJobId' = NextJobId
  BY <1>0 DEF NextJobId
<1>2. r.payment \in Nat /\ r.workerBond \in Nat
  BY DEF Job
<1>3. JobWorth \in [DOMAIN job -> Nat]
  BY <1>0, WorthType
<1>4. \A y \in DOMAIN job \ {id} : JobWorth'[y] = JobWorth[y]
  BY <1>1 DEF JobWorth, Unsettled
<1>5. JobWorth'[id] \in Nat
  BY <1>1, <1>2 DEF JobWorth
<1>6. JobWorth' \in [DOMAIN job -> Nat]
  <2>1. JobWorth' = [y \in DOMAIN job |-> JobWorth'[y]]
    BY <1>1 DEF JobWorth
  <2> QED BY <1>3, <1>4, <1>5, <2>1
<1>7. Total(JobWorth') + JobWorth[id] = Total(JobWorth) + JobWorth'[id]
  BY <1>0, <1>3, <1>4, <1>6, TotalUpdate
<1>8. Total(JobWorth) \in Nat /\ Total(JobWorth') \in Nat
  BY <1>0, <1>3, <1>6, CoinsFinite
<1> QED BY <1>1, <1>3, <1>5, <1>7, <1>8

LEMMA JobChangesInv ==
  ASSUME ContractInv, NEW id \in DOMAIN job, NEW r \in Job,
         Stakes(id, r) \/ Submits(id, r) \/ Closes(id, r)
  PROVE  ContractInv'
<1>0. /\ JobTypeOK /\ HardCap /\ JobsStaffed /\ IsFiniteSet(DOMAIN job)
      /\ tokens \in [Agent -> Nat] /\ vault \in Nat /\ time \in Nat /\ DOMAIN job = 1..NextJobId
      /\ Total(tokens) \in Nat /\ MaxSupply \in Nat
  BY TokensTotal, JobAssumption DEF ContractInv, ContractSound, JobTypeOK
<1>1. /\ DOMAIN job' = DOMAIN job /\ job'[id] = r
      /\ \A y \in DOMAIN job \ {id} : job'[y] = job[y]
      /\ NextJobId' = NextJobId
      /\ job' \in [DOMAIN job' -> Job]
      /\ Total(JobWorth') + JobWorth[id] = Total(JobWorth) + JobWorth'[id]
      /\ JobWorth[id] \in Nat /\ JobWorth'[id] \in Nat
      /\ Total(JobWorth) \in Nat /\ Total(JobWorth') \in Nat
  BY OneJobChanges DEF Stakes, Submits, Closes, Continues
<1>2. vault = Total(JobWorth) /\ JobWorth[id] <= Total(JobWorth)
  <2>1. JobWorth \in [DOMAIN job -> Nat]
    BY <1>0, WorthType
  <2> QED BY <1>0, <2>1, TotalBound DEF ContractInv, ContractSound, Solvent, JobWorth
<1>3. Unsettled(id) /\ JobWorth[id] = job[id].payment + job[id].workerBond
      /\ job[id].payment \in Nat /\ job[id].workerBond \in Nat
      /\ r.payment \in Nat /\ r.workerBond \in Nat
  BY <1>0, JobFields DEF Stakes, Submits, Closes, Continues, JobWorth, Job
<1>4. Solvent' <=> vault' = Total(JobWorth')
  BY DEF Solvent, JobWorth
<1>5. HardCap' <=> Total(tokens') + vault' <= MaxSupply
  BY DEF HardCap, TotalSupply
<1>6. HardCap <=> Total(tokens) + vault <= MaxSupply
  BY DEF HardCap, TotalSupply
<1>7. CASE Stakes(id, r)
  <2>1. PICK c \in Agent : tokens[c] >= r.workerBond
          /\ tokens' = [tokens EXCEPT ![c] = @ - r.workerBond]
    BY <1>7 DEF Stakes
  <2>2. tokens' \in [Agent -> Nat] /\ Total(tokens') + r.workerBond = Total(tokens)
        /\ Total(tokens') \in Nat
    <3> DEFINE n == r.workerBond
    <3>1. tokens' \in [Agent -> Nat] /\ tokens'[c] = tokens[c] - n
          /\ (\A y \in Agent \ {c} : tokens'[y] = tokens[y]) /\ n \in Nat
      BY <1>0, <1>3, <2>1
    <3>2. IsFiniteSet(Agent)
      BY JobAssumption
    <3> HIDE DEF n
    <3>3. Total(tokens') + n = Total(tokens) /\ Total(tokens') \in Nat
      BY <1>0, <3>1, <3>2, TotalDebit, CoinsFinite
    <3> QED BY <3>1, <3>3 DEF n
  <2>3. job[id].workerBond = 0 /\ JobWorth'[id] = r.payment + r.workerBond
        /\ r.payment = job[id].payment /\ vault' = vault + r.workerBond /\ time' = time
    BY <1>0, <1>1, <1>7 DEF Stakes, Continues, JobsStaffed, JobWorth, Unsettled
  <2>4. vault' = Total(JobWorth') /\ vault' \in Nat
    <3>1. JobWorth[id] = r.payment
      BY <1>3, <2>3
    <3>2. Total(JobWorth') + r.payment = Total(JobWorth) + (r.payment + r.workerBond)
      BY <1>1, <2>3, <3>1
    <3>3. vault' = Total(JobWorth) + r.workerBond
      BY <1>2, <2>3
    <3>4. ASSUME NEW p \in Nat, NEW b \in Nat, NEW s \in Nat, NEW t \in Nat,
                 t + p = s + (p + b)
          PROVE  t = s + b
      BY <3>4
    <3>5. Total(JobWorth') = Total(JobWorth) + r.workerBond
      BY <1>1, <1>3, <3>2, <3>4
    <3> QED BY <1>1, <3>3, <3>5
  <2>5. Total(tokens') + vault' <= MaxSupply
    BY <1>0, <1>3, <1>6, <2>2, <2>3
  <2>6. JobsStaffed'
    <3>1. r.state # "Posted" /\ r.worker \in Agent /\ r.worker # NoAgent
      BY <1>7, JobAssumption DEF Stakes, Continues
    <3> QED BY <1>0, <1>1, <3>1 DEF JobsStaffed
  <2>7. JobTypeOK'
    BY <1>0, <1>1, <2>2, <2>3, <2>4 DEF JobTypeOK
  <2> QED BY <1>0, <1>1, <1>4, <1>5, <2>4, <2>5, <2>6, <2>7 DEF ContractInv, ContractSound
<1>8. CASE Submits(id, r)
  <2>1. tokens' = tokens /\ vault' = vault /\ time' = time
        /\ JobWorth'[id] = r.payment + r.workerBond
        /\ r.payment = job[id].payment /\ r.workerBond = job[id].workerBond
    BY <1>1, <1>8 DEF Submits, Continues, JobWorth, Unsettled
  <2>2. vault' = Total(JobWorth')
    BY <1>1, <1>2, <1>3, <2>1
  <2>3. JobsStaffed'
    <3>1. r.state # "Posted" /\ r.worker \in Agent /\ r.worker # NoAgent
      BY <1>8, JobAssumption DEF Submits, Continues
    <3> QED BY <1>0, <1>1, <3>1 DEF JobsStaffed
  <2>4. JobTypeOK'
    BY <1>0, <1>1, <2>1 DEF JobTypeOK
  <2>5. HardCap'
    BY <1>0, <2>1 DEF HardCap, TotalSupply
  <2> QED BY <1>0, <1>1, <1>4, <2>2, <2>3, <2>4, <2>5 DEF ContractInv, ContractSound
<1>9. CASE Closes(id, r)
  <2>1. /\ JobWorth'[id] = 0 /\ time' = time /\ tokens' \in [Agent -> Nat]
        /\ vault' = vault - (job[id].payment + job[id].workerBond)
    BY <1>1, <1>9 DEF Closes, JobWorth, Unsettled
  <2>2. vault' = Total(JobWorth') /\ vault' \in Nat
    BY <1>0, <1>1, <1>2, <1>3, <2>1
  <2>3. PICK m \in Nat :
          /\ m <= MaxSupply - (Total(tokens) + vault)
          /\ Total(tokens') = Total(tokens) + (job[id].payment + job[id].workerBond) + m
    BY <1>9 DEF Closes
  <2>4. Total(tokens') + vault' <= MaxSupply
    BY <1>0, <1>3, <2>1, <2>3
  <2>5. JobsStaffed'
    BY <1>0, <1>1, <1>9 DEF JobsStaffed, Closes
  <2>6. JobTypeOK'
    BY <1>0, <1>1, <2>1, <2>2 DEF JobTypeOK
  <2> QED BY <1>0, <1>1, <1>4, <1>5, <2>2, <2>4, <2>5, <2>6 DEF ContractInv, ContractSound
<1> QED BY <1>7, <1>8, <1>9

LEMMA ContractStepInv ==
  ContractInv /\ [JobNext(Nat, Nat, Results)]_jobVars => ContractInv'
<1> SUFFICES ASSUME ContractInv, [JobNext(Nat, Nat, Results)]_jobVars PROVE ContractInv'
  OBVIOUS
<1>1. ContractStep
  BY ContractSteps
<1>2. CASE time' = time + 1 /\ UNCHANGED <<tokens, vault, job>>
  BY <1>2 DEF ContractInv, ContractSound, JobTypeOK, Solvent, HardCap, JobsStaffed, NextJobId,
     TotalSupply, Unsettled
<1>3. CASE UNCHANGED jobVars
  BY <1>3 DEF jobVars, ContractInv, ContractSound, JobTypeOK, Solvent, HardCap, JobsStaffed,
     NextJobId, TotalSupply, Unsettled
<1> QED BY <1>1, <1>2, <1>3, PostsInv, JobChangesInv DEF ContractStep

LEMMA ContractInitInv == JobInit => ContractInv
<1> SUFFICES ASSUME JobInit PROVE ContractInv
  OBVIOUS
<1>1. DOMAIN job = {} /\ tokens = GenesisTokens /\ vault = 0 /\ time = 0
  BY DEF JobInit
<1>2. IsFiniteSet(DOMAIN job) /\ NextJobId = 0
  BY <1>1, FS_EmptySet DEF NextJobId
<1>3. Total(JobWorth) = 0
  <2>1. Coins(JobWorth) = {}
    BY <1>1, CoinMembership DEF JobWorth
  <2> QED BY <2>1, FS_EmptySet DEF Total
<1>4. JobTypeOK
  <2>1. job \in [DOMAIN job -> Job]
    BY <1>1 DEF JobInit
  <2> QED BY <1>1, <1>2, <2>1, JobAssumption DEF JobTypeOK
<1>5. HardCap
  <2>1. Total(GenesisTokens) \in Nat
    BY JobAssumption, CoinsFinite
  <2> QED BY <1>1, <2>1, JobAssumption DEF HardCap, TotalSupply
<1> QED BY <1>1, <1>2, <1>3, <1>4, <1>5
     DEF ContractInv, ContractSound, Solvent, JobWorth, JobsStaffed

LEMMA InvSound == ContractInv => ContractSound
BY DEF ContractInv

(***************************************************************************)
(* The contract can always pay, and the token stays below its cap, for any *)
(* finite number of agents, any payments, bonds, windows and rewards, and  *)
(* whoever calls its functions.                                            *)
(***************************************************************************)
THEOREM ContractAlwaysPays == ContractSpec => []ContractSound
<1>1. ContractSpec => []ContractInv
  BY ContractInitInv, ContractStepInv, PTL DEF ContractSpec
<1> QED BY <1>1, InvSound, PTL

LEMMA WindowIsBuyers == ContractInv => NoRaceAtTheWindow
<1> SUFFICES ASSUME ContractInv, NEW id \in DOMAIN job, job[id].state = "Submitted",
                    NEW c \in Agent \ {job[id].buyer}
             PROVE  CanRelease(c, id) <=> ~CanDispute(job[id].buyer, id)
  BY DEF NoRaceAtTheWindow
<1> DEFINE n == job[id].payment
           b == job[id].workerBond
<1>1. JobTypeOK /\ Solvent /\ JobsStaffed /\ IsFiniteSet(DOMAIN job)
  BY DEF ContractInv, ContractSound
<1>2. /\ job[id].worker \in Agent /\ job[id].buyer \in Agent /\ n \in Nat /\ b \in Nat
      /\ job[id].submittedAt \in Nat /\ time \in Nat /\ vault \in Nat
  BY <1>1, JobFields DEF JobsStaffed, JobTypeOK, Job
<1>3. vault >= n + b
  <2>1. JobWorth \in [DOMAIN job -> Nat] /\ vault = Total(JobWorth)
    BY <1>1, WorthType DEF JobWorth, Solvent
  <2>2. JobWorth[id] = n + b
    BY DEF JobWorth, Unsettled
  <2>3. JobWorth[id] <= Total(JobWorth)
    BY <1>1, <2>1, TotalBound
  <2> QED BY <1>2, <2>1, <2>2, <2>3
<1>4. Total(Returned(id)) = n + b
  <2> DEFINE f == To(job[id].buyer, n)
             g == To(job[id].worker, b)
  <2>1. f \in [Agent -> Nat] /\ g \in [Agent -> Nat] /\ Total(f) = n /\ Total(g) = b
    BY <1>2, ToTotal
  <2>2. Returned(id) = [a \in Agent |-> f[a] + g[a]] /\ IsFiniteSet(Agent)
    BY JobAssumption DEF Returned, Both
  <2> HIDE DEF f, g
  <2> QED BY <2>1, <2>2, TotalPlus
<1>5. WindowOver(id) <=> ~(time < job[id].submittedAt + DisputeWindow)
  BY <1>2, JobAssumption DEF WindowOver
<1> QED
  BY <1>3, <1>4, <1>5 DEF CanRelease, CanDispute

(***************************************************************************)
(* At every second either the buyer can dispute a submitted job or others  *)
(* can release it, never both and never neither: release and dispute are   *)
(* guarded by complementary times, and both payouts are covered by what    *)
(* the escrow holds, however many other jobs it has settled.               *)
(***************************************************************************)
THEOREM WindowBelongsToBuyer == ContractSpec => []NoRaceAtTheWindow
<1>1. ContractSpec => []ContractInv
  BY ContractInitInv, ContractStepInv, PTL DEF ContractSpec
<1> QED BY <1>1, WindowIsBuyers, PTL

-----------------------------------------------------------------------------
(* The contract implements Custody.                                        *)

JobDeposit ==
  [x \in PaymentIds \cup BondIds |->
     IF x[2] = "payment" THEN job[x[1]].payment ELSE job[x[1]].workerBond]

SettledDeposits == {x \in PaymentIds \cup BondIds : ~Unsettled(x[1])}

OpenJobs == [x \in DOMAIN JobDeposit \ SettledDeposits |-> JobDeposit[x]]

(* What the escrow holds is what the open deposits are worth.              *)
LEMMA OpenJobsTotal ==
  ASSUME ContractInv
  PROVE  Total(OpenJobs) = vault
<1> DEFINE D == DOMAIN job
           pay == [id \in D |-> IF Unsettled(id) THEN job[id].payment ELSE 0]
           bon == [id \in D |-> IF Unsettled(id) THEN job[id].workerBond ELSE 0]
           SP == {id \in D : Unsettled(id)}
           SB == {id \in D : Unsettled(id) /\ job[id].worker # NoAgent}
           NP == {<<id, "payment">> : id \in SP}
           NB == {<<id, "bond">> : id \in SB}
           fp == [x \in NP |-> pay[x[1]]]
           fb == [x \in NB |-> bon[x[1]]]
<1>1. IsFiniteSet(D) /\ JobsStaffed /\ vault = Total(JobWorth)
  BY DEF ContractInv, ContractSound, Solvent, JobWorth
<1>2. \A id \in D : job[id].payment \in Nat /\ job[id].workerBond \in Nat
  BY JobFields DEF ContractInv, ContractSound
<1>3. pay \in [D -> Nat] /\ bon \in [D -> Nat]
  BY <1>2
<1>4. Total(JobWorth) = Total(pay) + Total(bon)
  <2>1. JobWorth = [id \in D |-> pay[id] + bon[id]]
    BY <1>2 DEF JobWorth
  <2> HIDE DEF pay, bon, D
  <2> QED BY <1>1, <1>3, <2>1, TotalPlus
<1>5. IsFiniteSet(NP) /\ fp \in [NP -> Nat] /\ Total(fp) = Total(pay)
  <2> DEFINE r == [id \in SP |-> <<id, "payment">>]
  <2>1. r \in [SP -> NP] /\ (\A x, y \in SP : r[x] = r[y] => x = y)
        /\ \A y \in NP : \E x \in SP : r[x] = y
    OBVIOUS
  <2>2. fp \in [NP -> Nat] /\ \A x \in SP : fp[r[x]] = pay[x]
    BY <1>3
  <2>3. SP \in SUBSET D /\ \A x \in D \ SP : pay[x] = 0
    OBVIOUS
  <2>4. IsFiniteSet(D) /\ pay \in [D -> Nat]
    BY <1>1, <1>3
  <2> HIDE DEF r, SP, NP, fp, pay, SB, NB, fb, bon, D
  <2> QED BY <2>1, <2>2, <2>3, <2>4, TotalRename
<1>6. IsFiniteSet(NB) /\ fb \in [NB -> Nat] /\ Total(fb) = Total(bon)
  <2> DEFINE r == [id \in SB |-> <<id, "bond">>]
  <2>1. r \in [SB -> NB] /\ (\A x, y \in SB : r[x] = r[y] => x = y)
        /\ \A y \in NB : \E x \in SB : r[x] = y
    OBVIOUS
  <2>2. fb \in [NB -> Nat] /\ \A x \in SB : fb[r[x]] = bon[x]
    BY <1>3
  <2>3. SB \in SUBSET D /\ \A x \in D \ SB : bon[x] = 0
    BY <1>1 DEF JobsStaffed
  <2>4. IsFiniteSet(D) /\ bon \in [D -> Nat]
    BY <1>1, <1>3
  <2> HIDE DEF r, SP, NP, fp, pay, SB, NB, fb, bon, D
  <2> QED BY <2>1, <2>2, <2>3, <2>4, TotalRename
<1>7. DOMAIN OpenJobs = NP \cup NB
  <2>1. ASSUME NEW x PROVE x \in DOMAIN OpenJobs <=> x \in NP \cup NB
    BY DEF OpenJobs, JobDeposit, SettledDeposits, PaymentIds, BondIds
  <2> QED BY <2>1 DEF OpenJobs
<1>8. \A y \in NP : OpenJobs[y] = fp[y]
  BY <1>7 DEF OpenJobs, JobDeposit, PaymentIds
<1>9. \A y \in NB : OpenJobs[y] = fb[y]
  BY <1>7 DEF OpenJobs, JobDeposit, BondIds
<1>10. NP \cap NB = {} /\ DOMAIN fp = NP /\ DOMAIN fb = NB
  OBVIOUS
<1> HIDE DEF fp, fb, NP, NB
<1>11. Coins(OpenJobs) = Coins(fp) \cup Coins(fb)
  BY <1>7, <1>8, <1>9, <1>10 DEF Coins
<1>12. Coins(fp) \cap Coins(fb) = {}
  BY <1>10 DEF Coins
<1>13. Total(OpenJobs) = Total(fp) + Total(fb)
  BY <1>5, <1>6, <1>11, <1>12, TotalSplit
<1> QED BY <1>1, <1>4, <1>5, <1>6, <1>13

(* A step keeps the payment of a job, and its bond once there is one, and  *)
(* does not reopen it.                                                     *)
LEMMA JobsStay ==
  ASSUME ContractInv, ContractStep, NEW id \in DOMAIN job
  PROVE  /\ id \in DOMAIN job' /\ job'[id].payment = job[id].payment
         /\ job[id].worker # NoAgent =>
              job'[id].worker # NoAgent /\ job'[id].workerBond = job[id].workerBond
         /\ ~Unsettled(id) => ~Unsettled(id)'
<1>0. /\ JobTypeOK /\ JobsStaffed /\ IsFiniteSet(DOMAIN job) /\ DOMAIN job = 1..NextJobId
      /\ job \in [DOMAIN job -> Job]
  BY DEF ContractInv, ContractSound, JobTypeOK
<1>1. CASE Posts
  <2>1. NextJobId \in Nat
    BY <1>0, FS_CardinalityType DEF NextJobId
  <2>2. PICK r : job' = Put(job, NextJobId + 1, r)
    BY <1>1 DEF Posts
  <2>3. id \in DOMAIN job' /\ job'[id] = job[id]
    BY <1>0, <2>1, <2>2 DEF Put
  <2> QED BY <2>3 DEF Unsettled
<1>2. ASSUME NEW k \in DOMAIN job, NEW r \in Job, Stakes(k, r) \/ Submits(k, r) \/ Closes(k, r)
      PROVE  /\ id \in DOMAIN job' /\ job'[id].payment = job[id].payment
             /\ job[id].worker # NoAgent =>
                  job'[id].worker # NoAgent /\ job'[id].workerBond = job[id].workerBond
             /\ ~Unsettled(id) => ~Unsettled(id)'
  <2>1. job' = [job EXCEPT ![k] = r] /\ Unsettled(k) /\ r.payment = job[k].payment
    BY <1>2 DEF Stakes, Submits, Closes, Continues
  <2>2. id \in DOMAIN job' /\ (id # k => job'[id] = job[id]) /\ (id = k => job'[id] = r)
    BY <1>0, <2>1
  <2>3. job[k].worker # NoAgent => r.worker = job[k].worker /\ r.workerBond = job[k].workerBond
    BY <1>0, <1>2 DEF Stakes, Submits, Closes, JobsStaffed
  <2>4. CASE id # k
    BY <2>2, <2>4 DEF Unsettled
  <2>5. CASE id = k
    BY <2>1, <2>2, <2>3, <2>5
  <2> QED BY <2>4, <2>5
<1>3. CASE job' = job
  BY <1>3 DEF Unsettled
<1> QED BY <1>1, <1>2, <1>3 DEF ContractStep, jobVars

LEMMA JobDepositsStay ==
  ASSUME ContractInv, ContractStep
  PROVE  /\ DOMAIN JobDeposit \subseteq DOMAIN JobDeposit'
         /\ \A x \in DOMAIN JobDeposit : JobDeposit'[x] = JobDeposit[x]
         /\ SettledDeposits \subseteq SettledDeposits'
         /\ SettledDeposits' \subseteq DOMAIN JobDeposit'
<1>1. ASSUME NEW x \in PaymentIds \cup BondIds
      PROVE  /\ x \in (PaymentIds \cup BondIds)' /\ JobDeposit'[x] = JobDeposit[x]
             /\ x \in SettledDeposits => x \in SettledDeposits'
  <2>1. CASE x \in PaymentIds
    <3>1. PICK id \in DOMAIN job : x = <<id, "payment">>
      BY <2>1 DEF PaymentIds
    <3> QED BY <3>1, JobsStay DEF PaymentIds, JobDeposit, SettledDeposits
  <2>2. CASE x \in BondIds
    <3>1. PICK id \in DOMAIN job : job[id].worker # NoAgent /\ x = <<id, "bond">>
      BY <2>2 DEF BondIds
    <3> QED BY <3>1, JobsStay DEF BondIds, JobDeposit, SettledDeposits
  <2> QED BY <1>1, <2>1, <2>2
<1>2. DOMAIN JobDeposit = PaymentIds \cup BondIds
      /\ (DOMAIN JobDeposit)' = (PaymentIds \cup BondIds)'
  BY DEF JobDeposit
<1>3. SettledDeposits \subseteq PaymentIds \cup BondIds
      /\ SettledDeposits' \subseteq (PaymentIds \cup BondIds)'
  BY DEF SettledDeposits
<1> QED BY <1>1, <1>2, <1>3

(* The escrow's coins are those of the open deposits.                      *)
JobsBalance == Total(tokens) + Total(OpenJobs) = TotalSupply

LEMMA JobsAreBalanced == ContractInv => JobsBalance
BY OpenJobsTotal DEF JobsBalance, TotalSupply

LEMMA SameTotal ==
  ASSUME NEW f
  PROVE  Deposits!Total(f) = Total(f)
BY DEF Deposits!Total, Deposits!Coins, Total, Coins, Deposits!Cardinality, Cardinality

(***************************************************************************)
(* The contract implements Custody: every payment and every bond is a      *)
(* deposit that keeps its amount, is closed once and never reopened, and   *)
(* the escrow holds exactly the open ones, whoever calls its functions.    *)
(***************************************************************************)
THEOREM ContractImplementsCustody == ContractSpec => JobsAreDeposits
<1>1. JobInit => Deposits!CustodyInit
  <2> SUFFICES ASSUME JobInit PROVE Deposits!CustodyInit
    OBVIOUS
  <2>1. PaymentIds \cup BondIds = {}
    BY DEF JobInit, PaymentIds, BondIds
  <2>2. Total(tokens) = TotalSupply
    <3>1. Total(tokens) \in Nat
      BY JobAssumption, CoinsFinite DEF JobInit
    <3> QED BY <3>1 DEF JobInit, TotalSupply
  <2> QED BY <2>1, <2>2 DEF Deposits!CustodyInit
<1>2. ContractInv /\ JobsBalance' /\ [JobNext(Nat, Nat, Results)]_jobVars => Deposits!Transact
  <2> SUFFICES ASSUME ContractInv, JobsBalance', [JobNext(Nat, Nat, Results)]_jobVars
               PROVE  Deposits!Transact
    OBVIOUS
  <2>1. Deposits!Open' = OpenJobs'
    BY DEF Deposits!Open, OpenJobs, JobDeposit, SettledDeposits
  <2>2. Total(tokens)' + Deposits!Total(Deposits!Open') = TotalSupply'
    BY <2>1, SameTotal DEF JobsBalance
  <2>3. ContractStep
    BY ContractSteps
  <2> QED BY <2>2, <2>3, JobDepositsStay DEF Deposits!Transact, JobDeposit, SettledDeposits
<1>3. ContractSpec => []ContractInv
  BY ContractInitInv, ContractStepInv, PTL DEF ContractSpec
<1> QED
  BY <1>1, <1>2, <1>3, JobsAreBalanced, PTL
     DEF ContractSpec, JobsAreDeposits, Deposits!CustodySpec

-----------------------------------------------------------------------------
(* The agents at work.                                                     *)

HandlerStage == {"none", "read", "claim", "work", "done"}

BuyerStage == {"start", "wait", "release", "dispute", "gave up", "done"}

TradeTypeOK ==
  /\ buyer \in [Buyer -> [stage : BuyerStage, id : Nat, deadline : Nat]]
  /\ handler \in [Worker -> [JobId -> HandlerStage]]

(* A buyer that has posted a job knows its number.                         *)
BuyersPosted == \A b \in Buyer : buyer[b].stage # "start" => buyer[b].id \in DOMAIN job

(* Who works on a number holds the job with that number.                   *)
WorkersHold ==
  \A w \in Worker, id \in JobId : Working(w, id) =>
    id \in DOMAIN job /\ job[id].worker = w /\ job[id].state = "Claimed"

(***************************************************************************)
(* The inductive invariant of the agents and the contract together.        *)
(***************************************************************************)
TradeInv ==
  /\ ContractInv
  /\ NextJobId <= MaxJobs
  /\ TradeTypeOK
  /\ BuyersPosted
  /\ WorkersHold

LEMMA TradeFacts ==
  ASSUME TradeInv
  PROVE  /\ ContractInv /\ JobTypeOK /\ TradeTypeOK /\ BuyersPosted /\ WorkersHold
         /\ NextJobId \in Nat /\ DOMAIN job = 1..NextJobId /\ DOMAIN job \subseteq JobId
         /\ job \in [DOMAIN job -> Job] /\ time \in Nat
<1>1. ContractInv /\ JobTypeOK /\ IsFiniteSet(DOMAIN job)
  BY DEF TradeInv, ContractInv, ContractSound
<1>2. NextJobId \in Nat /\ DOMAIN job = 1..NextJobId
  BY <1>1, FS_CardinalityType DEF JobTypeOK, NextJobId
<1>3. MaxJobs \in Nat /\ NextJobId <= MaxJobs
  BY JobAssumption DEF TradeInv
<1>4. DOMAIN job \subseteq JobId
  BY <1>2, <1>3 DEF JobId
<1> QED BY <1>1, <1>2, <1>4 DEF TradeInv, JobTypeOK

(* Every step of the agents is a call of the contract, or none.            *)
LEMMA AgentsCallContract ==
  TradeInv /\ [TradeNext]_tradeVars => [JobNext(Nat, Nat, Results)]_jobVars
<1> SUFFICES ASSUME TradeInv, [TradeNext]_tradeVars PROVE [JobNext(Nat, Nat, Results)]_jobVars
  OBVIOUS
<1>0. Buyer \subseteq Agent /\ Worker \subseteq Agent /\ Payment \in Nat /\ Bond \in Nat
  BY TradeAssumption
<1>1. CASE TradeBlock
  BY <1>1 DEF TradeBlock, JobNext
<1>2. ASSUME NEW b \in Buyer, BuyerStep(b)
      PROVE  [JobNext(Nat, Nat, Results)]_jobVars
  <2>1. CASE Post(b)
    BY <1>0, <2>1 DEF Post, JobNext
  <2>2. CASE Judge(b)
    BY <2>2 DEF Judge
  <2>3. CASE Settle(b)
    <3>1. buyer[b].id \in DOMAIN job
      BY <2>3 DEF Settle, TradeInv, BuyersPosted
    <3> QED BY <1>0, <2>3, <3>1 DEF Settle, JobNext
  <2> QED BY <1>2, <2>1, <2>2, <2>3 DEF BuyerStep
<1>3. ASSUME NEW w \in Worker, WorkerStep(w)
      PROVE  [JobNext(Nat, Nat, Results)]_jobVars
  <2>1. CASE Boot(w) \/ Scan(w) \/ Watch(w)
    BY <2>1 DEF Boot, Scan, Watch
  <2>2. ASSUME NEW id \in JobId, HandlerStep(w, id)
        PROVE  [JobNext(Nat, Nat, Results)]_jobVars
    <3>1. id \in DOMAIN job
      BY <2>2 DEF HandlerStep
    <3>2. CASE Hear(w, id) \/ SendClaim(w, id)
      BY <3>2 DEF Hear, SendClaim
    <3>3. ASSUME NEW run, ExecuteClaim(w, id, run)
          PROVE  [JobNext(Nat, Nat, Results)]_jobVars
      BY <1>0, <3>1, <3>3 DEF ExecuteClaim, JobNext
    <3>4. ASSUME NEW r \in Results, Submit(w, id, r)
          PROVE  [JobNext(Nat, Nat, Results)]_jobVars
      BY <1>0, <3>1, <3>4 DEF Submit, JobNext
    <3> QED BY <2>2, <3>2, <3>3, <3>4 DEF HandlerStep
  <2> QED BY <1>3, <2>1, <2>2 DEF WorkerStep
<1>4. ASSUME NEW w \in Worker, Crash(w) \/ \E id \in DOMAIN job : ReceiptTimeout(w, id)
      PROVE  [JobNext(Nat, Nat, Results)]_jobVars
  BY <1>4 DEF Crash, ReceiptTimeout
<1>5. CASE UNCHANGED tradeVars
  BY <1>5 DEF tradeVars
<1> QED BY <1>1, <1>2, <1>3, <1>4, <1>5 DEF TradeNext

(* A job that is claimed stays so for its worker.                          *)
ClaimsStay ==
  \A id \in DOMAIN job : job[id].state = "Claimed" =>
    id \in DOMAIN job' /\ job'[id].worker = job[id].worker /\ job'[id].state = "Claimed"

(* Nobody begins to work.                                                  *)
NobodyBegins ==
  /\ handler' \in [Worker -> [JobId -> HandlerStage]]
  /\ \A w \in Worker, id \in JobId : handler'[w][id] = "work" => handler[w][id] = "work"

LEMMA HoldersStay ==
  ASSUME WorkersHold, ClaimsStay, NobodyBegins
  PROVE  WorkersHold'
BY DEF WorkersHold, ClaimsStay, NobodyBegins, Working

(* handle(id) of worker w goes to a stage other than "work".               *)
LEMMA HandlerMoves ==
  ASSUME TradeTypeOK, NEW w \in Worker, NEW id, NEW s \in HandlerStage \ {"work"},
         handler' = [handler EXCEPT ![w][id] = s]
  PROVE  NobodyBegins
BY DEF TradeTypeOK, NobodyBegins, HandlerStage

(* One job of the contract changes, from another state than "Claimed".     *)
LEMMA UnclaimedChanges ==
  ASSUME TradeInv, NEW k \in DOMAIN job, NEW r, job' = [job EXCEPT ![k] = r],
         job[k].state # "Claimed"
  PROVE  ClaimsStay /\ DOMAIN job' = DOMAIN job
BY DEF ClaimsStay

LEMMA PostKeeps ==
  ASSUME TradeInv, NEW b \in Buyer, Post(b)
  PROVE  /\ DOMAIN job' = DOMAIN job \cup {NextJobId + 1} /\ NextJobId' <= MaxJobs
         /\ ClaimsStay
<1>0. /\ NextJobId \in Nat /\ DOMAIN job = 1..NextJobId
  BY TradeFacts
<1>1. PICK r : job' = Put(job, NextJobId + 1, r)
  BY DEF Post, PostJob
<1>2. NextJobId < MaxJobs /\ MaxJobs \in Nat
  BY JobAssumption DEF Post, PostJob
<1>3. DOMAIN job' = 1..(NextJobId + 1)
  BY <1>0, <1>1 DEF Put
<1>4. Cardinality(DOMAIN job') = NextJobId + 1
  <2> DEFINE n == NextJobId + 1
  <2>1. n \in Int /\ DOMAIN job' = 1..n
    BY <1>0, <1>3
  <2> HIDE DEF n
  <2>2. Cardinality(1..n) = n - 1 + 1 \/ 1 > n
    BY <2>1, FS_Interval
  <2> QED BY <1>0, <2>1, <2>2 DEF n
<1>5. NextJobId' <= MaxJobs
  BY <1>0, <1>2, <1>4 DEF NextJobId
<1> QED BY <1>0, <1>1, <1>5 DEF Put, ClaimsStay

LEMMA SameJobs ==
  ASSUME UNCHANGED jobVars
  PROVE  ClaimsStay /\ NextJobId' = NextJobId /\ DOMAIN job' = DOMAIN job
BY DEF jobVars, ClaimsStay, NextJobId

(* The part of the invariant that the agents' own steps can disturb.       *)
AgentsInv == NextJobId <= MaxJobs /\ TradeTypeOK /\ BuyersPosted /\ WorkersHold

(* A step that neither touches the buyers nor lets anybody begin to work.  *)
LEMMA WorkersOnly ==
  ASSUME TradeInv, buyer' = buyer, NobodyBegins, ClaimsStay,
         DOMAIN job' = DOMAIN job
  PROVE  AgentsInv'
<1>1. TradeTypeOK'
  BY DEF TradeInv, TradeTypeOK, NobodyBegins
<1>2. BuyersPosted'
  BY DEF TradeInv, BuyersPosted
<1>3. WorkersHold'
  BY HoldersStay DEF TradeInv
<1>4. NextJobId' <= MaxJobs
  BY DEF TradeInv, NextJobId
<1> QED BY <1>1, <1>2, <1>3, <1>4 DEF AgentsInv

LEMMA SameHandlers ==
  ASSUME TradeTypeOK, handler' = handler
  PROVE  NobodyBegins
BY DEF TradeTypeOK, NobodyBegins

LEMMA BuyerStepInv ==
  ASSUME TradeInv, NEW b \in Buyer, BuyerStep(b)
  PROVE  AgentsInv'
<1>0. /\ TradeTypeOK /\ BuyersPosted /\ WorkersHold /\ NextJobId \in Nat /\ time \in Nat
      /\ JobTypeOK /\ NextJobId <= MaxJobs
  BY TradeFacts DEF TradeInv
<1>1. buyer[b] \in [stage : BuyerStage, id : Nat, deadline : Nat]
  BY <1>0 DEF TradeTypeOK
<1>2. NobodyBegins
  BY <1>0, SameHandlers DEF BuyerStep, Post, Judge, Settle, workerVars
<1>3. ASSUME NEW s \in BuyerStage, buyer' = [buyer EXCEPT ![b].stage = s],
             buyer[b].stage # "start", ClaimsStay, DOMAIN job' = DOMAIN job
      PROVE  AgentsInv'
  <2> DEFINE r == [buyer[b] EXCEPT !.stage = s]
  <2>1. r \in [stage : BuyerStage, id : Nat, deadline : Nat] /\ r.id = buyer[b].id
    BY <1>1
  <2>2. buyer' = [buyer EXCEPT ![b] = r]
    BY <1>3
  <2> HIDE DEF r
  <2>3. TradeTypeOK'
    BY <1>0, <1>2, <2>1, <2>2 DEF TradeTypeOK, NobodyBegins
  <2>4. BuyersPosted'
    BY <1>0, <1>3, <2>1, <2>2 DEF BuyersPosted, TradeTypeOK
  <2>5. WorkersHold'
    BY <1>0, <1>2, <1>3, HoldersStay
  <2>6. NextJobId' <= MaxJobs
    BY <1>0, <1>3 DEF NextJobId
  <2> QED BY <2>3, <2>4, <2>5, <2>6 DEF AgentsInv
<1>4. CASE Post(b)
  <2> DEFINE r == [stage |-> "wait", id |-> NextJobId + 1, deadline |-> time + Patience]
  <2>1. r \in [stage : BuyerStage, id : Nat, deadline : Nat] /\ r.id = NextJobId + 1
    BY <1>0, TradeAssumption DEF BuyerStage
  <2>2. buyer' = [buyer EXCEPT ![b] = r]
    BY <1>4 DEF Post
  <2>3. /\ DOMAIN job' = DOMAIN job \cup {NextJobId + 1} /\ NextJobId' <= MaxJobs
        /\ ClaimsStay
    BY <1>4, PostKeeps
  <2> HIDE DEF r
  <2>4. TradeTypeOK'
    BY <1>0, <1>2, <2>1, <2>2 DEF TradeTypeOK, NobodyBegins
  <2>5. BuyersPosted'
    BY <1>0, <2>1, <2>2, <2>3 DEF BuyersPosted, TradeTypeOK
  <2>6. WorkersHold'
    BY <1>0, <1>2, <2>3, HoldersStay
  <2> QED BY <2>3, <2>4, <2>5, <2>6 DEF AgentsInv
<1>5. CASE Judge(b)
  <2>1. ClaimsStay /\ DOMAIN job' = DOMAIN job /\ buyer[b].stage # "start"
    BY <1>5, SameJobs DEF Judge
  <2>2. \E s \in BuyerStage : buyer' = [buyer EXCEPT ![b].stage = s]
    BY <1>5 DEF Judge, BuyerStage
  <2> QED BY <1>3, <2>1, <2>2
<1>6. CASE Settle(b)
  <2>1. buyer[b].stage # "start" /\ buyer[b].id \in DOMAIN job
    BY <1>0, <1>6 DEF Settle, BuyersPosted
  <2>2. CASE UNCHANGED jobVars
    BY <1>3, <1>6, <2>1, <2>2, SameJobs DEF Settle, BuyerStage
  <2>3. CASE Release(b, buyer[b].id) \/ Dispute(b, buyer[b].id)
    <3> DEFINE k == buyer[b].id
    <3>1. PICK s : job' = [job EXCEPT ![k].state = s]
      BY <2>3 DEF Release, Dispute
    <3>2. job[k].state = "Submitted" /\ job' = [job EXCEPT ![k] = [job[k] EXCEPT !.state = s]]
      BY <2>3, <3>1 DEF Release, CanRelease, Dispute, CanDispute
    <3>3. ClaimsStay /\ DOMAIN job' = DOMAIN job
      BY <2>1, <3>2, UnclaimedChanges
    <3> QED BY <1>3, <1>6, <2>1, <3>3 DEF Settle, BuyerStage
  <2> QED BY <1>6, <2>2, <2>3 DEF Settle
<1> QED BY <1>4, <1>5, <1>6 DEF BuyerStep

(* A claim is executed: the worker that wins holds the job.                *)
LEMMA ExecuteClaimInv ==
  ASSUME TradeInv, NEW w \in Worker, NEW id \in DOMAIN job, NEW run, ExecuteClaim(w, id, run)
  PROVE  AgentsInv'
<1>0. /\ TradeTypeOK /\ BuyersPosted /\ WorkersHold /\ id \in JobId
      /\ job \in [DOMAIN job -> Job] /\ handler[w][id] \in HandlerStage
      /\ handler \in [Worker -> [JobId -> HandlerStage]]
  BY TradeFacts DEF TradeTypeOK
<1>1. ASSUME NEW won \in BOOLEAN, handler' = Answered(w, id, run, won)
      PROVE  \E s \in HandlerStage :
               /\ handler' = [handler EXCEPT ![w][id] = s]
               /\ s = "work" => won \/ handler[w][id] = "work"
  <2> DEFINE s == IF run = mode[w].run THEN AfterClaim(handler[w][id], won) ELSE handler[w][id]
  <2>1. handler' = [handler EXCEPT ![w][id] = s]
    BY <1>1 DEF Answered
  <2>2. s \in HandlerStage /\ (s = "work" => won \/ handler[w][id] = "work")
    BY <1>0 DEF AfterClaim, HandlerStage
  <2> HIDE DEF s
  <2> QED BY <2>1, <2>2
<1>2. CASE ClaimJob(w, id, Bond) /\ handler' = Answered(w, id, run, TRUE)
  <2>1. PICK s \in HandlerStage : handler' = [handler EXCEPT ![w][id] = s]
    BY <1>1, <1>2
  <2> DEFINE r == [job[id] EXCEPT !.worker = w, !.workerBond = Bond, !.claimedAt = time,
                                  !.state = "Claimed"]
  <2>2. job[id].state = "Posted" /\ job' = [job EXCEPT ![id] = r]
    BY <1>2 DEF ClaimJob, Claimable
  <2>3. r.worker = w /\ r.state = "Claimed"
    BY <1>0 DEF Job
  <2> HIDE DEF r
  <2>4. ClaimsStay /\ DOMAIN job' = DOMAIN job
    BY <2>2, UnclaimedChanges
  <2>5. job'[id].worker = w /\ job'[id].state = "Claimed"
    BY <1>0, <2>2, <2>3
  <2>6. handler' \in [Worker -> [JobId -> HandlerStage]]
        /\ \A v \in Worker, k \in JobId : ~(v = w /\ k = id) => handler'[v][k] = handler[v][k]
    BY <1>0, <2>1
  <2>7. WorkersHold'
    <3> SUFFICES ASSUME NEW v \in Worker, NEW k \in JobId, handler'[v][k] = "work"
                 PROVE  k \in DOMAIN job' /\ job'[k].worker = v /\ job'[k].state = "Claimed"
      BY DEF WorkersHold, Working
    <3>1. CASE v = w /\ k = id
      BY <2>4, <2>5, <3>1
    <3>2. CASE ~(v = w /\ k = id)
      BY <1>0, <2>4, <2>6, <3>2 DEF WorkersHold, Working, ClaimsStay
    <3> QED BY <3>1, <3>2
  <2>8. buyer' = buyer
    BY DEF ExecuteClaim
  <2>9. TradeTypeOK' /\ BuyersPosted' /\ NextJobId' <= MaxJobs
    BY <2>4, <2>6, <2>8 DEF TradeInv, TradeTypeOK, BuyersPosted, NextJobId
  <2> QED BY <2>7, <2>9 DEF AgentsInv
<1>3. CASE UNCHANGED jobVars /\ handler' = Answered(w, id, run, FALSE)
  <2>1. PICK s \in HandlerStage :
          handler' = [handler EXCEPT ![w][id] = s] /\ (s = "work" => handler[w][id] = "work")
    BY <1>1, <1>3
  <2>2. NobodyBegins
    BY <1>0, <2>1 DEF NobodyBegins
  <2> QED BY <1>3, <2>2, SameJobs, WorkersOnly DEF ExecuteClaim
<1> QED BY <1>2, <1>3 DEF ExecuteClaim

(* A result is submitted: its worker was the only one at work on the job.  *)
LEMMA SubmitInv ==
  ASSUME TradeInv, NEW w \in Worker, NEW id \in DOMAIN job, NEW x, Submit(w, id, x)
  PROVE  AgentsInv'
<1>0. /\ TradeTypeOK /\ BuyersPosted /\ WorkersHold /\ id \in JobId
      /\ job \in [DOMAIN job -> Job]
      /\ handler \in [Worker -> [JobId -> HandlerStage]]
  BY TradeFacts DEF TradeTypeOK
<1>1. handler' = [handler EXCEPT ![w][id] = "done"] /\ buyer' = buyer
      /\ job[id].state = "Claimed" /\ job[id].worker = w
  BY DEF Submit, SubmitResult
<1>2. NobodyBegins
  BY <1>0, <1>1, HandlerMoves DEF HandlerStage
<1>3. DOMAIN job' = DOMAIN job /\ \A k \in DOMAIN job \ {id} : job'[k] = job[k]
  BY <1>0 DEF Submit, SubmitResult
<1>4. WorkersHold'
  <2> SUFFICES ASSUME NEW v \in Worker, NEW k \in JobId, handler'[v][k] = "work"
               PROVE  k \in DOMAIN job' /\ job'[k].worker = v /\ job'[k].state = "Claimed"
    BY DEF WorkersHold, Working
  <2>1. handler[v][k] = "work" /\ k \in DOMAIN job /\ job[k].worker = v /\ job[k].state = "Claimed"
    BY <1>0, <1>2 DEF NobodyBegins, WorkersHold, Working
  <2>2. k # id
    BY <1>0, <1>1, <2>1
  <2> QED BY <1>3, <2>1, <2>2
<1>5. TradeTypeOK' /\ BuyersPosted' /\ NextJobId' <= MaxJobs
  BY <1>1, <1>2, <1>3 DEF TradeInv, TradeTypeOK, BuyersPosted, NextJobId, NobodyBegins
<1> QED BY <1>4, <1>5 DEF AgentsInv

LEMMA HandlerStepInv ==
  ASSUME TradeInv, NEW w \in Worker, NEW id \in JobId, HandlerStep(w, id)
  PROVE  AgentsInv'
<1>0. TradeTypeOK /\ id \in DOMAIN job
  BY DEF TradeInv, HandlerStep
<1>1. CASE Hear(w, id) \/ SendClaim(w, id)
  <2>1. \E s \in HandlerStage \ {"work"} : handler' = [handler EXCEPT ![w][id] = s]
    BY <1>1 DEF Hear, SendClaim, HandlerStage
  <2>2. NobodyBegins
    BY <1>0, <2>1, HandlerMoves
  <2>3. UNCHANGED jobVars /\ buyer' = buyer
    BY <1>1 DEF Hear, SendClaim
  <2> QED BY <2>2, <2>3, SameJobs, WorkersOnly
<1>2. CASE \E run \in 1..(MaxCrashes + 1) : ExecuteClaim(w, id, run)
  BY <1>0, <1>2, ExecuteClaimInv
<1>3. CASE \E r \in Results : Submit(w, id, r)
  BY <1>0, <1>3, SubmitInv
<1> QED BY <1>1, <1>2, <1>3 DEF HandlerStep

LEMMA TradeStepInv == TradeInv /\ [TradeNext]_tradeVars => TradeInv'
<1> SUFFICES ASSUME TradeInv, [TradeNext]_tradeVars PROVE TradeInv'
  OBVIOUS
<1>0. TradeTypeOK /\ handler \in [Worker -> [JobId -> HandlerStage]]
  BY DEF TradeInv, TradeTypeOK
<1>1. ContractInv'
  BY AgentsCallContract, ContractStepInv DEF TradeInv
<1>2. job' = job /\ buyer' = buyer /\ handler' = handler => AgentsInv'
  BY <1>0, SameHandlers, WorkersOnly DEF ClaimsStay
<1>3. ASSUME NEW w \in Worker, Boot(w) \/ Scan(w) \/ Watch(w)
      PROVE  AgentsInv'
  <2>1. CASE Boot(w) \/ Watch(w)
    BY <1>2, <2>1 DEF Boot, Watch, jobVars
  <2>2. CASE Scan(w)
    <3> DEFINE id == mode[w].at
    <3>1. UNCHANGED jobVars /\ buyer' = buyer
      BY <2>2 DEF Scan
    <3>2. \/ handler' = [handler EXCEPT ![w][id] = "read"]
          \/ handler' = [handler EXCEPT ![w][id] = handler[w][id]]
      BY <2>2 DEF Scan
    <3>3. NobodyBegins
      <4> HIDE DEF id
      <4>1. CASE handler' = [handler EXCEPT ![w][id] = "read"]
        BY <1>0, <4>1, HandlerMoves DEF HandlerStage
      <4>2. CASE handler' = [handler EXCEPT ![w][id] = handler[w][id]]
        BY <1>0, <4>2 DEF NobodyBegins
      <4> QED BY <3>2, <4>1, <4>2
    <3> QED BY <3>1, <3>3, SameJobs, WorkersOnly
  <2> QED BY <1>3, <2>1, <2>2
<1>4. ASSUME NEW w \in Worker, WorkerStep(w)
      PROVE  AgentsInv'
  BY <1>3, <1>4, HandlerStepInv DEF WorkerStep
<1>5. ASSUME NEW w \in Worker, Crash(w)
      PROVE  AgentsInv'
  <2>1. NobodyBegins
    <3>1. handler' = [handler EXCEPT ![w] = [id \in JobId |-> "none"]]
      BY <1>5 DEF Crash
    <3>2. [id \in JobId |-> "none"] \in [JobId -> HandlerStage]
      BY DEF HandlerStage
    <3> QED BY <1>0, <3>1, <3>2 DEF NobodyBegins
  <2> QED BY <1>5, <2>1, SameJobs, WorkersOnly DEF Crash
<1>6. ASSUME NEW w \in Worker, NEW id \in DOMAIN job, ReceiptTimeout(w, id)
      PROVE  AgentsInv'
  <2>1. NobodyBegins
    BY <1>0, <1>6, HandlerMoves DEF ReceiptTimeout, HandlerStage
  <2> QED BY <1>6, <2>1, SameJobs, WorkersOnly DEF ReceiptTimeout
<1>7. TradeBlock => AgentsInv'
  BY <1>2 DEF TradeBlock, NewBlock, workerVars
<1>8. UNCHANGED tradeVars => AgentsInv'
  BY <1>2 DEF tradeVars, jobVars, workerVars
<1>9. AgentsInv'
  <2>1. CASE \E b \in Buyer : BuyerStep(b)
    BY <2>1, BuyerStepInv
  <2>2. CASE \E w \in Worker : \/ WorkerStep(w) \/ Crash(w)
                               \/ \E id \in DOMAIN job : ReceiptTimeout(w, id)
    BY <1>4, <1>5, <1>6, <2>2
  <2> QED BY <1>7, <1>8, <2>1, <2>2 DEF TradeNext
<1> QED BY <1>1, <1>9 DEF TradeInv, AgentsInv

LEMMA TradeInitInv == TradeInit => TradeInv
<1> SUFFICES ASSUME TradeInit PROVE TradeInv
  OBVIOUS
<1>1. ContractInv /\ DOMAIN job = {}
  BY ContractInitInv DEF TradeInit, JobInit
<1>2. NextJobId = 0 /\ MaxJobs \in Nat
  BY <1>1, FS_EmptySet, JobAssumption DEF NextJobId
<1> DEFINE r == [stage |-> "start", id |-> 0, deadline |-> 0]
<1>3. r \in [stage : BuyerStage, id : Nat, deadline : Nat] /\ r.stage = "start"
  BY DEF BuyerStage
<1>4. buyer = [b \in Buyer |-> r] /\ handler = [w \in Worker |-> [id \in JobId |-> "none"]]
  BY DEF TradeInit
<1> HIDE DEF r
<1>5. TradeTypeOK
  BY <1>3, <1>4 DEF TradeTypeOK, HandlerStage
<1>6. BuyersPosted
  BY <1>3, <1>4 DEF BuyersPosted
<1>7. WorkersHold
  BY <1>4 DEF WorkersHold, Working
<1>8. NextJobId <= MaxJobs
  BY <1>2
<1> QED BY <1>1, <1>5, <1>6, <1>7, <1>8 DEF TradeInv

(***************************************************************************)
(* The invariant of the agents and the contract holds in every state.      *)
(***************************************************************************)
THEOREM TradeCorrect == TradeSpec => []TradeInv
BY TradeInitInv, TradeStepInv, PTL DEF TradeSpec

(***************************************************************************)
(* The agents of agent/src, whatever the order in which their transactions *)
(* are executed and whenever they crash, do nothing but call the contract: *)
(* what is proved of it for any callers holds while they trade.            *)
(***************************************************************************)
THEOREM AgentsTradeByContract == TradeSpec => ContractSpec
<1>1. TradeInit => JobInit
  BY DEF TradeInit
<1> QED BY <1>1, AgentsCallContract, TradeCorrect, PTL DEF TradeSpec, ContractSpec

LEMMA HoldersWin == TradeInv => OnlyWinnersWork
BY TradeFacts DEF OnlyWinnersWork, WorkersHold

(***************************************************************************)
(* Only the winner of a race works on a job, for any number of workers and *)
(* jobs, crashes of workers and receipts that come too late.               *)
(***************************************************************************)
THEOREM WinnersWork == TradeSpec => []OnlyWinnersWork
BY TradeCorrect, HoldersWin, PTL
=============================================================================
