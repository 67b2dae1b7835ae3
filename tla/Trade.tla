------------------------------- MODULE Trade -------------------------------
(***************************************************************************)
(* The agents of agent/src at work on the JobEscrow contract: buyers       *)
(* (agent-a.ts), each of which posts one job, waits for a result, judges   *)
(* it and settles; and workers (worker.ts), which look for open jobs,      *)
(* race to claim them, do the work and submit it.  A step of a program is  *)
(* what it does from one await to the next; transactions are executed      *)
(* some time after they were sent.                                         *)
(***************************************************************************)
EXTENDS JobEscrow

CONSTANTS
  Buyer, Worker,   \* the agents that run these programs
  Payment, Bond,   \* PAYMENT_WEI and BOND_WEI
  Patience,        \* how long a buyer waits for a result
  MaxCrashes,      \* bound on the number of crashes of workers
  MaxTimeouts      \* bound on the waits for a receipt that time out

ASSUME TradeAssumption ==
  /\ Buyer \subseteq Agent /\ Worker \subseteq Agent /\ Buyer \cap Worker = {}
  /\ Payment \in Nat \ {0} /\ Bond \in Nat
  /\ Patience \in Nat /\ MaxCrashes \in Nat /\ MaxTimeouts \in Nat

VARIABLES
  buyer,     \* buyer -> [stage, id, deadline]
  mode,      \* worker -> [stage, at, end, run]: the boot scan, or where the watch
             \*   began, and the number of the run of the program
  handler,   \* worker -> job id -> how far handle(id) has come
  claims,    \* the claim transactions sent and not executed: <<worker, id, run>>
  crashes, timeouts

workerVars == <<mode, handler, claims, crashes, timeouts>>
tradeVars == <<jobVars, buyer, workerVars>>

JobId == 1..MaxJobs

Down == [stage |-> "down", at |-> 0, end |-> 0, run |-> 0]

TradeInit ==
  /\ JobInit
  /\ buyer = [b \in Buyer |-> [stage |-> "start", id |-> 0, deadline |-> 0]]
  /\ mode = [w \in Worker |-> Down]
  /\ handler = [w \in Worker |-> [id \in JobId |-> "none"]]
  /\ claims = {}
  /\ crashes = 0 /\ timeouts = 0

-----------------------------------------------------------------------------
(* The buyer.                                                              *)

Post(b) ==
  /\ buyer[b].stage = "start"
  /\ PostJob(b, Payment)
  /\ buyer' = [buyer EXCEPT ![b] = [stage |-> "wait", id |-> NextJobId + 1,
                                    deadline |-> time + Patience]]
  /\ UNCHANGED workerVars

(* The loop ends when there is a result or the time is over.  A title that *)
(* is empty or too long is refused.                                        *)
Judge(b) ==
  /\ buyer[b].stage = "wait"
  /\ \/ /\ job[buyer[b].id].state = "Submitted"
        /\ buyer' = [buyer EXCEPT ![b].stage =
                       IF job[buyer[b].id].result = "title" THEN "release" ELSE "dispute"]
     \/ /\ job[buyer[b].id].state \in {"Posted", "Claimed"}
        /\ time >= buyer[b].deadline
        /\ buyer' = [buyer EXCEPT ![b].stage = "gave up"]
  /\ UNCHANGED <<jobVars, workerVars>>

(* A transaction that reverts ends the program.                            *)
Settle(b) ==
  /\ \/ /\ buyer[b].stage = "release"
        /\ Release(b, buyer[b].id)
     \/ /\ buyer[b].stage = "dispute"
        /\ \/ Dispute(b, buyer[b].id)
           \/ WindowOver(buyer[b].id) /\ UNCHANGED jobVars
  /\ buyer' = [buyer EXCEPT ![b].stage = "done"]
  /\ UNCHANGED workerVars

-----------------------------------------------------------------------------
(* The worker.                                                             *)

Boot(w) ==
  /\ mode[w].stage = "down"
  /\ mode' = [mode EXCEPT ![w] = [stage |-> "scan", at |-> 1, end |-> NextJobId,
                                  run |-> crashes + 1]]
  /\ UNCHANGED <<jobVars, buyer, handler, claims, crashes, timeouts>>

Scan(w) ==
  LET id == mode[w].at
  IN /\ mode[w].stage = "scan" /\ id <= mode[w].end
     /\ mode' = [mode EXCEPT ![w].at = @ + 1]
     /\ handler' = [handler EXCEPT ![w][id] =
                      IF job[id].state = "Posted" THEN "read" ELSE @]
     /\ UNCHANGED <<jobVars, buyer, claims, crashes, timeouts>>

(* watchContractEvent: from now on JobPosted events are heard.             *)
Watch(w) ==
  /\ mode[w].stage = "scan" /\ mode[w].at > mode[w].end
  /\ mode' = [mode EXCEPT ![w].stage = "watch", ![w].at = NextJobId]
  /\ UNCHANGED <<jobVars, buyer, handler, claims, crashes, timeouts>>

Heard(w) == {id \in DOMAIN job : mode[w].stage = "watch" /\ id > mode[w].at}

Seen(w, id) == handler[w][id] # "none"

Hear(w, id) ==
  /\ id \in Heard(w)
  /\ ~Seen(w, id)
  /\ handler' = [handler EXCEPT ![w][id] = "read"]
  /\ UNCHANGED <<jobVars, buyer, mode, claims, crashes, timeouts>>

(* handle, to the transaction that claims the job.                         *)
SendClaim(w, id) ==
  /\ handler[w][id] = "read"
  /\ \/ /\ job[id].state = "Posted"
        /\ handler' = [handler EXCEPT ![w][id] = "claim"]
        /\ claims' = claims \cup {<<w, id, mode[w].run>>}
     \/ /\ job[id].state # "Posted"
        /\ handler' = [handler EXCEPT ![w][id] = "done"]
        /\ UNCHANGED claims
  /\ UNCHANGED <<jobVars, buyer, mode, crashes, timeouts>>

(* Mutants: a lost race is not noticed; the status is read the wrong way.  *)
AfterClaimAlways(stage, won) == IF stage = "claim" THEN "work" ELSE stage
AfterClaimInverted(stage, won) ==
  IF stage # "claim" THEN stage ELSE IF won THEN "done" ELSE "work"

(* The receipt tells handle, if it still waits, whether it has won.        *)
AfterClaim(stage, won) ==
  IF stage # "claim" THEN stage ELSE IF won THEN "work" ELSE "done"

Answered(w, id, run, won) ==
  [handler EXCEPT ![w][id] = IF run = mode[w].run THEN AfterClaim(@, won) ELSE @]

(* A wallet's transactions are executed in their order.                    *)
ExecuteClaim(w, id, run) ==
  /\ <<w, id, run>> \in claims
  /\ \A earlier \in 1..(run - 1) : <<w, id, earlier>> \notin claims
  /\ claims' = claims \ {<<w, id, run>>}
  /\ \/ /\ ClaimJob(w, id, Bond)
        /\ handler' = Answered(w, id, run, TRUE)
     \/ /\ ~Claimable(id) \/ tokens[w] < Bond
        /\ handler' = Answered(w, id, run, FALSE)
        /\ UNCHANGED jobVars
  /\ UNCHANGED <<buyer, mode, crashes, timeouts>>

(* waitForTransactionReceipt throws: handle takes the race for lost.       *)
ReceiptTimeout(w, id) ==
  /\ timeouts < MaxTimeouts
  /\ handler[w][id] = "claim"
  /\ handler' = [handler EXCEPT ![w][id] = "done"]
  /\ timeouts' = timeouts + 1
  /\ UNCHANGED <<jobVars, buyer, mode, claims, crashes>>

(* doWork and the transaction that submits its result.                     *)
Submit(w, id, result) ==
  /\ handler[w][id] = "work"
  /\ SubmitResult(w, id, result)
  /\ handler' = [handler EXCEPT ![w][id] = "done"]
  /\ UNCHANGED <<buyer, mode, claims, crashes, timeouts>>

(* What was only in memory is lost; what was sent is executed.             *)
Crash(w) ==
  /\ crashes < MaxCrashes
  /\ mode[w].stage # "down"
  /\ mode' = [mode EXCEPT ![w] = Down]
  /\ handler' = [handler EXCEPT ![w] = [id \in JobId |-> "none"]]
  /\ crashes' = crashes + 1
  /\ UNCHANGED <<jobVars, buyer, claims, timeouts>>

-----------------------------------------------------------------------------
BuyerStep(b) == Post(b) \/ Judge(b) \/ Settle(b)

HandlerStep(w, id) ==
  /\ id \in DOMAIN job
  /\ \/ Hear(w, id)
     \/ SendClaim(w, id)
     \/ \E run \in 1..(MaxCrashes + 1) : ExecuteClaim(w, id, run)
     \/ \E r \in Results : Submit(w, id, r)

WorkerStep(w) ==
  \/ Boot(w) \/ Scan(w) \/ Watch(w)
  \/ \E id \in JobId : HandlerStep(w, id)

TradeBlock == NewBlock /\ UNCHANGED <<buyer, workerVars>>

TradeNext ==
  \/ TradeBlock
  \/ \E b \in Buyer : BuyerStep(b)
  \/ \E w \in Worker :
       \/ WorkerStep(w)
       \/ Crash(w)
       \/ \E id \in DOMAIN job : ReceiptTimeout(w, id)

TradeSpec == TradeInit /\ [][TradeNext]_tradeVars

(* Blocks come, programs run and transactions are executed.                *)
FairTrade ==
  /\ TradeSpec
  /\ WF_tradeVars(TradeBlock)
  /\ \A b \in Buyer : WF_tradeVars(BuyerStep(b))
  /\ \A w \in Worker :
       /\ WF_tradeVars(Boot(w) \/ Scan(w) \/ Watch(w))
       /\ \A id \in JobId : WF_tradeVars(HandlerStep(w, id))

-----------------------------------------------------------------------------
Working(w, id) == handler[w][id] = "work"

(***************************************************************************)
(* A running worker is at work on every job it holds: no job is claimed    *)
(* and then forgotten, with the bond locked until the buyer takes it       *)
(* (runWorker's comment: "a restart never double-claims or loses a job").  *)
(***************************************************************************)
NoClaimForgotten ==
  \A w \in Worker, id \in DOMAIN job :
    job[id].state = "Claimed" /\ job[id].worker = w /\ mode[w].stage = "watch"
      => Working(w, id)

(***************************************************************************)
(* Only the winner of the race works: whoever believes to have claimed a   *)
(* job has, although the losers saw it open when they sent their claims.   *)
(***************************************************************************)
OnlyWinnersWork ==
  \A w \in Worker, id \in DOMAIN job : Working(w, id) =>
    job[id].worker = w /\ job[id].state = "Claimed"

(***************************************************************************)
(* A job that a watching worker hears of gets a result, and a race leaves  *)
(* it to somebody; unless a worker crashed or took a late receipt for a    *)
(* lost race, and forgot the claim.                                        *)
(***************************************************************************)
HeardJobsSubmitted ==
  \A id \in JobId :
    (id \in DOMAIN job /\ \E w \in Worker : id \in Heard(w))
      ~> \/ id \in DOMAIN job /\ job[id].state \notin {"Posted", "Claimed"}
         \/ crashes + timeouts > 0
=============================================================================
