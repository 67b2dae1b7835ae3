----------------------------- MODULE Broadcast -----------------------------
(***************************************************************************)
(* signAndBroadcast of client/src/ag3nt.ts: every action of an agent reads *)
(* its account, signs with the account's sequence, broadcasts and polls    *)
(* until the transaction is in a block.  Several processes may use one     *)
(* key (the CLI is a process per command); each makes its calls one after  *)
(* the other.  The node's mempool and its sequence check are external.     *)
(* Two calls never sign the same bytes: their messages differ.             *)
(***************************************************************************)
EXTENDS Integers, Sequences, FiniteSets

CONSTANTS
  Process,      \* the processes that use the key
  CallsOf,      \* process -> bound on its calls
  MaxPolls,     \* how often a call asks for its transaction
  MaxRestarts   \* bound on the restarts of the node, which empty its mempool

ASSUME BroadcastAssumption == CallsOf \in [Process -> Nat] /\ MaxPolls \in Nat /\ MaxRestarts \in Nat

Call == UNION {{p} \X (1..CallsOf[p]) : p \in Process}

VARIABLES
  call,       \* call -> [stage, sequence, polls, before]
  mempool,    \* the calls whose transactions wait, in order
  block,      \* the calls whose transactions are in blocks, in order
  failed,     \* those of them whose message failed
  restarts

broadcastVars == <<call, mempool, block, failed, restarts>>

Returned == {"ok", "failed"}
Thrown   == {"rejected", "refused", "gateway", "lost", "timeout"}
Stage    == {"idle", "signed", "polling"} \cup Returned \cup Thrown

NewCall == [stage |-> "idle", sequence |-> 0, polls |-> 0, before |-> {}]

BroadcastInit ==
  /\ call = [c \in Call |-> NewCall]
  /\ mempool = <<>> /\ block = <<>> /\ failed = {} /\ restarts = 0

Ended(c) == call[c].stage \in Returned \cup Thrown

-----------------------------------------------------------------------------
(* The node.                                                               *)

(* A transaction that passes takes a sequence, whether its message fails   *)
(* or not.                                                                 *)
Committed == Len(block)

CheckTx(c) == call[c].sequence = Committed + Len(mempool)

NewBlock ==
  /\ mempool # <<>>
  /\ block' = Append(block, Head(mempool))
  /\ mempool' = Tail(mempool)
  /\ failed' \in {failed, failed \cup {Head(mempool)}}
  /\ UNCHANGED <<call, restarts>>

NodeRestart ==
  /\ restarts < MaxRestarts
  /\ mempool' = <<>>
  /\ restarts' = restarts + 1
  /\ UNCHANGED <<call, block, failed>>

-----------------------------------------------------------------------------
(* The client.                                                             *)

(* getAuthAccount and the signature.                                       *)
ReadAccount(p, n) ==
  /\ call[<<p, n>>].stage = "idle"
  /\ \A m \in 1..(n - 1) : Ended(<<p, m>>)
  /\ call' = [call EXCEPT ![<<p, n>>] =
                [stage |-> "signed", sequence |-> Committed, polls |-> 0,
                 before |-> {c \in Call : call[c].stage \in Returned}]]
  /\ UNCHANGED <<mempool, block, failed, restarts>>

(* Mutant: the call returns when the node took the transaction.            *)
AfterSendReturn == "ok"

(* SYNC answers after CheckTx: the call goes on to poll.                   *)
AfterSend == "polling"

(* What the client can hear although the node does not have the            *)
(* transaction: its sequence is "rejected"; it is "refused" for another    *)
(* reason (a full mempool); the gateway answers with a code of its own;    *)
(* or nothing arrives, or nothing that parses.  The code throws the same   *)
(* error for the first three.                                              *)
AnswerNotTaken(c) ==
  {"refused", "gateway", "lost"} \cup (IF CheckTx(c) THEN {} ELSE {"rejected"})

(* The node takes the transaction or does not.  The answer of a node that  *)
(* took it can be lost too, or replaced by an error of the gateway.        *)
Send(c) ==
  /\ call[c].stage = "signed"
  /\ \/ /\ CheckTx(c)
        /\ mempool' = Append(mempool, c)
        /\ \E stage \in {AfterSend, "gateway", "lost"} : call' = [call EXCEPT ![c].stage = stage]
     \/ /\ \E stage \in AnswerNotTaken(c) : call' = [call EXCEPT ![c].stage = stage]
        /\ UNCHANGED mempool
  /\ UNCHANGED <<block, failed, restarts>>

InBlock(c) == \E i \in DOMAIN block : block[i] = c

(* Mutants: the code of the committed transaction is not looked at; the    *)
(* turns of the loop are not counted.                                      *)
OutcomeUnread(c) == "ok"
NextPollForever(c) == 0

Outcome(c) == IF c \in failed THEN "failed" ELSE "ok"

NextPoll(c) == call[c].polls + 1

PollsOver(c) == call[c].polls = MaxPolls

(* One turn of the loop.  A query that fails, or a node whose index lags,  *)
(* does not find a transaction that is in a block.                         *)
Poll(c) ==
  /\ call[c].stage = "polling"
  /\ \E found \in {FALSE, InBlock(c)} :
       call' = [call EXCEPT ![c] =
                  IF PollsOver(c) THEN [@ EXCEPT !.stage = "timeout"]
                  ELSE IF found THEN [@ EXCEPT !.stage = Outcome(c)]
                  ELSE [@ EXCEPT !.polls = NextPoll(c)]]
  /\ UNCHANGED <<mempool, block, failed, restarts>>

(* The fetch of a poll throws.                                             *)
PollThrows(c) ==
  /\ call[c].stage = "polling"
  /\ call' = [call EXCEPT ![c].stage = "lost"]
  /\ UNCHANGED <<mempool, block, failed, restarts>>

ClientStep(c) == ReadAccount(c[1], c[2]) \/ Send(c) \/ Poll(c)

BroadcastNext ==
  \/ \E c \in Call : ClientStep(c) \/ PollThrows(c)
  \/ NewBlock
  \/ NodeRestart

BroadcastSpec == BroadcastInit /\ [][BroadcastNext]_broadcastVars

(* The processes run and the node answers; a block need not come in time.  *)
FairBroadcast ==
  /\ BroadcastSpec
  /\ \A c \in Call : WF_broadcastVars(ClientStep(c))

-----------------------------------------------------------------------------
(***************************************************************************)
(* What a call reports is so, and stays so: after "ok" the message has     *)
(* been executed; after the node's rejection or refusal, or "failed", it   *)
(* never is, although the transactions of other calls with the same        *)
(* sequences come and go.  A timeout, a lost answer and an error of the    *)
(* gateway leave it open: after them the message may or may not be         *)
(* executed, and a caller that tries again may have it executed twice.     *)
(***************************************************************************)
ReportsAreTrue ==
  \A c \in Call :
    /\ call[c].stage = "ok" => InBlock(c) /\ c \notin failed
    /\ call[c].stage \in {"rejected", "refused", "failed"} =>
         /\ InBlock(c) => c \in failed
         /\ \A i \in DOMAIN mempool : mempool[i] # c

(* If this step rejects the call c, another call is to blame.              *)
OverlapBlamed(c) ==
  call[c].stage = "signed" /\ call'[c].stage = "rejected" =>
    \E d \in Call \ (call[c].before \cup {c}) :
      InBlock(d) \/ \E i \in DOMAIN mempool : mempool[i] = d

(***************************************************************************)
(* The poll is there "so state + sequence advance": calls that returned    *)
(* never cost a later one its sequence.  The sequence of a call is         *)
(* rejected only because of a call it overlaps with, or one that threw.    *)
(***************************************************************************)
RejectedOnlyInOverlap == [][\A c \in Call : OverlapBlamed(c)]_broadcastVars

(* Every call ends, also when no block comes or the mempool lost its       *)
(* transaction.                                                            *)
CallsEnd == \A c \in Call : (call[c].stage # "idle") ~> Ended(c)
=============================================================================
