-------------------------- MODULE BroadcastProofs --------------------------
(***************************************************************************)
(* Proofs about Broadcast: what a call reports is true, and a call that is *)
(* rejected has another call to blame, for any number of processes, calls, *)
(* polls and restarts.                                                     *)
(***************************************************************************)
EXTENDS Broadcast, TLAPS

(* A call waits in the mempool.                                            *)
Waits(c) == \E i \in DOMAIN mempool : mempool[i] = c

CallRecord ==
  [stage : Stage, sequence : Nat, polls : Nat, before : SUBSET Call]

BroadcastTypeOK ==
  /\ call \in [Call -> CallRecord]
  /\ mempool \in Seq(Call) /\ block \in Seq(Call)
  /\ failed \in SUBSET Call
  /\ restarts \in Nat

(* No transaction is twice in the blocks and the mempool together.         *)
NoDuplicates ==
  /\ \A i, j \in DOMAIN block : block[i] = block[j] => i = j
  /\ \A i, j \in DOMAIN mempool : mempool[i] = mempool[j] => i = j
  /\ \A i \in DOMAIN block, j \in DOMAIN mempool : block[i] # mempool[j]

(* What was not sent is nowhere.                                           *)
UnsentNowhere ==
  \A c \in Call : call[c].stage \in {"idle", "signed", "rejected", "refused"} =>
    ~InBlock(c) /\ ~Waits(c)

FailedInBlock == \A c \in failed : InBlock(c)

ReportsMatch ==
  \A c \in Call :
    /\ call[c].stage = "ok" => InBlock(c) /\ c \notin failed
    /\ call[c].stage = "failed" => c \in failed

(* The calls that had returned when c read its account are in the blocks   *)
(* below the sequence that it read.                                        *)
BeforeIsBelow ==
  \A c \in Call : call[c].stage = "signed" =>
    /\ call[c].sequence <= Len(block)
    /\ \A d \in call[c].before : \E i \in 1..call[c].sequence : block[i] = d

(***************************************************************************)
(* The inductive invariant.                                                *)
(***************************************************************************)
BroadcastInv ==
  /\ BroadcastTypeOK
  /\ NoDuplicates
  /\ UnsentNowhere
  /\ FailedInBlock
  /\ ReportsMatch
  /\ BeforeIsBelow

-----------------------------------------------------------------------------
LEMMA CallFields ==
  ASSUME BroadcastTypeOK, NEW c \in Call
  PROVE  /\ call[c] \in CallRecord
         /\ call[c].stage \in Stage /\ call[c].sequence \in Nat
         /\ call[c].polls \in Nat /\ call[c].before \in SUBSET Call
BY DEF BroadcastTypeOK, CallRecord

(* A call is a process and a number.                                       *)
LEMMA CallPair ==
  ASSUME NEW c \in Call
  PROVE  c = <<c[1], c[2]>> /\ <<c[1], c[2]>> \in Call
BY DEF Call

LEMMA BroadcastInitInv == BroadcastInit => BroadcastInv
<1> SUFFICES ASSUME BroadcastInit PROVE BroadcastInv
  OBVIOUS
<1>1. NewCall \in CallRecord /\ NewCall.stage = "idle"
  BY DEF NewCall, CallRecord, Stage, Returned, Thrown
<1>2. BroadcastTypeOK
  BY <1>1 DEF BroadcastInit, BroadcastTypeOK
<1>3. \A c \in Call : call[c].stage = "idle"
  BY <1>1 DEF BroadcastInit
<1>4. DOMAIN mempool = {} /\ DOMAIN block = {} /\ failed = {}
  BY DEF BroadcastInit
<1> QED BY <1>2, <1>3, <1>4 DEF BroadcastInv, NoDuplicates, UnsentNowhere, FailedInBlock,
     ReportsMatch, BeforeIsBelow, InBlock, Waits

-----------------------------------------------------------------------------
(* What the steps do to one call, and to the sequences.                    *)

(* The call c alone changes, to a record r of the right type; the node     *)
(* does not.                                                               *)
OnlyCall(c, r) ==
  /\ r \in CallRecord
  /\ call' = [call EXCEPT ![c] = r]
  /\ UNCHANGED <<block, failed, restarts>>

Reads(c, r) ==
  /\ OnlyCall(c, r) /\ UNCHANGED mempool
  /\ call[c].stage = "idle" /\ r.stage = "signed"
  /\ r.sequence = Len(block) /\ r.before = {d \in Call : call[d].stage \in Returned}

(* The transaction is sent and the node takes it.                          *)
Enters(c, r) ==
  /\ OnlyCall(c, r) /\ mempool' = Append(mempool, c)
  /\ call[c].stage = "signed" /\ r.stage \in {"polling", "gateway", "lost"}

Refused(c, r) ==
  /\ OnlyCall(c, r) /\ UNCHANGED mempool
  /\ call[c].stage = "signed" /\ r.stage \in {"rejected", "refused", "gateway", "lost"}
  /\ r.stage = "rejected" => call[c].sequence # Len(block) + Len(mempool)

Polls(c, r) ==
  /\ OnlyCall(c, r) /\ UNCHANGED mempool
  /\ call[c].stage = "polling"
  /\ r.stage \in {"polling", "ok", "failed", "timeout", "lost"}
  /\ r.stage = "ok" => InBlock(c) /\ c \notin failed
  /\ r.stage = "failed" => c \in failed

ClientMoves ==
  \E c \in Call, r \in CallRecord : Reads(c, r) \/ Enters(c, r) \/ Refused(c, r) \/ Polls(c, r)

(* Every step of a client is one of these four.                            *)
LEMMA ClientSteps ==
  ASSUME BroadcastTypeOK, NEW c \in Call, ClientStep(c) \/ PollThrows(c)
  PROVE  ClientMoves
<1>0. call[c] \in CallRecord /\ call \in [Call -> CallRecord]
  BY CallFields DEF BroadcastTypeOK
<1>1. CASE ReadAccount(c[1], c[2])
  <2> DEFINE r == [stage |-> "signed", sequence |-> Committed, polls |-> 0,
                   before |-> {d \in Call : call[d].stage \in Returned}]
  <2>1. Len(block) \in Nat
    BY DEF BroadcastTypeOK
  <2>2. r \in CallRecord /\ r.stage = "signed" /\ r.sequence = Len(block)
        /\ r.before = {d \in Call : call[d].stage \in Returned}
    BY <2>1 DEF CallRecord, Stage, Committed
  <2>3. call' = [call EXCEPT ![c] = r] /\ call[c].stage = "idle"
        /\ UNCHANGED <<block, failed, restarts, mempool>>
    BY <1>1, CallPair DEF ReadAccount
  <2> HIDE DEF r
  <2> QED BY <2>2, <2>3 DEF ClientMoves, Reads, OnlyCall
<1>2. CASE Send(c)
  <2>1. ASSUME NEW s \in {"polling", "rejected", "refused", "gateway", "lost"},
               call' = [call EXCEPT ![c].stage = s]
        PROVE  \E r \in CallRecord : r.stage = s /\ call' = [call EXCEPT ![c] = r]
    <3> DEFINE r == [call[c] EXCEPT !.stage = s]
    <3>1. r \in CallRecord /\ r.stage = s
      BY <1>0, CallFields DEF CallRecord, Stage, Thrown
    <3>2. call' = [call EXCEPT ![c] = r]
      BY <2>1
    <3> HIDE DEF r
    <3> QED BY <3>1, <3>2
  <2>2. ASSUME mempool' = Append(mempool, c),
               NEW s \in {"polling", "gateway", "lost"},
               call' = [call EXCEPT ![c].stage = s]
        PROVE  ClientMoves
    <3>1. PICK r \in CallRecord : r.stage = s /\ call' = [call EXCEPT ![c] = r]
      BY <2>1, <2>2
    <3> QED BY <1>2, <2>2, <3>1 DEF Send, ClientMoves, Enters, OnlyCall
  <2>3. ASSUME UNCHANGED mempool,
               NEW s \in AnswerNotTaken(c), call' = [call EXCEPT ![c].stage = s]
        PROVE  ClientMoves
    <3>1. /\ s \in {"rejected", "refused", "gateway", "lost"}
          /\ s = "rejected" => call[c].sequence # Len(block) + Len(mempool)
      BY <2>3 DEF AnswerNotTaken, CheckTx, Committed
    <3>2. PICK r \in CallRecord : r.stage = s /\ call' = [call EXCEPT ![c] = r]
      BY <2>1, <2>3, <3>1
    <3> QED BY <1>2, <2>3, <3>1, <3>2 DEF Send, ClientMoves, Refused, OnlyCall
  <2> QED BY <1>2, <2>2, <2>3 DEF Send, AfterSend
<1>3. CASE Poll(c)
  <2>0. PICK found \in {FALSE, InBlock(c)} :
          call' = [call EXCEPT ![c] =
                     IF PollsOver(c) THEN [@ EXCEPT !.stage = "timeout"]
                     ELSE IF found THEN [@ EXCEPT !.stage = Outcome(c)]
                     ELSE [@ EXCEPT !.polls = NextPoll(c)]]
    BY <1>3 DEF Poll
  <2> DEFINE r == IF PollsOver(c) THEN [call[c] EXCEPT !.stage = "timeout"]
                  ELSE IF found THEN [call[c] EXCEPT !.stage = Outcome(c)]
                  ELSE [call[c] EXCEPT !.polls = NextPoll(c)]
  <2>1. call' = [call EXCEPT ![c] = r] /\ call[c].stage = "polling"
        /\ UNCHANGED <<block, failed, restarts, mempool>>
    BY <1>3, <2>0 DEF Poll
  <2>2. r \in CallRecord /\ r.stage \in {"polling", "ok", "failed", "timeout", "lost"}
    BY <1>0, <2>1, CallFields
       DEF CallRecord, Stage, Returned, Thrown, Outcome, NextPoll
  <2>3. /\ r.stage = "ok" => InBlock(c) /\ c \notin failed
        /\ r.stage = "failed" => c \in failed
    BY <1>0, <2>1, CallFields DEF CallRecord, Outcome
  <2> HIDE DEF r
  <2> QED BY <2>1, <2>2, <2>3 DEF ClientMoves, Polls, OnlyCall
<1>4. CASE PollThrows(c)
  <2> DEFINE r == [call[c] EXCEPT !.stage = "lost"]
  <2>1. r \in CallRecord /\ r.stage = "lost"
    BY <1>0, CallFields DEF CallRecord, Stage, Thrown
  <2>2. call' = [call EXCEPT ![c] = r] /\ call[c].stage = "polling"
        /\ UNCHANGED <<block, failed, restarts, mempool>>
    BY <1>4 DEF PollThrows
  <2> HIDE DEF r
  <2> QED BY <2>1, <2>2 DEF ClientMoves, Polls, OnlyCall
<1> QED BY <1>1, <1>2, <1>3, <1>4 DEF ClientStep

-----------------------------------------------------------------------------
(* The steps of the clients keep the invariant.                            *)

LEMMA CallAfter ==
  ASSUME BroadcastTypeOK, NEW c \in Call, NEW r \in CallRecord, OnlyCall(c, r)
  PROVE  /\ call' \in [Call -> CallRecord]
         /\ call'[c] = r /\ \A d \in Call \ {c} : call'[d] = call[d]
         /\ \A d : InBlock(d)' <=> InBlock(d)
         /\ block' = block /\ failed' = failed /\ restarts' = restarts
BY DEF BroadcastTypeOK, OnlyCall, InBlock

LEMMA ReadsInv ==
  ASSUME BroadcastInv, NEW c \in Call, NEW r \in CallRecord, Reads(c, r)
  PROVE  BroadcastInv'
<1>1. BroadcastTypeOK /\ OnlyCall(c, r) /\ mempool' = mempool
  BY DEF BroadcastInv, Reads
<1>2. /\ call' \in [Call -> CallRecord]
      /\ call'[c] = r /\ \A d \in Call \ {c} : call'[d] = call[d]
      /\ \A d : InBlock(d)' <=> InBlock(d)
      /\ block' = block /\ failed' = failed /\ restarts' = restarts
  BY <1>1, CallAfter
<1>3. \A d : Waits(d)' <=> Waits(d)
  BY <1>1 DEF Waits
<1>4. BroadcastTypeOK' /\ NoDuplicates'
  BY <1>1, <1>2 DEF BroadcastInv, BroadcastTypeOK, NoDuplicates
<1>5. UnsentNowhere'
  BY <1>2, <1>3 DEF BroadcastInv, UnsentNowhere, Reads
<1>6. FailedInBlock'
  BY <1>2 DEF BroadcastInv, FailedInBlock
<1>7. ReportsMatch'
  BY <1>2 DEF BroadcastInv, ReportsMatch, Reads
<1>8. BeforeIsBelow'
  <2> SUFFICES ASSUME NEW d \in Call, call'[d].stage = "signed"
               PROVE  /\ call'[d].sequence <= Len(block)
                      /\ \A e \in call'[d].before : \E i \in 1..call'[d].sequence : block[i] = e
    BY <1>2 DEF BeforeIsBelow
  <2>1. CASE d # c
    BY <1>2, <2>1 DEF BroadcastInv, BeforeIsBelow
  <2>2. CASE d = c
    <3>1. r.sequence = Len(block) /\ r.before = {e \in Call : call[e].stage \in Returned}
      BY DEF Reads
    <3>2. Len(block) \in Nat /\ DOMAIN block = 1..Len(block)
      BY <1>1 DEF BroadcastTypeOK
    <3>3. \A e \in r.before : InBlock(e)
      BY <3>1 DEF BroadcastInv, ReportsMatch, FailedInBlock, Returned
    <3> QED BY <1>2, <2>2, <3>1, <3>2, <3>3 DEF InBlock
  <2> QED BY <2>1, <2>2
<1> QED BY <1>4, <1>5, <1>6, <1>7, <1>8 DEF BroadcastInv

LEMMA EntersInv ==
  ASSUME BroadcastInv, NEW c \in Call, NEW r \in CallRecord, Enters(c, r)
  PROVE  BroadcastInv'
<1>1. BroadcastTypeOK /\ OnlyCall(c, r) /\ mempool' = Append(mempool, c)
  BY DEF BroadcastInv, Enters
<1>2. /\ call' \in [Call -> CallRecord]
      /\ call'[c] = r /\ \A d \in Call \ {c} : call'[d] = call[d]
      /\ \A d : InBlock(d)' <=> InBlock(d)
      /\ block' = block /\ failed' = failed /\ restarts' = restarts
  BY <1>1, CallAfter
<1>3. /\ mempool' \in Seq(Call) /\ Len(mempool) \in Nat
      /\ DOMAIN mempool = 1..Len(mempool) /\ DOMAIN mempool' = 1..(Len(mempool) + 1)
      /\ mempool'[Len(mempool) + 1] = c
      /\ \A i \in DOMAIN mempool : mempool'[i] = mempool[i]
  BY <1>1 DEF BroadcastTypeOK
<1>4. \A d : Waits(d)' => Waits(d) \/ d = c
  BY <1>3 DEF Waits
<1>5. ~InBlock(c) /\ ~Waits(c)
  BY DEF BroadcastInv, UnsentNowhere, Enters
<1>6. BroadcastTypeOK'
  BY <1>1, <1>2, <1>3 DEF BroadcastTypeOK
<1>7. NoDuplicates'
  <2>1. \A i, j \in DOMAIN mempool' : mempool'[i] = mempool'[j] => i = j
    <3> SUFFICES ASSUME NEW i \in DOMAIN mempool', NEW j \in DOMAIN mempool',
                        mempool'[i] = mempool'[j]
                 PROVE  i = j
      OBVIOUS
    <3>1. CASE i \in DOMAIN mempool /\ j \in DOMAIN mempool
      BY <1>3, <3>1 DEF BroadcastInv, NoDuplicates
    <3>2. CASE i \notin DOMAIN mempool /\ j \notin DOMAIN mempool
      BY <1>3, <3>2
    <3>3. CASE i \in DOMAIN mempool /\ j \notin DOMAIN mempool
      BY <1>3, <1>5, <3>3 DEF Waits
    <3>4. CASE i \notin DOMAIN mempool /\ j \in DOMAIN mempool
      BY <1>3, <1>5, <3>4 DEF Waits
    <3> QED BY <3>1, <3>2, <3>3, <3>4
  <2>2. \A i \in DOMAIN block, j \in DOMAIN mempool' : block[i] # mempool'[j]
    <3> SUFFICES ASSUME NEW i \in DOMAIN block, NEW j \in DOMAIN mempool'
                 PROVE  block[i] # mempool'[j]
      OBVIOUS
    <3>1. CASE j \in DOMAIN mempool
      BY <1>3, <3>1 DEF BroadcastInv, NoDuplicates
    <3>2. CASE j \notin DOMAIN mempool
      BY <1>3, <1>5, <3>2 DEF InBlock
    <3> QED BY <3>1, <3>2
  <2> QED BY <1>2, <2>1, <2>2 DEF BroadcastInv, NoDuplicates
<1>8. UnsentNowhere'
  BY <1>2, <1>4 DEF BroadcastInv, UnsentNowhere, Enters
<1>9. FailedInBlock'
  BY <1>2 DEF BroadcastInv, FailedInBlock
<1>10. ReportsMatch'
  BY <1>2 DEF BroadcastInv, ReportsMatch, Enters
<1>11. BeforeIsBelow'
  BY <1>2 DEF BroadcastInv, BeforeIsBelow, Enters
<1> QED BY <1>6, <1>7, <1>8, <1>9, <1>10, <1>11 DEF BroadcastInv

LEMMA EndsInv ==
  ASSUME BroadcastInv, NEW c \in Call, NEW r \in CallRecord, Refused(c, r) \/ Polls(c, r)
  PROVE  BroadcastInv'
<1>1. BroadcastTypeOK /\ OnlyCall(c, r) /\ mempool' = mempool
  BY DEF BroadcastInv, Refused, Polls
<1>2. /\ call' \in [Call -> CallRecord]
      /\ call'[c] = r /\ \A d \in Call \ {c} : call'[d] = call[d]
      /\ \A d : InBlock(d)' <=> InBlock(d)
      /\ block' = block /\ failed' = failed /\ restarts' = restarts
  BY <1>1, CallAfter
<1>3. \A d : Waits(d)' <=> Waits(d)
  BY <1>1 DEF Waits
<1>4. BroadcastTypeOK' /\ NoDuplicates'
  BY <1>1, <1>2 DEF BroadcastInv, BroadcastTypeOK, NoDuplicates
<1>5. UnsentNowhere'
  BY <1>2, <1>3 DEF BroadcastInv, UnsentNowhere, Refused, Polls
<1>6. FailedInBlock'
  BY <1>2 DEF BroadcastInv, FailedInBlock
<1>7. ReportsMatch'
  BY <1>2 DEF BroadcastInv, ReportsMatch, Refused, Polls
<1>8. BeforeIsBelow'
  BY <1>2 DEF BroadcastInv, BeforeIsBelow, Refused, Polls
<1> QED BY <1>4, <1>5, <1>6, <1>7, <1>8 DEF BroadcastInv

-----------------------------------------------------------------------------
(* The steps of the node keep the invariant.                               *)

LEMMA NewBlockInv ==
  ASSUME BroadcastInv, NewBlock
  PROVE  BroadcastInv'
<1> DEFINE h == Head(mempool)
<1>1. BroadcastTypeOK /\ mempool # <<>> /\ call' = call /\ restarts' = restarts
  BY DEF BroadcastInv, NewBlock
<1>2. /\ h \in Call /\ Len(mempool) \in Nat \ {0} /\ DOMAIN mempool = 1..Len(mempool)
      /\ h = mempool[1] /\ 1 \in DOMAIN mempool
  BY <1>1 DEF BroadcastTypeOK
<1>3. /\ mempool' \in Seq(Call) /\ DOMAIN mempool' = 1..(Len(mempool) - 1)
      /\ \A i \in DOMAIN mempool' : i + 1 \in DOMAIN mempool /\ mempool'[i] = mempool[i + 1]
  BY <1>1, <1>2 DEF BroadcastTypeOK, NewBlock
<1>4. /\ block' \in Seq(Call) /\ Len(block) \in Nat /\ Len(block') = Len(block) + 1
      /\ DOMAIN block = 1..Len(block) /\ DOMAIN block' = 1..(Len(block) + 1)
      /\ block'[Len(block) + 1] = h
      /\ \A i \in DOMAIN block : block'[i] = block[i]
  BY <1>1, <1>2 DEF BroadcastTypeOK, NewBlock
<1>5. failed' \in {failed, failed \cup {h}}
  BY DEF NewBlock
<1> HIDE DEF h
<1>6. \A d : (InBlock(d)' <=> InBlock(d) \/ d = h)
  BY <1>4 DEF InBlock
<1>7. \A d : Waits(d)' => Waits(d)
  BY <1>3 DEF Waits
<1>8. Waits(h) /\ ~InBlock(h)
  BY <1>2 DEF BroadcastInv, NoDuplicates, InBlock, Waits
<1>9. BroadcastTypeOK'
  BY <1>1, <1>2, <1>3, <1>4, <1>5 DEF BroadcastTypeOK
<1>10. NoDuplicates'
  <2>1. \A i, j \in DOMAIN mempool' : mempool'[i] = mempool'[j] => i = j
    BY <1>3 DEF BroadcastInv, NoDuplicates
  <2>2. \A i, j \in DOMAIN block' : block'[i] = block'[j] => i = j
    <3> SUFFICES ASSUME NEW i \in DOMAIN block', NEW j \in DOMAIN block',
                        block'[i] = block'[j]
                 PROVE  i = j
      OBVIOUS
    <3>1. CASE i \in DOMAIN block /\ j \in DOMAIN block
      BY <1>4, <3>1 DEF BroadcastInv, NoDuplicates
    <3>2. CASE i \notin DOMAIN block /\ j \notin DOMAIN block
      BY <1>4, <3>2
    <3>3. CASE i \in DOMAIN block /\ j \notin DOMAIN block
      BY <1>4, <1>8, <3>3 DEF InBlock
    <3>4. CASE i \notin DOMAIN block /\ j \in DOMAIN block
      BY <1>4, <1>8, <3>4 DEF InBlock
    <3> QED BY <3>1, <3>2, <3>3, <3>4
  <2>3. ASSUME NEW i \in DOMAIN block', NEW j \in DOMAIN mempool'
        PROVE  block'[i] # mempool'[j]
    <3>1. CASE i \in DOMAIN block
      BY <1>3, <1>4, <3>1 DEF BroadcastInv, NoDuplicates
    <3>2. CASE i \notin DOMAIN block
      <4>1. j \in Nat \ {0} /\ j + 1 # 1
        BY <1>2, <1>3
      <4>2. mempool[j + 1] # mempool[1]
        BY <1>2, <1>3, <4>1 DEF BroadcastInv, NoDuplicates
      <4> QED BY <1>2, <1>3, <1>4, <3>2, <4>2
    <3> QED BY <3>1, <3>2
  <2> QED BY <2>1, <2>2, <2>3 DEF NoDuplicates
<1>11. UnsentNowhere'
  BY <1>1, <1>6, <1>7, <1>8 DEF BroadcastInv, UnsentNowhere
<1>12. FailedInBlock'
  BY <1>5, <1>6 DEF BroadcastInv, FailedInBlock
<1>13. ReportsMatch'
  BY <1>1, <1>5, <1>6, <1>8 DEF BroadcastInv, ReportsMatch
<1>14. BeforeIsBelow'
  <2> SUFFICES ASSUME NEW c \in Call, call[c].stage = "signed"
               PROVE  /\ call[c].sequence <= Len(block')
                      /\ \A d \in call[c].before : \E i \in 1..call[c].sequence : block'[i] = d
    BY <1>1 DEF BeforeIsBelow
  <2>1. call[c].sequence \in Nat /\ call[c].sequence <= Len(block)
    BY <1>1, CallFields DEF BroadcastInv, BeforeIsBelow
  <2>2. \A i \in 1..call[c].sequence : block'[i] = block[i]
    BY <1>4, <2>1
  <2> QED BY <1>4, <2>1, <2>2 DEF BroadcastInv, BeforeIsBelow
<1> QED BY <1>9, <1>10, <1>11, <1>12, <1>13, <1>14 DEF BroadcastInv

LEMMA NodeRestartInv ==
  ASSUME BroadcastInv, NodeRestart
  PROVE  BroadcastInv'
<1>1. /\ mempool' = <<>> /\ call' = call /\ block' = block /\ failed' = failed
      /\ restarts' = restarts + 1
  BY DEF NodeRestart
<1>2. DOMAIN mempool' = {}
  BY <1>1
<1>3. \A d : (InBlock(d)' <=> InBlock(d)) /\ ~Waits(d)'
  BY <1>1, <1>2 DEF InBlock, Waits
<1>4. BroadcastTypeOK'
  BY <1>1 DEF BroadcastInv, BroadcastTypeOK
<1>5. NoDuplicates'
  BY <1>1, <1>2 DEF BroadcastInv, NoDuplicates
<1>6. UnsentNowhere' /\ FailedInBlock' /\ ReportsMatch'
  BY <1>1, <1>3 DEF BroadcastInv, UnsentNowhere, FailedInBlock, ReportsMatch
<1>7. BeforeIsBelow'
  BY <1>1 DEF BroadcastInv, BeforeIsBelow
<1> QED BY <1>4, <1>5, <1>6, <1>7 DEF BroadcastInv

LEMMA BroadcastStepInv == BroadcastInv /\ [BroadcastNext]_broadcastVars => BroadcastInv'
<1> SUFFICES ASSUME BroadcastInv, [BroadcastNext]_broadcastVars PROVE BroadcastInv'
  OBVIOUS
<1>1. CASE \E c \in Call : ClientStep(c) \/ PollThrows(c)
  <2>1. ClientMoves
    BY <1>1, ClientSteps DEF BroadcastInv
  <2> QED BY <2>1, ReadsInv, EntersInv, EndsInv DEF ClientMoves
<1>2. CASE NewBlock
  BY <1>2, NewBlockInv
<1>3. CASE NodeRestart
  BY <1>3, NodeRestartInv
<1>4. CASE UNCHANGED broadcastVars
  BY <1>4 DEF broadcastVars, BroadcastInv, BroadcastTypeOK, NoDuplicates, UnsentNowhere,
     FailedInBlock, ReportsMatch, BeforeIsBelow, InBlock, Waits
<1> QED BY <1>1, <1>2, <1>3, <1>4 DEF BroadcastNext

-----------------------------------------------------------------------------
(***************************************************************************)
(* The invariant holds in every state of signAndBroadcast's calls.         *)
(***************************************************************************)
THEOREM BroadcastCorrect == BroadcastSpec => []BroadcastInv
BY BroadcastInitInv, BroadcastStepInv, PTL DEF BroadcastSpec

LEMMA InvReports == BroadcastInv => ReportsAreTrue
BY DEF BroadcastInv, ReportsAreTrue, ReportsMatch, UnsentNowhere, FailedInBlock, NoDuplicates,
   InBlock, Waits

(***************************************************************************)
(* What a call of the client reports is true and stays true, for any       *)
(* number of processes that share the key, of calls and of restarts of the *)
(* node: "ok" means executed; "rejected", "refused" and "failed" mean      *)
(* never executed.                                                         *)
(***************************************************************************)
THEOREM ReportsTrue == BroadcastSpec => []ReportsAreTrue
BY BroadcastCorrect, InvReports, PTL

(* A rejected call finds somebody ahead of it that had not returned when   *)
(* it read its account.                                                    *)
LEMMA SomebodyAhead ==
  ASSUME BroadcastInv, NEW c \in Call, call[c].stage = "signed",
         call[c].sequence # Len(block) + Len(mempool)
  PROVE  \E d \in Call \ (call[c].before \cup {c}) : InBlock(d) \/ Waits(d)
<1>1. /\ call[c].sequence \in Nat /\ call[c].sequence <= Len(block)
      /\ \A d \in call[c].before : \E i \in 1..call[c].sequence : block[i] = d
  BY CallFields DEF BroadcastInv, BeforeIsBelow
<1>2. /\ block \in Seq(Call) /\ Len(block) \in Nat /\ DOMAIN block = 1..Len(block)
      /\ mempool \in Seq(Call) /\ Len(mempool) \in Nat /\ DOMAIN mempool = 1..Len(mempool)
  BY DEF BroadcastInv, BroadcastTypeOK
<1>3. ~InBlock(c) /\ ~Waits(c)
  BY DEF BroadcastInv, UnsentNowhere
<1>4. CASE call[c].sequence < Len(block)
  <2> DEFINE k == call[c].sequence + 1
             d == block[k]
  <2>1. k \in DOMAIN block /\ d \in Call /\ InBlock(d)
    BY <1>1, <1>2, <1>4 DEF InBlock
  <2>2. ASSUME NEW i \in 1..call[c].sequence PROVE block[i] # d
    BY <1>1, <1>2, <2>1 DEF BroadcastInv, NoDuplicates
  <2>3. d \notin call[c].before /\ d # c
    BY <1>1, <1>3, <2>1, <2>2
  <2> QED BY <2>1, <2>3
<1>5. CASE call[c].sequence = Len(block)
  <2> DEFINE d == mempool[1]
  <2>0. Len(mempool) > 0
    <3>1. ASSUME NEW s \in Nat, NEW m \in Nat, s # s + m PROVE m > 0
      BY <3>1
    <3> QED BY <1>2, <1>5, <3>1
  <2>1. 1 \in DOMAIN mempool /\ d \in Call /\ Waits(d)
    <3>1. 1 \in DOMAIN mempool
      BY <1>2, <2>0
    <3> QED BY <1>2, <3>1 DEF Waits
  <2>2. \A i \in DOMAIN block : block[i] # d
    BY <2>1 DEF BroadcastInv, NoDuplicates
  <2>3. d \notin call[c].before /\ d # c
    BY <1>1, <1>2, <1>3, <1>5, <2>1, <2>2
  <2> QED BY <2>1, <2>3
<1> QED BY <1>1, <1>2, <1>4, <1>5

(***************************************************************************)
(* Calls that returned never cost a later one its sequence: a call is      *)
(* rejected only because of one that had not returned when it read its     *)
(* account.                                                                *)
(***************************************************************************)
THEOREM RejectionsHaveCause == BroadcastSpec => RejectedOnlyInOverlap
<1>1. ASSUME BroadcastInv, [BroadcastNext]_broadcastVars, NEW c \in Call,
             call[c].stage = "signed", call'[c].stage = "rejected"
      PROVE  call[c].sequence # Len(block) + Len(mempool)
  <2>1. CASE \E d \in Call : ClientStep(d) \/ PollThrows(d)
    <3>1. ClientMoves /\ call \in [Call -> CallRecord]
      BY <1>1, <2>1, ClientSteps DEF BroadcastInv, BroadcastTypeOK
    <3> QED BY <1>1, <3>1 DEF ClientMoves, Reads, Enters, Refused, Polls, OnlyCall
  <2>2. CASE NewBlock \/ NodeRestart \/ UNCHANGED broadcastVars
    BY <1>1, <2>2 DEF NewBlock, NodeRestart, broadcastVars
  <2> QED BY <1>1, <2>1, <2>2 DEF BroadcastNext
<1>2. BroadcastInv /\ [BroadcastNext]_broadcastVars => \A c \in Call : OverlapBlamed(c)
  BY <1>1, SomebodyAhead DEF OverlapBlamed, Waits
<1> QED BY <1>2, BroadcastCorrect, PTL DEF BroadcastSpec, RejectedOnlyInOverlap
=============================================================================
