----------------------------- MODULE Prototype -----------------------------
(***************************************************************************)
(* The node of ts-reference, the prototype that is kept as a porting       *)
(* oracle: one process that takes signed transactions over HTTP, puts each *)
(* into a block file of its own and applies it to the state in memory,     *)
(* which is rebuilt from the files at the next start.  A step is what the  *)
(* node does from one await to the next.                                   *)
(***************************************************************************)
EXTENDS Coins, Sequences

CONSTANTS
  AgentId,        \* public keys
  TxTerms,        \* the transactions the clients send
  FaucetAmount,   \* FAUCET_AMOUNT
  MaxWeight,      \* MAX_VOUCH_WEIGHT
  StartChain,     \* the blocks on disk at the first start, above the genesis block
  MaxRequests,    \* bound on the number of requests
  MaxCrashes      \* bound on the number of crashes

TxType == {"register", "faucet", "transfer", "vouch"}

(* to and amount (a vouch's weight) are unused by the first two types.     *)
Tx ==
  [type : TxType, from : AgentId, to : AgentId, amount : Int, nonce : Nat, signed : BOOLEAN]

ASSUME PrototypeAssumption ==
  /\ TxTerms \subseteq Tx /\ StartChain \in Seq(Tx)
  /\ FaucetAmount \in Nat /\ MaxWeight \in Nat
  /\ MaxRequests \in Nat /\ MaxCrashes \in Nat

VARIABLES
  chain,     \* the block files above genesis: height -> the transaction in the block
  torn,      \* the file after them was written in part
  up,        \* the node runs
  state,     \* its State: [accounts, vouches]
  request,   \* the requests in the order of their arrival: [tx, stage, height]
  crashed    \* the number of crashes

protoVars == <<chain, torn, up, state, request, crashed>>

-----------------------------------------------------------------------------
(* state.ts                                                                *)

NoAccount == [balance |-> 0, nonce |-> 0, registered |-> FALSE, faucetClaimed |-> FALSE]
EmptyState == [accounts |-> [a \in AgentId |-> NoAccount], vouches |-> [p \in {} |-> 0]]

(* Mutant: the nonce is not compared.                                      *)
GoodNonceAny(acct, tx) == TRUE

GoodNonce(acct, tx) == tx.nonce = acct.nonce

(* validateTx returns null.                                                *)
Valid(s, tx) ==
  LET acct == s.accounts[tx.from]
      known == s.accounts[tx.to].registered
  IN /\ tx.signed
     /\ \/ tx.type = "register" /\ tx.nonce = 0 /\ ~acct.registered
        \/ /\ tx.type # "register" /\ acct.registered /\ GoodNonce(acct, tx)
           /\ \/ tx.type = "faucet" /\ ~acct.faucetClaimed
              \/ tx.type = "transfer" /\ tx.amount > 0 /\ tx.amount <= acct.balance /\ known
              \/ tx.type = "vouch" /\ tx.amount \in 1..MaxWeight /\ tx.from # tx.to /\ known

(* A transfer to oneself takes the amount and gives it back.               *)
ApplyTx(s, tx) ==
  LET debited  == [s.accounts EXCEPT ![tx.from].balance = @ - tx.amount]
      credited == [debited EXCEPT ![tx.to].balance = @ + tx.amount]
  IN CASE tx.type = "register" ->
            [s EXCEPT !.accounts[tx.from].registered = TRUE, !.accounts[tx.from].nonce = 1]
       [] tx.type = "faucet" ->
            [s EXCEPT !.accounts[tx.from].balance = @ + FaucetAmount,
                      !.accounts[tx.from].faucetClaimed = TRUE,
                      !.accounts[tx.from].nonce = @ + 1]
       [] tx.type = "transfer" ->
            [s EXCEPT !.accounts = [credited EXCEPT ![tx.from].nonce = @ + 1]]
       [] tx.type = "vouch" ->
            [s EXCEPT !.vouches = Put(@, <<tx.from, tx.to>>, tx.amount),
                      !.accounts[tx.from].nonce = @ + 1]

(* Mutant: the newest file is not read.                                    *)
ListHeightsButLast == 1..(Cardinality(DOMAIN chain) - 1)

ListHeights == DOMAIN chain

(* replay, as far as the height n: the blocks that are found are applied   *)
(* in the order of their heights, without validation.                      *)
ReplayOf(blocks, n) ==
  LET run[h \in Nat] ==
        IF h = 0 THEN EmptyState
        ELSE IF h \in DOMAIN blocks THEN ApplyTx(run[h - 1], blocks[h])
        ELSE run[h - 1]
  IN run[n]

Replay(n) == ReplayOf(chain, n)

(* Each block was valid in the state that the blocks before it lead to.    *)
ValidChain(blocks) ==
  \A h \in DOMAIN blocks : Valid(ReplayOf(blocks, h - 1), blocks[h])

(* The first start finds what earlier runs of the node have written.       *)
ASSUME StartAssumption == ValidChain(StartChain)

-----------------------------------------------------------------------------
ProtoInit ==
  /\ chain = StartChain
  /\ torn = FALSE
  /\ up = FALSE
  /\ state = EmptyState
  /\ request = <<>>
  /\ crashed = 0

Unanswered(i) == request[i].stage \in {"queued", "valid", "written"}

(* index.ts: a file that is not JSON ends the start.                       *)
Start ==
  /\ ~up /\ ~torn
  /\ up' = TRUE
  /\ state' = Replay(Cardinality(ListHeights))
  /\ UNCHANGED <<chain, torn, request, crashed>>

(* A client sends a new transaction or the same one again.                 *)
Receive(tx) ==
  /\ up
  /\ Len(request) < MaxRequests
  /\ request' = Append(request, [tx |-> tx, stage |-> "queued", height |-> 0])
  /\ UNCHANGED <<chain, torn, up, state, crashed>>

(* Mutant: requests do not wait for each other.                            *)
TurnNow(i) == TRUE

(* submit chains every run to the one before it.                           *)
Turn(i) == \A j \in 1..(i - 1) : ~Unanswered(j)

Validate(i) ==
  /\ request[i].stage = "queued" /\ Turn(i)
  /\ request' = [request EXCEPT ![i].stage =
                   IF Valid(state, request[i].tx) THEN "valid" ELSE "refused"]
  /\ UNCHANGED <<chain, torn, up, state, crashed>>

(* Mutant: the height of the last block is used again.                     *)
NextHeightStale == Cardinality(ListHeights)

NextHeight == Cardinality(ListHeights) + 1

(* appendBlock: it reads the last file, and writes the next one.           *)
AppendBlock(i) ==
  /\ request[i].stage = "valid" /\ Turn(i) /\ ~torn
  /\ chain' = Put(chain, NextHeight, request[i].tx)
  /\ request' = [request EXCEPT ![i].stage = "written", ![i].height = NextHeight]
  /\ UNCHANGED <<torn, up, state, crashed>>

(* The file cannot be written, or the last one not be read.                *)
AppendFails(i) ==
  /\ request[i].stage = "valid" /\ Turn(i)
  /\ torn' \in {torn, TRUE}
  /\ request' = [request EXCEPT ![i].stage = "refused"]
  /\ UNCHANGED <<chain, up, state, crashed>>

Apply(i) ==
  /\ request[i].stage = "written" /\ Turn(i)
  /\ state' = ApplyTx(state, request[i].tx)
  /\ request' = [request EXCEPT ![i].stage = "ok"]
  /\ UNCHANGED <<chain, torn, up, crashed>>

(* The process ends, maybe within a write.                                 *)
CrashNode ==
  /\ up /\ crashed < MaxCrashes
  /\ up' = FALSE
  /\ torn' \in {torn} \cup {TRUE : i \in {j \in DOMAIN request : request[j].stage = "valid"}}
  /\ request' = [i \in DOMAIN request |->
                   IF Unanswered(i) THEN [request[i] EXCEPT !.stage = "lost"] ELSE request[i]]
  /\ crashed' = crashed + 1
  /\ UNCHANGED <<chain, state>>

ProtoNext ==
  \/ Start
  \/ \E tx \in TxTerms : Receive(tx)
  \/ \E i \in DOMAIN request :
       Validate(i) \/ AppendBlock(i) \/ AppendFails(i) \/ Apply(i)
  \/ CrashNode

ProtoSpec == ProtoInit /\ [][ProtoNext]_protoVars

-----------------------------------------------------------------------------
(***************************************************************************)
(* Replay may leave out the validation: every block was valid in the state *)
(* that the blocks before it lead to, although a transaction is validated  *)
(* some awaits before its block is written.                                *)
(***************************************************************************)
EveryBlockValid == ValidChain(chain)

(***************************************************************************)
(* What the node answers balances from is what the files say, but for a    *)
(* block that is written and not yet applied; a restart changes nothing.   *)
(***************************************************************************)
StateIsReplay ==
  up => state = Replay(Len(chain) -
                  Cardinality({i \in DOMAIN request : request[i].stage = "written"}))

(***************************************************************************)
(* A client that was answered finds its transaction in the block it was    *)
(* told, after any number of restarts and later blocks.                    *)
(***************************************************************************)
AnsweredStays ==
  \A i \in DOMAIN request : request[i].stage = "ok" =>
    /\ request[i].height \in DOMAIN chain
    /\ chain[request[i].height] = request[i].tx

(***************************************************************************)
(* A transaction takes effect once, also when its client sends it again    *)
(* because a crash took the answer.                                        *)
(***************************************************************************)
AppliedOnce ==
  \A g, h \in DOMAIN chain : chain[g] = chain[h] => g = h
=============================================================================
