-------------------------- MODULE PrototypeProofs --------------------------
(***************************************************************************)
(* The prototype's node, for every set of agents, every traffic and every  *)
(* number of crashes: the queue of submit makes validation, block file and *)
(* state agree although each is followed by an await, and the nonces make  *)
(* a transaction that is sent again harmless.                              *)
(***************************************************************************)
EXTENDS Prototype, CoinsProofs

Account == [balance : Int, nonce : Nat, registered : BOOLEAN, faucetClaimed : BOOLEAN]

Weights == UNION {[D -> Int] : D \in SUBSET (AgentId \X AgentId)}

States == [accounts : [AgentId -> Account], vouches : Weights]

Stage == {"queued", "valid", "refused", "written", "ok", "lost"}

Request == [tx : Tx, stage : Stage, height : Nat]

ProtoTypeOK ==
  /\ chain \in Seq(Tx) /\ request \in Seq(Request) /\ state \in States
  /\ up \in BOOLEAN

(* The request that submit works on.                                       *)
InHand(i) == request[i].stage \in {"valid", "written"}

(* One at a time, and none while the node is down.                         *)
OneInHand ==
  \A i \in DOMAIN request : /\ Unanswered(i) => up
                            /\ InHand(i) => Turn(i)

(* A validation still holds when its block is written.                     *)
ValidStill ==
  \A i \in DOMAIN request : request[i].stage = "valid" => Valid(state, request[i].tx)

(* A block that is written and not applied is the last one.                *)
WrittenIsLast ==
  \A i \in DOMAIN request : request[i].stage = "written" =>
    /\ Len(chain) # 0 /\ request[i].height = Len(chain)
    /\ chain[Len(chain)] = request[i].tx
    /\ state = Replay(Len(chain) - 1)

(* Between two blocks, the state is what the files say.                    *)
InStep ==
  up /\ (\A i \in DOMAIN request : request[i].stage # "written") => state = Replay(Len(chain))

(* The inductive invariant.                                                *)
ProtoInv ==
  /\ ProtoTypeOK
  /\ EveryBlockValid
  /\ OneInHand
  /\ ValidStill
  /\ WrittenIsLast
  /\ InStep
  /\ AnsweredStays

-----------------------------------------------------------------------------
(* What applyTx does to a state.                                           *)

LEMMA EmptyStateTypes ==
  EmptyState \in States /\ \A a \in AgentId : ~EmptyState.accounts[a].registered
<1>1. [a \in AgentId |-> NoAccount] \in [AgentId -> Account]
  BY DEF NoAccount, Account
<1>2. [p \in {} |-> 0] \in Weights
  <2>1. [p \in {} |-> 0] \in [{} -> Int] /\ {} \in SUBSET (AgentId \X AgentId)
    OBVIOUS
  <2> QED BY <2>1 DEF Weights
<1> QED
  BY <1>1, <1>2 DEF EmptyState, States, NoAccount

LEMMA ApplyTypes ==
  ASSUME NEW s \in States, NEW tx \in Tx
  PROVE  /\ ApplyTx(s, tx) \in States
         /\ \A a \in AgentId \ {tx.from} :
              /\ ApplyTx(s, tx).accounts[a].nonce = s.accounts[a].nonce
              /\ ApplyTx(s, tx).accounts[a].registered = s.accounts[a].registered
         /\ IF tx.type = "register"
            THEN /\ ApplyTx(s, tx).accounts[tx.from].nonce = 1
                 /\ ApplyTx(s, tx).accounts[tx.from].registered
            ELSE /\ ApplyTx(s, tx).accounts[tx.from].nonce = s.accounts[tx.from].nonce + 1
                 /\ ApplyTx(s, tx).accounts[tx.from].registered
                      = s.accounts[tx.from].registered
<1>1. /\ tx.from \in AgentId /\ tx.to \in AgentId /\ tx.amount \in Int /\ tx.type \in TxType
      /\ FaucetAmount \in Nat
  BY PrototypeAssumption DEF Tx
<1>2. /\ s.accounts \in [AgentId -> Account] /\ s.vouches \in Weights
      /\ s = [accounts |-> s.accounts, vouches |-> s.vouches]
  BY DEF States
<1>3. \A a \in AgentId : /\ s.accounts[a].balance \in Int /\ s.accounts[a].nonce \in Nat
                         /\ s.accounts[a].registered \in BOOLEAN
                         /\ s.accounts[a].faucetClaimed \in BOOLEAN
  BY <1>2 DEF Account
<1> DEFINE from == tx.from
           acct == s.accounts[from]
<1>4. ASSUME NEW r \in Account, NEW w \in Weights, NEW A \in [AgentId -> Account],
             ApplyTx(s, tx) = [accounts |-> A, vouches |-> w], A[from] = r,
             \A a \in AgentId \ {from} : /\ A[a].nonce = s.accounts[a].nonce
                                         /\ A[a].registered = s.accounts[a].registered,
             IF tx.type = "register" THEN r.nonce = 1 /\ r.registered
             ELSE r.nonce = acct.nonce + 1 /\ r.registered = acct.registered
      PROVE  /\ ApplyTx(s, tx) \in States
             /\ \A a \in AgentId \ {from} :
                  /\ ApplyTx(s, tx).accounts[a].nonce = s.accounts[a].nonce
                  /\ ApplyTx(s, tx).accounts[a].registered = s.accounts[a].registered
             /\ IF tx.type = "register"
                THEN /\ ApplyTx(s, tx).accounts[from].nonce = 1
                     /\ ApplyTx(s, tx).accounts[from].registered
                ELSE /\ ApplyTx(s, tx).accounts[from].nonce = acct.nonce + 1
                     /\ ApplyTx(s, tx).accounts[from].registered = acct.registered
  BY <1>4 DEF States
<1>5. acct \in Account
  BY <1>1, <1>2
<1>6. CASE tx.type = "register"
  <2> DEFINE r == [acct EXCEPT !.registered = TRUE, !.nonce = 1]
             A == [s.accounts EXCEPT ![from] = r]
  <2>1. r \in Account /\ r.nonce = 1 /\ r.registered
    BY <1>5 DEF Account
  <2>2. ApplyTx(s, tx) = [s EXCEPT !.accounts = A]
    BY <1>1, <1>2, <1>6 DEF ApplyTx
  <2>3. A \in [AgentId -> Account] /\ A[from] = r
        /\ \A a \in AgentId \ {from} : A[a] = s.accounts[a]
    BY <1>1, <1>2, <2>1
  <2> HIDE DEF r, A
  <2>4. ApplyTx(s, tx) = [accounts |-> A, vouches |-> s.vouches]
    BY <1>2, <2>2
  <2> QED BY <1>2, <1>4, <1>6, <2>1, <2>3, <2>4
<1>7. CASE tx.type = "faucet"
  <2> DEFINE r == [acct EXCEPT !.balance = @ + FaucetAmount, !.faucetClaimed = TRUE,
                               !.nonce = @ + 1]
             A == [s.accounts EXCEPT ![from] = r]
  <2>1. r \in Account /\ r.nonce = acct.nonce + 1 /\ r.registered = acct.registered
    <3>1. acct.balance + FaucetAmount \in Int /\ acct.nonce + 1 \in Nat
      BY <1>1, <1>3
    <3> HIDE DEF acct
    <3> QED BY <1>5, <3>1 DEF Account
  <2>2. ApplyTx(s, tx) = [s EXCEPT !.accounts = A]
    BY <1>1, <1>2, <1>7 DEF ApplyTx
  <2>3. A \in [AgentId -> Account] /\ A[from] = r
        /\ \A a \in AgentId \ {from} : A[a] = s.accounts[a]
    BY <1>1, <1>2, <2>1
  <2> HIDE DEF r, A
  <2>4. ApplyTx(s, tx) = [accounts |-> A, vouches |-> s.vouches]
    BY <1>2, <2>2
  <2> QED BY <1>2, <1>4, <1>7, <2>1, <2>3, <2>4
<1>8. CASE tx.type = "transfer"
  <2> DEFINE to == tx.to
             p == [acct EXCEPT !.balance = @ - tx.amount]
             B == [s.accounts EXCEPT ![from] = p]
             q == [B[to] EXCEPT !.balance = @ + tx.amount]
             C == [B EXCEPT ![to] = q]
             r == [C[from] EXCEPT !.nonce = @ + 1]
             A == [C EXCEPT ![from] = r]
  <2>1. p \in Account /\ p.nonce = acct.nonce /\ p.registered = acct.registered
    BY <1>1, <1>3, <1>5 DEF Account
  <2>2. /\ B \in [AgentId -> Account] /\ B[from] = p
        /\ \A a \in AgentId \ {from} : B[a] = s.accounts[a]
    BY <1>1, <1>2, <2>1
  <2>3. ApplyTx(s, tx) = [s EXCEPT !.accounts = A]
    <3>1. ApplyTx(s, tx) = [s EXCEPT !.accounts = [C EXCEPT ![from].nonce = @ + 1]]
      BY <1>8 DEF ApplyTx
    <3> HIDE DEF C
    <3>2. [C EXCEPT ![from].nonce = @ + 1] = A
      OBVIOUS
    <3> HIDE DEF A
    <3> QED BY <3>1, <3>2
  <2> HIDE DEF p, B
  <2>4. B[to] \in Account /\ B[to].balance \in Int
    BY <1>1, <2>2 DEF Account
  <2>5. q \in Account /\ q.nonce = B[to].nonce /\ q.registered = B[to].registered
    BY <1>1, <2>4 DEF Account
  <2>6. /\ C \in [AgentId -> Account] /\ C[to] = q
        /\ \A a \in AgentId \ {to} : C[a] = B[a]
    BY <1>1, <2>2, <2>5
  <2> HIDE DEF q, C
  <2>7. \A a \in AgentId : C[a].nonce = B[a].nonce /\ C[a].registered = B[a].registered
    BY <2>5, <2>6
  <2>8. C[from] \in Account /\ C[from].nonce \in Nat
    BY <1>1, <2>6 DEF Account
  <2>9. r \in Account /\ r.nonce = C[from].nonce + 1 /\ r.registered = C[from].registered
    BY <2>8 DEF Account
  <2>10. /\ A \in [AgentId -> Account] /\ A[from] = r
         /\ \A a \in AgentId \ {from} : A[a] = C[a]
    BY <1>1, <2>6, <2>9
  <2> HIDE DEF r, A
  <2>11. ApplyTx(s, tx) = [accounts |-> A, vouches |-> s.vouches]
    BY <1>2, <2>3
  <2>12. /\ r.nonce = acct.nonce + 1 /\ r.registered = acct.registered
         /\ \A a \in AgentId \ {from} : /\ A[a].nonce = s.accounts[a].nonce
                                         /\ A[a].registered = s.accounts[a].registered
    BY <1>1, <2>1, <2>2, <2>7, <2>9, <2>10
  <2> QED BY <1>2, <1>4, <1>8, <2>9, <2>10, <2>11, <2>12
<1>9. CASE tx.type = "vouch"
  <2> DEFINE r == [acct EXCEPT !.nonce = @ + 1]
             A == [s.accounts EXCEPT ![from] = r]
             w == Put(s.vouches, <<from, tx.to>>, tx.amount)
  <2>1. r \in Account /\ r.nonce = acct.nonce + 1 /\ r.registered = acct.registered
    BY <1>3, <1>5 DEF Account
  <2>2. ApplyTx(s, tx) = [s EXCEPT !.vouches = w, !.accounts = A]
    BY <1>1, <1>2, <1>9 DEF ApplyTx
  <2>3. A \in [AgentId -> Account] /\ A[from] = r
        /\ \A a \in AgentId \ {from} : A[a] = s.accounts[a]
    BY <1>1, <1>2, <2>1
  <2>4. w \in Weights
    <3>1. PICK D \in SUBSET (AgentId \X AgentId) : s.vouches \in [D -> Int]
      BY <1>2 DEF Weights
    <3> DEFINE E == D \cup {<<from, tx.to>>}
    <3>2. E \in SUBSET (AgentId \X AgentId)
      BY <1>1
    <3>3. w \in [E -> Int]
      BY <1>1, <3>1 DEF Put
    <3> QED BY <3>2, <3>3 DEF Weights
  <2> HIDE DEF r, A, w
  <2>5. ApplyTx(s, tx) = [accounts |-> A, vouches |-> w]
    BY <1>2, <2>2
  <2> QED BY <1>4, <1>9, <2>1, <2>3, <2>4, <2>5
<1> QED
  BY <1>1, <1>6, <1>7, <1>8, <1>9 DEF TxType

-----------------------------------------------------------------------------
(* Replay, height by height.                                               *)

RunStep(c, h, s) == IF h \in DOMAIN c THEN ApplyTx(s, c[h]) ELSE s

Run(c) ==
  CHOOSE run : run = [h \in Nat |->
    IF h = 0 THEN EmptyState
    ELSE IF h \in DOMAIN c THEN ApplyTx(run[h - 1], c[h])
    ELSE run[h - 1]]

LEMMA ReplayIsRun ==
  ASSUME NEW c, NEW n
  PROVE  ReplayOf(c, n) = Run(c)[n]
BY DEF ReplayOf, Run

LEMMA ReplayEquation ==
  ASSUME NEW c \in Seq(Tx)
  PROVE  /\ ReplayOf(c, 0) = EmptyState
         /\ \A n \in Nat : /\ ReplayOf(c, n) \in States
                           /\ ReplayOf(c, n + 1) = RunStep(c, n + 1, ReplayOf(c, n))
<1> DEFINE step == [p \in Nat \X States |-> RunStep(c, p[1] + 1, p[2])]
           Eq(t) == t = [h \in Nat |-> IF h = 0 THEN EmptyState
                                       ELSE IF h \in DOMAIN c THEN ApplyTx(t[h - 1], c[h])
                                       ELSE t[h - 1]]
<1>1. ASSUME NEW h \in Nat, NEW s \in States PROVE RunStep(c, h, s) \in States
  <2>1. h \in DOMAIN c => c[h] \in Tx
    OBVIOUS
  <2> QED BY <2>1, ApplyTypes DEF RunStep
<1>2. step \in [Nat \X States -> States]
  BY <1>1
<1>3. \A h \in Nat, s \in States : step[<<h, s>>] = RunStep(c, h + 1, s)
  OBVIOUS
<1> HIDE DEF step
<1>4. PICK g \in [Nat -> States] : Steps(g, EmptyState, step)
  BY <1>2, EmptyStateTypes, SequenceExists
<1>5. Eq(g)
  <2>1. ASSUME NEW h \in Nat
        PROVE  g[h] = IF h = 0 THEN EmptyState
                      ELSE IF h \in DOMAIN c THEN ApplyTx(g[h - 1], c[h]) ELSE g[h - 1]
    <3>1. CASE h = 0
      BY <1>4, <3>1 DEF Steps
    <3>2. CASE h # 0
      <4>1. h - 1 \in Nat /\ (h - 1) + 1 = h
        BY <3>2
      <4>2. g[(h - 1) + 1] = step[<<h - 1, g[h - 1]>>] /\ g[h - 1] \in States
        BY <1>4, <4>1 DEF Steps
      <4>3. g[h] = RunStep(c, h, g[h - 1])
        BY <1>3, <4>1, <4>2
      <4> QED BY <3>2, <4>3 DEF RunStep
    <3> QED BY <3>1, <3>2
  <2>2. g = [h \in Nat |-> g[h]]
    OBVIOUS
  <2> QED BY <2>1, <2>2
<1> DEFINE t == Run(c)
<1>6. Eq(t)
  <2>1. \E u : Eq(u)
    BY <1>5
  <2>2. t = CHOOSE u : Eq(u)
    BY DEF Run
  <2> HIDE DEF Eq, t
  <2> QED BY <2>1, <2>2
<1> HIDE DEF t
<1>7. /\ t[0] = EmptyState
      /\ \A n \in Nat : t[n + 1] = RunStep(c, n + 1, t[n])
  <2>1. t = [h \in Nat |-> IF h = 0 THEN EmptyState
                           ELSE IF h \in DOMAIN c THEN ApplyTx(t[h - 1], c[h])
                           ELSE t[h - 1]]
    BY <1>6
  <2>2. ASSUME NEW n \in Nat PROVE t[n + 1] = RunStep(c, n + 1, t[n])
    <3>1. n + 1 \in Nat /\ n + 1 # 0 /\ (n + 1) - 1 = n
      OBVIOUS
    <3> QED BY <2>1, <3>1 DEF RunStep
  <2> QED BY <2>1, <2>2
<1> DEFINE S == {n \in Nat : t[n] \in States}
<1>8. 0 \in S
  BY <1>7, EmptyStateTypes
<1>9. ASSUME NEW n \in Nat, n \in S PROVE n + 1 \in S
  <2>0. t[n] \in States /\ n + 1 \in Nat
    BY <1>9
  <2>1. RunStep(c, n + 1, t[n]) \in States
    <3> HIDE DEF Eq, S
    <3> QED BY <1>1, <2>0
  <2>2. t[n + 1] = RunStep(c, n + 1, t[n]) /\ n + 1 \in Nat
    BY <1>7
  <2> QED BY <2>1, <2>2
<1>10. \A n \in Nat : n \in S
  <2> HIDE DEF S
  <2> QED BY <1>8, <1>9, InductionOnNat
<1>11. \A n : ReplayOf(c, n) = t[n]
  BY ReplayIsRun DEF t
<1> QED
  BY <1>7, <1>10, <1>11

(* The blocks above a height do not matter for the state at that height.   *)
LEMMA SamePrefix ==
  ASSUME NEW c \in Seq(Tx), NEW d \in Seq(Tx), NEW m \in Nat,
         \A h \in 1..m : h \in DOMAIN c /\ h \in DOMAIN d /\ c[h] = d[h]
  PROVE  \A n \in 0..m : ReplayOf(c, n) = ReplayOf(d, n)
<1> DEFINE S == {n \in Nat : ReplayOf(c, n) = ReplayOf(d, n)}
<1>1. 0 \in S
  BY ReplayEquation
<1>2. ASSUME NEW n \in Nat, n < m /\ n \in S PROVE n + 1 \in S
  <2>1. n + 1 \in 1..m
    BY <1>2
  <2>2. RunStep(c, n + 1, ReplayOf(c, n)) = RunStep(d, n + 1, ReplayOf(d, n))
    BY <1>2, <2>1 DEF RunStep
  <2> QED BY <2>2, ReplayEquation
<1>3. \A n \in 0..m : n \in S
  <2> HIDE DEF S
  <2> QED BY <1>1, <1>2, InductionUpTo
<1> QED
  BY <1>3

(* A transaction that was applied is below its sender's nonce for good.    *)
Spent(s, tx) == s.accounts[tx.from].registered /\ tx.nonce < s.accounts[tx.from].nonce

LEMMA SpentStays ==
  ASSUME NEW s \in States, NEW tx \in Tx, NEW old \in Tx, Valid(s, tx)
  PROVE  /\ Spent(s, old) => Spent(ApplyTx(s, tx), old)
         /\ Spent(ApplyTx(s, tx), tx)
         /\ ~Spent(s, tx)
<1>1. /\ old.from \in AgentId /\ tx.from \in AgentId /\ tx.nonce \in Nat /\ old.nonce \in Nat
  BY DEF Tx
<1>2. s.accounts[tx.from].nonce \in Nat /\ s.accounts[old.from].nonce \in Nat
  BY <1>1 DEF States, Account
<1> DEFINE u == ApplyTx(s, tx)
<1>3. /\ \A a \in AgentId \ {tx.from} : /\ u.accounts[a].nonce = s.accounts[a].nonce
                                       /\ u.accounts[a].registered = s.accounts[a].registered
      /\ IF tx.type = "register"
         THEN u.accounts[tx.from].nonce = 1 /\ u.accounts[tx.from].registered
         ELSE /\ u.accounts[tx.from].nonce = s.accounts[tx.from].nonce + 1
              /\ u.accounts[tx.from].registered = s.accounts[tx.from].registered
  BY ApplyTypes
<1> HIDE DEF u
<1>4. /\ Spent(s, old) => Spent(u, old)
      /\ Spent(u, tx)
      /\ ~Spent(s, tx)
  <2>1. CASE tx.type = "register"
    <3>1. tx.nonce = 0 /\ ~s.accounts[tx.from].registered
      BY <2>1 DEF Valid
    <3>2. Spent(u, tx) /\ ~Spent(s, tx)
      BY <1>3, <2>1, <3>1 DEF Spent
    <3>3. Spent(s, old) => old.from # tx.from
      BY <3>1 DEF Spent
    <3>4. Spent(s, old) => Spent(u, old)
      BY <1>1, <1>3, <3>3 DEF Spent
    <3> QED BY <3>2, <3>4
  <2>2. CASE tx.type # "register"
    <3>1. tx.nonce = s.accounts[tx.from].nonce /\ s.accounts[tx.from].registered
      BY <2>2 DEF Valid, GoodNonce
    <3> DEFINE k == s.accounts[tx.from].nonce
    <3>2. u.accounts[tx.from].registered
      BY <1>3, <2>2, <3>1, Zenon
    <3>3. u.accounts[tx.from].nonce = k + 1 /\ k \in Nat /\ tx.nonce = k
      BY <1>2, <1>3, <2>2, <3>1
    <3> HIDE DEF k
    <3>4. tx.nonce < u.accounts[tx.from].nonce /\ ~(tx.nonce < k)
      BY <3>3
    <3>5. Spent(u, tx) /\ ~Spent(s, tx)
      BY <3>2, <3>4 DEF Spent, k
    <3>6. CASE old.from = tx.from
      <4>1. old.nonce < k => old.nonce < u.accounts[tx.from].nonce
        BY <1>1, <3>3
      <4>2. Spent(s, old) => Spent(u, old)
        BY <3>6, <3>2, <4>1 DEF Spent, k
      <4> QED BY <3>5, <4>2
    <3>7. CASE old.from # tx.from
      <4>1. Spent(s, old) => Spent(u, old)
        BY <1>1, <1>3, <3>7 DEF Spent
      <4> QED BY <3>5, <4>1
    <3> QED BY <3>6, <3>7
  <2> QED BY <2>1, <2>2
<1> QED
  BY <1>4 DEF u

LEMMA ValidOnce ==
  ASSUME NEW c \in Seq(Tx), ValidChain(c)
  PROVE  \A g, h \in DOMAIN c : c[g] = c[h] => g = h
<1> DEFINE S == {n \in Nat : \A g \in 1..n : Spent(ReplayOf(c, n), c[g])}
<1>1. /\ Len(c) \in Nat /\ DOMAIN c = 1..Len(c) /\ \A h \in DOMAIN c : c[h] \in Tx
  OBVIOUS
<1>2. ASSUME NEW n \in Nat, n < Len(c)
      PROVE  /\ n + 1 \in DOMAIN c /\ Valid(ReplayOf(c, n), c[n + 1])
             /\ ReplayOf(c, n + 1) = ApplyTx(ReplayOf(c, n), c[n + 1])
  <2>1. n + 1 \in DOMAIN c /\ (n + 1) - 1 = n
    BY <1>1, <1>2
  <2> QED BY <2>1, ReplayEquation DEF ValidChain, RunStep
<1>3. 0 \in S
  OBVIOUS
<1>4. ASSUME NEW n \in Nat, n < Len(c) /\ n \in S PROVE n + 1 \in S
  <2> SUFFICES ASSUME NEW g \in 1..(n + 1) PROVE Spent(ReplayOf(c, n + 1), c[g])
    OBVIOUS
  <2>1. ReplayOf(c, n) \in States /\ c[n + 1] \in Tx /\ c[g] \in Tx
    <3>1. n + 1 \in DOMAIN c /\ g \in DOMAIN c
      BY <1>1, <1>4
    <3> QED BY <1>1, <3>1, ReplayEquation
  <2>2. CASE g = n + 1
    BY <1>2, <1>4, <2>1, <2>2, SpentStays
  <2>3. CASE g # n + 1
    <3>1. Spent(ReplayOf(c, n), c[g])
      BY <1>4, <2>3
    <3> QED BY <1>2, <1>4, <2>1, <3>1, SpentStays
  <2> QED BY <2>2, <2>3
<1>5. \A n \in 0..Len(c) : n \in S
  <2> HIDE DEF S
  <2> QED BY <1>1, <1>3, <1>4, InductionUpTo
<1>6. ASSUME NEW g \in DOMAIN c, NEW h \in DOMAIN c, g < h PROVE c[g] # c[h]
  <2>1. h - 1 \in Nat /\ h - 1 < Len(c) /\ h - 1 \in 0..Len(c) /\ g \in 1..(h - 1)
        /\ (h - 1) + 1 = h
    BY <1>1, <1>6
  <2>2. Spent(ReplayOf(c, h - 1), c[g])
    BY <1>5, <2>1
  <2>3. Valid(ReplayOf(c, h - 1), c[h]) /\ ReplayOf(c, h - 1) \in States /\ c[h] \in Tx
    BY <1>1, <1>2, <2>1, ReplayEquation
  <2> QED BY <2>2, <2>3, SpentStays
<1> QED
  BY <1>1, <1>6

-----------------------------------------------------------------------------
(* The queue of submit.                                                    *)

Advances(i, r) == r \in Request /\ request' = [request EXCEPT ![i] = r]

LEMMA Advanced ==
  ASSUME ProtoTypeOK, NEW i \in DOMAIN request, NEW r, Advances(i, r)
  PROVE  /\ request' \in Seq(Request) /\ DOMAIN request' = DOMAIN request
         /\ request'[i] = r /\ \A j \in DOMAIN request \ {i} : request'[j] = request[j]
BY DEF ProtoTypeOK, Advances

LEMMA RequestFields ==
  ASSUME ProtoTypeOK, NEW i \in DOMAIN request
  PROVE  /\ i \in Nat /\ 1..(i - 1) \subseteq DOMAIN request /\ request[i] \in Request
         /\ request[i].tx \in Tx /\ request[i].height \in Nat
<1>1. request \in Seq(Request)
  BY DEF ProtoTypeOK
<1>2. DOMAIN request = 1..Len(request) /\ Len(request) \in Nat /\ request[i] \in Request
  BY <1>1
<1> QED
  BY <1>2 DEF Request

(* The one whose turn it is works alone.                                   *)
LEMMA Alone ==
  ASSUME ProtoTypeOK, OneInHand, NEW i \in DOMAIN request, Turn(i), Unanswered(i),
         NEW j \in DOMAIN request, InHand(j)
  PROVE  j = i
<1>1. i \in Nat /\ j \in Nat /\ DOMAIN request = 1..Len(request)
  BY RequestFields DEF ProtoTypeOK
<1>2. Unanswered(j) /\ Turn(j)
  BY DEF OneInHand, InHand, Unanswered
<1>3. CASE j < i
  <2>1. j \in 1..(i - 1)
    BY <1>1, <1>3
  <2> QED BY <1>2, <2>1 DEF Turn
<1>4. CASE i < j
  <2>1. i \in 1..(j - 1)
    BY <1>1, <1>4
  <2> QED BY <1>2, <2>1 DEF Turn
<1> QED
  BY <1>1, <1>3, <1>4

LEMMA OneInHandKept ==
  ASSUME ProtoTypeOK, OneInHand, NEW i \in DOMAIN request, NEW r, Advances(i, r),
         Turn(i), Unanswered(i), up' = up
  PROVE  /\ OneInHand'
         /\ \A j \in DOMAIN request' : InHand(j)' => j = i
<1>1. /\ DOMAIN request' = DOMAIN request /\ request'[i] = r
      /\ \A j \in DOMAIN request \ {i} : request'[j] = request[j]
  BY Advanced
<1>2. ASSUME NEW j \in DOMAIN request', InHand(j)' PROVE j = i
  <2>1. j # i => InHand(j)
    BY <1>1, <1>2 DEF InHand
  <2> QED BY <1>1, <2>1, Alone
<1>3. ASSUME NEW j \in DOMAIN request', Unanswered(j)' PROVE up'
  <2>1. j # i => Unanswered(j)
    BY <1>1, <1>3 DEF Unanswered
  <2> QED BY <1>1, <2>1 DEF OneInHand
<1>4. Turn(i)'
  <2>1. \A j \in 1..(i - 1) : j \in DOMAIN request \ {i}
    BY RequestFields
  <2> QED BY <1>1, <2>1 DEF Turn, Unanswered
<1> QED
  BY <1>2, <1>3, <1>4 DEF OneInHand

(* A request that moves on, while no block is written or applied.          *)
LEMMA MovesOn ==
  ASSUME ProtoInv, NEW i \in DOMAIN request, NEW r, Advances(i, r), Turn(i), Unanswered(i),
         UNCHANGED <<chain, up, state>>, request[i].stage # "written",
         r.stage \in {"valid", "refused"},
         r.stage = "valid" => Valid(state, r.tx)
  PROVE  ProtoInv'
<1> USE DEF ProtoInv
<1>1. /\ request' \in Seq(Request) /\ DOMAIN request' = DOMAIN request /\ request'[i] = r
      /\ \A j \in DOMAIN request \ {i} : request'[j] = request[j]
  BY Advanced
<1>2. OneInHand' /\ \A j \in DOMAIN request' : InHand(j)' => j = i
  BY OneInHandKept
<1>3. ProtoTypeOK' /\ EveryBlockValid'
  BY <1>1 DEF ProtoTypeOK, EveryBlockValid
<1>4. ValidStill'
  BY <1>1, <1>2 DEF ValidStill, InHand
<1>5. \A j \in DOMAIN request' : request'[j].stage # "written"
  BY <1>1, <1>2 DEF InHand
<1>6. WrittenIsLast'
  BY <1>5 DEF WrittenIsLast
<1>7. \A j \in DOMAIN request : request[j].stage # "written"
  BY Alone DEF InHand
<1>8. InStep'
  BY <1>7 DEF InStep, Replay
<1>9. AnsweredStays'
  BY <1>1 DEF AnsweredStays
<1> QED
  BY <1>2, <1>3, <1>4, <1>6, <1>8, <1>9

LEMMA ValidateKeeps ==
  ASSUME ProtoInv, NEW i \in DOMAIN request, Validate(i)
  PROVE  ProtoInv'
<1> DEFINE stage == IF Valid(state, request[i].tx) THEN "valid" ELSE "refused"
           r == [request[i] EXCEPT !.stage = stage]
<1>1. request[i] \in Request
  BY RequestFields DEF ProtoInv
<1>2. r \in Request /\ r.stage = stage /\ r.tx = request[i].tx
  BY <1>1 DEF Request, Stage
<1>3. request' = [request EXCEPT ![i] = r]
  BY DEF Validate
<1>4. stage \in {"valid", "refused"} /\ (stage = "valid" => Valid(state, request[i].tx))
  OBVIOUS
<1> HIDE DEF r, stage
<1>5. Turn(i) /\ Unanswered(i) /\ request[i].stage # "written" /\ UNCHANGED <<chain, up, state>>
  BY DEF Validate, Unanswered
<1> QED
  BY <1>2, <1>3, <1>4, <1>5, MovesOn DEF Advances

LEMMA AppendFailsKeeps ==
  ASSUME ProtoInv, NEW i \in DOMAIN request, AppendFails(i)
  PROVE  ProtoInv'
<1> DEFINE r == [request[i] EXCEPT !.stage = "refused"]
<1>1. request[i] \in Request
  BY RequestFields DEF ProtoInv
<1>2. r \in Request /\ r.stage = "refused"
  BY <1>1 DEF Request, Stage
<1>3. request' = [request EXCEPT ![i] = r]
  BY DEF AppendFails
<1> HIDE DEF r
<1>4. Turn(i) /\ Unanswered(i) /\ request[i].stage # "written" /\ UNCHANGED <<chain, up, state>>
  BY DEF AppendFails, Unanswered
<1> QED
  BY <1>2, <1>3, <1>4, MovesOn DEF Advances

-----------------------------------------------------------------------------
(* The block file.                                                         *)

(* The next file is the one after the last, and the others stay.           *)
LEMMA AppendEffect ==
  ASSUME chain \in Seq(Tx), NEW tx \in Tx, chain' = Put(chain, NextHeight, tx)
  PROVE  /\ NextHeight = Len(chain) + 1 /\ Len(chain) \in Nat
         /\ chain' \in Seq(Tx) /\ Len(chain') = Len(chain) + 1
         /\ chain'[Len(chain) + 1] = tx
         /\ \A h \in 1..Len(chain) : chain'[h] = chain[h]
<1>1. DOMAIN chain = 1..Len(chain) /\ Len(chain) \in Nat /\ chain \in [1..Len(chain) -> Tx]
  OBVIOUS
<1> DEFINE n == Len(chain)
<1>2. Cardinality(1..n) = n
  BY <1>1, FS_Interval
<1>3. NextHeight = n + 1
  BY <1>1, <1>2 DEF NextHeight, ListHeights
<1> HIDE DEF n
<1>4. 1..n \cup {n + 1} = 1..(n + 1) /\ n + 1 \in Nat /\ n + 1 \notin 1..n
  BY <1>1 DEF n
<1>5. chain' \in [1..(n + 1) -> Tx]
  BY <1>1, <1>3, <1>4 DEF Put, n
<1>6. chain'[n + 1] = tx /\ \A h \in 1..n : chain'[h] = chain[h]
  BY <1>1, <1>3, <1>4 DEF Put, n
<1>7. chain' \in Seq(Tx) /\ Len(chain') = n + 1
  BY <1>4, <1>5
<1> QED
  BY <1>1, <1>3, <1>6, <1>7 DEF n

LEMMA AppendBlockKeeps ==
  ASSUME ProtoInv, NEW i \in DOMAIN request, AppendBlock(i)
  PROVE  ProtoInv'
<1> USE DEF ProtoInv
<1> DEFINE tx == request[i].tx
           n == Len(chain)
           r == [request[i] EXCEPT !.stage = "written", !.height = n + 1]
<1>1. request[i] \in Request /\ tx \in Tx /\ chain \in Seq(Tx) /\ n \in Nat
  BY RequestFields DEF ProtoTypeOK
<1>2. /\ NextHeight = n + 1 /\ chain' \in Seq(Tx) /\ Len(chain') = n + 1
      /\ chain'[n + 1] = tx /\ \A h \in 1..n : chain'[h] = chain[h]
  BY <1>1, AppendEffect DEF AppendBlock
<1>3. n + 1 \in Nat /\ n + 1 # 0 /\ (n + 1) - 1 = n
  BY <1>1
<1>4. r \in Request /\ r.stage = "written" /\ r.height = n + 1 /\ r.tx = tx
  BY <1>1, <1>3 DEF Request, Stage
<1>5. request' = [request EXCEPT ![i] = r]
  BY <1>2 DEF AppendBlock
<1> HIDE DEF r
<1>6. /\ Turn(i) /\ Unanswered(i) /\ request[i].stage = "valid" /\ UNCHANGED <<up, state>>
  BY DEF AppendBlock, Unanswered
<1>7. /\ request' \in Seq(Request) /\ DOMAIN request' = DOMAIN request /\ request'[i] = r
      /\ \A j \in DOMAIN request \ {i} : request'[j] = request[j]
  BY <1>4, <1>5, Advanced DEF Advances
<1>8. OneInHand' /\ \A j \in DOMAIN request' : InHand(j)' => j = i
  BY <1>4, <1>5, <1>6, OneInHandKept DEF Advances
<1>9. state = Replay(n) /\ Valid(state, tx)
  <2>1. \A j \in DOMAIN request : request[j].stage # "written"
    BY <1>6, Alone DEF InHand
  <2>2. up
    BY <1>6 DEF OneInHand
  <2> QED BY <1>6, <2>1, <2>2 DEF InStep, ValidStill
<1>10. /\ DOMAIN chain = 1..n /\ DOMAIN chain' = 1..(n + 1)
       /\ \A h \in 0..n : ReplayOf(chain', h) = ReplayOf(chain, h)
  <2>1. DOMAIN chain = 1..n /\ DOMAIN chain' = 1..(n + 1)
    BY <1>1, <1>2
  <2>2. \A h \in 1..n : h \in DOMAIN chain /\ h \in DOMAIN chain' /\ chain[h] = chain'[h]
    BY <1>1, <1>2, <2>1
  <2> DEFINE c == chain
             d == chain'
  <2> HIDE DEF c, d, n
  <2>3. \A h \in 0..n : ReplayOf(c, h) = ReplayOf(d, h)
    BY <1>1, <1>2, <2>2, SamePrefix DEF c, d
  <2> QED BY <2>1, <2>3 DEF c, d
<1> HIDE DEF n
<1>11. EveryBlockValid'
  <2> SUFFICES ASSUME NEW h \in 1..(n + 1) PROVE Valid(ReplayOf(chain', h - 1), chain'[h])
    BY <1>10 DEF EveryBlockValid, ValidChain
  <2>1. CASE h = n + 1
    BY <1>1, <1>2, <1>3, <1>9, <1>10, <2>1 DEF Replay
  <2>2. CASE h # n + 1
    <3>1. h \in 1..n /\ h - 1 \in 0..n
      BY <1>1, <2>2
    <3> QED BY <1>2, <1>10, <3>1 DEF EveryBlockValid, ValidChain
  <2> QED BY <2>1, <2>2
<1>12. ProtoTypeOK'
  BY <1>2, <1>6, <1>7 DEF ProtoTypeOK
<1>13. ValidStill'
  BY <1>4, <1>7, <1>8 DEF ValidStill, InHand
<1>14. WrittenIsLast'
  <2>1. ReplayOf(chain', n) = ReplayOf(chain, n)
    BY <1>1, <1>10
  <2>2. state' = ReplayOf(chain', Len(chain') - 1)
    BY <1>2, <1>3, <1>6, <1>9, <2>1 DEF Replay
  <2> QED BY <1>2, <1>3, <1>4, <1>7, <1>8, <2>2 DEF WrittenIsLast, InHand, Replay
<1>15. InStep'
  BY <1>4, <1>7 DEF InStep
<1>16. AnsweredStays'
  <2> SUFFICES ASSUME NEW j \in DOMAIN request', request'[j].stage = "ok"
               PROVE  request'[j].height \in DOMAIN chain' /\ chain'[request'[j].height] = request'[j].tx
    BY DEF AnsweredStays
  <2>1. j # i /\ request'[j] = request[j]
    BY <1>4, <1>7
  <2>2. request[j].height \in 1..n /\ chain[request[j].height] = request[j].tx
    BY <1>7, <1>10, <2>1 DEF AnsweredStays
  <2> QED BY <1>1, <1>2, <1>10, <2>1, <2>2
<1> QED
  BY <1>8, <1>11, <1>12, <1>13, <1>14, <1>15, <1>16

LEMMA ApplyKeeps ==
  ASSUME ProtoInv, NEW i \in DOMAIN request, Apply(i)
  PROVE  ProtoInv'
<1> USE DEF ProtoInv
<1> DEFINE tx == request[i].tx
           n == Len(chain)
           r == [request[i] EXCEPT !.stage = "ok"]
<1>1. request[i] \in Request /\ tx \in Tx /\ chain \in Seq(Tx) /\ n \in Nat /\ state \in States
  BY RequestFields DEF ProtoTypeOK
<1>2. r \in Request /\ r.stage = "ok" /\ r.height = request[i].height /\ r.tx = tx
  BY <1>1 DEF Request, Stage
<1>3. request' = [request EXCEPT ![i] = r] /\ state' = ApplyTx(state, tx)
  BY DEF Apply
<1> HIDE DEF r
<1>4. Turn(i) /\ Unanswered(i) /\ request[i].stage = "written" /\ UNCHANGED <<up, chain>>
  BY DEF Apply, Unanswered
<1>5. /\ request' \in Seq(Request) /\ DOMAIN request' = DOMAIN request /\ request'[i] = r
      /\ \A j \in DOMAIN request \ {i} : request'[j] = request[j]
  BY <1>2, <1>3, Advanced DEF Advances
<1>6. OneInHand' /\ \A j \in DOMAIN request' : InHand(j)' => j = i
  BY <1>2, <1>3, <1>4, OneInHandKept DEF Advances
<1>7. \A j \in DOMAIN request' : ~InHand(j)'
  BY <1>2, <1>5, <1>6 DEF InHand
<1>8. ProtoTypeOK' /\ EveryBlockValid'
  BY <1>1, <1>3, <1>4, <1>5, ApplyTypes DEF ProtoTypeOK, EveryBlockValid
<1>9. ValidStill' /\ WrittenIsLast'
  BY <1>7 DEF ValidStill, WrittenIsLast, InHand
<1>10. n # 0 /\ r.height = n /\ chain[n] = tx /\ state = Replay(n - 1)
  BY <1>2, <1>4 DEF WrittenIsLast
<1> HIDE DEF n, tx
<1>11. state' = ReplayOf(chain, n)
  <2>1. n - 1 \in Nat /\ (n - 1) + 1 = n /\ n \in DOMAIN chain
    BY <1>1, <1>10 DEF n
  <2>2. ReplayOf(chain, (n - 1) + 1) = RunStep(chain, (n - 1) + 1, ReplayOf(chain, n - 1))
    BY <1>1, <2>1, ReplayEquation
  <2> QED BY <1>3, <1>10, <2>1, <2>2 DEF RunStep, Replay
<1>12. InStep'
  BY <1>4, <1>11 DEF InStep, Replay, n
<1>13. AnsweredStays'
  <2>1. n \in DOMAIN chain
    BY <1>1, <1>10 DEF n
  <2> QED BY <1>2, <1>4, <1>5, <1>10, <2>1 DEF AnsweredStays
<1> QED
  BY <1>6, <1>8, <1>9, <1>12, <1>13

-----------------------------------------------------------------------------
(* Starts, arrivals and crashes.                                           *)

LEMMA StartKeeps ==
  ASSUME ProtoInv, Start
  PROVE  ProtoInv'
<1> USE DEF ProtoInv
<1>1. /\ ~up /\ up' = TRUE /\ chain' = chain /\ request' = request
      /\ state' = ReplayOf(chain, Cardinality(DOMAIN chain))
  BY DEF Start, ListHeights, Replay
<1>2. DOMAIN chain = 1..Len(chain) /\ Len(chain) \in Nat /\ chain \in Seq(Tx)
  BY DEF ProtoTypeOK
<1>3. state' = ReplayOf(chain, Len(chain)) /\ state' \in States
  <2> DEFINE n == Len(chain)
             c == chain
  <2>1. Cardinality(1..n) = n
    BY <1>2, FS_Interval
  <2>2. state' = ReplayOf(c, n) /\ c \in Seq(Tx) /\ n \in Nat
    BY <1>1, <1>2, <2>1
  <2> HIDE DEF n, c
  <2>3. ReplayOf(c, n) \in States
    BY <2>2, ReplayEquation
  <2> QED BY <2>2, <2>3 DEF n, c
<1>4. \A j \in DOMAIN request : ~Unanswered(j)
  BY <1>1 DEF OneInHand
<1>5. ProtoTypeOK' /\ EveryBlockValid' /\ AnsweredStays'
  BY <1>1, <1>3 DEF ProtoTypeOK, EveryBlockValid, AnsweredStays
<1>6. OneInHand' /\ ValidStill' /\ WrittenIsLast'
  BY <1>1, <1>4 DEF OneInHand, ValidStill, WrittenIsLast, InHand, Unanswered
<1>7. InStep'
  BY <1>1, <1>3 DEF InStep, Replay
<1> QED
  BY <1>5, <1>6, <1>7

LEMMA ReceiveKeeps ==
  ASSUME ProtoInv, NEW tx \in TxTerms, Receive(tx)
  PROVE  ProtoInv'
<1> USE DEF ProtoInv
<1> DEFINE r == [tx |-> tx, stage |-> "queued", height |-> 0]
           n == Len(request)
<1>1. r \in Request /\ r.stage = "queued"
  BY PrototypeAssumption DEF Request, Stage
<1>2. request' = Append(request, r) /\ up /\ UNCHANGED <<chain, up, state>>
  BY DEF Receive
<1> HIDE DEF r
<1>3. request \in Seq(Request) /\ n \in Nat /\ DOMAIN request = 1..n
  BY DEF ProtoTypeOK
<1>4. /\ request' \in Seq(Request) /\ DOMAIN request' = 1..(n + 1) /\ request'[n + 1] = r
      /\ \A j \in 1..n : request'[j] = request[j]
  BY <1>1, <1>2, <1>3
<1> HIDE DEF n
<1>5. \A j \in DOMAIN request' : j \in DOMAIN request \/ j = n + 1
  BY <1>3, <1>4
<1>6. ProtoTypeOK' /\ EveryBlockValid'
  BY <1>2, <1>4 DEF ProtoTypeOK, EveryBlockValid
<1>7. ASSUME NEW j \in DOMAIN request', request'[j].stage # "queued"
      PROVE  j \in DOMAIN request /\ request'[j] = request[j]
  BY <1>1, <1>3, <1>4, <1>5, <1>7
<1>8. ValidStill' /\ WrittenIsLast' /\ AnsweredStays'
  <2>1. ValidStill'
    BY <1>2, <1>7 DEF ValidStill
  <2>2. WrittenIsLast'
    BY <1>2, <1>7 DEF WrittenIsLast, Replay
  <2>3. AnsweredStays'
    BY <1>2, <1>7 DEF AnsweredStays
  <2> QED BY <2>1, <2>2, <2>3
<1>9. InStep'
  <2>1. \A j \in DOMAIN request : j \in DOMAIN request' /\ request'[j] = request[j]
    BY <1>3, <1>4
  <2> QED BY <1>2, <2>1 DEF InStep, Replay
<1>10. OneInHand'
  <2>1. ASSUME NEW j \in DOMAIN request', InHand(j)' PROVE Turn(j)'
    <3>1. j \in DOMAIN request /\ InHand(j)
      BY <1>7, <2>1 DEF InHand
    <3>2. Turn(j) /\ \A k \in 1..(j - 1) : k \in 1..n
      BY <1>3, <3>1, RequestFields DEF OneInHand
    <3> QED BY <1>4, <3>2 DEF Turn, Unanswered
  <2> QED BY <1>2, <2>1 DEF OneInHand
<1> QED
  BY <1>6, <1>8, <1>9, <1>10

LEMMA CrashKeeps ==
  ASSUME ProtoInv, CrashNode
  PROVE  ProtoInv'
<1> USE DEF ProtoInv
<1>1. /\ up' = FALSE /\ UNCHANGED <<chain, state>> /\ DOMAIN request' = DOMAIN request
      /\ \A i \in DOMAIN request :
           request'[i] = IF Unanswered(i) THEN [request[i] EXCEPT !.stage = "lost"]
                         ELSE request[i]
  BY DEF CrashNode
<1>2. ASSUME NEW i \in DOMAIN request
      PROVE  request'[i] \in Request /\ ~Unanswered(i)'
  <2>1. request[i] \in Request
    BY RequestFields
  <2>2. CASE Unanswered(i)
    BY <1>1, <2>1, <2>2 DEF Request, Stage, Unanswered
  <2>3. CASE ~Unanswered(i)
    <3>1. request'[i] = request[i]
      BY <1>1, <2>3
    <3> QED BY <2>1, <2>3, <3>1 DEF Unanswered
  <2> QED BY <2>2, <2>3
<1>3. request' \in Seq(Request)
  <2>1. Len(request) \in Nat /\ DOMAIN request = 1..Len(request)
    BY DEF ProtoTypeOK
  <2>2. request' = [i \in 1..Len(request) |-> request'[i]]
    BY <2>1 DEF CrashNode
  <2> QED BY <1>1, <1>2, <2>1, <2>2
<1>4. ProtoTypeOK' /\ EveryBlockValid'
  BY <1>1, <1>3 DEF ProtoTypeOK, EveryBlockValid
<1>5. OneInHand' /\ ValidStill' /\ WrittenIsLast'
  BY <1>1, <1>2 DEF OneInHand, ValidStill, WrittenIsLast, InHand, Unanswered
<1>6. InStep'
  BY <1>1 DEF InStep
<1>7. AnsweredStays'
  <2>1. ASSUME NEW i \in DOMAIN request, request'[i].stage = "ok"
        PROVE  request'[i] = request[i]
    <3>1. Unanswered(i) => request'[i].stage = "lost"
      BY <1>1, RequestFields DEF Request
    <3> QED BY <1>1, <2>1, <3>1
  <2> QED BY <1>1, <2>1 DEF AnsweredStays
<1> QED
  BY <1>4, <1>5, <1>6, <1>7

-----------------------------------------------------------------------------
(* The theorems.                                                           *)

LEMMA ProtoStarts == ProtoInit => ProtoInv
<1> SUFFICES ASSUME ProtoInit PROVE ProtoInv
  OBVIOUS
<1> USE DEF ProtoInit
<1>1. ProtoTypeOK
  <2>1. request \in Seq(Request) /\ up \in BOOLEAN
    <3>1. <<>> \in Seq(Request) /\ FALSE \in BOOLEAN
      OBVIOUS
    <3>2. request = <<>> /\ up = FALSE
      OBVIOUS
    <3> QED BY <3>1, <3>2
  <2>2. state \in States /\ chain \in Seq(Tx)
    BY EmptyStateTypes, PrototypeAssumption
  <2> QED BY <2>1, <2>2 DEF ProtoTypeOK
<1>2. EveryBlockValid
  BY StartAssumption DEF EveryBlockValid
<1>3. DOMAIN request = {} /\ ~up
  OBVIOUS
<1> QED
  BY <1>1, <1>2, <1>3
     DEF ProtoInv, OneInHand, ValidStill, WrittenIsLast, InStep, AnsweredStays

LEMMA ProtoSteps == ProtoInv /\ [ProtoNext]_protoVars => ProtoInv'
<1> SUFFICES ASSUME ProtoInv, [ProtoNext]_protoVars PROVE ProtoInv'
  OBVIOUS
<1>1. CASE Start
  BY <1>1, StartKeeps
<1>2. CASE \E tx \in TxTerms : Receive(tx)
  BY <1>2, ReceiveKeeps
<1>3. CASE \E i \in DOMAIN request :
             Validate(i) \/ AppendBlock(i) \/ AppendFails(i) \/ Apply(i)
  BY <1>3, ValidateKeeps, AppendBlockKeeps, AppendFailsKeeps, ApplyKeeps
<1>4. CASE CrashNode
  BY <1>4, CrashKeeps
<1>5. CASE UNCHANGED protoVars
  <2>1. chain' = chain /\ up' = up /\ state' = state /\ request' = request
    BY <1>5 DEF protoVars
  <2> QED BY <2>1 DEF ProtoInv, ProtoTypeOK, EveryBlockValid, OneInHand, ValidStill,
                      WrittenIsLast, InStep, AnsweredStays, InHand, Turn, Unanswered, Replay
<1> QED
  BY <1>1, <1>2, <1>3, <1>4, <1>5 DEF ProtoNext

(* The inductive invariant of the prototype's node.                        *)
THEOREM PrototypeCorrect == ProtoSpec => []ProtoInv
BY ProtoStarts, ProtoSteps, PTL DEF ProtoSpec

(***************************************************************************)
(* Replay without validation is safe: every block was valid in the state   *)
(* of the blocks before it, although validateTx, the write of appendBlock  *)
(* and applyTx are separated by awaits.                                    *)
(***************************************************************************)
THEOREM BlocksAreValid == ProtoSpec => []EveryBlockValid
<1>1. ProtoInv => EveryBlockValid
  BY DEF ProtoInv
<1> QED
  BY <1>1, PrototypeCorrect, PTL

(***************************************************************************)
(* The state in memory is the replay of the files, but for one block that  *)
(* submit has written and not yet applied.                                 *)
(***************************************************************************)
THEOREM StateMatchesFiles == ProtoSpec => []StateIsReplay
<1>1. ASSUME ProtoInv PROVE StateIsReplay
  <2> DEFINE W == {i \in DOMAIN request : request[i].stage = "written"}
  <2> USE <1>1 DEF ProtoInv
  <2>1. Len(chain) \in Nat
    BY DEF ProtoTypeOK
  <2>2. CASE W = {}
    <3>1. Cardinality(W) = 0 /\ Len(chain) - 0 = Len(chain)
      BY <2>1, <2>2, FS_EmptySet
    <3>2. up => state = Replay(Len(chain))
      BY <2>2 DEF InStep
    <3> QED BY <3>1, <3>2 DEF StateIsReplay
  <2>3. CASE W # {}
    <3>1. PICK i \in DOMAIN request : request[i].stage = "written"
      BY <2>3
    <3>2. Turn(i) /\ Unanswered(i)
      BY <3>1 DEF OneInHand, InHand, Unanswered
    <3>3. W = {i}
      BY <3>1, <3>2, Alone DEF InHand
    <3>4. Cardinality(W) = 1
      BY <3>3, FS_Singleton
    <3>5. state = Replay(Len(chain) - 1)
      BY <3>1 DEF WrittenIsLast
    <3> QED BY <3>4, <3>5 DEF StateIsReplay
  <2> QED BY <2>2, <2>3
<1> QED
  BY <1>1, PrototypeCorrect, PTL

(***************************************************************************)
(* The block that submit answered with holds the client's transaction for  *)
(* ever.                                                                   *)
(***************************************************************************)
THEOREM AnswersStay == ProtoSpec => []AnsweredStays
<1>1. ProtoInv => AnsweredStays
  BY DEF ProtoInv
<1> QED
  BY <1>1, PrototypeCorrect, PTL

(***************************************************************************)
(* No transaction is in two blocks: the nonces that validateTx compares    *)
(* make a repeated submission fail, also after a crash took the answer.    *)
(***************************************************************************)
THEOREM TransactionsApplyOnce == ProtoSpec => []AppliedOnce
<1>1. ProtoInv => AppliedOnce
  <2>1. ASSUME ProtoInv PROVE AppliedOnce
    <3>1. chain \in Seq(Tx) /\ ValidChain(chain)
      BY <2>1 DEF ProtoInv, ProtoTypeOK, EveryBlockValid
    <3> DEFINE c == chain
    <3> HIDE DEF c
    <3>2. \A g, h \in DOMAIN c : c[g] = c[h] => g = h
      BY <3>1, ValidOnce DEF c
    <3> QED BY <3>2 DEF AppliedOnce, c
  <2> QED BY <2>1
<1> QED
  BY <1>1, PrototypeCorrect, PTL
=============================================================================
