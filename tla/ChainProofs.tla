---------------------------- MODULE ChainProofs ----------------------------
(***************************************************************************)
(* The module as a whole, for every set of addresses, every genesis file   *)
(* and every schedule: the supply cap, conservation with mints, vouches    *)
(* and imports, that nothing is minted but rewards, that nothing counts    *)
(* twice and that every state can be exported.                             *)
(***************************************************************************)
EXTENDS Chain, JuryProofs

-----------------------------------------------------------------------------
(* The emission schedule.                                                  *)

(* What every emission state of the chain satisfies.                       *)
SoundEmission(e) == e \in EmissionRecord /\ ValidEmission(e) /\ Capped(e)

LEMMA EmissionFields ==
  ASSUME NEW e \in EmissionRecord
  PROVE  /\ e.maxSupply \in Nat /\ e.epochLength \in Nat /\ e.divisor \in Nat
         /\ e.genesisTime \in Nat /\ e.currentEpoch \in Nat /\ e.epochStartedAt \in Nat
         /\ e.scheduled \in Nat /\ e.epochMined \in Nat /\ e.totalMined \in Nat
         /\ e.burnedUnclaimed \in Nat
         /\ RemainingScheduled(e) \in Nat /\ RemainingEpoch(e) \in Nat
BY DEF EmissionRecord, RemainingScheduled, RemainingEpoch

LEMMA Division ==
  ASSUME NEW n \in Nat, NEW d \in Nat \ {0}
  PROVE  n \div d \in Nat /\ n \div d <= n
<1>1. n \div d \in Int /\ d * (n \div d) <= n /\ n \div d >= 0
  OBVIOUS
<1> DEFINE q == n \div d
<1>2. q \in Nat
  BY <1>1
<1> HIDE DEF q
<1>3. d * q >= q
  BY <1>2
<1> QED
  BY <1>1, <1>2, <1>3 DEF q

(* An epoch never schedules more than is left.                             *)
LEMMA ScheduledWithinSupply ==
  ASSUME NEW e \in EmissionRecord, e.divisor # 0
  PROVE  NextEpochScheduled(e) \in Nat /\ NextEpochScheduled(e) <= RemainingScheduled(e)
BY EmissionFields, Division DEF NextEpochScheduled

LEMMA RollEpochSound ==
  ASSUME NEW e, SoundEmission(e)
  PROVE  /\ SoundEmission(RollEpoch(e))
         /\ RollEpoch(e).totalMined = e.totalMined /\ RollEpoch(e).maxSupply = e.maxSupply
<1> DEFINE closed == [e EXCEPT !.burnedUnclaimed = @ + RemainingEpoch(e),
                               !.currentEpoch = @ + 1,
                               !.epochStartedAt = @ + e.epochLength, !.epochMined = 0]
           r == [closed EXCEPT !.scheduled = NextEpochScheduled(closed)]
<1>0. e \in EmissionRecord
  BY DEF SoundEmission
<1>1. closed \in EmissionRecord
  <2>1. /\ RemainingEpoch(e) \in Nat /\ e.burnedUnclaimed + RemainingEpoch(e) \in Nat
        /\ e.currentEpoch + 1 \in Nat /\ e.epochStartedAt + e.epochLength \in Nat
    BY <1>0, EmissionFields
  <2> QED BY <1>0, <2>1 DEF EmissionRecord
<1>2. /\ closed.maxSupply = e.maxSupply /\ closed.epochLength = e.epochLength
      /\ closed.divisor = e.divisor /\ closed.totalMined = e.totalMined
      /\ closed.burnedUnclaimed = e.burnedUnclaimed + RemainingEpoch(e)
      /\ closed.currentEpoch = e.currentEpoch + 1 /\ closed.epochMined = 0
  BY <1>0 DEF EmissionRecord
<1>3. RollEpoch(e) = r
  BY DEF RollEpoch
<1> HIDE DEF closed
<1>4. e.divisor # 0 /\ closed.divisor # 0
  BY <1>2 DEF SoundEmission, ValidEmission
<1>5. NextEpochScheduled(closed) \in Nat /\ NextEpochScheduled(closed) <= RemainingScheduled(closed)
  BY <1>1, <1>4, ScheduledWithinSupply
<1>6. /\ r \in EmissionRecord /\ r.scheduled = NextEpochScheduled(closed)
      /\ r.maxSupply = e.maxSupply /\ r.epochLength = e.epochLength
      /\ r.divisor = e.divisor /\ r.totalMined = e.totalMined
      /\ r.burnedUnclaimed = e.burnedUnclaimed + RemainingEpoch(e)
      /\ r.currentEpoch = e.currentEpoch + 1 /\ r.epochMined = 0
  BY <1>1, <1>2, <1>5 DEF EmissionRecord
<1> HIDE DEF r
<1>7. ValidEmission(r)
  BY <1>0, <1>5, <1>6, EmissionFields DEF SoundEmission, ValidEmission, Capped
<1>8. RemainingScheduled(closed) = e.maxSupply - e.totalMined - r.burnedUnclaimed
  BY <1>0, <1>2, <1>6, EmissionFields DEF SoundEmission, Capped, RemainingScheduled
<1>9. RemainingEpoch(r) = NextEpochScheduled(closed)
  BY <1>5, <1>6 DEF RemainingEpoch
<1>10. Capped(r)
  BY <1>0, <1>5, <1>6, <1>8, <1>9, EmissionFields DEF Capped
<1> QED
  BY <1>3, <1>6, <1>7, <1>10 DEF SoundEmission

LEMMA FilledSound ==
  ASSUME EscrowsTypeOK, NEW e, SoundEmission(e)
  PROVE  /\ SoundEmission(Filled(e))
         /\ Filled(e).totalMined = e.totalMined /\ Filled(e).maxSupply = e.maxSupply
<1> DEFINE f == [e EXCEPT !.genesisTime    = IF @ = 0 THEN now ELSE @,
                          !.epochStartedAt = IF @ = 0 THEN now ELSE @,
                          !.currentEpoch   = IF @ = 0 THEN 1 ELSE @,
                          !.epochLength    = IF @ = 0 THEN EpochLength ELSE @,
                          !.divisor        = IF @ = 0 THEN RewardDivisor ELSE @]
           r == [f EXCEPT !.scheduled = IF @ = 0 THEN NextEpochScheduled(f) ELSE @]
<1>0. e \in EmissionRecord /\ now \in Nat
  BY DEF SoundEmission, EscrowsTypeOK
<1>1. Filled(e) = r
  BY DEF Filled
<1>2. /\ f \in EmissionRecord
      /\ f.maxSupply = e.maxSupply /\ f.epochLength = e.epochLength
      /\ f.divisor = e.divisor /\ f.totalMined = e.totalMined
      /\ f.burnedUnclaimed = e.burnedUnclaimed /\ f.epochMined = e.epochMined
      /\ f.currentEpoch = e.currentEpoch /\ f.scheduled = e.scheduled
  BY <1>0, EmissionFields DEF EmissionRecord, SoundEmission, ValidEmission
<1> HIDE DEF f
<1>3. NextEpochScheduled(f) \in Nat /\ NextEpochScheduled(f) <= RemainingScheduled(f)
  BY <1>2, ScheduledWithinSupply DEF SoundEmission, ValidEmission
<1>4. /\ r \in EmissionRecord
      /\ r.scheduled = IF e.scheduled = 0 THEN NextEpochScheduled(f) ELSE e.scheduled
      /\ r.maxSupply = e.maxSupply /\ r.epochLength = e.epochLength
      /\ r.divisor = e.divisor /\ r.totalMined = e.totalMined
      /\ r.burnedUnclaimed = e.burnedUnclaimed
      /\ r.currentEpoch = e.currentEpoch /\ r.epochMined = e.epochMined
  BY <1>2, <1>3 DEF EmissionRecord
<1> HIDE DEF r
<1>5. CASE e.scheduled = 0
  <2>1. e.epochMined = 0
    BY <1>0, <1>5, EmissionFields DEF SoundEmission, ValidEmission
  <2>2. ValidEmission(r)
    BY <1>0, <1>3, <1>4, <2>1, EmissionFields DEF SoundEmission, ValidEmission
  <2>3. RemainingEpoch(r) = NextEpochScheduled(f)
    BY <1>3, <1>4, <1>5, <2>1 DEF RemainingEpoch
  <2>4. RemainingScheduled(f) = e.maxSupply - e.totalMined - e.burnedUnclaimed
    BY <1>0, <1>2, EmissionFields DEF SoundEmission, ValidEmission, RemainingScheduled
  <2>5. Capped(r)
    BY <1>0, <1>3, <1>4, <2>3, <2>4, EmissionFields DEF Capped
  <2> QED BY <1>1, <1>4, <2>2, <2>5 DEF SoundEmission
<1>6. CASE e.scheduled # 0
  BY <1>1, <1>4, <1>6 DEF SoundEmission, ValidEmission, Capped, RemainingEpoch
<1> QED
  BY <1>5, <1>6

-----------------------------------------------------------------------------
(* The catch-up: the turns of its loop exist, and each starts from a sound *)
(* state.                                                                  *)

RolledOnce == [r \in EmissionRecord |-> RollEpoch(r)]

Turned(f) ==
  CHOOSE turn : turn = [n \in Nat |-> IF n = 0 THEN f ELSE RolledOnce[turn[n - 1]]]

LEMMA SyncIsTurned ==
  ASSUME NEW e
  PROVE  SyncEmissionState(e) = Turned(Filled(e))[EpochsOver(Filled(e))]
BY DEF SyncEmissionState, Turned, RolledOnce

SoundTurns(e) ==
  {r \in EmissionRecord : SoundEmission(r) /\ r.totalMined = e.totalMined
                                           /\ r.maxSupply = e.maxSupply}

LEMMA TurnedEquation ==
  ASSUME NEW e, SoundEmission(e)
  PROVE  /\ Turned(e)[0] = e
         /\ \A n \in Nat : /\ Turned(e)[n] \in SoundTurns(e)
                           /\ Turned(e)[n + 1] = RollEpoch(Turned(e)[n])
<1> DEFINE T == SoundTurns(e)
           step == [p \in Nat \X T |-> RollEpoch(p[2])]
           Eq(t) == t = [n \in Nat |-> IF n = 0 THEN e ELSE RolledOnce[t[n - 1]]]
<1>1. e \in T
  BY DEF SoundTurns, SoundEmission
<1>2. ASSUME NEW r \in T PROVE RollEpoch(r) \in T /\ RolledOnce[r] = RollEpoch(r)
  <2>1. /\ SoundEmission(r) /\ r \in EmissionRecord
        /\ r.totalMined = e.totalMined /\ r.maxSupply = e.maxSupply
    BY DEF SoundTurns
  <2>2. RollEpoch(r) \in T
    BY <2>1, RollEpochSound DEF SoundTurns, SoundEmission
  <2> QED BY <2>1, <2>2 DEF RolledOnce
<1>3. step \in [Nat \X T -> T]
  BY <1>2
<1>4. \A n \in Nat, r \in T : step[<<n, r>>] = RollEpoch(r)
  OBVIOUS
<1> HIDE DEF step, T
<1>5. PICK g \in [Nat -> T] : Steps(g, e, step)
  BY <1>1, <1>3, SequenceExists
<1>6. Eq(g)
  <2>1. ASSUME NEW n \in Nat
        PROVE  g[n] = IF n = 0 THEN e ELSE RolledOnce[g[n - 1]]
    <3>1. CASE n = 0
      BY <1>5, <3>1 DEF Steps
    <3>2. CASE n # 0
      <4>1. n - 1 \in Nat /\ (n - 1) + 1 = n
        BY <3>2
      <4>2. g[(n - 1) + 1] = RollEpoch(g[n - 1]) /\ g[n - 1] \in T
        BY <1>4, <1>5, <4>1 DEF Steps
      <4> QED BY <1>2, <3>2, <4>1, <4>2
    <3> QED BY <3>1, <3>2
  <2> QED BY <2>1
<1>7. Eq(Turned(e))
  <2>1. \E t : Eq(t)
    BY <1>6
  <2>2. Turned(e) = CHOOSE t : Eq(t)
    BY DEF Turned
  <2> HIDE DEF Eq
  <2> QED BY <2>1, <2>2
<1> DEFINE t == Turned(e)
           S == {n \in Nat : t[n] \in T}
<1>8. t[0] = e /\ \A n \in Nat : t[n + 1] = RolledOnce[t[n]]
  <2>1. t = [n \in Nat |-> IF n = 0 THEN e ELSE RolledOnce[t[n - 1]]]
    BY <1>7
  <2> HIDE DEF t
  <2>2. t[0] = e
    BY <2>1
  <2>3. ASSUME NEW n \in Nat PROVE t[n + 1] = RolledOnce[t[n]]
    <3>1. n + 1 \in Nat /\ n + 1 # 0 /\ (n + 1) - 1 = n
      OBVIOUS
    <3> QED BY <2>1, <3>1
  <2> QED BY <2>2, <2>3
<1> HIDE DEF t
<1>9. \A n \in Nat : n \in S
  <2>1. 0 \in S
    BY <1>1, <1>8
  <2>2. ASSUME NEW n \in Nat, n \in S PROVE n + 1 \in S
    BY <1>2, <1>8, <2>2
  <2> HIDE DEF S
  <2> QED BY <2>1, <2>2, InductionOnNat
<1> QED
  BY <1>2, <1>8, <1>9 DEF t, T

LEMMA EpochsOverNatural ==
  ASSUME EscrowsTypeOK, NEW e, SoundEmission(e)
  PROVE  EpochsOver(e) \in Nat
<1>1. now \in Nat /\ e.epochStartedAt \in Nat /\ e.epochLength \in Nat \ {0}
  BY EmissionFields DEF EscrowsTypeOK, SoundEmission, ValidEmission
<1> QED
  BY <1>1, Division DEF EpochsOver

(* Whatever epochs were missed, the catch-up leaves a sound state and      *)
(* mines nothing.                                                          *)
LEMMA SyncSound ==
  ASSUME EscrowsTypeOK, NEW e, SoundEmission(e)
  PROVE  /\ SoundEmission(SyncEmissionState(e))
         /\ SyncEmissionState(e).totalMined = e.totalMined
         /\ SyncEmissionState(e).maxSupply = e.maxSupply
<1>1. EpochsOver(Filled(e)) \in Nat
  BY FilledSound, EpochsOverNatural
<1> DEFINE f == Filled(e)
<1>2. /\ SoundEmission(f) /\ f.totalMined = e.totalMined /\ f.maxSupply = e.maxSupply
      /\ SyncEmissionState(e) = Turned(f)[EpochsOver(f)]
  BY FilledSound, SyncIsTurned
<1> HIDE DEF f
<1>3. Turned(f)[EpochsOver(f)] \in SoundTurns(f)
  BY <1>1, <1>2, TurnedEquation DEF f
<1> QED
  BY <1>2, <1>3 DEF SoundTurns

-----------------------------------------------------------------------------
(* The mint.                                                               *)

LEMMA ShareTotal ==
  ASSUME NEW R \in SUBSET Addr, NEW n \in Nat
  PROVE  LET share == [a \in Addr |-> IF a \in R THEN n ELSE 0]
         IN  /\ IsFiniteSet(R) /\ Cardinality(R) \in Nat
             /\ share \in [Addr -> Nat] /\ Total(share) = n * Cardinality(R)
<1> DEFINE share == [a \in Addr |-> IF a \in R THEN n ELSE 0]
<1>1. IsFiniteSet(R) /\ Cardinality(R) \in Nat
  BY AddrAssumption, FS_Subset, FS_CardinalityType
<1>2. share \in [Addr -> Nat]
  OBVIOUS
<1>3. Coins(share) = R \X (1..n)
  <2>1. ASSUME NEW c PROVE c \in Coins(share) <=> c \in R \X (1..n)
    BY DEF Coins
  <2> QED BY <2>1
<1>4. IsFiniteSet(1..n) /\ Cardinality(1..n) = n
  BY FS_Interval
<1>5. Cardinality(R \X (1..n)) = Cardinality(R) * Cardinality(1..n)
  BY <1>1, <1>4, FS_Product
<1>6. Total(share) = n * Cardinality(R)
  <2>1. Total(share) = Cardinality(R) * n
    BY <1>3, <1>4, <1>5 DEF Total
  <2>2. \A i, j \in Nat : i * j = j * i
    OBVIOUS
  <2> QED BY <1>1, <2>1, <2>2
<1> QED
  BY <1>1, <1>2, <1>6

(* A step that mints n stays within the schedule, registers whom it pays   *)
(* and adds to the balances exactly what it adds to the supply mined.      *)
Mints(n) ==
  /\ SoundEmission(emission')
  /\ emission'.totalMined = emission.totalMined + n
  /\ LedgerTypeOK' /\ UnregisteredHoldNothing'
  /\ \A a \in Addr : IsRegistered(a) => IsRegistered(a)'
  /\ Total(balance') = Total(balance) + n

LEMMA MintEffect ==
  ASSUME LedgerTypeOK, EscrowsTypeOK, SoundEmission(emission), UnregisteredHoldNothing,
         NEW R \in SUBSET Addr, NEW n \in Nat, MintProtocolReward(R, n)
  PROVE  n * Cardinality(R) \in Nat /\ Mints(n * Cardinality(R))
<1> DEFINE e == SyncEmissionState(emission)
           minted == n * Cardinality(R)
           r == [e EXCEPT !.totalMined = @ + minted, !.epochMined = @ + minted]
<1>1. Cardinality(R) \in Nat
  BY ShareTotal
<1>2. minted \in Nat
  <2>1. \A i, j \in Nat : i * j \in Nat
    OBVIOUS
  <2> QED BY <1>1, <2>1
<1>3. SoundEmission(e) /\ e.totalMined = emission.totalMined
  BY SyncSound
<1>4. minted <= RemainingScheduled(e) /\ minted <= RemainingEpoch(e) /\ emission' = r
  BY DEF MintProtocolReward, CanMint
<1>5. LedgerTypeOK' /\ \A a \in Addr : IsRegistered(a) => IsRegistered(a)'
  BY DEF MintProtocolReward, LedgerTypeOK, IsRegistered, AccountState
<1>6. UnregisteredHoldNothing'
  BY DEF MintProtocolReward, LedgerTypeOK, UnregisteredHoldNothing
<1>7. Total(balance') = Total(balance) + minted
  <2> DEFINE share == [a \in Addr |-> IF a \in R THEN n ELSE 0]
  <2>1. share \in [Addr -> Nat] /\ Total(share) = minted
    BY ShareTotal
  <2>2. balance \in [Addr -> Nat] /\ balance' = [a \in Addr |-> balance[a] + share[a]]
    BY DEF MintProtocolReward, LedgerTypeOK
  <2> HIDE DEF share, minted
  <2> QED BY <2>1, <2>2, AddrAssumption, TotalPlus
<1> HIDE DEF e, minted
<1>8. e \in EmissionRecord
  BY <1>3 DEF SoundEmission
<1>9. /\ e.totalMined + minted \in Nat /\ e.epochMined + minted \in Nat
      /\ e.totalMined \in Nat /\ e.epochMined \in Nat
  BY <1>2, <1>8, EmissionFields
<1>10. /\ r \in EmissionRecord
       /\ r.totalMined = e.totalMined + minted /\ r.epochMined = e.epochMined + minted
       /\ r.maxSupply = e.maxSupply /\ r.epochLength = e.epochLength
       /\ r.divisor = e.divisor /\ r.burnedUnclaimed = e.burnedUnclaimed
       /\ r.currentEpoch = e.currentEpoch /\ r.scheduled = e.scheduled
  BY <1>8, <1>9 DEF EmissionRecord
<1> HIDE DEF r
<1>11. ValidEmission(r) /\ Capped(r)
  <2>1. minted <= e.scheduled - e.epochMined
    BY <1>3, <1>4, <1>8, EmissionFields DEF SoundEmission, ValidEmission, RemainingEpoch
  <2>2. minted <= e.maxSupply - e.totalMined - e.burnedUnclaimed
    BY <1>3, <1>4, <1>8, EmissionFields DEF SoundEmission, ValidEmission, RemainingScheduled
  <2>3. ValidEmission(r)
    BY <1>2, <1>3, <1>8, <1>10, <2>1, <2>2, EmissionFields DEF SoundEmission, ValidEmission
  <2>4. RemainingEpoch(r) = RemainingEpoch(e) - minted
    BY <1>2, <1>3, <1>8, <1>10, <2>1, EmissionFields DEF SoundEmission, RemainingEpoch
  <2>5. Capped(r)
    BY <1>2, <1>3, <1>8, <1>10, <2>4, EmissionFields DEF SoundEmission, Capped
  <2> QED BY <2>3, <2>5
<1> QED
  BY <1>2, <1>3, <1>4, <1>5, <1>6, <1>7, <1>10, <1>11 DEF SoundEmission, Mints, minted

LEMMA NothingMinted ==
  ASSUME LedgerTypeOK, SoundEmission(emission), UnregisteredHoldNothing,
         UNCHANGED <<ledgerVars, emission>>
  PROVE  Mints(0)
<1>1. account' = account /\ balance' = balance /\ emission' = emission
  BY DEF ledgerVars
<1>2. Total(balance) \in Nat /\ emission.totalMined \in Nat
  BY AddrAssumption, CoinsFinite, EmissionFields DEF LedgerTypeOK, SoundEmission
<1>3. SoundEmission(emission') /\ LedgerTypeOK' /\ UnregisteredHoldNothing'
  BY <1>1 DEF LedgerTypeOK, UnregisteredHoldNothing
<1>4. \A a \in Addr : IsRegistered(a) => IsRegistered(a)'
  BY <1>1 DEF IsRegistered
<1> QED
  BY <1>1, <1>2, <1>3, <1>4 DEF Mints

(* An import restores a sound state, and a genesis file gives one.         *)
LEMMA ImportSound ==
  ASSUME EscrowsTypeOK, NEW e \in EmissionRecord,
         e.maxSupply # 0 => ValidEmission(e) /\ Capped(e)
  PROVE  /\ SoundEmission(ImportedEmission(e))
         /\ ImportedEmission(e).totalMined = IF e.maxSupply = 0 THEN 0 ELSE e.totalMined
<1> DEFINE given == IF e.maxSupply = 0 THEN DefaultEmissionState(0) ELSE e
           d == DefaultEmissionState(0)
<1>1. now \in Nat
  BY DEF EscrowsTypeOK
<1>2. MaxSupply \div RewardDivisor \in Nat /\ MaxSupply \div RewardDivisor <= MaxSupply
  BY EmissionAssumption, Division
<1>3. /\ d \in EmissionRecord /\ d.maxSupply = MaxSupply /\ d.epochLength = EpochLength
      /\ d.divisor = RewardDivisor /\ d.currentEpoch = 1
      /\ d.scheduled = MaxSupply \div RewardDivisor
      /\ d.totalMined = 0 /\ d.burnedUnclaimed = 0 /\ d.epochMined = 0
  BY <1>2, EmissionAssumption DEF DefaultEmissionState, EmissionRecord
<1>4. SoundEmission(d)
  <2> HIDE DEF d
  <2> QED BY <1>2, <1>3, EmissionAssumption
             DEF SoundEmission, ValidEmission, Capped, RemainingEpoch
<1>5. SoundEmission(given)
  BY <1>4 DEF SoundEmission
<1>6. given.totalMined = IF e.maxSupply = 0 THEN 0 ELSE e.totalMined
  BY <1>3
<1>7. ImportedEmission(e) = IF given.genesisTime = 0
                            THEN [given EXCEPT !.genesisTime = now, !.epochStartedAt = now]
                            ELSE given
  BY DEF ImportedEmission
<1> HIDE DEF given
<1> DEFINE r == [given EXCEPT !.genesisTime = now, !.epochStartedAt = now]
<1>8. /\ r \in EmissionRecord /\ r.maxSupply = given.maxSupply
      /\ r.epochLength = given.epochLength /\ r.divisor = given.divisor
      /\ r.currentEpoch = given.currentEpoch /\ r.scheduled = given.scheduled
      /\ r.totalMined = given.totalMined /\ r.burnedUnclaimed = given.burnedUnclaimed
      /\ r.epochMined = given.epochMined
  BY <1>1, <1>5 DEF SoundEmission, EmissionRecord
<1> HIDE DEF r
<1>9. SoundEmission(r)
  BY <1>5, <1>8 DEF SoundEmission, ValidEmission, Capped, RemainingEpoch
<1> QED
  BY <1>5, <1>6, <1>7, <1>8, <1>9 DEF r

-----------------------------------------------------------------------------
(* The gates: types, and what each message leaves alone.                   *)

LEMMA GateFields ==
  ASSUME GatesTypeOK, NEW id \in DOMAIN gate
  PROVE  /\ gate[id] \in GateRecord
         /\ gate[id].drip \in Nat /\ gate[id].commitDeadline \in Nat
         /\ gate[id].answers \in [Addr -> AnswerRecord]
         /\ \A a \in Addr : /\ gate[id].answers[a].answer \in Seq(STRING)
                            /\ gate[id].answers[a].paid \in BOOLEAN
<1>1. gate[id] \in GateRecord
  BY DEF GatesTypeOK
<1>2. gate[id].answers \in [Addr -> AnswerRecord]
  BY <1>1 DEF GateRecord
<1>3. ASSUME NEW a \in Addr
      PROVE  gate[id].answers[a].answer \in Seq(STRING) /\ gate[id].answers[a].paid \in BOOLEAN
  BY <1>2 DEF AnswerRecord
<1> QED
  BY <1>1, <1>2, <1>3 DEF GateRecord

(* One gate is replaced by e.                                              *)
GateBecomes(id, e) ==
  /\ e \in GateRecord
  /\ gate' = [gate EXCEPT ![id] = e]
  /\ gateSeq' = gateSeq

(* As it was, but for the answers and what the settlement writes.          *)
SameGate(id, e) ==
  /\ e.drip = gate[id].drip
  /\ e.commitDeadline = gate[id].commitDeadline

(* The answers of the others are as they were, and nobody is paid.         *)
OnlyAnswerOf(c, id, e) ==
  /\ e.status = "open" /\ e.goldAnswer = gate[id].goldAnswer
  /\ \A a \in Addr : e.answers[a].paid = gate[id].answers[a].paid
  /\ \A a \in Addr \ {c} : e.answers[a] = gate[id].answers[a]

LEMMA GateBecomesTypes ==
  ASSUME GatesTypeOK, NEW id \in DOMAIN gate, NEW e, GateBecomes(id, e)
  PROVE  /\ GatesTypeOK' /\ DOMAIN gate' = DOMAIN gate /\ gate'[id] = e
         /\ \A i \in DOMAIN gate \ {id} : gate'[i] = gate[i]
BY DEF GatesTypeOK, GateBecomes

LEMMA AnswerChange ==
  ASSUME GatesTypeOK, NEW id \in DOMAIN gate, NEW c \in Addr, gate[id].status = "open",
         NEW r \in AnswerRecord, r.paid = gate[id].answers[c].paid,
         gate' = [gate EXCEPT ![id].answers[c] = r], gateSeq' = gateSeq
  PROVE  \E e : /\ GateBecomes(id, e) /\ SameGate(id, e) /\ OnlyAnswerOf(c, id, e)
                /\ e.answers[c] = r
<1> DEFINE e == [gate[id] EXCEPT !.answers = [gate[id].answers EXCEPT ![c] = r]]
<1>1. gate[id] \in GateRecord /\ gate[id].answers \in [Addr -> AnswerRecord]
  BY GateFields
<1>2. gate' = [gate EXCEPT ![id] = e]
  BY DEF GatesTypeOK
<1>3. [gate[id].answers EXCEPT ![c] = r] \in [Addr -> AnswerRecord]
  BY <1>1
<1>4. e \in GateRecord
  BY <1>1, <1>3 DEF GateRecord
<1>5. /\ e.answers = [gate[id].answers EXCEPT ![c] = r] /\ e.status = "open"
      /\ e.goldAnswer = gate[id].goldAnswer /\ e.drip = gate[id].drip
      /\ e.commitDeadline = gate[id].commitDeadline
  BY <1>1 DEF GateRecord
<1>6. OnlyAnswerOf(c, id, e) /\ SameGate(id, e) /\ e.answers[c] = r
  <2> HIDE DEF e
  <2> QED BY <1>1, <1>5 DEF OnlyAnswerOf, SameGate
<1>7. GateBecomes(id, e)
  <2> HIDE DEF e
  <2> QED BY <1>2, <1>4 DEF GateBecomes
<1> HIDE DEF e
<1> QED
  BY <1>6, <1>7

LEMMA CommitChange ==
  ASSUME GatesTypeOK, NEW id \in DOMAIN gate, NEW c \in Addr, NEW commit \in Commits,
         CommitAnswer(c, id, commit)
  PROVE  \E e : /\ GateBecomes(id, e) /\ SameGate(id, e) /\ OnlyAnswerOf(c, id, e)
                /\ e.answers[c].answer = gate[id].answers[c].answer
<1> DEFINE r == [gate[id].answers[c] EXCEPT !.commit = commit]
<1>1. commit \in Seq(STRING)
  BY GateAssumption DEF CommitAnswer
<1>2. gate[id].answers[c] \in AnswerRecord
  BY GateFields
<1>3. /\ r \in AnswerRecord /\ r.paid = gate[id].answers[c].paid
      /\ r.answer = gate[id].answers[c].answer
  BY <1>1, <1>2 DEF AnswerRecord
<1>4. gate' = [gate EXCEPT ![id].answers[c] = r] /\ gateSeq' = gateSeq
  BY DEF CommitAnswer
<1>5. gate[id].status = "open"
  BY DEF CommitAnswer
<1> HIDE DEF r
<1>6. PICK e : /\ GateBecomes(id, e) /\ SameGate(id, e) /\ OnlyAnswerOf(c, id, e)
               /\ e.answers[c] = r
  BY <1>3, <1>4, <1>5, AnswerChange
<1> QED
  BY <1>3, <1>6

LEMMA RevealChange ==
  ASSUME GatesTypeOK, NEW id \in DOMAIN gate, NEW c \in Addr, NEW answer \in Answers,
         NEW salt, RevealAnswer(c, id, answer, salt)
  PROVE  \E e : /\ GateBecomes(id, e) /\ SameGate(id, e) /\ OnlyAnswerOf(c, id, e)
                /\ e.answers[c].commit = gate[id].answers[c].commit
<1> DEFINE r == [gate[id].answers[c] EXCEPT !.answer = answer]
<1>1. answer \in Seq(STRING)
  BY GateAssumption DEF RevealAnswer
<1>2. gate[id].answers[c] \in AnswerRecord
  BY GateFields
<1>3. /\ r \in AnswerRecord /\ r.paid = gate[id].answers[c].paid
      /\ r.commit = gate[id].answers[c].commit
  BY <1>1, <1>2 DEF AnswerRecord
<1>4. gate' = [gate EXCEPT ![id].answers[c] = r] /\ gateSeq' = gateSeq
  BY DEF RevealAnswer
<1>5. gate[id].status = "open"
  BY DEF RevealAnswer
<1> HIDE DEF r
<1>6. PICK e : /\ GateBecomes(id, e) /\ SameGate(id, e) /\ OnlyAnswerOf(c, id, e)
               /\ e.answers[c] = r
  BY <1>3, <1>4, <1>5, AnswerChange
<1> QED
  BY <1>3, <1>6

(* The new gate has no answers yet.                                        *)
LEMMA PostGateChange ==
  ASSUME TypeOK, GatesTypeOK, NEW c \in Addr, NEW t \in GateTerms, PostGate(c, t)
  PROVE  /\ GatesTypeOK' /\ gateSeq \notin DOMAIN gate
         /\ DOMAIN gate' = DOMAIN gate \cup {gateSeq}
         /\ \A i \in DOMAIN gate : gate'[i] = gate[i]
         /\ gate'[gateSeq].status = "open"
         /\ gate'[gateSeq].answers = [a \in Addr |-> NoAnswer]
<1>1. /\ gateSeq \in Nat /\ DOMAIN gate = 0..(gateSeq - 1) /\ now \in Nat
      /\ gate \in [0..(gateSeq - 1) -> GateRecord]
  BY DEF GatesTypeOK, TypeOK, EscrowsTypeOK
<1>2. /\ t.goldCommit \in Seq(STRING) /\ t.drip \in Nat /\ t.maxAnswers \in Nat
  <2>1. t \in [payloadHash : HashField, goldCommit : Seq(STRING) \cup {BadHash},
               drip : Nat, maxAnswers : Nat]
    BY GateAssumption
  <2>2. t.goldCommit # BadHash
    BY DEF PostGate
  <2> QED BY <2>1, <2>2
<1>3. <<>> \in Seq(STRING)
  OBVIOUS
<1>4. NoAnswer \in AnswerRecord
  BY <1>3 DEF NoAnswer, AnswerRecord, EmptyText
<1> DEFINE r == [poster |-> c, goldCommit |-> t.goldCommit, drip |-> t.drip,
                 maxAnswers |-> t.maxAnswers, commitDeadline |-> now + CommitWindow,
                 revealDeadline |-> now + CommitWindow + RevealWindow, status |-> "open",
                 answers |-> [a \in Addr |-> NoAnswer], goldAnswer |-> EmptyText,
                 consensus |-> EmptyText]
<1>5. now + CommitWindow \in Nat /\ now + CommitWindow + RevealWindow \in Nat
  BY <1>1, GateAssumption
<1>6. r \in GateRecord /\ r.status = "open" /\ r.answers = [a \in Addr |-> NoAnswer]
  BY <1>2, <1>3, <1>4, <1>5 DEF GateRecord, EmptyText
<1>7. gate' = Put(gate, gateSeq, r) /\ gateSeq' = gateSeq + 1
  BY DEF PostGate
<1> HIDE DEF r
<1>8. DOMAIN gate \cup {gateSeq} = 0..gateSeq /\ gateSeq \notin DOMAIN gate
  BY <1>1
<1> QED
  BY <1>1, <1>6, <1>7, <1>8 DEF Put, GatesTypeOK

-----------------------------------------------------------------------------
(* The plurality loop of SettleGate.                                       *)

Support(id, x) == Cardinality(Given(id, x))

LEMMA RevealedFinite ==
  ASSUME GatesTypeOK, NEW id \in DOMAIN gate
  PROVE  /\ IsFiniteSet(RevealedAnswers(id))
         /\ RevealedAnswers(id) \subseteq Seq(STRING)
         /\ EmptyText \notin RevealedAnswers(id)
         /\ \A x : Support(id, x) \in Nat
         /\ \A x \in RevealedAnswers(id) : Support(id, x) # 0
<1>1. IsFiniteSet(Committed(id)) /\ Committed(id) \subseteq Addr
  BY AddrAssumption, FS_Subset DEF Committed
<1> DEFINE all == {gate[id].answers[a].answer : a \in Committed(id)}
           h == [a \in Committed(id) |-> gate[id].answers[a].answer]
<1>2. h \in Surjection(Committed(id), all)
  BY DEF Surjection
<1>3. IsFiniteSet(all)
  <2> HIDE DEF h, all
  <2> QED BY <1>1, <1>2, FS_Surjection
<1>4. IsFiniteSet(RevealedAnswers(id)) /\ EmptyText \notin RevealedAnswers(id)
  BY <1>3, FS_Subset DEF RevealedAnswers
<1>5. RevealedAnswers(id) \subseteq Seq(STRING)
  BY <1>1, GateFields DEF RevealedAnswers
<1>6. \A x : IsFiniteSet(Given(id, x)) /\ Support(id, x) \in Nat
  BY <1>1, FS_Subset, FS_CardinalityType DEF Given, Support
<1>7. ASSUME NEW x \in RevealedAnswers(id) PROVE Support(id, x) # 0
  <2>1. Given(id, x) # {}
    BY DEF RevealedAnswers, Given
  <2> QED BY <1>6, <2>1, FS_EmptySet DEF Support
<1> QED
  BY <1>4, <1>5, <1>6, <1>7

(* Go visits every key of a map once.                                      *)
LEMMA OrderVisitsOnce ==
  ASSUME NEW S, IsFiniteSet(S), NEW order \in Orders(S)
  PROVE  /\ Len(order) \in Nat /\ order \in [1..Len(order) -> S]
         /\ \A x \in S : \E i \in 1..Len(order) : order[i] = x
         /\ \A i, j \in 1..Len(order) : order[i] = order[j] => i = j
<1> DEFINE n == Cardinality(S)
<1>1. n \in Nat
  BY FS_CardinalityType
<1>2. order \in [1..n -> S] /\ \A x \in S : \E i \in 1..n : order[i] = x
  BY DEF Orders
<1> HIDE DEF n
<1>3. order \in Seq(S) /\ Len(order) = n
  BY <1>1, <1>2
<1>4. IsFiniteSet(1..n) /\ Cardinality(1..n) = n
  BY <1>1, FS_Interval
<1>5. order \in Surjection(1..n, S)
  BY <1>2 DEF Surjection
<1>6. order \in Injection(1..n, S)
  BY <1>4, <1>5, FS_SurjSameCardinalityImpliesInj DEF n
<1> QED
  BY <1>1, <1>2, <1>3, <1>6 DEF Injection, IsInjective

Tallies(id) == [answer : RevealedAnswers(id) \cup {EmptyText}, count : Nat, tied : BOOLEAN]

FirstTally == [answer |-> EmptyText, count |-> 0, tied |-> FALSE]

(* What the loop knows after i turns.                                      *)
Leads(id, order, i, best) ==
  /\ best \in Tallies(id)
  /\ i = 0 => best = FirstTally
  /\ \A j \in 1..i : Support(id, order[j]) <= best.count
  /\ i # 0 => \E k \in 1..i :
       /\ best.answer = order[k] /\ Support(id, order[k]) = best.count
       /\ best.tied <=> \E j \in 1..i : j # k /\ Support(id, order[j]) = best.count

LEMMA CountedLeads ==
  ASSUME GatesTypeOK, NEW id \in DOMAIN gate, NEW order \in Orders(RevealedAnswers(id)),
         NEW i \in Nat, i < Len(order), NEW best, Leads(id, order, i, best)
  PROVE  Leads(id, order, i + 1, Counted(best, order[i + 1], Support(id, order[i + 1])))
<1> DEFINE x == order[i + 1]
           v == Support(id, x)
           next == Counted(best, x, v)
<1>1. /\ Len(order) \in Nat /\ order \in [1..Len(order) -> RevealedAnswers(id)]
  BY RevealedFinite, OrderVisitsOnce
<1>2. x \in RevealedAnswers(id)
  BY <1>1
<1>3. v \in Nat \ {0}
  BY <1>2, RevealedFinite
<1>4. best \in Tallies(id) /\ best.count \in Nat /\ best.tied \in BOOLEAN
  BY DEF Leads, Tallies
<1>5. \A j \in 1..(i + 1) : j \in 1..i \/ j = i + 1
  OBVIOUS
<1>6. \A j \in 1..i : Support(id, order[j]) \in Nat /\ Support(id, order[j]) <= best.count
  BY <1>1, RevealedFinite DEF Leads
<1>7. CASE v > best.count
  <2>1. next = [answer |-> x, count |-> v, tied |-> FALSE]
    BY <1>7 DEF Counted
  <2>2. next \in Tallies(id) /\ next.answer = x /\ next.count = v /\ next.tied = FALSE
    BY <1>2, <1>3, <2>1 DEF Tallies
  <2> HIDE DEF next
  <2>3. \A j \in 1..i : Support(id, order[j]) < v
    BY <1>3, <1>4, <1>6, <1>7
  <2>4. \A j \in 1..(i + 1) : Support(id, order[j]) <= v
    BY <1>3, <1>5, <1>6, <2>3
  <2>5. ~ \E j \in 1..(i + 1) : j # i + 1 /\ Support(id, order[j]) = v
    BY <1>3, <1>5, <1>6, <2>3
  <2>6. i + 1 # 0 /\ i + 1 \in 1..(i + 1)
    OBVIOUS
  <2> QED BY <2>2, <2>4, <2>5, <2>6 DEF Leads, next
<1>8. CASE ~(v > best.count)
  <2>1. next = [best EXCEPT !.tied = @ \/ v = best.count]
    BY <1>8 DEF Counted
  <2>2. /\ next \in Tallies(id) /\ next.answer = best.answer /\ next.count = best.count
        /\ next.tied <=> (best.tied \/ v = best.count)
    BY <1>4, <2>1 DEF Tallies
  <2> HIDE DEF next
  <2>3. i # 0
    <3>1. ASSUME i = 0 PROVE FALSE
      <4>1. best.count = 0
        BY <3>1 DEF Leads, FirstTally
      <4> QED BY <1>3, <1>8, <4>1
    <3> QED BY <3>1
  <2>4. PICK k \in 1..i :
          /\ best.answer = order[k] /\ Support(id, order[k]) = best.count
          /\ best.tied <=> \E j \in 1..i : j # k /\ Support(id, order[j]) = best.count
    BY <2>3 DEF Leads
  <2>5. k \in 1..(i + 1) /\ k # i + 1
    OBVIOUS
  <2>6. next.tied <=> \E j \in 1..(i + 1) : j # k /\ Support(id, order[j]) = best.count
    <3>1. 1..i \subseteq 1..(i + 1) /\ i + 1 \in 1..(i + 1)
      OBVIOUS
    <3> QED BY <1>5, <2>2, <2>4, <2>5, <3>1
  <2>7. \A j \in 1..(i + 1) : Support(id, order[j]) <= best.count
    BY <1>3, <1>4, <1>5, <1>6, <1>8
  <2> QED BY <2>2, <2>3, <2>4, <2>5, <2>6, <2>7 DEF Leads, next
<1> QED
  BY <1>7, <1>8

(* The loop's turns, as a function of their number.                        *)
TallyTurns(id, order) ==
  CHOOSE turn : turn =
    [i \in 0..Len(order) |->
       IF i = 0
       THEN [answer |-> EmptyText, count |-> 0, tied |-> FALSE]
       ELSE Counted(turn[i - 1], order[i], Cardinality(Given(id, order[i])))]

LEMMA PluralityIsLast ==
  ASSUME NEW id, NEW order
  PROVE  LET best == TallyTurns(id, order)[Len(order)]
         IN  Plurality(id, order) = IF best.tied THEN EmptyText ELSE best.answer
BY DEF Plurality, TallyTurns

LEMMA LoopLeads ==
  ASSUME GatesTypeOK, NEW id \in DOMAIN gate, NEW order \in Orders(RevealedAnswers(id))
  PROVE  Leads(id, order, Len(order), TallyTurns(id, order)[Len(order)])
<1> DEFINE n == Len(order)
           T == Tallies(id)
           step == [p \in Nat \X T |->
                      IF p[1] < n THEN Counted(p[2], order[p[1] + 1], Support(id, order[p[1] + 1]))
                      ELSE p[2]]
           Eq(t) == t = [i \in 0..n |->
                           IF i = 0 THEN FirstTally
                           ELSE Counted(t[i - 1], order[i], Support(id, order[i]))]
<1>1. n \in Nat /\ order \in [1..n -> RevealedAnswers(id)]
  BY RevealedFinite, OrderVisitsOnce
<1>2. FirstTally \in T
  BY DEF FirstTally, Tallies
<1>3. ASSUME NEW b \in T, NEW i \in Nat, i < n
      PROVE  Counted(b, order[i + 1], Support(id, order[i + 1])) \in T
  <2>1. order[i + 1] \in RevealedAnswers(id) /\ Support(id, order[i + 1]) \in Nat
    BY <1>1, <1>3, RevealedFinite
  <2> QED BY <1>3, <2>1 DEF Counted, Tallies
<1> HIDE DEF n
<1>4. step \in [Nat \X T -> T]
  BY <1>3
<1>5. \A i \in Nat, b \in T :
        i < n => step[<<i, b>>] = Counted(b, order[i + 1], Support(id, order[i + 1]))
  OBVIOUS
<1> HIDE DEF step, T
<1>6. PICK g \in [Nat -> T] : Steps(g, FirstTally, step)
  BY <1>2, <1>4, SequenceExists
<1> DEFINE f == [i \in 0..n |-> g[i]]
<1>7. Eq(f)
  <2>1. ASSUME NEW i \in 0..n
        PROVE  f[i] = IF i = 0 THEN FirstTally
                      ELSE Counted(f[i - 1], order[i], Support(id, order[i]))
    <3>1. CASE i = 0
      BY <1>6, <3>1 DEF Steps
    <3>2. CASE i # 0
      <4>1. /\ i \in Nat /\ i - 1 \in Nat /\ (i - 1) + 1 = i /\ i - 1 < n
            /\ i - 1 \in 0..n
        BY <1>1, <3>2
      <4>2. g[(i - 1) + 1] = step[<<i - 1, g[i - 1]>>] /\ g[i - 1] \in T
        BY <1>6, <4>1 DEF Steps
      <4>3. step[<<i - 1, g[i - 1]>>]
              = Counted(g[i - 1], order[(i - 1) + 1], Support(id, order[(i - 1) + 1]))
        BY <1>5, <4>1, <4>2
      <4> QED BY <3>2, <4>1, <4>2, <4>3
    <3> QED BY <3>1, <3>2
  <2> HIDE DEF f
  <2>2. f = [i \in 0..n |-> f[i]]
    BY DEF f
  <2> QED BY <2>1, <2>2
<1> HIDE DEF f
<1> DEFINE t == TallyTurns(id, order)
<1>8. Eq(t)
  <2>1. \E s : Eq(s)
    BY <1>7
  <2>2. t = CHOOSE s : Eq(s)
    BY DEF TallyTurns, FirstTally, Support, n
  <2> HIDE DEF Eq, t
  <2> QED BY <2>1, <2>2
<1> HIDE DEF t
<1>9. /\ t[0] = FirstTally
      /\ \A i \in Nat : i < n =>
           t[i + 1] = Counted(t[i], order[i + 1], Support(id, order[i + 1]))
  <2>1. t = [i \in 0..n |-> IF i = 0 THEN FirstTally
                            ELSE Counted(t[i - 1], order[i], Support(id, order[i]))]
    BY <1>8
  <2>2. 0 \in 0..n
    BY <1>1
  <2>3. ASSUME NEW i \in Nat, i < n
        PROVE  t[i + 1] = Counted(t[i], order[i + 1], Support(id, order[i + 1]))
    <3>1. i + 1 \in 0..n /\ i + 1 # 0 /\ (i + 1) - 1 = i
      BY <1>1, <2>3
    <3> QED BY <2>1, <3>1
  <2> QED BY <2>1, <2>2, <2>3
<1> DEFINE S == {i \in Nat : Leads(id, order, i, t[i])}
<1>10. 0 \in S
  BY <1>2, <1>9 DEF Leads, T
<1>11. ASSUME NEW i \in Nat, i < n /\ i \in S PROVE i + 1 \in S
  BY <1>9, <1>11, CountedLeads DEF n
<1>12. \A i \in 0..n : i \in S
  <2> HIDE DEF S
  <2> QED BY <1>1, <1>10, <1>11, InductionUpTo
<1> QED
  BY <1>1, <1>12 DEF n, t

(* Whatever the order, the loop finds the plurality.                       *)
LEMMA PluralityFound ==
  ASSUME GatesTypeOK, NEW id \in DOMAIN gate, NEW order \in Orders(RevealedAnswers(id))
  PROVE  /\ IsPlurality(id, Plurality(id, order))
         /\ Plurality(id, order) \in Seq(STRING)
<1> DEFINE S == RevealedAnswers(id)
           n == Len(order)
           best == TallyTurns(id, order)[n]
           w == Plurality(id, order)
           winners == {x \in S : \A y \in S \ {x} : Support(id, x) > Support(id, y)}
<1>1. /\ n \in Nat /\ order \in [1..n -> S]
      /\ \A x \in S : \E i \in 1..n : order[i] = x
      /\ \A i, j \in 1..n : order[i] = order[j] => i = j
  BY RevealedFinite, OrderVisitsOnce
<1>2. Leads(id, order, n, best)
  BY LoopLeads
<1>3. w = IF best.tied THEN EmptyText ELSE best.answer
  BY PluralityIsLast
<1>4. IsPlurality(id, w) <=> IF winners = {} THEN w = EmptyText ELSE w \in winners
  BY DEF IsPlurality, Support
<1>5. <<>> \in Seq(STRING) /\ S \subseteq Seq(STRING)
  BY RevealedFinite
<1>6. \A x : Support(id, x) \in Nat
  BY RevealedFinite
<1> HIDE DEF n, best, S, w
<1>7. best.count \in Nat /\ best.tied \in BOOLEAN
  BY <1>2 DEF Leads, Tallies
<1>8. CASE n = 0
  <2>1. best = FirstTally
    BY <1>2, <1>8 DEF Leads
  <2>2. w = EmptyText
    BY <1>3, <2>1 DEF FirstTally
  <2>3. winners = {}
    BY <1>1, <1>8
  <2> QED BY <1>4, <1>5, <2>2, <2>3 DEF w, EmptyText
<1>9. CASE n # 0
  <2>1. PICK k \in 1..n :
          /\ best.answer = order[k] /\ Support(id, order[k]) = best.count
          /\ best.tied <=> \E j \in 1..n : j # k /\ Support(id, order[j]) = best.count
    BY <1>2, <1>9 DEF Leads
  <2>2. \A j \in 1..n : Support(id, order[j]) <= best.count
    BY <1>2 DEF Leads
  <2>3. order[k] \in S
    BY <1>1
  <2>4. CASE best.tied
    <3>1. PICK j \in 1..n : j # k /\ Support(id, order[j]) = best.count
      BY <2>1, <2>4
    <3>2. order[j] \in S /\ order[j] # order[k]
      BY <1>1, <3>1
    <3>3. ASSUME NEW x \in winners PROVE FALSE
      <4>1. \A y \in S \ {x} : Support(id, x) > Support(id, y)
        OBVIOUS
      <4>2. PICK m \in 1..n : order[m] = x
        BY <1>1
      <4>3. Support(id, x) <= best.count
        BY <2>2, <4>2
      <4>4. CASE x = order[k]
        BY <1>6, <2>1, <3>1, <3>2, <4>1, <4>4
      <4>5. CASE x # order[k]
        <5>1. Support(id, x) > best.count
          BY <2>1, <2>3, <4>1, <4>5
        <5> QED BY <1>6, <1>7, <4>3, <5>1
      <4> QED BY <4>4, <4>5
    <3>4. winners = {}
      BY <3>3
    <3>5. w = EmptyText
      BY <1>3, <2>4
    <3> QED BY <1>4, <1>5, <3>4, <3>5 DEF w, EmptyText
  <2>5. CASE ~best.tied
    <3>1. w = order[k]
      BY <1>3, <2>1, <2>5
    <3>2. ASSUME NEW y \in S \ {order[k]} PROVE Support(id, order[k]) > Support(id, y)
      <4>1. PICK j \in 1..n : order[j] = y
        BY <1>1
      <4>2. j # k /\ Support(id, order[j]) # best.count
        BY <2>1, <2>5, <4>1
      <4> QED BY <1>6, <1>7, <2>1, <2>2, <4>1, <4>2
    <3>3. order[k] \in winners
      BY <2>3, <3>2
    <3> QED BY <1>4, <1>5, <2>3, <3>1, <3>3 DEF w
  <2> QED BY <2>4, <2>5
<1> QED
  BY <1>8, <1>9

-----------------------------------------------------------------------------
(* What the messages of the gates mint.                                    *)

(* Who is settled: the same answers, R marked as paid.                     *)
Settles(id, e, R) ==
  /\ gate[id].status = "open" /\ e.status = "settled"
  /\ \A a \in Addr : /\ e.answers[a].commit = gate[id].answers[a].commit
                     /\ e.answers[a].answer = gate[id].answers[a].answer
                     /\ e.answers[a].paid <=> (gate[id].answers[a].paid \/ a \in R)
  /\ e.goldAnswer = EmptyText => IsPlurality(id, e.consensus)

LEMMA SettleChange ==
  ASSUME GatesTypeOK, NEW id \in DOMAIN gate, NEW goldAnswer \in Answers, NEW salt,
         SettleGate(id, goldAnswer, salt)
  PROVE  \E e, R : /\ R \in SUBSET Committed(id)
                   /\ GateBecomes(id, e) /\ SameGate(id, e) /\ Settles(id, e, R)
                   /\ \/ MintProtocolReward(R, gate[id].drip)
                      \/ R = {} /\ UNCHANGED <<ledgerVars, emission>>
<1>1. PICK order \in Orders(RevealedAnswers(id)) :
        LET winning == IF goldAnswer # EmptyText THEN goldAnswer ELSE Plurality(id, order)
        IN /\ \/ MintProtocolReward(Coherent(id, winning), gate[id].drip)
              \/ /\ Coherent(id, winning) = {}
                 /\ UNCHANGED <<ledgerVars, emission>>
           /\ gate' = [gate EXCEPT ![id] = Settled(id, goldAnswer, winning)]
  BY DEF SettleGate
<1> DEFINE w == IF goldAnswer # EmptyText THEN goldAnswer ELSE Plurality(id, order)
           R == Coherent(id, w)
           e == Settled(id, goldAnswer, w)
           answers == [a \in Addr |-> [gate[id].answers[a] EXCEPT !.paid = @ \/ a \in R]]
<1>2. gate[id].status = "open" /\ gateSeq' = gateSeq
  BY DEF SettleGate, Settleable
<1>3. R \in SUBSET Committed(id)
  BY DEF Coherent, Given
<1>4. goldAnswer \in Seq(STRING) /\ w \in Seq(STRING)
  BY GateAssumption, PluralityFound
<1>5. goldAnswer = EmptyText => IsPlurality(id, w)
  BY PluralityFound
<1>6. e = [gate[id] EXCEPT !.status = "settled", !.goldAnswer = goldAnswer,
                           !.consensus = w, !.answers = answers]
  BY DEF Settled
<1>7. \/ MintProtocolReward(R, gate[id].drip)
      \/ R = {} /\ UNCHANGED <<ledgerVars, emission>>
  BY <1>1
<1>8. gate' = [gate EXCEPT ![id] = e]
  BY <1>1
<1> HIDE DEF w, R, e
<1>9. /\ answers \in [Addr -> AnswerRecord]
      /\ \A a \in Addr : /\ answers[a].commit = gate[id].answers[a].commit
                         /\ answers[a].answer = gate[id].answers[a].answer
                         /\ answers[a].paid <=> (gate[id].answers[a].paid \/ a \in R)
  <2>1. ASSUME NEW a \in Addr
        PROVE  LET r == [gate[id].answers[a] EXCEPT !.paid = @ \/ a \in R]
               IN  /\ r \in AnswerRecord
                   /\ r.commit = gate[id].answers[a].commit
                   /\ r.answer = gate[id].answers[a].answer
                   /\ r.paid <=> (gate[id].answers[a].paid \/ a \in R)
    <3>1. gate[id].answers[a] \in AnswerRecord
      BY GateFields
    <3> QED BY <3>1 DEF AnswerRecord
  <2> QED BY <2>1
<1> HIDE DEF answers
<1>10. gate[id] \in GateRecord
  BY GateFields
<1>11. /\ e \in GateRecord /\ e.status = "settled" /\ e.goldAnswer = goldAnswer
       /\ e.consensus = w /\ e.answers = answers
       /\ e.drip = gate[id].drip /\ e.commitDeadline = gate[id].commitDeadline
  BY <1>4, <1>6, <1>9, <1>10 DEF GateRecord
<1>12. GateBecomes(id, e) /\ SameGate(id, e) /\ Settles(id, e, R)
  BY <1>2, <1>5, <1>8, <1>9, <1>11 DEF GateBecomes, SameGate, Settles
<1> QED
  BY <1>3, <1>7, <1>12

(* An open gate has paid nobody, and answers were revealed after the last  *)
(* commitment.                                                             *)
GateSound(g) ==
  /\ g.status = "open" => \A a \in Addr : ~g.answers[a].paid
  /\ g.commitDeadline <= now
       \/ \A a \in Addr : g.answers[a].answer = EmptyText

GatesSound == \A id \in DOMAIN gate : GateSound(gate[id])

PaidBy(g) == {a \in Addr : g.answers[a].commit # NoHash /\ g.answers[a].paid}

Payouts == [id \in DOMAIN gate |-> GatePayout(id)]

LEMMA PayoutTypes ==
  ASSUME NEW g, g.drip \in Nat
  PROVE  g.drip * Cardinality(PaidBy(g)) \in Nat
<1>1. Cardinality(PaidBy(g)) \in Nat
  BY AddrAssumption, FS_Subset, FS_CardinalityType DEF PaidBy
<1>2. \A i, j \in Nat : i * j \in Nat
  OBVIOUS
<1> QED
  BY <1>1, <1>2

LEMMA PayoutsAre ==
  Payouts = [id \in DOMAIN gate |-> gate[id].drip * Cardinality(PaidBy(gate[id]))]
<1>1. ASSUME NEW id PROVE GatePayout(id) = gate[id].drip * Cardinality(PaidBy(gate[id]))
  <2>1. {a \in Committed(id) : gate[id].answers[a].paid} = PaidBy(gate[id])
    BY DEF Committed, PaidBy
  <2> QED BY <2>1 DEF GatePayout
<1> QED
  BY <1>1 DEF Payouts

LEMMA NextPayoutsAre ==
  Payouts' = [id \in DOMAIN gate' |-> gate'[id].drip * Cardinality(PaidBy(gate'[id]))]
<1>1. ASSUME NEW id
      PROVE  GatePayout(id)' = gate'[id].drip * Cardinality(PaidBy(gate'[id]))
  <2>1. {a \in Committed(id) : gate[id].answers[a].paid}' = PaidBy(gate'[id])
    BY DEF Committed, PaidBy
  <2> QED BY <2>1 DEF GatePayout
<1> QED
  BY <1>1 DEF Payouts

(* An open gate pays nothing yet.                                          *)
LEMMA NothingPaidYet ==
  ASSUME NEW g, \A a \in Addr : ~g.answers[a].paid, g.drip \in Nat
  PROVE  g.drip * Cardinality(PaidBy(g)) = 0
<1>1. PaidBy(g) = {}
  BY DEF PaidBy
<1> QED
  BY <1>1, FS_EmptySet

LEMMA PayoutsTotal ==
  ASSUME GatesTypeOK
  PROVE  /\ IsFiniteSet(DOMAIN gate) /\ Payouts \in [DOMAIN gate -> Nat]
         /\ Total(Payouts) \in Nat
<1>1. IsFiniteSet(DOMAIN gate)
  BY FS_Interval DEF GatesTypeOK
<1>2. Payouts \in [DOMAIN gate -> Nat]
  <2>1. \A id \in DOMAIN gate : gate[id].drip * Cardinality(PaidBy(gate[id])) \in Nat
    BY PayoutTypes, GateFields
  <2> QED BY <2>1, PayoutsAre
<1> QED
  BY <1>1, <1>2, CoinsFinite

(* One gate changes: the payouts change by what it has paid since.         *)
LEMMA PayoutsChange ==
  ASSUME GatesTypeOK, NEW id \in DOMAIN gate, NEW e, GateBecomes(id, e), SameGate(id, e),
         \A a \in Addr : ~gate[id].answers[a].paid
  PROVE  Total(Payouts') = Total(Payouts) + gate[id].drip * Cardinality(PaidBy(e))
<1> DEFINE n == gate[id].drip * Cardinality(PaidBy(e))
           D == DOMAIN gate
<1>1. /\ DOMAIN gate' = D /\ gate'[id] = e /\ \A i \in D \ {id} : gate'[i] = gate[i]
  BY GateBecomesTypes
<1>2. gate[id].drip \in Nat /\ e.drip = gate[id].drip
  BY GateFields DEF SameGate
<1>3. n \in Nat
  BY <1>2, PayoutTypes
<1>4. Payouts[id] = 0
  BY <1>2, NothingPaidYet, PayoutsAre
<1>5. Payouts'[id] = n /\ \A i \in D \ {id} : Payouts'[i] = Payouts[i]
  BY <1>1, <1>2, PayoutsAre, NextPayoutsAre
<1>6. IsFiniteSet(D) /\ Payouts \in [D -> Nat] /\ Total(Payouts) \in Nat
  BY PayoutsTotal
<1>7. Payouts' \in [D -> Nat]
  <2>1. \A i \in D : Payouts'[i] \in Nat
    BY <1>3, <1>5, <1>6
  <2>2. DOMAIN Payouts' = D /\ Payouts' = [i \in D |-> Payouts'[i]]
    BY <1>1, NextPayoutsAre
  <2> QED BY <2>1, <2>2
<1> HIDE DEF n, D
<1>8. id \in D
  BY DEF D
<1>9. Total(Payouts') = Total(Payouts) + n
  <2> DEFINE f == Payouts
             g == Payouts'
  <2>1. /\ f \in [D -> Nat] /\ g \in [D -> Nat] /\ g[id] = f[id] + n
        /\ \A y \in D \ {id} : g[y] = f[y]
    BY <1>3, <1>4, <1>5, <1>6, <1>7
  <2> HIDE DEF f, g
  <2>2. Total(g) = Total(f) + n
    BY <1>3, <1>6, <1>8, <2>1, TotalCredit
  <2> QED BY <2>2 DEF f, g
<1> QED
  BY <1>9 DEF n

(* What a step of the gates keeps, and that it mints what it pays out.     *)
GatesKeep ==
  /\ GatesTypeOK' /\ GatesSound' /\ LivePlurality'
  /\ \E n \in Nat : Mints(n) /\ Total(Payouts') = Total(Payouts) + n

(* A record's plurality depends on its answers alone.                      *)
LEMMA SamePlurality ==
  ASSUME NEW id, NEW w, IsPlurality(id, w),
         \A a \in Addr : /\ gate'[id].answers[a].commit = gate[id].answers[a].commit
                         /\ gate'[id].answers[a].answer = gate[id].answers[a].answer
  PROVE  IsPlurality(id, w)'
<1>1. Committed(id)' = Committed(id) /\ Committed(id) \subseteq Addr
  BY DEF Committed
<1>2. RevealedAnswers(id)' = RevealedAnswers(id)
  BY <1>1 DEF RevealedAnswers
<1>3. \A x : Given(id, x)' = Given(id, x)
  BY <1>1 DEF Given
<1> QED
  BY <1>2, <1>3 DEF IsPlurality

LEMMA OpenGateKept ==
  ASSUME GatesTypeOK, GatesSound, LivePlurality, UNCHANGED now,
         NEW id \in DOMAIN gate, NEW e, GateBecomes(id, e), GateSound(e),
         e.status = "settled" /\ e.goldAnswer = EmptyText => IsPlurality(id, e.consensus)'
  PROVE  GatesTypeOK' /\ GatesSound' /\ LivePlurality'
<1>1. /\ GatesTypeOK' /\ DOMAIN gate' = DOMAIN gate /\ gate'[id] = e
      /\ \A i \in DOMAIN gate \ {id} : gate'[i] = gate[i]
  BY GateBecomesTypes
<1>3. GatesSound'
  <2>1. ASSUME NEW i \in DOMAIN gate' PROVE GateSound(gate[i])'
    <3>1. CASE i = id
      BY <1>1, <3>1 DEF GateSound
    <3>2. CASE i # id
      <4>1. gate'[i] = gate[i] /\ GateSound(gate[i])
        BY <1>1, <3>2 DEF GatesSound
      <4> QED BY <4>1 DEF GateSound
    <3> QED BY <3>1, <3>2
  <2> QED BY <2>1 DEF GatesSound
<1>4. LivePlurality'
  <2> SUFFICES ASSUME NEW i \in DOMAIN gate',
                      gate'[i].status = "settled", gate'[i].goldAnswer = EmptyText
               PROVE  IsPlurality(i, gate[i].consensus)'
    BY DEF LivePlurality
  <2>1. CASE i = id
    <3>1. IsPlurality(id, e.consensus)'
      BY <1>1, <2>1
    <3> QED BY <1>1, <2>1, <3>1 DEF IsPlurality
  <2>2. CASE i # id
    <3>1. gate'[i] = gate[i] /\ IsPlurality(i, gate[i].consensus)
      BY <1>1, <2>2 DEF LivePlurality
    <3>2. IsPlurality(i, gate[i].consensus) => IsPlurality(i, gate'[i].consensus)
      BY <3>1
    <3>3. Committed(i)' = Committed(i)
      BY <3>1 DEF Committed
    <3>4. RevealedAnswers(i)' = RevealedAnswers(i)
      BY <3>1, <3>3 DEF RevealedAnswers
    <3>5. \A x : Given(i, x)' = Given(i, x)
      BY <3>1, <3>3 DEF Given
    <3> QED BY <3>1, <3>4, <3>5 DEF IsPlurality
  <2> QED BY <2>1, <2>2
<1> QED
  BY <1>1, <1>3, <1>4

(* The state in which a step of the gates is taken.                        *)
GatesBefore ==
  /\ TypeOK /\ SoundEmission(emission) /\ UnregisteredHoldNothing
  /\ GatesTypeOK /\ GatesSound /\ LivePlurality

LEMMA PostGateKeeps ==
  ASSUME GatesBefore, UNCHANGED marketRest, NEW c \in Addr, NEW t \in GateTerms, PostGate(c, t)
  PROVE  GatesKeep
<1> USE DEF GatesBefore
<1>1. /\ GatesTypeOK' /\ gateSeq \notin DOMAIN gate
      /\ DOMAIN gate' = DOMAIN gate \cup {gateSeq}
      /\ \A i \in DOMAIN gate : gate'[i] = gate[i]
      /\ gate'[gateSeq].status = "open"
      /\ gate'[gateSeq].answers = [a \in Addr |-> NoAnswer]
  BY PostGateChange
<1>2. now' = now /\ UNCHANGED <<ledgerVars, emission>>
  BY DEF PostGate, marketRest, escrowVars
<1>3. \A a \in Addr : ~gate'[gateSeq].answers[a].paid
                      /\ gate'[gateSeq].answers[a].answer = EmptyText
  BY <1>1 DEF NoAnswer
<1>4. GatesSound'
  <2>1. ASSUME NEW i \in DOMAIN gate' PROVE GateSound(gate[i])'
    <3>1. CASE i = gateSeq
      BY <1>3, <3>1 DEF GateSound
    <3>2. CASE i \in DOMAIN gate
      <4>1. gate'[i] = gate[i] /\ GateSound(gate[i])
        BY <1>1, <3>2 DEF GatesSound
      <4> QED BY <1>2, <4>1 DEF GateSound
    <3> QED BY <1>1, <3>1, <3>2
  <2> QED BY <2>1 DEF GatesSound
<1>5. LivePlurality'
  <2> SUFFICES ASSUME NEW i \in DOMAIN gate',
                      gate'[i].status = "settled", gate'[i].goldAnswer = EmptyText
               PROVE  IsPlurality(i, gate[i].consensus)'
    BY DEF LivePlurality
  <2>1. i \in DOMAIN gate /\ gate'[i] = gate[i]
    BY <1>1
  <2>2. IsPlurality(i, gate[i].consensus)
    BY <2>1 DEF LivePlurality
  <2>3. Committed(i)' = Committed(i)
    BY <2>1 DEF Committed
  <2>4. RevealedAnswers(i)' = RevealedAnswers(i)
    BY <2>1, <2>3 DEF RevealedAnswers
  <2>5. \A x : Given(i, x)' = Given(i, x)
    BY <2>1, <2>3 DEF Given
  <2> QED BY <2>1, <2>2, <2>4, <2>5 DEF IsPlurality
<1>6. Mints(0)
  BY <1>2, NothingMinted DEF TypeOK
<1>7. Total(Payouts') = Total(Payouts) + 0
  <2> DEFINE D == DOMAIN gate
             f == Payouts
             g == Payouts'
  <2>1. IsFiniteSet(D) /\ f \in [D -> Nat] /\ Total(f) \in Nat
    BY PayoutsTotal
  <2>2. gate'[gateSeq].drip \in Nat
    BY <1>1 DEF GatesTypeOK, GateRecord
  <2>3. g[gateSeq] = 0
    BY <1>1, <1>3, <2>2, NothingPaidYet, NextPayoutsAre
  <2>4. DOMAIN g = D \cup {gateSeq} /\ \A i \in D : g[i] = f[i]
    BY <1>1, PayoutsAre, NextPayoutsAre
  <2>5. g \in [D \cup {gateSeq} -> Nat]
    <3>1. g = [i \in D \cup {gateSeq} |-> g[i]]
      BY <1>1, NextPayoutsAre
    <3>2. \A i \in D \cup {gateSeq} : g[i] \in Nat
      BY <2>1, <2>3, <2>4
    <3> HIDE DEF g, f, D
    <3> QED BY <3>1, <3>2
  <2>6. gateSeq \notin D
    BY <1>1
  <2> DEFINE x == gateSeq
  <2>7. x \notin D /\ g \in [D \cup {x} -> Nat] /\ g[x] = 0
    BY <2>3, <2>5, <2>6
  <2> HIDE DEF D, f, g, x
  <2>8. Total(g) = Total(f) + g[x]
    BY <2>1, <2>4, <2>7, TotalExtend
  <2> QED BY <2>7, <2>8 DEF f, g
<1> QED
  BY <1>1, <1>4, <1>5, <1>6, <1>7 DEF GatesKeep

(* A commitment or a revelation, in an open gate.                          *)
LEMMA AnswerKeeps ==
  ASSUME GatesBefore, UNCHANGED marketRest, UNCHANGED <<ledgerVars, emission>>,
         NEW id \in DOMAIN gate, gate[id].status = "open",
         NEW c \in Addr, NEW e, GateBecomes(id, e), SameGate(id, e), OnlyAnswerOf(c, id, e),
         \/ gate[id].commitDeadline <= now
         \/ e.answers[c].answer = EmptyText
  PROVE  GatesKeep
<1> USE DEF GatesBefore
<1>1. now' = now
  BY DEF marketRest, escrowVars
<1>2. \A a \in Addr : ~gate[id].answers[a].paid
  BY DEF GatesSound, GateSound
<1>3. \A a \in Addr : ~e.answers[a].paid
  BY <1>2 DEF OnlyAnswerOf
<1>4. gate[id].commitDeadline \in Nat /\ gate[id].drip \in Nat /\ now \in Nat
  BY GateFields DEF TypeOK, EscrowsTypeOK
<1>5. GateSound(e)
  <2>1. CASE gate[id].commitDeadline <= now
    BY <1>3, <2>1 DEF GateSound, SameGate
  <2>2. CASE ~(gate[id].commitDeadline <= now) /\ e.answers[c].answer = EmptyText
    <3>1. \A a \in Addr \ {c} : e.answers[a].answer = EmptyText
      BY <2>2 DEF OnlyAnswerOf, GatesSound, GateSound
    <3> QED BY <1>3, <2>2, <3>1 DEF GateSound
  <2> QED BY <2>1, <2>2
<1>6. GatesTypeOK' /\ GatesSound' /\ LivePlurality'
  BY <1>1, <1>5, OpenGateKept DEF OnlyAnswerOf
<1>7. Total(Payouts') = Total(Payouts) + 0
  <2>1. Total(Payouts') = Total(Payouts) + gate[id].drip * Cardinality(PaidBy(e))
    BY <1>2, PayoutsChange
  <2>2. e.drip * Cardinality(PaidBy(e)) = 0 /\ e.drip = gate[id].drip
    BY <1>3, <1>4, NothingPaidYet DEF SameGate
  <2> QED BY <2>1, <2>2
<1>8. Mints(0)
  BY NothingMinted DEF TypeOK
<1> QED
  BY <1>6, <1>7, <1>8 DEF GatesKeep

LEMMA SettleKeeps ==
  ASSUME GatesBefore, UNCHANGED marketRest, NEW id \in DOMAIN gate, NEW goldAnswer \in Answers,
         NEW salt, SettleGate(id, goldAnswer, salt)
  PROVE  GatesKeep
<1> USE DEF GatesBefore
<1>1. now' = now
  BY DEF marketRest, escrowVars
<1>2. PICK e, R : /\ R \in SUBSET Committed(id)
                  /\ GateBecomes(id, e) /\ SameGate(id, e) /\ Settles(id, e, R)
                  /\ \/ MintProtocolReward(R, gate[id].drip)
                     \/ R = {} /\ UNCHANGED <<ledgerVars, emission>>
  BY SettleChange
<1>3. \A a \in Addr : ~gate[id].answers[a].paid
  BY <1>2 DEF GatesSound, GateSound, Settles
<1>4. gate[id].drip \in Nat
  BY GateFields
<1>5. R \in SUBSET Addr /\ PaidBy(e) = R
  BY <1>2, <1>3 DEF Committed, PaidBy, Settles
<1>6. GateSound(e)
  BY <1>2 DEF GatesSound, GateSound, Settles, SameGate
<1>7. gate'[id] = e
  BY <1>2, GateBecomesTypes
<1>8. e.status = "settled" /\ e.goldAnswer = EmptyText => IsPlurality(id, e.consensus)'
  BY <1>2, <1>7, SamePlurality DEF Settles
<1>9. GatesTypeOK' /\ GatesSound' /\ LivePlurality'
  BY <1>1, <1>2, <1>6, <1>8, OpenGateKept
<1> DEFINE n == gate[id].drip * Cardinality(R)
<1>10. Total(Payouts') = Total(Payouts) + n
  BY <1>2, <1>3, <1>5, PayoutsChange
<1>11. n \in Nat /\ Mints(n)
  <2>1. CASE MintProtocolReward(R, gate[id].drip)
    BY <1>4, <1>5, <2>1, MintEffect DEF TypeOK
  <2>2. CASE R = {} /\ UNCHANGED <<ledgerVars, emission>>
    <3>1. n = 0
      BY <1>4, <2>2, FS_EmptySet
    <3>2. Mints(0)
      BY <2>2, NothingMinted DEF TypeOK
    <3> QED BY <3>1, <3>2
  <2> QED BY <1>2, <2>1, <2>2
<1> HIDE DEF n
<1> QED
  BY <1>9, <1>10, <1>11 DEF GatesKeep

LEMMA GatesNextKeeps ==
  ASSUME GatesBefore, UNCHANGED marketRest, GatesNext
  PROVE  GatesKeep
<1>1. CASE \E a \in Addr, t \in GateTerms : PostGate(a, t)
  BY <1>1, PostGateKeeps
<1>2. ASSUME NEW id \in DOMAIN gate, NEW a \in Addr, NEW commit \in Commits,
             CommitAnswer(a, id, commit)
      PROVE  GatesKeep
  <2>1. PICK e : /\ GateBecomes(id, e) /\ SameGate(id, e) /\ OnlyAnswerOf(a, id, e)
                 /\ e.answers[a].answer = gate[id].answers[a].answer
    BY <1>2, CommitChange DEF GatesBefore
  <2>2. gate[id].status = "open" /\ a \notin Committed(id) /\ UNCHANGED <<ledgerVars, emission>>
    BY <1>2 DEF CommitAnswer, MayAnswer
  <2>3. gate[id].answers[a].answer = EmptyText \/ gate[id].commitDeadline <= now
    BY DEF GatesBefore, GatesSound, GateSound
  <2> QED BY <2>1, <2>2, <2>3, AnswerKeeps
<1>3. ASSUME NEW id \in DOMAIN gate, NEW a \in Addr, NEW answer \in Answers, NEW salt \in Salts,
             RevealAnswer(a, id, answer, salt)
      PROVE  GatesKeep
  <2>1. PICK e : GateBecomes(id, e) /\ SameGate(id, e) /\ OnlyAnswerOf(a, id, e)
    BY <1>3, RevealChange DEF GatesBefore
  <2>2. /\ gate[id].status = "open" /\ gate[id].commitDeadline <= now
        /\ UNCHANGED <<ledgerVars, emission>>
    BY <1>3 DEF RevealAnswer, RevealsOpen
  <2> QED BY <2>1, <2>2, AnswerKeeps
<1>4. ASSUME NEW id \in DOMAIN gate, NEW answer \in Answers, NEW salt \in Salts,
             SettleGate(id, answer, salt)
      PROVE  GatesKeep
  BY <1>4, SettleKeeps
<1> QED
  BY <1>1, <1>2, <1>3, <1>4 DEF GatesNext

-----------------------------------------------------------------------------
(* The awards.                                                             *)

AwardAmounts == [id \in DOMAIN award |-> award[id].amount]

AwardsKeep ==
  /\ AwardsTypeOK' /\ ArtifactPaidOnce'
  /\ \E n \in Nat : Mints(n) /\ Total(AwardAmounts') = Total(AwardAmounts) + n

LEMMA AwardsTotal ==
  ASSUME AwardsTypeOK
  PROVE  /\ IsFiniteSet(DOMAIN award) /\ AwardAmounts \in [DOMAIN award -> Nat]
         /\ Total(AwardAmounts) \in Nat
<1>1. IsFiniteSet(DOMAIN award)
  BY FS_Interval DEF AwardsTypeOK
<1>2. AwardAmounts \in [DOMAIN award -> Nat]
  BY DEF AwardsTypeOK, AwardRecord, AwardAmounts
<1> QED
  BY <1>1, <1>2, CoinsFinite

LEMMA AwardsNextKeeps ==
  ASSUME TypeOK, SoundEmission(emission), UnregisteredHoldNothing, AwardsTypeOK,
         ArtifactPaidOnce, AwardsNext
  PROVE  AwardsKeep
<1>1. PICK c \in Addr, t \in AwardTerms : AwardContribution(c, t)
  BY DEF AwardsNext
<1>2. t \in AwardTerm
  BY AwardAssumption
<1>3. t.recipient \in Addr /\ t.amount \in Nat
  BY <1>2 DEF AwardTerm
<1>4. t.artifact \in Digest
  BY <1>1 DEF AwardContribution, ProperEvidence, IsHexSHA256
<1> DEFINE r == [anchor |-> c, recipient |-> t.recipient, amount |-> t.amount,
                 artifact |-> t.artifact]
           D == DOMAIN award
           x == awardSeq
<1>5. award' = Put(award, x, r) /\ awardSeq' = x + 1
  BY <1>1 DEF AwardContribution
<1>6. r \in AwardRecord /\ r.amount = t.amount /\ r.artifact = t.artifact
  BY <1>3, <1>4 DEF AwardRecord
<1>7. x \in Nat /\ D = 0..(x - 1) /\ award \in [D -> AwardRecord]
  BY DEF AwardsTypeOK
<1>8. MintProtocolReward({t.recipient}, t.amount)
  BY <1>1 DEF AwardContribution
<1>9. \A id \in D : award[id].artifact # t.artifact
  BY <1>1 DEF AwardContribution, NotAwarded
<1>10. {t.recipient} \in SUBSET Addr /\ Cardinality({t.recipient}) = 1
  BY <1>3, FS_Singleton
<1>11. Mints(t.amount)
  <2>1. Mints(t.amount * Cardinality({t.recipient}))
    BY <1>3, <1>8, <1>10, MintEffect DEF TypeOK
  <2>2. t.amount * Cardinality({t.recipient}) = t.amount
    BY <1>3, <1>10
  <2> QED BY <2>1, <2>2
<1> HIDE DEF r
<1>12. /\ x \notin D /\ DOMAIN award' = D \cup {x} /\ award'[x] = r
       /\ \A i \in D : award'[i] = award[i]
  BY <1>5, <1>7 DEF Put
<1>13. AwardsTypeOK'
  <2>1. D \cup {x} = 0..((x + 1) - 1) /\ x + 1 \in Nat
    BY <1>7
  <2> QED BY <1>5, <1>6, <1>7, <2>1 DEF AwardsTypeOK, Put
<1>14. ArtifactPaidOnce'
  BY <1>6, <1>9, <1>12 DEF ArtifactPaidOnce
<1>15. Total(AwardAmounts') = Total(AwardAmounts) + t.amount
  <2> DEFINE f == AwardAmounts
             g == AwardAmounts'
  <2>1. IsFiniteSet(D) /\ f \in [D -> Nat]
    BY AwardsTotal
  <2>2. g[x] = t.amount /\ \A i \in D : g[i] = f[i]
    BY <1>6, <1>12 DEF AwardAmounts
  <2>3. g \in [D \cup {x} -> Nat]
    BY <1>3, <1>6, <1>7, <1>12 DEF AwardAmounts, AwardRecord
  <2> HIDE DEF f, g, D, x
  <2>4. Total(g) = Total(f) + g[x]
    BY <1>12, <2>1, <2>2, <2>3, TotalExtend
  <2> QED BY <2>2, <2>4 DEF f, g
<1> QED
  BY <1>3, <1>11, <1>13, <1>14, <1>15 DEF AwardsKeep

-----------------------------------------------------------------------------
(* The vouches.                                                            *)

VouchersRegistered == \A id \in DOMAIN vouch : IsRegistered(vouch[id].from)

VouchesBefore ==
  /\ LedgerTypeOK /\ UnregisteredHoldNothing /\ VouchesTypeOK /\ VouchersRegistered
  /\ OneVouchPerPair /\ EvidenceCountsOnce

(* What a step of the vouches keeps, and that stakes move from balances to *)
(* edges and back.                                                         *)
VouchesKeep ==
  /\ account' = account /\ LedgerTypeOK' /\ UnregisteredHoldNothing'
  /\ VouchesTypeOK' /\ VouchersRegistered' /\ OneVouchPerPair' /\ EvidenceCountsOnce'
  /\ Total(balance') + Total(VouchStake') = Total(balance) + Total(VouchStake)

LEMMA VouchTotal ==
  ASSUME VouchesTypeOK
  PROVE  /\ IsFiniteSet(DOMAIN vouch) /\ DOMAIN vouch \subseteq Nat
         /\ VouchStake \in [DOMAIN vouch -> Nat] /\ Total(VouchStake) \in Nat
         /\ \A id \in DOMAIN vouch : /\ vouch[id] \in VouchRecord
                                     /\ vouch[id].from \in Addr /\ vouch[id].stake \in Nat
<1>1. vouchSeq \in Nat /\ DOMAIN vouch \subseteq 0..(vouchSeq - 1)
  BY DEF VouchesTypeOK
<1>2. IsFiniteSet(DOMAIN vouch) /\ DOMAIN vouch \subseteq Nat
  <2>1. IsFiniteSet(0..(vouchSeq - 1))
    BY <1>1, FS_Interval
  <2> QED BY <1>1, <2>1, FS_Subset
<1>3. \A id \in DOMAIN vouch : /\ vouch[id] \in VouchRecord
                               /\ vouch[id].from \in Addr /\ vouch[id].stake \in Nat
  BY DEF VouchesTypeOK, VouchRecord
<1>4. VouchStake \in [DOMAIN vouch -> Nat]
  BY <1>3 DEF VouchStake
<1> QED
  BY <1>2, <1>3, <1>4, CoinsFinite

(* The walk finds a vouch of the pair if there is one.                     *)
LEMMA VouchForFound ==
  ASSUME VouchesTypeOK, NEW c, NEW a, VouchesFor(c, a) # {}
  PROVE  /\ VouchFor(c, a) \in DOMAIN vouch
         /\ vouch[VouchFor(c, a)].from = c /\ vouch[VouchFor(c, a)].to = a
<1>1. VouchesFor(c, a) \in SUBSET Nat
  BY VouchTotal DEF VouchesFor
<1>2. \E id \in VouchesFor(c, a) : \A j \in VouchesFor(c, a) : id <= j
  BY <1>1, LeastNatural
<1>3. VouchFor(c, a) \in VouchesFor(c, a)
  BY <1>2 DEF VouchFor
<1> QED
  BY <1>3 DEF VouchesFor

(* The voucher gets the old stake back and pays the new one.               *)
Restakes(c, old, new) ==
  balance[c] + old >= new /\ balance' = [balance EXCEPT ![c] = @ + old - new]

LEMMA StakeMoves ==
  ASSUME LedgerTypeOK, NEW c \in Addr, NEW old \in Nat, NEW new \in Nat,
         Restakes(c, old, new)
  PROVE  /\ balance' \in [Addr -> Nat] /\ Total(balance') \in Nat /\ Total(balance) \in Nat
         /\ Total(balance') + new = Total(balance) + old
<1>1. balance \in [Addr -> Nat] /\ balance[c] + old - new \in Nat
  BY DEF LedgerTypeOK, Restakes
<1>2. /\ balance' \in [Addr -> Nat] /\ balance'[c] = balance[c] + old - new
      /\ \A y \in Addr \ {c} : balance'[y] = balance[y]
  BY <1>1 DEF Restakes
<1>3. Total(balance') + balance[c] = Total(balance) + balance'[c]
  <2> DEFINE f == balance
             g == balance'
  <2> HIDE DEF f, g
  <2>1. f \in [Addr -> Nat] /\ g \in [Addr -> Nat] /\ \A y \in Addr \ {c} : g[y] = f[y]
    BY <1>1, <1>2 DEF f, g
  <2>2. Total(g) + f[c] = Total(f) + g[c]
    BY <2>1, AddrAssumption, TotalUpdate
  <2> QED BY <2>2 DEF f, g
<1>4. Total(balance) \in Nat /\ Total(balance') \in Nat /\ balance[c] \in Nat
  BY <1>1, <1>2, AddrAssumption, CoinsFinite
<1> QED
  BY <1>2, <1>3, <1>4

LEMMA CastvouchKeeps ==
  ASSUME VouchesBefore, NEW c \in Addr, NEW t \in VouchTerms, Castvouch(c, t)
  PROVE  VouchesKeep
<1> USE DEF VouchesBefore
<1> DEFINE to == t.to
           old == OldStake(c, t.to)
           new == t.stake
           entry == [from |-> c, to |-> t.to, weight |-> t.weight, stake |-> t.stake]
           D == DOMAIN vouch
           f == VouchStake
           g == VouchStake'
<1>1. to \in Addr /\ new \in Nat /\ t.weight \in Nat
  BY VouchAssumption
<1>2. entry \in VouchRecord /\ entry.from = c /\ entry.to = to /\ entry.stake = new
  BY <1>1 DEF VouchRecord
<1>3. old \in Nat
  BY VouchTotal, VouchForFound DEF OldStake
<1>4. /\ account' = account /\ evidence' = evidence /\ account[c] = "registered"
      /\ balance[c] + old >= new /\ balance' = [balance EXCEPT ![c] = @ + old - new]
  BY DEF Castvouch
<1>5. \/ /\ VouchesFor(c, to) # {}
         /\ vouch' = [vouch EXCEPT ![VouchFor(c, to)] = entry] /\ vouchSeq' = vouchSeq
      \/ /\ VouchesFor(c, to) = {}
         /\ vouch' = Put(vouch, vouchSeq, entry) /\ vouchSeq' = vouchSeq + 1
  BY DEF Castvouch
<1>6. IsFiniteSet(D) /\ f \in [D -> Nat] /\ Total(f) \in Nat /\ D \subseteq Nat
  BY VouchTotal
<1>7. /\ vouchSeq \in Nat /\ D \subseteq 0..(vouchSeq - 1) /\ vouch \in [D -> VouchRecord]
      /\ evidence \in Seq(EvidenceRecord)
  BY DEF VouchesTypeOK
<1> HIDE DEF old, entry, to, new
<1>8. /\ balance' \in [Addr -> Nat] /\ Total(balance') \in Nat /\ Total(balance) \in Nat
      /\ Total(balance') + new = Total(balance) + old
  <2>1. LedgerTypeOK
    OBVIOUS
  <2>2. Restakes(c, old, new)
    BY <1>4 DEF Restakes
  <2> QED BY <1>1, <1>3, <2>1, <2>2, StakeMoves
<1>9. LedgerTypeOK' /\ UnregisteredHoldNothing'
  BY <1>4, <1>8 DEF LedgerTypeOK, UnregisteredHoldNothing
<1>10. EvidenceCountsOnce'
  BY <1>4 DEF EvidenceCountsOnce
<1>11. CASE VouchesFor(c, to) # {}
  <2> DEFINE x == VouchFor(c, to)
  <2>1. x \in D /\ vouch[x].from = c /\ vouch[x].to = to
    BY <1>11, VouchForFound
  <2>2. vouch' = [vouch EXCEPT ![x] = entry] /\ vouchSeq' = vouchSeq
    BY <1>5, <1>11
  <2>3. old = f[x]
    BY <1>11, <2>1 DEF OldStake, VouchStake, old, to
  <2> HIDE DEF x
  <2>4. /\ DOMAIN vouch' = D /\ vouch'[x] = entry
        /\ \A i \in D \ {x} : vouch'[i] = vouch[i]
    BY <1>7, <2>1, <2>2
  <2>5. VouchesTypeOK'
    BY <1>2, <1>4, <1>7, <2>1, <2>2 DEF VouchesTypeOK
  <2>6. VouchersRegistered'
    BY <1>2, <1>4, <2>4 DEF VouchersRegistered, IsRegistered
  <2>7. OneVouchPerPair'
    <3>1. \A i \in D : vouch'[i].from = vouch[i].from /\ vouch'[i].to = vouch[i].to
      BY <1>2, <2>1, <2>4
    <3> QED BY <2>4, <3>1 DEF OneVouchPerPair
  <2>8. g[x] = new /\ \A i \in D \ {x} : g[i] = f[i]
    BY <1>2, <2>1, <2>4 DEF VouchStake
  <2>9. g \in [D -> Nat]
    BY <1>1, <1>2, <1>7, <2>4 DEF VouchStake, VouchRecord
  <2> HIDE DEF D, f, g
  <2>10. Total(g) + f[x] = Total(f) + g[x]
    BY <1>6, <2>1, <2>8, <2>9, TotalUpdate
  <2>11. Total(g) \in Nat
    BY <1>6, <2>9, CoinsFinite
  <2>12. Total(balance') + Total(g) = Total(balance) + Total(f)
    BY <1>1, <1>3, <1>6, <1>8, <2>3, <2>8, <2>10, <2>11
  <2> QED BY <1>4, <1>9, <1>10, <2>5, <2>6, <2>7, <2>12 DEF VouchesKeep, f, g
<1>12. CASE VouchesFor(c, to) = {}
  <2> DEFINE x == vouchSeq
  <2>1. vouch' = Put(vouch, x, entry) /\ vouchSeq' = x + 1
    BY <1>5, <1>12
  <2>2. old = 0
    BY <1>12 DEF OldStake, old, to
  <2>3. /\ x \notin D /\ DOMAIN vouch' = D \cup {x} /\ vouch'[x] = entry
        /\ \A i \in D : vouch'[i] = vouch[i]
    BY <1>7, <2>1 DEF Put
  <2>4. VouchesTypeOK'
    <3>1. D \cup {x} \subseteq 0..((x + 1) - 1) /\ x + 1 \in Nat
      BY <1>7
    <3> QED BY <1>2, <1>4, <1>7, <2>1, <3>1 DEF VouchesTypeOK, Put
  <2>5. VouchersRegistered'
    BY <1>2, <1>4, <2>3 DEF VouchersRegistered, IsRegistered
  <2>6. \A i \in D : ~(vouch[i].from = c /\ vouch[i].to = to)
    BY <1>12 DEF VouchesFor
  <2>7. OneVouchPerPair'
    BY <1>2, <2>3, <2>6 DEF OneVouchPerPair
  <2>8. g[x] = new /\ \A i \in D : g[i] = f[i]
    BY <1>2, <2>3 DEF VouchStake
  <2>9. g \in [D \cup {x} -> Nat]
    BY <1>1, <1>2, <1>7, <2>3 DEF VouchStake, VouchRecord
  <2> HIDE DEF D, f, g, x
  <2>10. Total(g) = Total(f) + g[x]
    BY <1>6, <2>3, <2>8, <2>9, TotalExtend
  <2>11. Total(balance') + Total(g) = Total(balance) + Total(f)
    BY <1>1, <1>3, <1>6, <1>8, <2>2, <2>8, <2>10
  <2> QED BY <1>4, <1>9, <1>10, <2>4, <2>5, <2>7, <2>11 DEF VouchesKeep, f, g
<1> QED
  BY <1>11, <1>12

(* Only a registered account has a vouch to withdraw.                      *)
LEMMA UnvouchKeeps ==
  ASSUME VouchesBefore, NEW c \in Addr, NEW a \in Addr, Unvouch(c, a)
  PROVE  VouchesKeep
<1> USE DEF VouchesBefore
<1> DEFINE x == VouchFor(c, a)
           D == DOMAIN vouch
           f == VouchStake
           g == VouchStake'
<1>1. x \in D /\ vouch[x].from = c
  BY VouchForFound DEF Unvouch
<1>2. account[c] = "registered"
  BY <1>1 DEF VouchersRegistered, IsRegistered
<1>3. /\ balance' = Credited(balance, c, vouch[x].stake) /\ vouch' = Removed(vouch, x)
      /\ account' = account /\ vouchSeq' = vouchSeq /\ evidence' = evidence
  BY DEF Unvouch
<1> HIDE DEF x
<1>4. IsFiniteSet(D) /\ f \in [D -> Nat] /\ Total(f) \in Nat
  BY VouchTotal
<1>5. vouch[x].stake \in Nat /\ f[x] = vouch[x].stake
  BY <1>1, VouchTotal DEF VouchStake
<1>6. balance \in [Addr -> Nat] /\ Total(balance) \in Nat
  BY AddrAssumption, CoinsFinite DEF LedgerTypeOK
<1>7. balance' \in [Addr -> Nat] /\ Total(balance') = Total(balance) + vouch[x].stake
  BY <1>3, <1>5, <1>6, CreditTotal
<1>8. DOMAIN vouch' = D \ {x} /\ \A i \in D \ {x} : vouch'[i] = vouch[i]
  BY <1>3 DEF Removed
<1>9. LedgerTypeOK' /\ UnregisteredHoldNothing'
  BY <1>2, <1>3, <1>6, <1>7 DEF LedgerTypeOK, UnregisteredHoldNothing, Credited
<1>10. VouchesTypeOK'
  BY <1>3 DEF VouchesTypeOK, Removed
<1>11. VouchersRegistered' /\ OneVouchPerPair' /\ EvidenceCountsOnce'
  BY <1>3, <1>8 DEF VouchersRegistered, OneVouchPerPair, EvidenceCountsOnce, IsRegistered
<1>12. g = [y \in D \ {x} |-> f[y]]
  BY <1>8 DEF VouchStake
<1> HIDE DEF D, f, g
<1>13. Total(g) \in Nat /\ Total(f) = Total(g) + f[x]
  BY <1>1, <1>4, <1>12, TotalRemove
<1>14. Total(balance') + Total(g) = Total(balance) + Total(f)
  BY <1>5, <1>6, <1>7, <1>13
<1> QED
  BY <1>3, <1>9, <1>10, <1>11, <1>14 DEF VouchesKeep, f, g

LEMMA EvidenceKeeps ==
  ASSUME VouchesBefore, NEW c \in Addr, NEW t \in EvidenceTerms, CastScopedEvidenceVouch(c, t)
  PROVE  VouchesKeep
<1> USE DEF VouchesBefore
<1> DEFINE r == [issuer |-> c, recipient |-> t.recipient, scope |-> t.scope,
                 artifact |-> t.artifact, evidence |-> t.evidence]
           n == Len(evidence)
<1>1. t \in EvidenceTerm
  BY VouchAssumption
<1>2. /\ account' = account /\ balance' = balance /\ vouch' = vouch /\ vouchSeq' = vouchSeq
      /\ evidence' = Append(evidence, r) /\ t.artifact \in Digest /\ t.evidence \in Digest
  BY DEF CastScopedEvidenceVouch, ledgerVars, IsHexSHA256
<1>3. r \in EvidenceRecord
  BY <1>1, <1>2 DEF EvidenceRecord, EvidenceTerm
<1>4. \A i \in DOMAIN evidence : evidence[i] # r
  <2>1. NotStated(c, t)
    BY DEF CastScopedEvidenceVouch
  <2> QED BY <2>1 DEF NotStated
<1>5. evidence \in Seq(EvidenceRecord) /\ n \in Nat /\ DOMAIN evidence = 1..n
  BY DEF VouchesTypeOK
<1> HIDE DEF r
<1>6. evidence' \in Seq(EvidenceRecord)
  BY <1>2, <1>3, <1>5
<1>7. /\ DOMAIN evidence' = 1..(n + 1) /\ evidence'[n + 1] = r
      /\ \A i \in 1..n : evidence'[i] = evidence[i]
  BY <1>2, <1>3, <1>5
<1>8. EvidenceCountsOnce'
  <2> SUFFICES ASSUME NEW i \in 1..(n + 1), NEW j \in 1..(n + 1), evidence'[i] = evidence'[j]
               PROVE  i = j
    BY <1>7 DEF EvidenceCountsOnce
  <2> HIDE DEF n
  <2>1. CASE i \in 1..n /\ j \in 1..n
    BY <1>5, <1>7, <2>1 DEF EvidenceCountsOnce
  <2>2. (i \in 1..n \/ i = n + 1) /\ (j \in 1..n \/ j = n + 1)
    BY <1>5
  <2> QED BY <1>4, <1>5, <1>7, <2>1, <2>2
<1>9. VouchesTypeOK' /\ VouchersRegistered' /\ OneVouchPerPair'
  BY <1>2, <1>6 DEF VouchesTypeOK, VouchersRegistered, OneVouchPerPair, IsRegistered
<1>10. LedgerTypeOK' /\ UnregisteredHoldNothing'
  BY <1>2 DEF LedgerTypeOK, UnregisteredHoldNothing
<1>11. VouchStake' = VouchStake
  BY <1>2 DEF VouchStake
<1> QED
  BY <1>2, <1>8, <1>9, <1>10, <1>11 DEF VouchesKeep

LEMMA VouchesNextKeeps ==
  ASSUME VouchesBefore, VouchesNext
  PROVE  VouchesKeep
BY CastvouchKeeps, UnvouchKeeps, EvidenceKeeps DEF VouchesNext

-----------------------------------------------------------------------------
(* The invariant of the whole module, and what each kind of step keeps.    *)

ChainInv ==
  /\ LedgerInv
  /\ SoundEmission(emission)
  /\ GatesTypeOK /\ GatesSound /\ LivePlurality
  /\ AwardsTypeOK
  /\ VouchesTypeOK /\ VouchersRegistered
  /\ imports \in Nat /\ dropped \in Nat
  /\ NothingCountsTwice
  /\ ChainConservation
  /\ MintedForWork

LEMMA TimeSteps ==
  ASSUME TypeOK, [Next]_vars
  PROVE  now' = now \/ now' = now + 1
<1>1. now \in Nat
  BY DEF TypeOK, EscrowsTypeOK
<1>2. ASSUME NEW id \in DOMAIN escrow,
             \/ \E c \in Addr, t \in SubmitTerms : SubmitEscrow(c, id, t)
             \/ \E c \in Addr : \/ ReleaseEscrow(c, id)
                                \/ RefundEscrow(c, id)
                                \/ DisputeEscrow(c, id)
             \/ \E c \in Addr, t \in AttestTerms : AttestEscrow(c, id, t)
             \/ \E key \in Key : VerifiedRelease(id, key)
             \/ ReclaimAttestationBonds(id)
      PROVE  now' = now
  BY <1>2 DEF SubmitEscrow, ReleaseEscrow, RefundEscrow, DisputeEscrow, AttestEscrow,
     VerifiedRelease, ReclaimAttestationBonds, escrowVars
<1>3. ASSUME EscrowsNext PROVE now' = now \/ now' = now + 1
  <2>1. CASE Tick
    BY <1>1, <2>1 DEF Tick
  <2>2. CASE \E c \in Addr, t \in LockTerms : LockEscrow(c, t)
    BY <1>1, <2>2 DEF LockEscrow
  <2> QED BY <1>1, <1>2, <1>3, <2>1, <2>2 DEF EscrowsNext
<1>4. ASSUME JuryNext PROVE now' = now
  BY <1>4 DEF JuryNext, OpenDispute, CastVote, ResolveDispute, UpdateParams, escrowVars
<1> QED
  BY <1>1, <1>3, <1>4 DEF Next, vars, escrowVars

LEMMA TimeGrows ==
  ASSUME TypeOK, [Next]_vars
  PROVE  now' >= now
<1>1. now \in Nat
  BY DEF TypeOK, EscrowsTypeOK
<1> QED
  BY <1>1, TimeSteps

(* Gates that are left alone, as time passes.                              *)
LEMMA GatesLeftAlone ==
  ASSUME TypeOK, TypeOK', GatesTypeOK, GatesSound, LivePlurality, now' >= now,
         UNCHANGED gateVars
  PROVE  GatesTypeOK' /\ GatesSound' /\ LivePlurality' /\ Payouts' = Payouts
<1>1. gate' = gate /\ gateSeq' = gateSeq
  BY DEF gateVars
<1>2. GatesTypeOK'
  BY <1>1 DEF GatesTypeOK
<1>3. GatesSound'
  <2>1. ASSUME NEW id \in DOMAIN gate PROVE GateSound(gate[id])'
    <3>1. GateSound(gate[id]) /\ gate[id].commitDeadline \in Nat
      BY GateFields DEF GatesSound
    <3>2. now \in Nat /\ now' \in Nat
      BY DEF TypeOK, EscrowsTypeOK
    <3>3. gate[id].commitDeadline <= now => gate[id].commitDeadline <= now'
      BY <3>1, <3>2
    <3> QED BY <1>1, <3>1, <3>3 DEF GateSound
  <2> QED BY <1>1, <2>1 DEF GatesSound
<1>4. \A id : Committed(id)' = Committed(id)
  BY <1>1 DEF Committed
<1>5. \A id : RevealedAnswers(id)' = RevealedAnswers(id)
  BY <1>1, <1>4 DEF RevealedAnswers
<1>6. \A id, x : Given(id, x)' = Given(id, x)
  BY <1>1, <1>4 DEF Given
<1>7. LivePlurality'
  BY <1>1, <1>5, <1>6 DEF LivePlurality, IsPlurality
<1>8. Payouts' = Payouts
  BY <1>1, PayoutsAre, NextPayoutsAre
<1> QED
  BY <1>2, <1>3, <1>7, <1>8

(* Steps outside the market leave its records alone and take nobody's      *)
(* registration away.                                                      *)
LEMMA MarketLeftAlone ==
  ASSUME LedgerInv, UNCHANGED marketRest, LedgerTypeOK', UnregisteredHoldNothing',
         \A a \in Addr : IsRegistered(a) => IsRegistered(a)'
  PROVE  /\ LedgerInv' /\ now' = now
         /\ AllCoins' = AllCoins - Total(balance) + Total(balance')
<1>1. /\ bond' = bond /\ bondSeq' = bondSeq /\ burned' = burned /\ escrow' = escrow
      /\ escrowSeq' = escrowSeq /\ now' = now /\ revealed' = revealed /\ conceded' = conceded
      /\ dispute' = dispute /\ disputeSeq' = disputeSeq /\ anchors' = anchors
  BY DEF marketRest, bondVars, escrowVars, juryVars
<1>2. TypeOK /\ DisputesRefer /\ PartiesRegistered
  BY DEF LedgerInv
<1>3. TypeOK'
  BY <1>1, <1>2 DEF TypeOK, BondsTypeOK, EscrowsTypeOK, JuryTypeOK
<1>4. DisputesRefer'
  BY <1>1, <1>2 DEF DisputesRefer
<1>5. PartiesRegistered'
  <2>1. \A b \in DOMAIN bond : bond[b].poster \in Addr
    BY <1>2 DEF TypeOK, BondsTypeOK, BondRecord
  <2>2. \A id \in DOMAIN escrow : /\ escrow[id].payer \in Addr /\ escrow[id].payee \in Addr
                                  /\ \A a \in escrow[id].attestations : a.verifier \in Addr
    BY <1>2, EscrowFields DEF AttestationRecord
  <2>3. \A d \in DOMAIN dispute : /\ dispute[d].opener \in Addr
                                  /\ \A v \in dispute[d].votes : v.juror \in Addr
    BY <1>2, DisputeFields DEF VoteRecord
  <2>4. \A a \in Addr : account[a] = "registered" => account'[a] = "registered"
    BY DEF IsRegistered
  <2> QED BY <1>1, <1>2, <2>1, <2>2, <2>3, <2>4 DEF PartiesRegistered, IsRegistered
<1>6. /\ Total(HeldAmount)' = Total(HeldAmount) /\ Total(StakeAmount)' = Total(StakeAmount)
  BY <1>1, SameHeld, SameStakes
<1>7. /\ Total(balance) \in Nat /\ Total(HeldAmount) \in Nat /\ Total(StakeAmount) \in Nat
      /\ burned \in Nat
  BY <1>2, PoolTypes
<1>8. Total(balance') \in Nat
  BY AddrAssumption, CoinsFinite DEF LedgerTypeOK
<1>9. AllCoins' = AllCoins - Total(balance) + Total(balance')
  <2>1. AllCoins' = Total(balance') + Total(HeldAmount) + Total(StakeAmount) + burned
    BY <1>1, <1>6 DEF AllCoins
  <2> QED BY <1>7, <1>8, <2>1 DEF AllCoins
<1> QED
  BY <1>1, <1>3, <1>4, <1>5, <1>9 DEF LedgerInv

LEMMA GenesisNumbers ==
  GenesisMined \in Nat /\ Total(GenesisBalance) \in Nat
<1>1. GenesisMined \in Nat
  BY EmissionAssumption, EmissionFields DEF GenesisMined
<1> QED
  BY <1>1, AddrAssumption, GenesisAssumption, CoinsFinite

LEMMA NextVouchTotal ==
  ASSUME VouchesTypeOK'
  PROVE  Total(VouchStake') \in Nat
<1>1. IsFiniteSet(DOMAIN vouch')
  <2>1. vouchSeq' \in Nat /\ DOMAIN vouch' \subseteq 0..(vouchSeq' - 1)
    BY DEF VouchesTypeOK
  <2>2. IsFiniteSet(0..(vouchSeq' - 1))
    BY <2>1, FS_Interval
  <2> QED BY <2>1, <2>2, FS_Subset
<1>2. VouchStake' \in [DOMAIN vouch' -> Nat]
  BY DEF VouchesTypeOK, VouchRecord, VouchStake
<1> QED
  BY <1>1, <1>2, CoinsFinite

(* Conservation, from the balance of what a step moves.                    *)
LEMMA Rebalanced ==
  ASSUME ChainInv, TypeOK', VouchesTypeOK', SoundEmission(emission'), dropped' \in Nat,
         AllCoins' + Total(VouchStake') + dropped' + emission.totalMined
           = AllCoins + Total(VouchStake) + dropped + emission'.totalMined
  PROVE  ChainConservation'
<1>1. /\ Total(balance) \in Nat /\ Total(HeldAmount) \in Nat /\ Total(StakeAmount) \in Nat
      /\ burned \in Nat /\ Total(VouchStake) \in Nat /\ dropped \in Nat
      /\ emission.totalMined \in Nat
  BY PoolTypes, VouchTotal, EmissionFields DEF ChainInv, LedgerInv, SoundEmission
<1>2. /\ Total(balance') \in Nat /\ Total(HeldAmount') \in Nat /\ Total(StakeAmount') \in Nat
      /\ burned' \in Nat /\ Total(VouchStake') \in Nat /\ dropped' \in Nat
      /\ emission'.totalMined \in Nat
  BY NextPools, NextVouchTotal, EmissionFields DEF SoundEmission
<1>3. GenesisMined \in Nat /\ Total(GenesisBalance) \in Nat
  BY GenesisNumbers
<1>4. AllCoins + Total(VouchStake) + dropped + GenesisMined
        = Total(GenesisBalance) + emission.totalMined
  BY <1>1, <1>3 DEF ChainInv, ChainConservation, AllCoins
<1>5. AllCoins \in Nat /\ AllCoins' \in Nat
  BY <1>1, <1>2 DEF AllCoins
<1>6. AllCoins' + Total(VouchStake') + dropped' + GenesisMined
        = Total(GenesisBalance) + emission'.totalMined
  BY <1>1, <1>2, <1>3, <1>4, <1>5
<1> QED
  BY <1>2, <1>3, <1>6 DEF ChainConservation, AllCoins

(* The same for what is minted for work.                                   *)
LEMMA Reworked ==
  ASSUME ChainInv, imports' = imports, NEW n \in Nat, NEW m \in Nat,
         emission'.totalMined = emission.totalMined + (n + m),
         Total(Payouts') = Total(Payouts) + n, Total(AwardAmounts') = Total(AwardAmounts) + m
  PROVE  MintedForWork'
<1>1. /\ Total(Payouts) \in Nat /\ Total(AwardAmounts) \in Nat /\ GenesisMined \in Nat
      /\ emission.totalMined \in Nat
  BY PayoutsTotal, AwardsTotal, GenesisNumbers, EmissionFields DEF ChainInv, SoundEmission
<1>2. imports = 0 =>
        emission.totalMined = GenesisMined + Total(Payouts) + Total(AwardAmounts)
  BY DEF ChainInv, MintedForWork, Payouts, AwardAmounts
<1>3. imports' = 0 =>
        emission'.totalMined = GenesisMined + Total(Payouts') + Total(AwardAmounts')
  BY <1>1, <1>2
<1> QED
  BY <1>3 DEF MintedForWork, Payouts, AwardAmounts

LEMMA VouchesLeftAlone ==
  ASSUME VouchesTypeOK, VouchersRegistered, OneVouchPerPair, EvidenceCountsOnce,
         UNCHANGED vouchVars, \A a \in Addr : IsRegistered(a) => IsRegistered(a)'
  PROVE  /\ VouchesTypeOK' /\ VouchersRegistered' /\ OneVouchPerPair' /\ EvidenceCountsOnce'
         /\ Total(VouchStake') = Total(VouchStake)
<1>1. vouch' = vouch /\ vouchSeq' = vouchSeq /\ evidence' = evidence
  BY DEF vouchVars
<1>2. VouchersRegistered'
  <2>1. \A id \in DOMAIN vouch : vouch[id].from \in Addr
    BY VouchTotal
  <2>2. \A a \in Addr : account[a] = "registered" => account'[a] = "registered"
    BY DEF IsRegistered
  <2> QED BY <1>1, <2>1, <2>2 DEF VouchersRegistered, IsRegistered
<1>3. VouchStake' = VouchStake
  BY <1>1 DEF VouchStake
<1> QED
  BY <1>1, <1>2, <1>3 DEF VouchesTypeOK, OneVouchPerPair, EvidenceCountsOnce

LEMMA AwardsLeftAlone ==
  ASSUME AwardsTypeOK, ArtifactPaidOnce, UNCHANGED awardVars
  PROVE  /\ AwardsTypeOK' /\ ArtifactPaidOnce'
         /\ Total(AwardAmounts') = Total(AwardAmounts) + 0
<1>1. award' = award /\ awardSeq' = awardSeq
  BY DEF awardVars
<1>2. AwardAmounts' = AwardAmounts /\ Total(AwardAmounts) \in Nat
  BY <1>1, AwardsTotal DEF AwardAmounts
<1> QED
  BY <1>1, <1>2 DEF AwardsTypeOK, ArtifactPaidOnce

(* A transaction of the market, or a step that changes nothing.            *)
LEMMA MarketKeeps ==
  ASSUME ChainInv, [Next]_vars,
         UNCHANGED <<emission, gateVars, awardVars, vouchVars, importVars>>
  PROVE  ChainInv'
<1> USE DEF ChainInv, NothingCountsTwice
<1>0. /\ TypeOK /\ DisputesRefer /\ emission' = emission /\ imports' = imports
      /\ dropped' = dropped /\ UNCHANGED gateVars /\ UNCHANGED awardVars /\ UNCHANGED vouchVars
  BY DEF LedgerInv, importVars
<1>1. LedgerInv'
  BY TypeStep, DisputesReferStep, PartiesStep, UnregisteredStep DEF LedgerInv
<1>2. AllCoins' = AllCoins
  BY <1>1, ConservationStep
<1>3. \A a \in Addr : IsRegistered(a) => IsRegistered(a)'
  BY <1>0, RegisteredForEver
<1>4. TypeOK' /\ now' >= now
  BY <1>0, <1>1, TimeGrows DEF LedgerInv
<1>5. GatesTypeOK' /\ GatesSound' /\ LivePlurality' /\ Payouts' = Payouts
  BY <1>0, <1>4, GatesLeftAlone
<1>6. /\ VouchesTypeOK' /\ VouchersRegistered' /\ OneVouchPerPair' /\ EvidenceCountsOnce'
      /\ Total(VouchStake') = Total(VouchStake)
  BY <1>0, <1>3, VouchesLeftAlone
<1>7. /\ AwardsTypeOK' /\ ArtifactPaidOnce'
      /\ Total(AwardAmounts') = Total(AwardAmounts) + 0
  BY <1>0, AwardsLeftAlone
<1>8. SoundEmission(emission')
  BY <1>0
<1>9. ChainConservation'
  BY <1>0, <1>2, <1>4, <1>6, <1>8, Rebalanced
<1>10. MintedForWork'
  <2>1. Total(Payouts) \in Nat /\ emission.totalMined \in Nat
    BY PayoutsTotal, EmissionFields DEF SoundEmission
  <2>2. Total(Payouts') = Total(Payouts) + 0
        /\ emission'.totalMined = emission.totalMined + (0 + 0)
    BY <1>0, <1>5, <2>1
  <2> QED BY <1>0, <1>7, <2>2, Reworked
<1> QED
  BY <1>0, <1>1, <1>5, <1>6, <1>7, <1>8, <1>9, <1>10

(* A message of the gates.                                                 *)
LEMMA GatesStepKeeps ==
  ASSUME ChainInv, GatesNext, UNCHANGED <<marketRest, awardVars, vouchVars, importVars>>
  PROVE  ChainInv'
<1> USE DEF ChainInv, NothingCountsTwice
<1>0. /\ TypeOK /\ UnregisteredHoldNothing /\ imports' = imports /\ dropped' = dropped
      /\ UNCHANGED marketRest /\ UNCHANGED awardVars /\ UNCHANGED vouchVars
  BY DEF LedgerInv, importVars
<1>1. GatesKeep
  BY <1>0, GatesNextKeeps DEF GatesBefore
<1>2. PICK n \in Nat : Mints(n) /\ Total(Payouts') = Total(Payouts) + n
  BY <1>1 DEF GatesKeep
<1>3. /\ LedgerInv' /\ AllCoins' = AllCoins - Total(balance) + Total(balance')
  BY <1>0, <1>2, MarketLeftAlone DEF Mints
<1>4. /\ VouchesTypeOK' /\ VouchersRegistered' /\ OneVouchPerPair' /\ EvidenceCountsOnce'
      /\ Total(VouchStake') = Total(VouchStake)
  BY <1>0, <1>2, VouchesLeftAlone DEF Mints
<1>5. /\ AwardsTypeOK' /\ ArtifactPaidOnce'
      /\ Total(AwardAmounts') = Total(AwardAmounts) + 0
  BY <1>0, AwardsLeftAlone
<1>6. SoundEmission(emission') /\ emission'.totalMined = emission.totalMined + n
      /\ Total(balance') = Total(balance) + n
  BY <1>2 DEF Mints
<1>7. /\ AllCoins \in Nat /\ Total(balance) \in Nat /\ Total(VouchStake) \in Nat
      /\ emission.totalMined \in Nat
  BY <1>0, PoolTypes, VouchTotal, EmissionFields DEF AllCoins, SoundEmission
<1>8. ChainConservation'
  <2>1. AllCoins' + Total(VouchStake') + dropped' + emission.totalMined
          = AllCoins + Total(VouchStake) + dropped + emission'.totalMined
    BY <1>0, <1>3, <1>4, <1>6, <1>7
  <2> QED BY <1>0, <1>3, <1>4, <1>6, <2>1, Rebalanced DEF LedgerInv
<1>9. MintedForWork'
  <2>1. emission'.totalMined = emission.totalMined + (n + 0)
    BY <1>6, <1>7
  <2> QED BY <1>0, <1>2, <1>5, <2>1, Reworked
<1> QED
  BY <1>0, <1>1, <1>3, <1>4, <1>5, <1>6, <1>8, <1>9 DEF GatesKeep

(* An award.                                                               *)
LEMMA AwardsStepKeeps ==
  ASSUME ChainInv, AwardsNext, UNCHANGED <<marketRest, gateVars, vouchVars, importVars>>
  PROVE  ChainInv'
<1> USE DEF ChainInv, NothingCountsTwice
<1>0. /\ TypeOK /\ UnregisteredHoldNothing /\ imports' = imports /\ dropped' = dropped
      /\ UNCHANGED marketRest /\ UNCHANGED gateVars /\ UNCHANGED vouchVars
  BY DEF LedgerInv, importVars
<1>1. AwardsKeep
  BY <1>0, AwardsNextKeeps
<1>2. PICK n \in Nat : Mints(n) /\ Total(AwardAmounts') = Total(AwardAmounts) + n
  BY <1>1 DEF AwardsKeep
<1>3. /\ LedgerInv' /\ now' = now /\ AllCoins' = AllCoins - Total(balance) + Total(balance')
  BY <1>0, <1>2, MarketLeftAlone DEF Mints
<1>4. TypeOK' /\ now' >= now
  <2>1. TypeOK'
    BY <1>3 DEF LedgerInv
  <2>2. now \in Nat
    BY <1>0 DEF TypeOK, EscrowsTypeOK
  <2> QED BY <1>3, <2>1, <2>2
<1>5. GatesTypeOK' /\ GatesSound' /\ LivePlurality' /\ Payouts' = Payouts
  BY <1>0, <1>4, GatesLeftAlone
<1>6. /\ VouchesTypeOK' /\ VouchersRegistered' /\ OneVouchPerPair' /\ EvidenceCountsOnce'
      /\ Total(VouchStake') = Total(VouchStake)
  BY <1>0, <1>2, VouchesLeftAlone DEF Mints
<1>7. SoundEmission(emission') /\ emission'.totalMined = emission.totalMined + n
      /\ Total(balance') = Total(balance) + n
  BY <1>2 DEF Mints
<1>8. /\ AllCoins \in Nat /\ Total(balance) \in Nat /\ Total(VouchStake) \in Nat
      /\ emission.totalMined \in Nat /\ Total(Payouts) \in Nat
  BY <1>0, PoolTypes, VouchTotal, PayoutsTotal, EmissionFields DEF AllCoins, SoundEmission
<1>9. ChainConservation'
  <2>1. AllCoins' + Total(VouchStake') + dropped' + emission.totalMined
          = AllCoins + Total(VouchStake) + dropped + emission'.totalMined
    BY <1>0, <1>3, <1>6, <1>7, <1>8
  <2> QED BY <1>0, <1>4, <1>6, <1>7, <2>1, Rebalanced
<1>10. MintedForWork'
  <2>1. /\ emission'.totalMined = emission.totalMined + (0 + n)
        /\ Total(Payouts') = Total(Payouts) + 0
    BY <1>5, <1>7, <1>8
  <2> QED BY <1>0, <1>2, <2>1, Reworked
<1> QED
  BY <1>0, <1>1, <1>3, <1>5, <1>6, <1>7, <1>9, <1>10 DEF AwardsKeep

(* A vouch, its withdrawal, or evidence.                                   *)
LEMMA VouchesStepKeeps ==
  ASSUME ChainInv, VouchesNext,
         UNCHANGED <<marketRest, emission, gateVars, awardVars, importVars>>
  PROVE  ChainInv'
<1> USE DEF ChainInv, NothingCountsTwice
<1>0. /\ TypeOK /\ UnregisteredHoldNothing /\ imports' = imports /\ dropped' = dropped
      /\ emission' = emission
      /\ UNCHANGED marketRest /\ UNCHANGED gateVars /\ UNCHANGED awardVars
  BY DEF LedgerInv, importVars
<1>1. VouchesKeep
  BY <1>0, VouchesNextKeeps DEF VouchesBefore, TypeOK
<1>2. \A a \in Addr : IsRegistered(a) => IsRegistered(a)'
  BY <1>1 DEF VouchesKeep, IsRegistered
<1>3. /\ LedgerInv' /\ now' = now /\ AllCoins' = AllCoins - Total(balance) + Total(balance')
  BY <1>0, <1>1, <1>2, MarketLeftAlone DEF VouchesKeep
<1>4. TypeOK' /\ now' >= now
  <2>1. TypeOK'
    BY <1>3 DEF LedgerInv
  <2>2. now \in Nat
    BY <1>0 DEF TypeOK, EscrowsTypeOK
  <2> QED BY <1>3, <2>1, <2>2
<1>5. GatesTypeOK' /\ GatesSound' /\ LivePlurality' /\ Payouts' = Payouts
  BY <1>0, <1>4, GatesLeftAlone
<1>6. /\ AwardsTypeOK' /\ ArtifactPaidOnce'
      /\ Total(AwardAmounts') = Total(AwardAmounts) + 0
  BY <1>0, AwardsLeftAlone
<1>7. /\ AllCoins \in Nat /\ Total(balance) \in Nat /\ Total(VouchStake) \in Nat
      /\ emission.totalMined \in Nat /\ Total(Payouts) \in Nat
  BY <1>0, PoolTypes, VouchTotal, PayoutsTotal, EmissionFields DEF AllCoins, SoundEmission
<1>8. ChainConservation'
  <2>1. Total(balance') \in Nat /\ Total(VouchStake') \in Nat
    BY <1>1, <1>4, NextPools, NextVouchTotal DEF VouchesKeep
  <2>2. AllCoins' + Total(VouchStake') + dropped' + emission.totalMined
          = AllCoins + Total(VouchStake) + dropped + emission'.totalMined
    BY <1>0, <1>1, <1>3, <1>7, <2>1 DEF VouchesKeep
  <2> QED BY <1>0, <1>1, <1>4, <2>2, Rebalanced DEF VouchesKeep
<1>9. MintedForWork'
  <2>1. /\ emission'.totalMined = emission.totalMined + (0 + 0)
        /\ Total(Payouts') = Total(Payouts) + 0
    BY <1>0, <1>5, <1>7
  <2> QED BY <1>0, <1>6, <2>1, Reworked
<1> QED
  BY <1>0, <1>1, <1>3, <1>5, <1>6, <1>8, <1>9 DEF VouchesKeep

(* An export and the import of its file.                                   *)
LEMMA ImportKeeps ==
  ASSUME ChainInv, ExportImport
  PROVE  ChainInv'
<1> USE DEF ChainInv, NothingCountsTwice
<1>0. /\ TypeOK /\ DisputesRefer /\ PartiesRegistered /\ UnregisteredHoldNothing
  BY DEF LedgerInv
<1>1. /\ account' = account /\ balance' = balance /\ escrow' = escrow /\ now' = now
      /\ escrowSeq' = escrowSeq /\ revealed' = revealed /\ conceded' = conceded
      /\ anchors' = anchors /\ burned' = burned
      /\ UNCHANGED vouchVars /\ UNCHANGED awardVars
  BY DEF ExportImport, ImportedVouches, ledgerVars, escrowVars
<1>2. /\ DOMAIN bond' = {} /\ bondSeq' = 0 /\ DOMAIN dispute' = {} /\ disputeSeq' = 0
      /\ DOMAIN gate' = {} /\ gateSeq' = 0
  BY DEF ExportImport
<1>3. /\ emission' = ImportedEmission(emission) /\ imports' = imports + 1
      /\ dropped' = dropped + Total(StakeAmount)
  BY DEF ExportImport
<1>4. 0..(0 - 1) = {}
  OBVIOUS
<1>5. /\ bond' \in [0..(bondSeq' - 1) -> BondRecord]
      /\ dispute' \in [0..(disputeSeq' - 1) -> DisputeRecord]
      /\ gate' \in [0..(gateSeq' - 1) -> GateRecord]
  BY <1>2, <1>4 DEF ExportImport
<1>6. TypeOK'
  BY <1>0, <1>1, <1>2, <1>5 DEF TypeOK, LedgerTypeOK, BondsTypeOK, EscrowsTypeOK, JuryTypeOK
<1>7. LedgerInv'
  BY <1>0, <1>1, <1>2, <1>6
     DEF LedgerInv, DisputesRefer, PartiesRegistered, UnregisteredHoldNothing, IsRegistered
<1>8. \A a \in Addr : IsRegistered(a) => IsRegistered(a)'
  BY <1>1 DEF IsRegistered
<1>9. GatesTypeOK' /\ GatesSound' /\ LivePlurality'
  BY <1>2, <1>5 DEF GatesTypeOK, GatesSound, LivePlurality
<1>10. /\ VouchesTypeOK' /\ VouchersRegistered' /\ OneVouchPerPair' /\ EvidenceCountsOnce'
       /\ Total(VouchStake') = Total(VouchStake)
  BY <1>1, <1>8, VouchesLeftAlone
<1>11. AwardsTypeOK' /\ ArtifactPaidOnce'
  BY <1>1, AwardsLeftAlone
<1>12. SoundEmission(emission') /\ emission'.totalMined = emission.totalMined
  BY <1>0, <1>3, ImportSound, EmissionFields DEF TypeOK, SoundEmission, ValidEmission
<1>13. /\ Total(balance) \in Nat /\ Total(HeldAmount) \in Nat /\ Total(StakeAmount) \in Nat
       /\ burned \in Nat /\ Total(VouchStake) \in Nat /\ emission.totalMined \in Nat
  BY <1>0, PoolTypes, VouchTotal, EmissionFields DEF SoundEmission
<1>14. Total(StakeAmount') = 0
  <2>1. Coins(StakeAmount') = {}
    BY <1>2 DEF Coins, StakeAmount
  <2> QED BY <2>1, FS_EmptySet DEF Total
<1>15. ChainConservation'
  <2>1. Total(HeldAmount)' = Total(HeldAmount)
    BY <1>1, SameHeld
  <2>2. AllCoins' = Total(balance) + Total(HeldAmount) + 0 + burned
    BY <1>1, <1>14, <2>1 DEF AllCoins
  <2>3. AllCoins' + Total(VouchStake') + dropped' + emission.totalMined
          = AllCoins + Total(VouchStake) + dropped + emission'.totalMined
    BY <1>3, <1>10, <1>12, <1>13, <2>2 DEF AllCoins
  <2> QED BY <1>3, <1>6, <1>10, <1>12, <1>13, <2>3, Rebalanced
<1>16. MintedForWork'
  BY <1>3 DEF MintedForWork
<1> QED
  BY <1>3, <1>7, <1>9, <1>10, <1>11, <1>12, <1>13, <1>15, <1>16

LEMMA ChainStep ==
  ASSUME ChainInv, [ChainNext]_chainVars
  PROVE  ChainInv'
<1>1. CASE Next /\ UNCHANGED <<emission, gateVars, awardVars, vouchVars, importVars>>
  BY <1>1, MarketKeeps
<1>2. CASE GatesNext /\ UNCHANGED <<marketRest, awardVars, vouchVars, importVars>>
  BY <1>2, GatesStepKeeps
<1>3. CASE AwardsNext /\ UNCHANGED <<marketRest, gateVars, vouchVars, importVars>>
  BY <1>3, AwardsStepKeeps
<1>4. CASE VouchesNext /\ UNCHANGED <<marketRest, emission, gateVars, awardVars, importVars>>
  BY <1>4, VouchesStepKeeps
<1>5. CASE ExportImport
  BY <1>5, ImportKeeps
<1>6. CASE UNCHANGED chainVars
  <2>1. UNCHANGED vars /\ UNCHANGED <<emission, gateVars, awardVars, vouchVars, importVars>>
    BY <1>6 DEF chainVars
  <2> QED BY <2>1, MarketKeeps
<1> QED
  BY <1>1, <1>2, <1>3, <1>4, <1>5, <1>6 DEF ChainNext

LEMMA ChainStart ==
  ASSUME ChainInit
  PROVE  ChainInv
<1> USE DEF ChainInit
<1>1. TypeOK
  BY InitTypes
<1>2. LedgerInv
  <2>1. DisputesRefer /\ PartiesRegistered
    BY DEF Init, BondsInit, EscrowsInit, JuryInit, DisputesRefer, PartiesRegistered
  <2>2. UnregisteredHoldNothing
    BY GenesisAssumption DEF Init, LedgerInit, UnregisteredHoldNothing
  <2> QED BY <1>1, <2>1, <2>2 DEF LedgerInv
<1>3. SoundEmission(emission) /\ emission.totalMined = GenesisMined
  BY <1>1, ImportSound, EmissionAssumption DEF EmissionInit, GenesisMined, TypeOK
<1>4. 0..(0 - 1) = {}
  OBVIOUS
<1>5. /\ DOMAIN gate = {} /\ DOMAIN award = {} /\ DOMAIN vouch = {} /\ evidence = <<>>
      /\ gateSeq = 0 /\ awardSeq = 0 /\ vouchSeq = 0
  BY DEF GatesInit, AwardsInit, VouchesInit
<1>6. GatesTypeOK /\ AwardsTypeOK /\ VouchesTypeOK
  BY <1>4, <1>5
     DEF GatesInit, AwardsInit, VouchesInit, GatesTypeOK, AwardsTypeOK, VouchesTypeOK
<1>7. GatesSound /\ LivePlurality /\ VouchersRegistered
  BY <1>5 DEF GatesSound, LivePlurality, VouchersRegistered
<1>8. NothingCountsTwice
  BY <1>5 DEF NothingCountsTwice, OneVouchPerPair, EvidenceCountsOnce, ArtifactPaidOnce
<1>9. ASSUME NEW f, DOMAIN f = {} PROVE Total(f) = 0
  <2>1. Coins(f) = {}
    BY <1>9 DEF Coins
  <2> QED BY <2>1, FS_EmptySet DEF Total
<1>10. Total(VouchStake) = 0 /\ Total(Payouts) = 0 /\ Total(AwardAmounts) = 0
  BY <1>5, <1>9 DEF VouchStake, Payouts, AwardAmounts
<1>11. AllCoins = Total(GenesisBalance)
  BY GenesisCoins
<1>12. GenesisMined \in Nat /\ Total(GenesisBalance) \in Nat
  BY GenesisNumbers
<1>13. ChainConservation
  <2>1. /\ Total(balance) \in Nat /\ Total(HeldAmount) \in Nat /\ Total(StakeAmount) \in Nat
        /\ burned \in Nat
    BY <1>1, PoolTypes
  <2> QED BY <1>3, <1>10, <1>11, <1>12, <2>1 DEF ChainConservation, AllCoins
<1>14. MintedForWork
  BY <1>3, <1>10, <1>12 DEF MintedForWork, Payouts, AwardAmounts
<1> QED
  BY <1>2, <1>3, <1>6, <1>7, <1>8, <1>13, <1>14 DEF ChainInv

-----------------------------------------------------------------------------
(* Reputation: the iterations of PageRank as a sequence of sets.           *)

Reached(r) == Teleport \cup {e[2] : e \in {x \in TrustEdges : x[1] \in r}}

Ranks ==
  CHOOSE ranked : ranked = [i \in 0..MaxIterations |->
    IF i = 0 THEN Teleport ELSE Reached(ranked[i - 1])]

LEMMA RootedIsLast == Rooted = Ranks[MaxIterations]
BY DEF Rooted, Ranks, Reached

LEMMA RanksEquation ==
  /\ Ranks[0] = Teleport
  /\ \A i \in Nat : i < MaxIterations => Ranks[i + 1] = Reached(Ranks[i])
<1> DEFINE N == MaxIterations
           T == SUBSET (Teleport \cup {e[2] : e \in TrustEdges})
           step == [p \in Nat \X T |-> Reached(p[2])]
           Eq(t) == t = [i \in 0..N |-> IF i = 0 THEN Teleport ELSE Reached(t[i - 1])]
<1>1. N \in Nat
  BY VouchAssumption
<1>2. Teleport \in T
  OBVIOUS
<1>3. ASSUME NEW r \in T PROVE Reached(r) \in T
  BY DEF Reached
<1> HIDE DEF N, T
<1>4. step \in [Nat \X T -> T]
  BY <1>3
<1>5. \A i \in Nat, r \in T : step[<<i, r>>] = Reached(r)
  OBVIOUS
<1> HIDE DEF step
<1>6. PICK g \in [Nat -> T] : Steps(g, Teleport, step)
  BY <1>2, <1>4, SequenceExists
<1> DEFINE f == [i \in 0..N |-> g[i]]
<1>7. Eq(f)
  <2>1. ASSUME NEW i \in 0..N
        PROVE  f[i] = IF i = 0 THEN Teleport ELSE Reached(f[i - 1])
    <3>1. CASE i = 0
      BY <1>6, <3>1 DEF Steps
    <3>2. CASE i # 0
      <4>1. i \in Nat /\ i - 1 \in Nat /\ (i - 1) + 1 = i /\ i - 1 \in 0..N
        BY <1>1, <3>2
      <4>2. g[(i - 1) + 1] = step[<<i - 1, g[i - 1]>>] /\ g[i - 1] \in T
        BY <1>6, <4>1 DEF Steps
      <4> QED BY <1>5, <3>2, <4>1, <4>2
    <3> QED BY <3>1, <3>2
  <2> HIDE DEF f
  <2>2. f = [i \in 0..N |-> f[i]]
    BY DEF f
  <2> QED BY <2>1, <2>2
<1> HIDE DEF f
<1> DEFINE t == Ranks
<1>8. Eq(t)
  <2>1. \E s : Eq(s)
    BY <1>7
  <2>2. t = CHOOSE s : Eq(s)
    BY DEF Ranks, N
  <2> HIDE DEF Eq, t
  <2> QED BY <2>1, <2>2
<1> HIDE DEF t
<1>9. t = [i \in 0..N |-> IF i = 0 THEN Teleport ELSE Reached(t[i - 1])]
  BY <1>8
<1>10. t[0] = Teleport
  <2>1. 0 \in 0..N
    BY <1>1
  <2> QED BY <1>9, <2>1
<1>11. ASSUME NEW i \in Nat, i < N PROVE t[i + 1] = Reached(t[i])
  <2>1. i + 1 \in 0..N /\ i + 1 # 0 /\ (i + 1) - 1 = i
    BY <1>1, <1>11
  <2> QED BY <1>9, <2>1
<1> QED
  BY <1>10, <1>11 DEF t, N

(* In every state whatever, and so in every state the chain reaches.       *)
LEMMA RingsUnranked == RingsHaveNoStanding
<1> SUFFICES ASSUME Jurors # {}, NEW ring \in SUBSET (Addr \ Jurors),
                    \A e \in TrustEdges : e[2] \in ring => e[1] \in ring
             PROVE  ring \cap Rooted = {}
  BY DEF RingsHaveNoStanding
<1> DEFINE N == MaxIterations
           S == {i \in Nat : ring \cap Ranks[i] = {}}
<1>1. N \in Nat
  BY VouchAssumption
<1>2. ring \cap Teleport = {}
  BY DEF Teleport
<1>3. 0 \in S
  BY <1>2, RanksEquation
<1>4. ASSUME NEW i \in Nat, i < N /\ i \in S PROVE i + 1 \in S
  <2>1. Ranks[i + 1] = Reached(Ranks[i]) /\ ring \cap Ranks[i] = {}
    BY <1>4, RanksEquation
  <2>2. ring \cap Reached(Ranks[i]) = {}
    BY <1>2, <2>1 DEF Reached
  <2> QED BY <2>1, <2>2
<1>5. \A i \in 0..N : i \in S
  <2> HIDE DEF S, N
  <2> QED BY <1>1, <1>3, <1>4, InductionUpTo
<1> QED
  BY <1>1, <1>5, RootedIsLast

-----------------------------------------------------------------------------
(* The windows of a gate.                                                  *)

LEMMA CommitsKept ==
  ASSUME NEW i, \A a \in Addr : gate'[i].answers[a].commit = gate[i].answers[a].commit
  PROVE  Committed(i)' = Committed(i)
BY DEF Committed

(* Who has revealed did so after the deadline of the commitments.          *)
LEMMA RevealedLate ==
  ASSUME GatesSound, NEW id \in DOMAIN gate, RevealedAnswers(id) # {}
  PROVE  gate[id].commitDeadline <= now
<1>1. PICK a \in Addr : gate[id].answers[a].answer # EmptyText
  BY DEF RevealedAnswers, Committed
<1> QED
  BY <1>1 DEF GatesSound, GateSound

LEMMA WindowsApart ==
  ASSUME TypeOK, GatesTypeOK, GatesSound, GatesNext
  PROVE  NoCommitAfterReveal
<1> SUFFICES ASSUME NEW i \in DOMAIN gate, RevealedAnswers(i) # {}
             PROVE  Committed(i)' = Committed(i)
  BY DEF NoCommitAfterReveal
<1>1. ASSUME NEW c \in Addr, NEW t \in GateTerms, PostGate(c, t)
      PROVE  Committed(i)' = Committed(i)
  <2>1. gate'[i] = gate[i]
    BY <1>1, PostGateChange
  <2> QED BY <2>1, CommitsKept
<1>2. ASSUME NEW id \in DOMAIN gate, NEW e, GateBecomes(id, e),
             i = id => \A a \in Addr : e.answers[a].commit = gate[id].answers[a].commit
      PROVE  Committed(i)' = Committed(i)
  <2>1. gate'[id] = e /\ \A j \in DOMAIN gate \ {id} : gate'[j] = gate[j]
    BY <1>2, GateBecomesTypes
  <2>2. \A a \in Addr : gate'[i].answers[a].commit = gate[i].answers[a].commit
    BY <1>2, <2>1
  <2> QED BY <2>2, CommitsKept
<1>3. ASSUME NEW id \in DOMAIN gate, NEW a \in Addr, NEW commit \in Commits,
             CommitAnswer(a, id, commit)
      PROVE  Committed(i)' = Committed(i)
  <2>1. PICK e : GateBecomes(id, e)
    BY <1>3, CommitChange
  <2>2. i # id
    <3>1. gate[id].commitDeadline \in Nat /\ now \in Nat
      BY GateFields DEF TypeOK, EscrowsTypeOK
    <3>2. now < gate[id].commitDeadline
      BY <1>3 DEF CommitAnswer
    <3>3. i = id => gate[id].commitDeadline <= now
      BY RevealedLate
    <3> QED BY <3>1, <3>2, <3>3
  <2> QED BY <1>2, <2>1, <2>2
<1>4. ASSUME NEW id \in DOMAIN gate, NEW a \in Addr, NEW answer \in Answers, NEW salt \in Salts,
             RevealAnswer(a, id, answer, salt)
      PROVE  Committed(i)' = Committed(i)
  <2>1. PICK e : /\ GateBecomes(id, e) /\ SameGate(id, e) /\ OnlyAnswerOf(a, id, e)
                 /\ e.answers[a].commit = gate[id].answers[a].commit
    BY <1>4, RevealChange
  <2>2. \A b \in Addr : e.answers[b].commit = gate[id].answers[b].commit
    BY <2>1 DEF OnlyAnswerOf
  <2> QED BY <1>2, <2>1, <2>2
<1>5. ASSUME NEW id \in DOMAIN gate, NEW answer \in Answers, NEW salt \in Salts,
             SettleGate(id, answer, salt)
      PROVE  Committed(i)' = Committed(i)
  <2>1. PICK e, R : GateBecomes(id, e) /\ Settles(id, e, R)
    BY <1>5, SettleChange
  <2>2. \A b \in Addr : e.answers[b].commit = gate[id].answers[b].commit
    BY <2>1 DEF Settles
  <2> QED BY <1>2, <2>1, <2>2
<1> QED
  BY <1>1, <1>3, <1>4, <1>5 DEF GatesNext

LEMMA CopyStep ==
  ChainInv /\ [ChainNext]_chainVars => [NoCommitAfterReveal]_gateVars
<1> SUFFICES ASSUME ChainInv, [ChainNext]_chainVars PROVE NoCommitAfterReveal \/ UNCHANGED gateVars
  OBVIOUS
<1>1. CASE UNCHANGED gateVars
  BY <1>1
<1>2. CASE GatesNext
  <2>1. TypeOK /\ GatesTypeOK /\ GatesSound
    BY DEF ChainInv, LedgerInv
  <2> QED BY <1>2, <2>1, WindowsApart
<1>3. CASE ExportImport
  <2>1. DOMAIN gate' = {}
    BY <1>3 DEF ExportImport
  <2> QED BY <2>1 DEF NoCommitAfterReveal
<1>4. \/ UNCHANGED gateVars \/ GatesNext \/ ExportImport
  BY DEF ChainNext, chainVars
<1> QED
  BY <1>1, <1>2, <1>3, <1>4

-----------------------------------------------------------------------------
(* The theorems.                                                           *)

LEMMA ChainStarts == ChainInit => ChainInv
BY ChainStart

LEMMA ChainSteps == ChainInv /\ [ChainNext]_chainVars => ChainInv'
BY ChainStep

(* The inductive invariant of the chain.                                   *)
THEOREM ChainCorrect == ChainSpec => []ChainInv
BY ChainStarts, ChainSteps, PTL DEF ChainSpec

(***************************************************************************)
(* The hard cap of mintProtocolReward and syncEmissionState: what was      *)
(* mined, burned unclaimed and may still be mined in the epoch is within   *)
(* the supply, whatever epochs were missed and whatever the genesis file's *)
(* divisor and epoch length.                                               *)
(***************************************************************************)
THEOREM SupplyIsCapped == ChainSpec => []SupplyCap
<1>1. ChainInv => SupplyCap
  BY DEF ChainInv, SoundEmission, SupplyCap
<1> QED
  BY <1>1, ChainCorrect, PTL

(***************************************************************************)
(* Conservation of the whole module: balances, unpaid escrows, active      *)
(* bonds, vouches, what slashes burned and what imports dropped sum up to  *)
(* the genesis ledger and what was minted since.                           *)
(***************************************************************************)
THEOREM ChainConserves == ChainSpec => []ChainConservation
<1>1. ChainInv => ChainConservation
  BY DEF ChainInv
<1> QED
  BY <1>1, ChainCorrect, PTL

(* No account, escrow, active bond or vouch holds more than the genesis    *)
(* ledger and the maximal supply together.                                 *)
Ceiling == Total(GenesisBalance) + emission.maxSupply

WithinCeiling ==
  /\ \A a \in Addr : balance[a] <= Ceiling
  /\ \A id \in DOMAIN escrow : Held(id) => escrow[id].amount <= Ceiling
  /\ \A b \in DOMAIN bond : ActiveBond(b) => bond[b].amount <= Ceiling
  /\ \A id \in DOMAIN vouch : vouch[id].stake <= Ceiling

(***************************************************************************)
(* The uint64 additions of creditAccount, of the settlement loops, of the  *)
(* mint and of a vouch that is raised never wrap when the genesis ledger   *)
(* and the maximal supply fit in a uint64 together, over imports too.      *)
(***************************************************************************)
THEOREM ChainNeverOverflows == ChainSpec => []WithinCeiling
<1>1. ChainInv => WithinCeiling
  <2> SUFFICES ASSUME ChainInv PROVE WithinCeiling
    OBVIOUS
  <2>0. TypeOK /\ VouchesTypeOK /\ SoundEmission(emission)
    BY DEF ChainInv, LedgerInv
  <2>1. /\ Total(balance) \in Nat /\ Total(HeldAmount) \in Nat /\ Total(StakeAmount) \in Nat
        /\ Total(VouchStake) \in Nat /\ burned \in Nat /\ dropped \in Nat
        /\ GenesisMined \in Nat /\ Total(GenesisBalance) \in Nat
    BY <2>0, PoolTypes, VouchTotal, GenesisNumbers DEF ChainInv
  <2>2. /\ emission.totalMined \in Nat /\ emission.maxSupply \in Nat
        /\ emission.totalMined <= emission.maxSupply
    BY <2>0, EmissionFields DEF SoundEmission, ValidEmission
  <2>3. /\ Total(balance) <= Ceiling /\ Total(HeldAmount) <= Ceiling
        /\ Total(StakeAmount) <= Ceiling /\ Total(VouchStake) <= Ceiling /\ Ceiling \in Nat
    BY <2>1, <2>2 DEF ChainInv, ChainConservation, Ceiling
  <2> DEFINE most == Ceiling
  <2> HIDE DEF most
  <2>4. \A x, y \in Nat : x <= y /\ y <= most => x <= most
    BY <2>3 DEF most
  <2>5. ASSUME NEW a \in Addr PROVE balance[a] <= most
    <3>1. balance[a] <= Total(balance) /\ balance[a] \in Nat
      BY <2>0, PoolTypes, TotalBound
    <3> QED BY <2>1, <2>3, <2>4, <3>1 DEF most
  <2>6. ASSUME NEW id \in DOMAIN escrow, Held(id) PROVE escrow[id].amount <= most
    <3>1. HeldAmount[id] <= Total(HeldAmount) /\ HeldAmount[id] \in Nat
      BY <2>0, PoolTypes, TotalBound
    <3>2. HeldAmount[id] = escrow[id].amount
      BY <2>6 DEF HeldAmount
    <3> QED BY <2>1, <2>3, <2>4, <3>1, <3>2 DEF most
  <2>7. ASSUME NEW b \in DOMAIN bond, ActiveBond(b) PROVE bond[b].amount <= most
    <3>1. StakeAmount[b] <= Total(StakeAmount) /\ StakeAmount[b] \in Nat
      BY <2>0, PoolTypes, TotalBound
    <3>2. StakeAmount[b] = bond[b].amount
      BY <2>7 DEF StakeAmount
    <3> QED BY <2>1, <2>3, <2>4, <3>1, <3>2 DEF most
  <2>8. ASSUME NEW id \in DOMAIN vouch PROVE vouch[id].stake <= most
    <3>1. VouchStake[id] <= Total(VouchStake) /\ VouchStake[id] \in Nat
      BY <2>0, VouchTotal, TotalBound
    <3>2. VouchStake[id] = vouch[id].stake
      BY DEF VouchStake
    <3> QED BY <2>1, <2>3, <2>4, <3>1, <3>2 DEF most
  <2> QED BY <2>5, <2>6, <2>7, <2>8 DEF WithinCeiling, most
<1> QED
  BY <1>1, ChainCorrect, PTL

(***************************************************************************)
(* Until an import, the supply mined is the sum of the awards and of the   *)
(* drips of the answers SettleGate marked as paid.                         *)
(***************************************************************************)
THEOREM MintsAreRewards == ChainSpec => []MintedForWork
<1>1. ChainInv => MintedForWork
  BY DEF ChainInv
<1> QED
  BY <1>1, ChainCorrect, PTL

(***************************************************************************)
(* One vouch per pair, one statement of an evidence per issuer, one award  *)
(* per artifact, also after an import.                                     *)
(***************************************************************************)
THEOREM NothingTwice == ChainSpec => []NothingCountsTwice
<1>1. ChainInv => NothingCountsTwice
  BY DEF ChainInv
<1> QED
  BY <1>1, ChainCorrect, PTL

(***************************************************************************)
(* A live gate pays the strict plurality of the revealed answers, in       *)
(* whatever order Go iterates over the map of counts.                      *)
(***************************************************************************)
THEOREM PluralityWins == ChainSpec => []LivePlurality
<1>1. ChainInv => LivePlurality
  BY DEF ChainInv
<1> QED
  BY <1>1, ChainCorrect, PTL

(***************************************************************************)
(* ExportGenesis at any height writes a file that GenesisState.Validate    *)
(* accepts.                                                                *)
(***************************************************************************)
THEOREM ExportsAlwaysValidate == ChainSpec => []ExportsValidate
<1>1. ChainInv => ChainTypeOK
  <2>1. ChainInv => EmissionTypeOK
    BY EmissionFields DEF ChainInv, SoundEmission, ValidEmission, EmissionTypeOK
  <2> QED BY <2>1 DEF ChainInv, LedgerInv, ChainTypeOK
<1>2. ASSUME ChainInv PROVE Validate
  <2>1. \A id \in DOMAIN escrow : id < escrowSeq
    BY <1>2 DEF ChainInv, LedgerInv, TypeOK, EscrowsTypeOK
  <2>2. \A id \in DOMAIN vouch : id < vouchSeq
    BY <1>2 DEF ChainInv, VouchesTypeOK
  <2>3. \A id \in DOMAIN award : id < awardSeq
    BY <1>2 DEF ChainInv, AwardsTypeOK
  <2> QED BY <1>2, <2>1, <2>2, <2>3 DEF ChainInv, SoundEmission, Validate
<1>3. ChainInv => ExportsValidate
  BY <1>1, <1>2 DEF ExportsValidate
<1> QED
  BY <1>3, ChainCorrect, PTL

(***************************************************************************)
(* Once an answer of a gate is revealed, CommitAnswer takes no commitment  *)
(* to that gate any more.                                                  *)
(***************************************************************************)
THEOREM RevealedCannotBeCopied == ChainSpec => NothingToCopy
BY ChainCorrect, CopyStep, PTL DEF ChainSpec, NothingToCopy

(***************************************************************************)
(* With anchors, no group outside of them that no one outside vouches for, *)
(* pays or endorses has a positive score after Reputation's iterations.    *)
(***************************************************************************)
THEOREM RingsGetNoRank == ChainSpec => []RingsHaveNoStanding
BY RingsUnranked, PTL

-----------------------------------------------------------------------------
(* The market as a part of the chain.  Gates, awards and vouches change    *)
(* the balances under it, and an import takes its bonds and disputes away: *)
(* what the market promises about them holds on a chain that was not       *)
(* imported, and what it promises about accounts holds on every chain.     *)

MarketOnChain == imports = 0 => MarketInv

LEMMA OthersKeepMarket ==
  ASSUME MarketInv, TypeOK', UNCHANGED marketRest
  PROVE  MarketInv'
<1>1. /\ bond' = bond /\ bondSeq' = bondSeq /\ burned' = burned /\ escrow' = escrow
      /\ escrowSeq' = escrowSeq /\ now' = now /\ revealed' = revealed /\ conceded' = conceded
      /\ dispute' = dispute /\ disputeSeq' = disputeSeq /\ anchors' = anchors
  BY DEF marketRest, bondVars, escrowVars, juryVars
<1>2. /\ DisputesRefer' /\ DisputeStakes' /\ AttestationsBacked' /\ AttestationsDiffer'
  BY <1>1 DEF MarketInv, DisputesRefer, DisputeStakes, AttestationsBacked, AttestationsDiffer,
     IsStake
<1>3. Lifecycle'
  BY <1>1 DEF MarketInv, Lifecycle, EscrowLifecycle
<1>4. VerdictsLast' /\ PayerChallenges'
  BY <1>1 DEF MarketInv, VerdictsLast, PayerChallenges, Case, Challenged
<1>5. JuryControl'
  BY <1>1 DEF MarketInv, JuryControl, Frozen, OpenOn
<1>6. VerdictSettlesStakes'
  BY <1>1 DEF MarketInv, VerdictSettlesStakes, StakesOf, AttestationStakes, ActiveBond
<1>7. CollateralThroughWindow'
  BY <1>1 DEF MarketInv, CollateralThroughWindow, AttestationStakes, ActiveBond, Covered, Frozen,
     Verdicts
<1>8. PaidWithAuthority'
  BY <1>1 DEF MarketInv, PaidWithAuthority, VerdictOn, Verdicts, PassVerifiers
<1>9. RefundJustified'
  BY <1>1 DEF MarketInv, RefundJustified, VerdictOn, Verdicts, NeverContested, FailStood
<1> QED
  BY <1>2, <1>3, <1>4, <1>5, <1>6, <1>7, <1>8, <1>9 DEF MarketInv

(* On a chain that was not imported, a step is one of the market or leaves *)
(* its records alone.                                                      *)
LEMMA ChainOrMarket ==
  ASSUME ChainInv, [ChainNext]_chainVars, imports' = 0
  PROVE  imports = 0 /\ ([Next]_vars \/ UNCHANGED marketRest)
<1>1. imports \in Nat
  BY DEF ChainInv
<1>2. ~ExportImport
  BY <1>1 DEF ExportImport
<1> QED
  BY <1>2 DEF ChainNext, chainVars, importVars, marketRest

LEMMA MarketOnChainStart == ChainInit => MarketOnChain
BY MarketInvInit DEF ChainInit, MarketOnChain

LEMMA MarketOnChainStep ==
  ChainInv /\ MarketOnChain /\ [ChainNext]_chainVars => MarketOnChain'
<1> SUFFICES ASSUME ChainInv, MarketOnChain, [ChainNext]_chainVars, imports' = 0
             PROVE  MarketInv'
  BY DEF MarketOnChain
<1>1. MarketInv /\ ([Next]_vars \/ UNCHANGED marketRest)
  BY ChainOrMarket DEF MarketOnChain
<1>2. TypeOK'
  BY ChainStep DEF ChainInv, LedgerInv
<1> QED
  BY <1>1, <1>2, MarketInvStep, OthersKeepMarket

(***************************************************************************)
(* The market keeps its promises while rewards are minted, gates settled   *)
(* and vouches staked around it, as long as the state was not exported:    *)
(* JuryControl, VerdictSettlesStakes, CollateralThroughWindow,             *)
(* PaidWithAuthority and RefundJustified, with all they rest on.           *)
(***************************************************************************)
THEOREM MarketHoldsOnChain == ChainSpec => []MarketOnChain
BY MarketOnChainStart, MarketOnChainStep, ChainCorrect, PTL DEF ChainSpec

(* No message of the chain resolves a bond without authority, or leaves    *)
(* the buyer of a rejected release short.                                  *)
MarketSteps ==
  imports' = 0 =>
    /\ \A b \in DOMAIN bond : ResolvedByAuthority(b)
    /\ \A d \in DOMAIN dispute : MakesBuyerWhole(d)

MarketStepsOnChain == [][MarketSteps]_chainVars

LEMMA OthersSettleNothing ==
  ASSUME UNCHANGED marketRest
  PROVE  /\ \A b \in DOMAIN bond : ResolvedByAuthority(b)
         /\ \A d \in DOMAIN dispute : MakesBuyerWhole(d)
<1>1. bond' = bond /\ dispute' = dispute
  BY DEF marketRest, bondVars, juryVars
<1>2. \A d \in DOMAIN dispute : ~ResolvedNow(d)
  BY <1>1 DEF ResolvedNow
<1> QED
  BY <1>1, <1>2 DEF ResolvedByAuthority, MakesBuyerWhole

LEMMA MarketStepsHold ==
  ChainInv /\ MarketOnChain /\ [ChainNext]_chainVars => MarketSteps
<1> SUFFICES ASSUME ChainInv, MarketOnChain, [ChainNext]_chainVars, imports' = 0
             PROVE  /\ \A b \in DOMAIN bond : ResolvedByAuthority(b)
                    /\ \A d \in DOMAIN dispute : MakesBuyerWhole(d)
  BY DEF MarketSteps
<1>1. MarketInv /\ ([Next]_vars \/ UNCHANGED marketRest)
  BY ChainOrMarket DEF MarketOnChain
<1> QED
  BY <1>1, BondAuthorityStep, BuyerMadeWholeStep, OthersSettleNothing

(***************************************************************************)
(* BondAuthority and BuyerMadeWhole for the chain: no order of gates,      *)
(* awards, vouches and market messages resolves a stake but by the verdict *)
(* of its case or a reclaim outside the window, and a jury that rejects a  *)
(* verifier-triggered release makes the buyer whole.                       *)
(***************************************************************************)
THEOREM MarketStepsHoldOnChain == ChainSpec => MarketStepsOnChain
BY MarketStepsHold, MarketHoldsOnChain, ChainCorrect, PTL DEF ChainSpec, MarketStepsOnChain

(***************************************************************************)
(* A decided case can be settled on every chain, also when the escrow was  *)
(* imported and the case opened afterwards.                                *)
(***************************************************************************)
THEOREM ChainVerdictsNeverAbort == ChainSpec => []VerdictNeverAborts
<1>1. ChainInv => LedgerInv
  BY DEF ChainInv
<1> QED
  BY <1>1, VerdictCanSettle, ChainCorrect, PTL

-----------------------------------------------------------------------------
(* The emission policy.  What is left of the supply at the start of an     *)
(* epoch, and the reward the policy gives it.                              *)

Left(e) == RemainingScheduled(e) + e.epochMined

RewardOf(left, d) == IF left < d THEN left ELSE left \div d

OnSchedule(e) == e.scheduled = RewardOf(Left(e), e.divisor)

Started(e) == e.genesisTime # 0 /\ e.epochStartedAt # 0

LEMMA RollEpochCloses ==
  ASSUME NEW e, SoundEmission(e), Started(e)
  PROVE  /\ OnSchedule(RollEpoch(e)) /\ Started(RollEpoch(e))
         /\ Left(RollEpoch(e)) = Left(e) - e.scheduled
         /\ RollEpoch(e).currentEpoch = e.currentEpoch + 1
         /\ RollEpoch(e).epochMined = 0
         /\ RollEpoch(e).divisor = e.divisor /\ RollEpoch(e).epochLength = e.epochLength
         /\ RollEpoch(e).epochStartedAt = e.epochStartedAt + e.epochLength
<1> DEFINE closed == [e EXCEPT !.burnedUnclaimed = @ + RemainingEpoch(e),
                               !.currentEpoch = @ + 1,
                               !.epochStartedAt = @ + e.epochLength, !.epochMined = 0]
           n == NextEpochScheduled(closed)
           r == [closed EXCEPT !.scheduled = n]
<1>1. e \in EmissionRecord
  BY DEF SoundEmission
<1>2. closed \in EmissionRecord
  <2>1. /\ RemainingEpoch(e) \in Nat /\ e.burnedUnclaimed + RemainingEpoch(e) \in Nat
        /\ e.currentEpoch + 1 \in Nat /\ e.epochStartedAt + e.epochLength \in Nat
    BY <1>1, EmissionFields
  <2> QED BY <1>1, <2>1 DEF EmissionRecord
<1>3. /\ closed.maxSupply = e.maxSupply /\ closed.epochLength = e.epochLength
      /\ closed.divisor = e.divisor /\ closed.totalMined = e.totalMined
      /\ closed.burnedUnclaimed = e.burnedUnclaimed + RemainingEpoch(e)
      /\ closed.currentEpoch = e.currentEpoch + 1 /\ closed.epochMined = 0
      /\ closed.genesisTime = e.genesisTime
      /\ closed.epochStartedAt = e.epochStartedAt + e.epochLength
  BY <1>1 DEF EmissionRecord
<1>4. RollEpoch(e) = r
  BY DEF RollEpoch
<1> HIDE DEF closed
<1>5. n \in Nat
  BY <1>2, <1>3, ScheduledWithinSupply DEF SoundEmission, ValidEmission
<1>6. n = RewardOf(RemainingScheduled(closed), closed.divisor)
  BY DEF NextEpochScheduled, RewardOf
<1> HIDE DEF n
<1>7. /\ r.scheduled = n /\ r.maxSupply = e.maxSupply /\ r.epochLength = e.epochLength
      /\ r.divisor = e.divisor /\ r.totalMined = e.totalMined
      /\ r.burnedUnclaimed = e.burnedUnclaimed + RemainingEpoch(e)
      /\ r.currentEpoch = e.currentEpoch + 1 /\ r.epochMined = 0
      /\ r.genesisTime = e.genesisTime
      /\ r.epochStartedAt = e.epochStartedAt + e.epochLength
  BY <1>2, <1>3, <1>5 DEF EmissionRecord
<1> HIDE DEF r
<1>8. RemainingScheduled(r) = RemainingScheduled(closed)
  BY <1>3, <1>7 DEF RemainingScheduled
<1>9. RemainingScheduled(closed) \in Nat
  BY <1>2, EmissionFields
<1>10. Left(r) = RemainingScheduled(closed)
  BY <1>7, <1>8, <1>9 DEF Left
<1>11. OnSchedule(r)
  BY <1>3, <1>6, <1>7, <1>10 DEF OnSchedule
<1>12. Left(r) = Left(e) - e.scheduled
  <2>1. RemainingEpoch(e) = e.scheduled - e.epochMined
    BY <1>1, EmissionFields DEF SoundEmission, ValidEmission, RemainingEpoch
  <2>2. RemainingScheduled(e) = e.maxSupply - e.totalMined - e.burnedUnclaimed
    BY <1>1, EmissionFields DEF SoundEmission, ValidEmission, RemainingScheduled
  <2>3. RemainingScheduled(closed)
          = e.maxSupply - e.totalMined - (e.burnedUnclaimed + RemainingEpoch(e))
    BY <1>1, <1>3, EmissionFields DEF SoundEmission, Capped, RemainingScheduled
  <2> QED BY <1>1, <1>10, <2>1, <2>2, <2>3, EmissionFields DEF Left
<1>13. Started(r)
  BY <1>1, <1>7, EmissionFields DEF Started
<1> QED
  BY <1>4, <1>7, <1>11, <1>12, <1>13

(* What stays along the turns of the catch-up, and where the n-th one is.  *)
Along(f, n, r) ==
  /\ SoundEmission(r) /\ Started(r) /\ OnSchedule(r)
  /\ r.divisor = f.divisor /\ r.maxSupply = f.maxSupply /\ r.epochLength = f.epochLength
  /\ r.epochStartedAt = f.epochStartedAt + n * f.epochLength

LEMMA TurnedAlong ==
  ASSUME NEW f, SoundEmission(f), Started(f), OnSchedule(f)
  PROVE  \A n \in Nat : Along(f, n, Turned(f)[n])
<1> DEFINE S == {n \in Nat : Along(f, n, Turned(f)[n])}
<1>1. f.epochStartedAt \in Nat /\ f.epochLength \in Nat
  BY EmissionFields DEF SoundEmission
<1>2. 0 \in S
  <2>1. f.epochStartedAt = f.epochStartedAt + 0 * f.epochLength
    BY <1>1
  <2> QED BY <2>1, TurnedEquation DEF Along
<1>3. ASSUME NEW n \in Nat, n \in S PROVE n + 1 \in S
  <2> DEFINE r == Turned(f)[n]
  <2>1. Along(f, n, r) /\ Turned(f)[n + 1] = RollEpoch(r)
    BY <1>3, TurnedEquation
  <2> HIDE DEF r
  <2>2. /\ SoundEmission(RollEpoch(r)) /\ RollEpoch(r).maxSupply = f.maxSupply
        /\ Started(RollEpoch(r)) /\ OnSchedule(RollEpoch(r))
        /\ RollEpoch(r).divisor = f.divisor /\ RollEpoch(r).epochLength = f.epochLength
        /\ RollEpoch(r).epochStartedAt
             = (f.epochStartedAt + n * f.epochLength) + f.epochLength
    BY <2>1, RollEpochSound, RollEpochCloses DEF Along
  <2>3. \A i, j, k \in Nat : (k + i * j) + j = k + (i + 1) * j
    OBVIOUS
  <2>4. Along(f, n + 1, RollEpoch(r))
    BY <1>1, <2>2, <2>3 DEF Along
  <2> QED BY <2>1, <2>4
<1>4. \A n \in Nat : n \in S
  <2> HIDE DEF S
  <2> QED BY <1>2, <1>3, InductionOnNat
<1> QED
  BY <1>4

-----------------------------------------------------------------------------
(* The catch-up at a time, of a state that has started.                    *)

Full(e) == [e EXCEPT !.scheduled = IF @ = 0 THEN NextEpochScheduled(e) ELSE @]

EpochsAt(e, t) ==
  IF t >= e.epochStartedAt THEN (t - e.epochStartedAt) \div e.epochLength ELSE 0

SyncAt(e, t) == Turned(Full(e))[EpochsAt(Full(e), t)]

LEMMA StartedFills ==
  ASSUME NEW e, SoundEmission(e), Started(e), NEW t
  PROVE  [e EXCEPT !.genesisTime    = IF @ = 0 THEN t ELSE @,
                   !.epochStartedAt = IF @ = 0 THEN t ELSE @,
                   !.currentEpoch   = IF @ = 0 THEN 1 ELSE @,
                   !.epochLength    = IF @ = 0 THEN EpochLength ELSE @,
                   !.divisor        = IF @ = 0 THEN RewardDivisor ELSE @] = e
BY DEF SoundEmission, ValidEmission, Started, EmissionRecord

LEMMA FilledIsFull ==
  ASSUME NEW e, SoundEmission(e), Started(e)
  PROVE  Filled(e) = Full(e)
<1> DEFINE f == [e EXCEPT !.genesisTime    = IF @ = 0 THEN now ELSE @,
                          !.epochStartedAt = IF @ = 0 THEN now ELSE @,
                          !.currentEpoch   = IF @ = 0 THEN 1 ELSE @,
                          !.epochLength    = IF @ = 0 THEN EpochLength ELSE @,
                          !.divisor        = IF @ = 0 THEN RewardDivisor ELSE @]
<1>1. f = e
  BY StartedFills
<1>2. Filled(e) = [f EXCEPT !.scheduled = IF @ = 0 THEN NextEpochScheduled(f) ELSE @]
  BY DEF Filled
<1> HIDE DEF f
<1> QED
  BY <1>1, <1>2 DEF Full

CaughtAtNow ==
  SoundEmission(emission) /\ Started(emission) => Caught = SyncAt(emission, now)

LEMMA CaughtIs == CaughtAtNow
<1> SUFFICES ASSUME SoundEmission(emission), Started(emission)
             PROVE  Caught = SyncAt(emission, now)
  BY DEF CaughtAtNow
<1>1. Filled(emission) = Full(emission)
  BY FilledIsFull
<1>2. Caught = Turned(Filled(emission))[EpochsOver(Filled(emission))]
  BY SyncIsTurned DEF Caught
<1> QED
  BY <1>1, <1>2 DEF SyncAt, EpochsOver, EpochsAt

LEMMA NextCaughtIs ==
  SoundEmission(emission') /\ Started(emission') => Caught' = SyncAt(emission', now')
<1>1. CaughtAtNow'
  BY CaughtIs, PTL
<1> QED
  BY <1>1 DEF CaughtAtNow

-----------------------------------------------------------------------------
(* A step passes time, mints, or leaves the schedule alone.                *)

Minted(n) ==
  /\ CanMint(Caught, n)
  /\ emission' = [Caught EXCEPT !.totalMined = @ + n, !.epochMined = @ + n]

LEMMA MintMoves ==
  ASSUME NEW R \in SUBSET Addr, R # {}, NEW n \in Nat, MintProtocolReward(R, n)
  PROVE  \E m \in Nat \ {0} : Minted(m)
<1> DEFINE m == n * Cardinality(R)
<1>1. IsFiniteSet(R) /\ Cardinality(R) \in Nat /\ Cardinality(R) # 0 /\ n # 0
  BY ShareTotal, FS_EmptySet DEF MintProtocolReward
<1>2. \A i, j \in Nat \ {0} : i * j \in Nat \ {0}
  OBVIOUS
<1>3. m \in Nat \ {0}
  BY <1>1, <1>2
<1>4. Minted(m)
  BY DEF MintProtocolReward, Minted, Caught
<1> HIDE DEF m
<1> QED
  BY <1>3, <1>4

EmissionStep ==
  \/ emission' = emission /\ (now' = now \/ now' = now + 1)
  \/ now' = now /\ \E n \in Nat \ {0} : Minted(n)

LEMMA EmissionMoves ==
  ASSUME ChainInv, Started(emission), [ChainNext]_chainVars
  PROVE  EmissionStep
<1>1. CASE Next /\ UNCHANGED <<emission, gateVars, awardVars, vouchVars, importVars>>
  BY <1>1, TimeSteps DEF ChainInv, LedgerInv, EmissionStep
<1>2. CASE GatesNext /\ UNCHANGED marketRest
  <2>1. now' = now
    BY <1>2 DEF marketRest, escrowVars
  <2>2. ASSUME NEW id \in DOMAIN gate, NEW answer \in Answers, NEW salt \in Salts,
               SettleGate(id, answer, salt)
        PROVE  EmissionStep
    <3>1. PICK R : /\ R \in SUBSET Committed(id)
                   /\ \/ MintProtocolReward(R, gate[id].drip) /\ R # {}
                      \/ UNCHANGED emission
      <4>1. PICK w : \/ /\ Coherent(id, w) # {}
                        /\ MintProtocolReward(Coherent(id, w), gate[id].drip)
                     \/ UNCHANGED emission
        BY <2>2 DEF SettleGate
      <4>2. Coherent(id, w) \in SUBSET Committed(id)
        BY DEF Coherent, Given
      <4> QED BY <4>1, <4>2
    <3>2. R \in SUBSET Addr /\ gate[id].drip \in Nat
      BY <3>1, GateFields DEF Committed, ChainInv
    <3> QED BY <2>1, <3>1, <3>2, MintMoves DEF EmissionStep
  <2>3. CASE \E c \in Addr, t \in GateTerms : PostGate(c, t)
    BY <2>1, <2>3 DEF PostGate, EmissionStep
  <2>4. CASE \E id \in DOMAIN gate : \E c \in Addr, commit \in Commits : CommitAnswer(c, id, commit)
    BY <2>1, <2>4 DEF CommitAnswer, EmissionStep
  <2>5. CASE \E id \in DOMAIN gate : \E c \in Addr, answer \in Answers, salt \in Salts :
               RevealAnswer(c, id, answer, salt)
    BY <2>1, <2>5 DEF RevealAnswer, EmissionStep
  <2> QED BY <1>2, <2>2, <2>3, <2>4, <2>5 DEF GatesNext
<1>3. CASE AwardsNext /\ UNCHANGED marketRest
  <2>1. now' = now
    BY <1>3 DEF marketRest, escrowVars
  <2>2. PICK c \in Addr, t \in AwardTerms : AwardContribution(c, t)
    BY <1>3 DEF AwardsNext
  <2>3. t.recipient \in Addr /\ t.amount \in Nat /\ MintProtocolReward({t.recipient}, t.amount)
    BY <2>2, AwardAssumption DEF AwardContribution, AwardTerm
  <2> QED BY <2>1, <2>3, MintMoves DEF EmissionStep
<1>4. CASE UNCHANGED <<marketRest, emission>>
  BY <1>4 DEF marketRest, escrowVars, EmissionStep
<1>5. CASE ExportImport
  <2>1. emission.maxSupply # 0 /\ emission.genesisTime # 0
    BY DEF ChainInv, SoundEmission, ValidEmission, Started
  <2>2. emission' = emission /\ now' = now
    BY <1>5, <2>1 DEF ExportImport, ImportedEmission, escrowVars
  <2> QED BY <2>2 DEF EmissionStep
<1>6. CASE UNCHANGED chainVars
  BY <1>6 DEF chainVars, vars, escrowVars, EmissionStep
<1> QED
  BY <1>1, <1>2, <1>3, <1>4, <1>5, <1>6 DEF ChainNext

-----------------------------------------------------------------------------
(* The refinement.                                                         *)

LEMMA Quotients ==
  ASSUME NEW x \in Nat, NEW d \in Nat \ {0}
  PROVE  /\ x \div d \in Nat
         /\ (x \div d) * d <= x /\ x < (x \div d) * d + d
         /\ (x + 1) \div d = x \div d \/ (x + 1) \div d = x \div d + 1
         /\ x < d => x \div d = 0
<1> DEFINE q == x \div d
           p == (x + 1) \div d
<1>1. q \in Nat /\ q * d <= x /\ x < q * d + d
  BY Division
<1>2. p \in Nat /\ p * d <= x + 1 /\ x + 1 < p * d + d
  BY Division
<1> HIDE DEF p, q
<1>3. \A i, j \in Nat : i < j => i * d + d <= j * d
  OBVIOUS
<1>4. q * d \in Nat /\ p * d \in Nat /\ 0 * d = 0 /\ (q + 1) * d = q * d + d
  BY <1>1, <1>2
<1>5. ~(p < q)
  BY <1>1, <1>2, <1>3, <1>4
<1>6. ~(q + 1 < p)
  BY <1>1, <1>2, <1>3, <1>4
<1>7. x < d => ~(0 < q)
  BY <1>1, <1>3, <1>4
<1>8. (p = q \/ p = q + 1) /\ (x < d => q = 0)
  BY <1>1, <1>2, <1>5, <1>6, <1>7
<1> QED
  BY <1>1, <1>8 DEF p, q

(* A genesis file whose schedule has not begun.                            *)
FreshGenesis ==
  LET e == GenesisEmission
  IN /\ e.maxSupply # 0 /\ e.genesisTime = 0 /\ e.currentEpoch = 1
     /\ e.epochMined = 0 /\ e.totalMined = 0 /\ e.burnedUnclaimed = 0
     /\ e.scheduled \in {0, NextEpochScheduled(e)}

(* The inductive invariant of the refinement.                              *)
ScheduleInv ==
  /\ ChainInv
  /\ Started(emission) /\ emission.epochStartedAt <= now
  /\ OnSchedule(Full(emission))
  /\ emission.maxSupply = GenesisEmission.maxSupply
  /\ emission.divisor = GenesisEmission.divisor

LEMMA FullFields ==
  ASSUME NEW e, e \in EmissionRecord, e.divisor # 0
  PROVE  /\ Full(e) \in EmissionRecord
         /\ Full(e).scheduled = IF e.scheduled = 0 THEN NextEpochScheduled(e) ELSE e.scheduled
         /\ Full(e).maxSupply = e.maxSupply /\ Full(e).epochLength = e.epochLength
         /\ Full(e).divisor = e.divisor /\ Full(e).genesisTime = e.genesisTime
         /\ Full(e).currentEpoch = e.currentEpoch /\ Full(e).epochStartedAt = e.epochStartedAt
         /\ Full(e).epochMined = e.epochMined /\ Full(e).totalMined = e.totalMined
         /\ Full(e).burnedUnclaimed = e.burnedUnclaimed
<1>1. NextEpochScheduled(e) \in Nat
  BY ScheduledWithinSupply
<1> QED
  BY <1>1 DEF Full, EmissionRecord

(* Where the catch-up leads now.                                           *)
LEMMA CaughtNow ==
  ASSUME ScheduleInv
  PROVE  LET f == Full(emission)
             k == EpochsAt(f, now)
         IN  /\ k \in Nat /\ f.epochLength \in Nat \ {0} /\ f.epochStartedAt \in Nat
             /\ now \in Nat /\ f.epochStartedAt <= now
             /\ k = (now - f.epochStartedAt) \div f.epochLength
             /\ Caught = Turned(f)[k] /\ Along(f, k, Caught)
             /\ Turned(f)[k + 1] = RollEpoch(Caught)
             /\ f.maxSupply = GenesisEmission.maxSupply
             /\ f.divisor = GenesisEmission.divisor
<1> USE DEF ScheduleInv
<1> DEFINE f == Full(emission)
           k == EpochsAt(f, now)
<1>1. SoundEmission(emission) /\ EscrowsTypeOK /\ now \in Nat
  BY DEF ChainInv, LedgerInv, TypeOK, EscrowsTypeOK
<1>2. SoundEmission(f)
  BY <1>1, FilledIsFull, FilledSound
<1>3. /\ f.epochStartedAt = emission.epochStartedAt /\ f.genesisTime = emission.genesisTime
      /\ f.maxSupply = emission.maxSupply /\ f.divisor = emission.divisor
  BY <1>1, FullFields DEF SoundEmission, ValidEmission
<1>4. Caught = Turned(f)[k]
  BY <1>1, CaughtIs DEF CaughtAtNow, SyncAt
<1>5. Started(f) /\ OnSchedule(f)
  BY <1>3 DEF Started
<1> HIDE DEF f
<1>6. f.epochLength \in Nat \ {0} /\ f.epochStartedAt \in Nat
  BY <1>2, EmissionFields DEF SoundEmission, ValidEmission
<1>7. now - f.epochStartedAt \in Nat /\ f.epochStartedAt <= now
  BY <1>1, <1>3, <1>6
<1>8. k = (now - f.epochStartedAt) \div f.epochLength /\ k \in Nat
  BY <1>1, <1>6, <1>7, Quotients DEF EpochsAt
<1> HIDE DEF k
<1>9. Along(f, k, Turned(f)[k]) /\ Turned(f)[k + 1] = RollEpoch(Turned(f)[k])
  BY <1>2, <1>5, <1>8, TurnedAlong, TurnedEquation
<1>10. /\ k \in Nat /\ f.epochLength \in Nat \ {0} /\ f.epochStartedAt \in Nat
       /\ now \in Nat /\ f.epochStartedAt <= now
       /\ k = (now - f.epochStartedAt) \div f.epochLength
       /\ Caught = Turned(f)[k] /\ Along(f, k, Caught)
       /\ Turned(f)[k + 1] = RollEpoch(Caught)
       /\ f.maxSupply = GenesisEmission.maxSupply
       /\ f.divisor = GenesisEmission.divisor
  BY <1>1, <1>3, <1>4, <1>6, <1>7, <1>8, <1>9
<1> QED
  BY <1>10 DEF f, k

(* What the policy sees changes as one of its steps allows.                *)
Seen(e) == <<e.currentEpoch, Left(e), e.epochMined>>

FollowsStep ==
  \/ Seen(Caught') = Seen(Caught)
  \/ /\ Caught'.currentEpoch = Caught.currentEpoch + 1
     /\ Left(Caught') = Left(Caught) - Caught.scheduled /\ Caught'.epochMined = 0
  \/ \E n \in 1..GenesisEmission.maxSupply :
       /\ Caught.epochMined + n <= Caught.scheduled
       /\ Caught'.currentEpoch = Caught.currentEpoch /\ Left(Caught') = Left(Caught)
       /\ Caught'.epochMined = Caught.epochMined + n

(* As a block comes, at most one epoch is over.                            *)
LEMMA TimeFollows ==
  ASSUME ScheduleInv, ChainInv', emission' = emission, now' = now \/ now' = now + 1
  PROVE  ScheduleInv' /\ FollowsStep
<1> DEFINE f == Full(emission)
           k == EpochsAt(f, now)
<1>1. /\ k \in Nat /\ f.epochLength \in Nat \ {0} /\ f.epochStartedAt \in Nat
      /\ now \in Nat /\ f.epochStartedAt <= now
      /\ k = (now - f.epochStartedAt) \div f.epochLength
      /\ Caught = Turned(f)[k] /\ Along(f, k, Caught)
      /\ Turned(f)[k + 1] = RollEpoch(Caught)
  BY CaughtNow
<1>2. Caught' = Turned(f)[EpochsAt(f, now')]
  <2>1. SoundEmission(emission') /\ Started(emission')
    BY DEF ScheduleInv, ChainInv
  <2> QED BY <2>1, NextCaughtIs DEF SyncAt
<1>3. ScheduleInv'
  BY <1>1 DEF ScheduleInv, Started, OnSchedule, Full, Left, RewardOf
<1> HIDE DEF f
<1>4. EpochsAt(f, now') = k \/ EpochsAt(f, now') = k + 1
  <2>1. CASE now' = now
    BY <2>1
  <2>2. CASE now' = now + 1
    <3> DEFINE x == now - f.epochStartedAt
               d == f.epochLength
    <3>1. x \in Nat /\ d \in Nat \ {0} /\ now' >= f.epochStartedAt
          /\ now' - f.epochStartedAt = x + 1
      BY <1>1, <2>2
    <3>2. EpochsAt(f, now') = (x + 1) \div d /\ k = x \div d
      BY <1>1, <3>1 DEF EpochsAt
    <3> HIDE DEF x, d, k
    <3> QED BY <3>1, <3>2, Quotients
  <2> QED BY <2>1, <2>2
<1> HIDE DEF k
<1>5. CASE EpochsAt(f, now') = k
  <2>1. Caught' = Caught
    BY <1>1, <1>2, <1>5
  <2> QED BY <1>3, <2>1 DEF FollowsStep, Seen
<1>6. CASE EpochsAt(f, now') = k + 1
  <2>1. Caught' = RollEpoch(Caught)
    BY <1>1, <1>2, <1>6
  <2>2. SoundEmission(Caught) /\ Started(Caught)
    BY <1>1 DEF Along
  <2> DEFINE c == Caught
  <2>3. SoundEmission(c) /\ Started(c) /\ Caught' = RollEpoch(c)
    BY <2>1, <2>2
  <2> HIDE DEF c
  <2>4. /\ RollEpoch(c).currentEpoch = c.currentEpoch + 1
        /\ Left(RollEpoch(c)) = Left(c) - c.scheduled /\ RollEpoch(c).epochMined = 0
    BY <2>3, RollEpochCloses
  <2> QED BY <1>3, <2>3, <2>4 DEF FollowsStep, c
<1> QED
  BY <1>3, <1>4, <1>5, <1>6

(* A mint is of the epoch that the catch-up has reached.                   *)
LEMMA MintFollows ==
  ASSUME ScheduleInv, ChainInv', now' = now, NEW n \in Nat \ {0}, Minted(n)
  PROVE  ScheduleInv' /\ FollowsStep
<1> DEFINE f == Full(emission)
           k == EpochsAt(f, now)
           c == Caught
           r == [c EXCEPT !.totalMined = @ + n, !.epochMined = @ + n]
<1>1. /\ k \in Nat /\ f.epochLength \in Nat \ {0} /\ f.epochStartedAt \in Nat
      /\ now \in Nat /\ f.epochStartedAt <= now
      /\ k = (now - f.epochStartedAt) \div f.epochLength
      /\ Along(f, k, c)
      /\ f.maxSupply = GenesisEmission.maxSupply
      /\ f.divisor = GenesisEmission.divisor
  BY CaughtNow
<1>2. emission' = r /\ n <= RemainingScheduled(c) /\ n <= RemainingEpoch(c)
  BY DEF Minted, CanMint
<1> HIDE DEF f, k, c
<1>3. SoundEmission(c) /\ c \in EmissionRecord /\ Started(c) /\ OnSchedule(c)
  BY <1>1 DEF Along, SoundEmission
<1>4. /\ r \in EmissionRecord
      /\ r.totalMined = c.totalMined + n /\ r.epochMined = c.epochMined + n
      /\ r.maxSupply = c.maxSupply /\ r.epochLength = c.epochLength
      /\ r.divisor = c.divisor /\ r.burnedUnclaimed = c.burnedUnclaimed
      /\ r.currentEpoch = c.currentEpoch /\ r.scheduled = c.scheduled
      /\ r.genesisTime = c.genesisTime /\ r.epochStartedAt = c.epochStartedAt
  <2>1. c.totalMined + n \in Nat /\ c.epochMined + n \in Nat
    BY <1>3, EmissionFields
  <2> QED BY <1>3, <2>1 DEF EmissionRecord
<1> HIDE DEF r
<1>5. c.epochMined + n <= c.scheduled /\ c.scheduled # 0
  BY <1>2, <1>3, EmissionFields DEF SoundEmission, ValidEmission, RemainingEpoch
<1>6. Left(r) = Left(c)
  <2>1. RemainingScheduled(c) = c.maxSupply - c.totalMined - c.burnedUnclaimed
    BY <1>3, EmissionFields DEF SoundEmission, ValidEmission, RemainingScheduled
  <2>2. RemainingScheduled(r) = c.maxSupply - (c.totalMined + n) - c.burnedUnclaimed
    BY <1>2, <1>3, <1>4, <2>1, EmissionFields DEF RemainingScheduled
  <2> QED BY <1>3, <1>4, <2>1, <2>2, EmissionFields DEF Left
<1>7. Full(r) = r
  BY <1>4, <1>5 DEF Full, EmissionRecord
<1>8. SoundEmission(r) /\ Started(r) /\ OnSchedule(r)
  BY <1>2, <1>3, <1>4, <1>6 DEF ChainInv, Started, OnSchedule
<1>9. r.epochStartedAt <= now /\ EpochsAt(r, now) = 0
  <2> DEFINE s == f.epochStartedAt
             d == f.epochLength
             x == now - s
  <2>1. x \in Nat /\ d \in Nat \ {0} /\ s \in Nat /\ k = x \div d /\ now = s + x
    BY <1>1
  <2>2. r.epochStartedAt = s + k * d /\ r.epochLength = d
    BY <1>1, <1>4 DEF Along
  <2> HIDE DEF s, d, x
  <2>3. k * d <= x /\ x < k * d + d /\ k \in Nat
    BY <2>1, Quotients
  <2> DEFINE y == x - k * d
  <2>4. k * d \in Nat
    BY <2>1, <2>3
  <2>5. y \in Nat /\ y < d /\ now - r.epochStartedAt = y /\ now >= r.epochStartedAt
        /\ r.epochStartedAt <= now
    <3> DEFINE p == k * d
               t == r.epochStartedAt
    <3>1. p \in Nat /\ p <= x /\ x < p + d /\ t = s + p /\ y = x - p
      BY <2>2, <2>3, <2>4
    <3> HIDE DEF p, t, y
    <3>2. y \in Nat /\ y < d /\ now - t = y /\ now >= t /\ t <= now
      BY <2>1, <3>1
    <3> QED BY <3>2 DEF t
  <2> HIDE DEF y
  <2>6. y \div d = 0
    BY <2>1, <2>5, Quotients
  <2> QED BY <2>2, <2>5, <2>6 DEF EpochsAt
<1>10. Caught' = r
  <2>1. Caught' = SyncAt(r, now)
    BY <1>2, <1>8, NextCaughtIs
  <2> QED BY <1>7, <1>8, <1>9, <2>1, TurnedEquation DEF SyncAt
<1>11. ScheduleInv'
  <2>1. r.maxSupply = GenesisEmission.maxSupply /\ r.divisor = GenesisEmission.divisor
    BY <1>1, <1>4 DEF Along
  <2>2. emission'.epochStartedAt <= now' /\ OnSchedule(Full(emission')) /\ Started(emission')
    BY <1>2, <1>7, <1>8, <1>9
  <2> QED BY <1>2, <2>1, <2>2 DEF ScheduleInv, Started, OnSchedule, Full
<1>12. n \in 1..GenesisEmission.maxSupply
  BY <1>1, <1>2, <1>3, EmissionFields DEF Along, RemainingScheduled
<1> QED
  BY <1>4, <1>5, <1>6, <1>10, <1>11, <1>12 DEF FollowsStep, c

(* A fresh schedule starts with the first block.                           *)
LEMMA ScheduleStart ==
  ASSUME FreshGenesis, ChainInit
  PROVE  ScheduleInv /\ Lazy!PolicyInit
<1> DEFINE g == GenesisEmission
           e == [g EXCEPT !.genesisTime = now, !.epochStartedAt = now]
           f == Full(emission)
<1>1. ChainInv
  BY ChainStart
<1>2. now \in Nat \ {0} /\ g \in EmissionRecord /\ emission = e
  BY EscrowAssumption, EmissionAssumption
     DEF FreshGenesis, ChainInit, Init, EscrowsInit, EmissionInit, ImportedEmission
<1>3. /\ e.genesisTime = now /\ e.epochStartedAt = now
      /\ e.maxSupply = g.maxSupply /\ e.divisor = g.divisor /\ e.epochLength = g.epochLength
      /\ e.currentEpoch = g.currentEpoch /\ e.epochMined = g.epochMined
      /\ e.totalMined = g.totalMined /\ e.burnedUnclaimed = g.burnedUnclaimed
      /\ e.scheduled = g.scheduled
  BY <1>2 DEF EmissionRecord
<1>4. /\ g.maxSupply # 0 /\ g.currentEpoch = 1 /\ g.epochMined = 0
      /\ g.totalMined = 0 /\ g.burnedUnclaimed = 0
      /\ g.scheduled \in {0, NextEpochScheduled(g)}
  BY DEF FreshGenesis
<1>5. g.maxSupply \in Nat /\ g.divisor \in Nat
  BY <1>2, EmissionFields
<1> HIDE DEF e, g
<1>6. emission \in EmissionRecord /\ emission.divisor # 0
  BY <1>1 DEF ChainInv, SoundEmission, ValidEmission
<1>7. /\ f.scheduled = IF e.scheduled = 0 THEN NextEpochScheduled(e) ELSE e.scheduled
      /\ f.maxSupply = e.maxSupply /\ f.divisor = e.divisor
      /\ f.currentEpoch = e.currentEpoch /\ f.epochMined = e.epochMined
      /\ f.totalMined = e.totalMined /\ f.burnedUnclaimed = e.burnedUnclaimed
      /\ f.epochStartedAt = e.epochStartedAt
  BY <1>2, <1>6, FullFields
<1>8. SoundEmission(emission) /\ Started(emission)
  BY <1>1, <1>2, <1>3 DEF ChainInv, Started
<1>9. Caught = Turned(f)[EpochsAt(f, now)]
  BY <1>8, CaughtIs DEF CaughtAtNow, SyncAt
<1>10. SoundEmission(f)
  <2>1. EscrowsTypeOK
    BY <1>1 DEF ChainInv, LedgerInv, TypeOK
  <2> QED BY <1>8, <2>1, FilledIsFull, FilledSound
<1> HIDE DEF f
<1>11. EpochsAt(f, now) = 0
  <2>1. f.epochLength \in Nat \ {0}
    BY <1>10, EmissionFields DEF SoundEmission, ValidEmission
  <2>2. now >= f.epochStartedAt /\ now - f.epochStartedAt = 0
    BY <1>2, <1>3, <1>7
  <2> QED BY <2>1, <2>2, Quotients DEF EpochsAt
<1>12. Caught = f
  BY <1>9, <1>10, <1>11, TurnedEquation
<1>13. RemainingScheduled(f) = g.maxSupply /\ Left(f) = g.maxSupply
  BY <1>3, <1>4, <1>5, <1>7 DEF RemainingScheduled, Left
<1>14. RemainingScheduled(e) = g.maxSupply /\ RemainingScheduled(g) = g.maxSupply
  BY <1>3, <1>4, <1>5 DEF RemainingScheduled
<1>15. OnSchedule(f)
  <2>1. /\ NextEpochScheduled(e) = RewardOf(g.maxSupply, g.divisor)
        /\ NextEpochScheduled(g) = RewardOf(g.maxSupply, g.divisor)
    BY <1>3, <1>14 DEF NextEpochScheduled, RewardOf
  <2> QED BY <1>3, <1>4, <1>7, <1>13, <2>1 DEF OnSchedule
<1>16. ScheduleInv
  <2>1. emission.epochStartedAt <= now
    BY <1>2, <1>3
  <2> QED BY <1>1, <1>2, <1>3, <1>8, <1>15, <2>1 DEF ScheduleInv, f, g
<1>17. Lazy!PolicyInit
  BY <1>3, <1>4, <1>7, <1>12, <1>13 DEF Lazy!PolicyInit, Left, g
<1> QED
  BY <1>16, <1>17

(* Every step of the chain is one of the policy, or the policy does not    *)
(* see it.                                                                 *)
LEMMA ScheduleStep ==
  ASSUME ScheduleInv, [ChainNext]_chainVars
  PROVE  ScheduleInv' /\ [Lazy!PolicyNext]_(Lazy!policyVars)
<1>1. ChainInv /\ ChainInv' /\ Started(emission)
  BY ChainStep DEF ScheduleInv
<1>2. EmissionStep
  BY <1>1, EmissionMoves
<1>3. ScheduleInv' /\ FollowsStep
  <2>1. CASE emission' = emission /\ (now' = now \/ now' = now + 1)
    BY <1>1, <2>1, TimeFollows
  <2>2. CASE now' = now /\ \E n \in Nat \ {0} : Minted(n)
    BY <1>1, <2>2, MintFollows
  <2> QED BY <1>2, <2>1, <2>2 DEF EmissionStep
<1>4. Caught.scheduled = Lazy!Reward
  <2>1. OnSchedule(Caught) /\ Caught.divisor = GenesisEmission.divisor
    BY CaughtNow DEF Along
  <2> QED BY <2>1 DEF OnSchedule, Left, RewardOf, Lazy!Reward
<1>5. [Lazy!PolicyNext]_(Lazy!policyVars)
  <2>1. CASE Seen(Caught') = Seen(Caught)
    BY <2>1 DEF Seen, Left, Lazy!policyVars
  <2>2. CASE /\ Caught'.currentEpoch = Caught.currentEpoch + 1
             /\ Left(Caught') = Left(Caught) - Caught.scheduled /\ Caught'.epochMined = 0
    BY <1>4, <2>2 DEF Left, Lazy!PolicyNext, Lazy!CloseEpoch
  <2>3. CASE \E n \in 1..GenesisEmission.maxSupply :
               /\ Caught.epochMined + n <= Caught.scheduled
               /\ Caught'.currentEpoch = Caught.currentEpoch /\ Left(Caught') = Left(Caught)
               /\ Caught'.epochMined = Caught.epochMined + n
    BY <1>4, <2>3 DEF Left, Lazy!PolicyNext, Lazy!Mine
  <2> QED BY <1>3, <2>1, <2>2, <2>3 DEF FollowsStep
<1> QED
  BY <1>3, <1>5

LEMMA ScheduleStarts == FreshGenesis /\ ChainInit => ScheduleInv /\ Lazy!PolicyInit
BY ScheduleStart

LEMMA ScheduleSteps ==
  ScheduleInv /\ [ChainNext]_chainVars => ScheduleInv' /\ [Lazy!PolicyNext]_(Lazy!policyVars)
BY ScheduleStep

(***************************************************************************)
(* The lazy catch-up of syncEmissionState implements the policy: from a    *)
(* genesis file whose schedule has not begun, every epoch closes on time   *)
(* with the reward the policy gives it, for every supply, divisor, epoch   *)
(* length and however many epochs pass between two mints.                  *)
(***************************************************************************)
THEOREM ChainFollowsPolicy == FreshGenesis /\ ChainSpec => FollowsPolicy
<1>1. FreshGenesis /\ ChainInit => ScheduleInv /\ Lazy!PolicyInit
  BY ScheduleStarts
<1>2. ScheduleInv /\ [ChainNext]_chainVars
        => ScheduleInv' /\ [Lazy!PolicyNext]_(Lazy!policyVars)
  BY ScheduleSteps
<1> QED
  BY <1>1, <1>2, PTL DEF ChainSpec, FollowsPolicy, Lazy!Policy
=============================================================================
