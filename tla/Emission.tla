------------------------------ MODULE Emission ------------------------------
(***************************************************************************)
(* The emission schedule (EmissionState) and the mint every protocol       *)
(* reward goes through.  The epochs are rolled lazily: syncEmissionState   *)
(* catches up with the block time when something is minted, and only a     *)
(* mint that succeeds stores the result.                                   *)
(***************************************************************************)
EXTENDS Market

CONSTANTS
  MaxSupply,         \* MaxSupply of the default state
  EpochLength,       \* EpochLengthSeconds
  RewardDivisor,     \* EpochRewardDivisor
  GenesisEmission    \* the emission state in the genesis file

EmissionRecord ==
  [maxSupply : Nat, epochLength : Nat, divisor : Nat, genesisTime : Nat,
   currentEpoch : Nat, epochStartedAt : Nat, scheduled : Nat, epochMined : Nat,
   totalMined : Nat, burnedUnclaimed : Nat]

VARIABLE emission   \* EmissionState

DefaultEmissionState(startedAt) ==
  [maxSupply |-> MaxSupply, epochLength |-> EpochLength, divisor |-> RewardDivisor,
   genesisTime |-> startedAt, currentEpoch |-> 1, epochStartedAt |-> startedAt,
   scheduled |-> MaxSupply \div RewardDivisor, epochMined |-> 0, totalMined |-> 0,
   burnedUnclaimed |-> 0]

RemainingScheduled(e) ==
  IF e.totalMined + e.burnedUnclaimed >= e.maxSupply THEN 0
  ELSE e.maxSupply - e.totalMined - e.burnedUnclaimed

RemainingEpoch(e) ==
  IF e.epochMined >= e.scheduled THEN 0 ELSE e.scheduled - e.epochMined

(* What GenesisState.Validate asks of the emission state.                  *)
ValidEmission(e) ==
  /\ 0 \notin {e.maxSupply, e.epochLength, e.divisor, e.currentEpoch}
  /\ e.totalMined + e.burnedUnclaimed <= e.maxSupply
  /\ e.epochMined <= e.scheduled

(* What was mined, what was burned unclaimed and what the epoch may still  *)
(* mine are within the supply.                                             *)
Capped(e) == e.totalMined + e.burnedUnclaimed + RemainingEpoch(e) <= e.maxSupply

(* The genesis file has no emission state, the default one or the one that *)
(* ExportGenesis wrote on another chain.  All of them have the default     *)
(* length of an epoch, seven days: int64 of it is itself, and positive.    *)
ASSUME EmissionAssumption ==
  /\ MaxSupply \in Nat \ {0} /\ EpochLength \in Nat \ {0} /\ RewardDivisor \in Nat \ {0}
  /\ GenesisEmission \in EmissionRecord
  /\ GenesisEmission.maxSupply # 0 => ValidEmission(GenesisEmission) /\ Capped(GenesisEmission)

(* InitGenesis: a state without a supply is the default one, and a state   *)
(* without a start starts now.                                             *)
ImportedEmission(e) ==
  LET given == IF e.maxSupply = 0 THEN DefaultEmissionState(0) ELSE e
  IN IF given.genesisTime = 0
     THEN [given EXCEPT !.genesisTime = now, !.epochStartedAt = now]
     ELSE given

EmissionTypeOK == emission \in EmissionRecord /\ emission.maxSupply > 0

EmissionInit == emission = ImportedEmission(GenesisEmission)

(* The last units, too few to divide, are scheduled as a whole.            *)
NextEpochScheduled(e) ==
  IF RemainingScheduled(e) < e.divisor
  THEN RemainingScheduled(e)
  ELSE RemainingScheduled(e) \div e.divisor

(* Fields a genesis file may have left at zero.                            *)
Filled(e) ==
  LET f == [e EXCEPT !.genesisTime    = IF @ = 0 THEN now ELSE @,
                     !.epochStartedAt = IF @ = 0 THEN now ELSE @,
                     !.currentEpoch   = IF @ = 0 THEN 1 ELSE @,
                     !.epochLength    = IF @ = 0 THEN EpochLength ELSE @,
                     !.divisor        = IF @ = 0 THEN RewardDivisor ELSE @]
  IN [f EXCEPT !.scheduled = IF @ = 0 THEN NextEpochScheduled(f) ELSE @]

(* Mutants: what was not mined is carried over; the next reward is         *)
(* computed before the burn.                                               *)
RollEpochCarryOver(e) ==
  LET closed == [e EXCEPT !.currentEpoch = @ + 1, !.epochStartedAt = @ + e.epochLength,
                          !.epochMined = 0]
  IN [closed EXCEPT !.scheduled = NextEpochScheduled(closed) + RemainingEpoch(e)]
RollEpochBeforeBurn(e) ==
  [e EXCEPT !.burnedUnclaimed = @ + RemainingEpoch(e), !.currentEpoch = @ + 1,
            !.epochStartedAt = @ + e.epochLength, !.epochMined = 0,
            !.scheduled = NextEpochScheduled(e)]

(* One turn of the catch-up loop: the epoch's rest is burned.              *)
RollEpoch(e) ==
  LET closed == [e EXCEPT !.burnedUnclaimed = @ + RemainingEpoch(e),
                          !.currentEpoch = @ + 1,
                          !.epochStartedAt = @ + e.epochLength, !.epochMined = 0]
  IN [closed EXCEPT !.scheduled = NextEpochScheduled(closed)]

(* How often the loop turns: while now >= epochStartedAt + epochLength,    *)
(* and every turn adds a length to the start.  The code's test that the    *)
(* length, as an int64, is positive holds for every length assumed above.  *)
EpochsOver(e) ==
  IF now >= e.epochStartedAt THEN (now - e.epochStartedAt) \div e.epochLength ELSE 0

SyncEmissionState(e) ==
  LET roll[r \in EmissionRecord] == RollEpoch(r)
      turn[n \in Nat] == IF n = 0 THEN Filled(e) ELSE roll[turn[n - 1]]
  IN turn[EpochsOver(Filled(e))]

CanMint(e, amount) == amount <= RemainingScheduled(e) /\ amount <= RemainingEpoch(e)

(* mintProtocolReward for each of the recipients, in one transaction: the  *)
(* first mint syncs, the others find the state in sync; each checks the    *)
(* limits after the ones before, so all fit or the transaction fails.      *)
MintProtocolReward(recipients, amount) ==
  LET e == SyncEmissionState(emission)
      minted == amount * Cardinality(recipients)
  IN /\ amount # 0
     /\ \A a \in recipients : CheckNewAccountCredit(a, amount)
     /\ CanMint(e, minted)
     /\ emission' = [e EXCEPT !.totalMined = @ + minted, !.epochMined = @ + minted]
     /\ account' = [a \in Addr |-> IF a \in recipients THEN "registered" ELSE account[a]]
     /\ balance' = [a \in Addr |->
                      IF a \in recipients THEN balance[a] + amount ELSE balance[a]]

-----------------------------------------------------------------------------
(***************************************************************************)
(* The hard cap: what was mined, what was burned unclaimed and what the    *)
(* current epoch may still mine never exceed the maximal supply, whatever  *)
(* epochs were missed and however the rewards were rounded.                *)
(***************************************************************************)
SupplyCap == Capped(emission)

(* The state as the next mint would find it.                               *)
Caught == SyncEmissionState(emission)

Lazy == INSTANCE EmissionPolicy WITH
          Supply    <- GenesisEmission.maxSupply,
          Fraction  <- GenesisEmission.divisor,
          epoch     <- Caught.currentEpoch,
          mined     <- Caught.epochMined,
          remaining <- RemainingScheduled(Caught) + Caught.epochMined

(***************************************************************************)
(* The lazy catch-up implements the policy: seen through the sync that the *)
(* next mint would make, every epoch closes on time with the reward the    *)
(* policy gives it, although the code may roll many epochs in one mint.    *)
(***************************************************************************)
FollowsPolicy == Lazy!Policy
=============================================================================
