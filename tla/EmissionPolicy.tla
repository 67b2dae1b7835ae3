--------------------------- MODULE EmissionPolicy ---------------------------
(***************************************************************************)
(* What the emission schedule promises: an epoch that ends is closed at    *)
(* once; closing it removes its whole scheduled reward from what is left   *)
(* of the maximal supply, however much of it was mined; the reward of the  *)
(* next epoch is a fixed fraction of what is left.                         *)
(***************************************************************************)
EXTENDS Naturals

CONSTANTS Supply,    \* the most that may ever be mined
          Fraction   \* an epoch schedules 1/Fraction of what is left

VARIABLES
  epoch,       \* the current epoch, numbered from 1
  remaining,   \* what was left of the supply when it began
  mined        \* what has been mined in it

policyVars == <<epoch, remaining, mined>>

(* The reward of the current epoch; the last units form one epoch's reward.*)
Reward == IF remaining < Fraction THEN remaining ELSE remaining \div Fraction

PolicyInit ==
  /\ epoch = 1
  /\ remaining = Supply
  /\ mined = 0

Mine(n) ==
  /\ mined + n <= Reward
  /\ mined' = mined + n
  /\ UNCHANGED <<epoch, remaining>>

CloseEpoch ==
  /\ epoch' = epoch + 1
  /\ remaining' = remaining - Reward
  /\ mined' = 0

PolicyNext == CloseEpoch \/ \E n \in 1..Supply : Mine(n)

Policy == PolicyInit /\ [][PolicyNext]_policyVars
=============================================================================
