------------------------------ MODULE Custody ------------------------------
(***************************************************************************)
(* What every escrow of the system promises, on the chain and on Base:     *)
(* coins are deposited under a name, and a deposit is closed as a whole    *)
(* and for good.  Nothing says here who gets the coins.                    *)
(***************************************************************************)
EXTENDS Coins

VARIABLES
  free,      \* the coins that are in no deposit
  deposit,   \* name -> amount, of every deposit there ever was
  closed,    \* the names of the closed deposits
  supply     \* the coins in existence

custodyVars == <<free, deposit, closed, supply>>

Open == [x \in DOMAIN deposit \ closed |-> deposit[x]]

CustodyInit ==
  /\ deposit = [x \in {} |-> 0]
  /\ closed = {}
  /\ free = supply

(* One transaction opens and closes any number of deposits, and may mint   *)
(* or burn.                                                                *)
Transact ==
  /\ DOMAIN deposit \subseteq DOMAIN deposit'
  /\ \A x \in DOMAIN deposit : deposit'[x] = deposit[x]
  /\ closed \subseteq closed' /\ closed' \subseteq DOMAIN deposit'
  /\ free' + Total(Open') = supply'

CustodySpec == CustodyInit /\ [][Transact]_custodyVars
=============================================================================
