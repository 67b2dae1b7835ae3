--------------------------- MODULE MarketCustody ---------------------------
(***************************************************************************)
(* The chain's escrows and bonds as deposits.                              *)
(***************************************************************************)
EXTENDS Market

DepositIds == {<<"escrow", id>> : id \in DOMAIN escrow} \cup {<<"bond", id>> : id \in DOMAIN bond}

Deposits == INSTANCE Custody WITH
  free    <- Total(balance),
  supply  <- Total(GenesisBalance) - burned,
  deposit <- [x \in DepositIds |->
                IF x[1] = "escrow" THEN escrow[x[2]].amount ELSE bond[x[2]].amount],
  closed  <- {x \in DepositIds : IF x[1] = "escrow" THEN ~Held(x[2]) ELSE ~ActiveBond(x[2])}

(***************************************************************************)
(* The market implements Custody: an escrow and a bond is paid out, given  *)
(* back, slashed or burned once and as a whole; no verdict, challenge or   *)
(* reclaim reopens one or changes its amount.                              *)
(***************************************************************************)
EscrowsAreDeposits == Deposits!CustodySpec
=============================================================================
