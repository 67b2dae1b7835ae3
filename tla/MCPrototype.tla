---------------------------- MODULE MCPrototype ----------------------------
(***************************************************************************)
(* An instance of the prototype node for TLC.                              *)
(***************************************************************************)
EXTENDS Prototype

CONSTANTS ada, bob, cyd

Signed(type, from, to, amount, nonce) ==
  [type |-> type, from |-> from, to |-> to, amount |-> amount, nonce |-> nonce,
   signed |-> TRUE]

FundedAda ==
  <<Signed("register", ada, ada, 0, 0), Signed("register", bob, bob, 0, 0),
    Signed("faucet", ada, ada, 0, 1)>>

Traffic ==
  {Signed("register", cyd, cyd, 0, 0), Signed("faucet", bob, bob, 0, 1),
   Signed("faucet", ada, ada, 0, 2), Signed("transfer", ada, bob, 2, 2),
   Signed("transfer", ada, bob, 2, 3), Signed("transfer", ada, cyd, 1, 2),
   Signed("vouch", ada, bob, 1, 2), Signed("vouch", ada, bob, 2, 3),
   [Signed("transfer", bob, ada, 1, 1) EXCEPT !.signed = FALSE]}
=============================================================================
