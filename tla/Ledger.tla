------------------------------- MODULE Ledger -------------------------------
(***************************************************************************)
(* The account ledger of x/agntcoin: one Account record per address, with  *)
(* a balance and a registered flag (keeper.go, Account), and the messages  *)
(* that only touch accounts: Register, Transfer and the retired Faucet.    *)
(* Transactions run one at a time and a failing one changes nothing, so a  *)
(* message is one atomic action whose guard is the conjunction of the      *)
(* handler's checks.                                                       *)
(***************************************************************************)
EXTENDS Coins

CONSTANTS
  Addr,                  \* well-formed addresses
  NoAddr,                \* the empty address string
  Amount,                \* amounts a message may carry (uint64; 0 included)
  TransferTerms,         \* what Transfer may ask for: [from, to, amount]
  MinNewAccountCredit,   \* least amount that may create an account
  GenesisAccount,        \* account records at genesis
  GenesisBalance         \* balances at genesis

AccountState == {"absent", "unregistered", "registered"}

ASSUME AddrAssumption == IsFiniteSet(Addr) /\ NoAddr \notin Addr

ASSUME AmountAssumption ==
  /\ Amount \subseteq Nat
  /\ TransferTerms \subseteq [from : Addr, to : Addr, amount : Amount]
  /\ MinNewAccountCredit \in Nat

(* A record that was never registered holds nothing at genesis: no message *)
(* credits an account without registering it.                              *)
ASSUME GenesisAssumption ==
  /\ GenesisAccount \in [Addr -> AccountState]
  /\ GenesisBalance \in [Addr -> Nat]
  /\ \A a \in Addr : GenesisAccount[a] # "registered" => GenesisBalance[a] = 0

VARIABLES
  account,   \* for each address, whether it has a record and is registered
  balance    \* Account.Balance (0 for an address without a record)

ledgerVars == <<account, balance>>

LedgerTypeOK ==
  /\ account \in [Addr -> AccountState]
  /\ balance \in [Addr -> Nat]

LedgerInit ==
  /\ account = GenesisAccount
  /\ balance = GenesisBalance

(* The dust guard: an address without a record is only created by a credit *)
(* of at least MinNewAccountCredit.                                        *)
CheckNewAccountCredit(to, amount) ==
  account[to] = "absent" => amount >= MinNewAccountCredit

(* Mutant: the balance check is missing.                                   *)
CanPayUnchecked(a, amount) == account[a] = "registered"

(* The checks every paying message makes of its signer.                    *)
CanPay(a, amount) == account[a] = "registered" /\ balance[a] >= amount

(* Mutant: the debit is not stored.                                        *)
DebitLost(bal, a, amount) == bal

Debited(bal, a, amount)  == [bal EXCEPT ![a] = @ - amount]
Credited(bal, a, amount) == [bal EXCEPT ![a] = @ + amount]

(* Mutant: the payee is not registered, nor its dust guard checked.        *)
EnsureNothing(to, guardAmount) == UNCHANGED account

(* Creates or registers the record of an address without crediting it.     *)
EnsureRegistered(to, guardAmount) ==
  /\ CheckNewAccountCredit(to, guardAmount)
  /\ account' = [account EXCEPT ![to] = "registered"]

(* Mutant: the record is created without the registered flag.              *)
CreditUnregistered(bal, to, amount) ==
  /\ CheckNewAccountCredit(to, amount)
  /\ account' = [account EXCEPT ![to] = IF @ = "absent" THEN "unregistered" ELSE @]
  /\ balance' = Credited(bal, to, amount)

(* Credits an address, creating or registering its record; bal is the      *)
(* ledger after the debits the same message has already made.              *)
CreditAccount(bal, to, amount) ==
  /\ CheckNewAccountCredit(to, amount)
  /\ account' = [account EXCEPT ![to] = "registered"]
  /\ balance' = Credited(bal, to, amount)

(* A first registration writes a fresh record with a zero balance.         *)
Register(a) ==
  /\ account[a] # "registered"
  /\ account' = [account EXCEPT ![a] = "registered"]
  /\ balance' = [balance EXCEPT ![a] = 0]

Transfer(from, to, amount) ==
  /\ amount # 0
  /\ from # to
  /\ CanPay(from, amount)
  /\ CreditAccount(Debited(balance, from, amount), to, amount)

LedgerNext ==
  \/ \E a \in Addr : Register(a)
  \/ \E t \in TransferTerms : Transfer(t.from, t.to, t.amount)

(***************************************************************************)
(* A record that is not registered holds no coins.  Register overwrites    *)
(* such a record with a zero balance, so this is what keeps Register from  *)
(* destroying coins.                                                       *)
(***************************************************************************)
UnregisteredHoldNothing ==
  \A a \in Addr : account[a] # "registered" => balance[a] = 0
=============================================================================
