# Verification of ag3nt-coin

ag3nt-coin is a Cosmos SDK chain (`chain/`) whose module `x/agntcoin` keeps a
ledger of AGNT, settles paid work between agents (escrows, staked verifiers,
slashable bonds, a jury), mints rewards for reviews and contributions on a
capped schedule, and keeps a graph of staked vouches. Around it are a Solidity
escrow on Base (`contracts/`) with the programs that trade on it (`agent/`), a
command-line client (`client/`) and the TypeScript node the chain was ported
from (`ts-reference/`). This directory models these parts in TLA+, checks them
with TLC and proves nearly all of their safety properties with TLAPS.

## Inventory

| part | state | operations | interacts with |
|---|---|---|---|
| account ledger (`credit.go`, `msg_server_register.go`, `_transfer.go`) | `Account`: balance, registered | Register, Transfer; Faucet (always fails) | every message that pays or locks coins |
| bonds (`msg_server_*_bond.go`) | `Bond`, `BondSeq` | PostBond, ReleaseBond, SlashBond | ledger; attestations, disputes and votes store bonds of their own |
| escrows (`msg_server_{lock,submit,release,refund,dispute}_escrow.go`) | `Escrow`, `EscrowSeq`, block time | Lock, Submit, Release, Refund, Dispute | ledger |
| verifier layer (`msg_server_attest_escrow.go`, `_verified_release.go`, `_reclaim_attestation_bonds.go`) | attestations, pins and windows in `Escrow` | Attest, VerifiedRelease, Reclaim | escrows, bonds |
| disputes and jury (`msg_server_open_dispute.go`, `_cast_vote.go`, `_resolve_dispute.go`) | `Dispute`, `DisputeSeq` | OpenDispute, CastVote, ResolveDispute | escrows, bonds, ledger, juror set |
| governed parameters (`msg_update_params.go`, `resolveAnchors`) | `Params.Anchors`, a node's environment and file | UpdateParams | jury, gates, awards, reputation |
| emission (`emission.go`) | `EmissionState` | epoch roll, mint | gates, awards |
| gates (`msg_server_gate.go`) | `Gate`, `GateSeq` | PostGate, CommitAnswer, RevealAnswer, SettleGate | emission, ledger |
| awards (`msg_server_award_contribution.go`) | `ContributionAward` | AwardContribution | emission, ledger |
| vouches (`msg_server_castvouch.go`, `_unvouch.go`, `_cast_scoped_evidence_vouch.go`) | `Vouch`, `ScopedEvidenceVouch` | Castvouch, Unvouch, CastScopedEvidenceVouch | ledger, reputation |
| reputation (`pagerank.go`, `reputation_score.go`) | none | PageRank over vouches, paid jobs and endorsements | vouches, escrows, disputes, jurors |
| genesis (`genesis.go`, `types/genesis.go`) | all collections | InitGenesis, ExportGenesis, Validate | everything |
| wire codec (`types/*.pb.go`) | none | Marshal, Unmarshal of every message | the store, transactions, queries, the client |
| client (`ag3nt.ts`) | none | encoders of its own, signAndBroadcast | the chain's decoder, mempool and blocks |
| contracts (`JobEscrow.sol`, `Ag3nt.sol`) | jobs, tokens | postJob, claimJob, submitResult, release, dispute, the claim timeout | the agents |
| agents (`worker.ts`, `agent-a.ts`) | a worker's memory, a buyer's loop | boot scan, watch, claim, work, submit; post, judge, settle | the contract, each other |
| prototype (`ts-reference/`) | block files, state in memory | requests, the queue of blocks, replay at start | its clients |

What is hard. On the chain: transactions of many kinds of signers interleave
freely; windows of block time race with messages at their edges; one verdict
settles up to three kinds of stakes that other messages could have touched
before; an escrow can go through more than one case; the juror set may change
while a case is open; rewards compete for what an epoch has left, and the
schedule is rolled only when somebody mints; an export leaves part of the state
behind. Transactions themselves are atomic (the SDK discards the writes of a
failing one) and run one at a time, so there are no data races inside a
handler. Around the chain: two processes sign with one key, answers get lost,
receipts come late, workers and nodes crash between two awaits, and a message
may be cut or be of a newer version. `PROJECT.json` lists the hazards line by
line.

## Modules

    Coins <- Ledger <- Bonds <- Escrows <- Market <- Emission <- Gates --+
      ^                                      ^  ^  ^     ^               |
      |                                      |  |  |     +---- Awards ---+-- Chain <- MCChain
      |                                      |  |  +---------- Vouches --+
      |                                      |  +- MarketCustody <- MCMarket
    CoinsProofs <------------------------- MarketProofs <- JuryProofs <- ChainProofs

    Custody         implemented by MarketCustody and by JobEscrow
    EmissionPolicy  implemented by Emission

    Framing <- Wire <- StateTables, TxTables, QueryTables, ClientTables <- Codec <- MCCodec
    JobEscrow <- Trade <- MCTrade        Prototype <- MCPrototype
    Broadcast <- MCBroadcast

    Trade <- TradeProofs    Prototype <- PrototypeProofs    Broadcast <- BroadcastProofs
    Framing <- FramingProofs
    (the modules named ...Proofs hold the theorems; TLAPS checks them)

**The market.** `Coins`: the total of a map of amounts, by counting coins, and
the map update of the store. `Ledger`: accounts (`absent`, `unregistered`,
`registered`) and balances; Register, Transfer; the dust guard and the
registering credit. `Bonds`: PostBond, ReleaseBond, SlashBond; `LockStake`, the
debit and the new bond at the end of PostBond, AttestEscrow, OpenDispute and
CastVote; `SettleClaims`, the loops that settle the protocol's stakes.
`Escrows`: block time and all messages about one escrow, the verifiers'
included. `Market`: jury and parameters, `Next`, `Spec`, the properties and the
fair specification.

**Rewards and trust.** `Emission`: `EmissionState`, the lazy catch-up
(`SyncEmissionState`, a recursive function that rolls the missed epochs one by
one) and `MintProtocolReward`. `Gates` and `Awards` mint through it. A gate's
live verdict is the loop of the code over the counts, run over every order in
which Go may walk the map. `Vouches`: staked vouches, scoped evidence, and the
trust graph. `Chain`: all of `x/agntcoin` in one next-state relation, with
`ExportImport`, an export and the start of a new chain from the file between
two transactions.

**Abstract specifications.** `Custody` says what an escrow promises: coins are
deposited under a name, a deposit is closed once and as a whole, and no coin is
outside the free ones and the open deposits. `MarketCustody` maps the escrows
and bonds of the chain to deposits, `JobEscrow` the payments and bonds of the
contract; both are shown to implement it (`EscrowsAreDeposits`,
`JobsAreDeposits`). `EmissionPolicy` closes every epoch at once and schedules a
fixed fraction of the rest; the code, which may roll many epochs in one mint,
implements it when seen through the sync the next mint would make
(`FollowsPolicy`).

**The wire.** The generated code repeats one reader and one writer for every
message. `Framing` has what both are made of (numbers in groups of 7 bits, tags,
bytes behind a length, the error returns), `Wire` the reader and the writer of a
message with the skipping of unknown fields of every wire type, and the modules `StateTables`,
`TxTables`, `QueryTables` one table of fields per message and direction,
written from the cases of `MarshalToSizedBuffer` and of `Unmarshal` separately:
that both agree is what `RoundTrip` checks. `ClientTables` has the client's own
encoders, `Codec` a message on its way from a Go program or the client to a Go
program. The client is given any number: `RoundTrip` says that its messages
arrive as they were meant exactly when every number is one its varint can carry
(not negative, and within the field). A message may be cut, carry a field of a
newer version, or carry a field whose length is negative, over the word or
beyond the end (`DamageInventsNothing`).

**Around the chain.** `JobEscrow` is the contract with the token's balances and
capped mint; `Trade` the buyers' and workers' programs against it, one step
from await to await, with crashes and late receipts; `Prototype` the TypeScript
node with its queue, block files, torn writes and replay; `Broadcast` the
client's `signAndBroadcast` with the node's mempool, modelled from how the
client uses it (marked external). Every answer with a code makes the client
throw the same error; the model tells apart the node's rejection of a sequence
(`rejected`), its refusal for another reason such as a full mempool
(`refused`), and an error of the gateway in front of it (`gateway`), after
which the node may or may not have the transaction.

### State and code

`account` and `balance` are `Account.Registered` (with the existence of the
record) and `Account.Balance`; `bond`, `escrow`, `dispute`, `gate`, `award`,
`vouch` are the collections of the same names and `...Seq` their sequences;
`emission` is `EmissionState`; `now` is the block time in seconds; `anchors` is
`Params.Anchors`. History variables: `burned` (collateral slashed to nobody),
`revealed` (a VerifiedRelease published the key), `conceded` (the payer
released), `imports` and `dropped` (coins of active bonds that an import did
not restore). One action is one message handler; its guard is the conjunction
of the handler's checks, because a handler that fails changes nothing.
`attestedAt` of an attestation is the block time the code records with it; no
handler reads it, and `RefundJustified` counts the window of a fail verdict from
it instead of trusting the deadline that the refund reads. `PaidWithAuthority`
counts only verdicts about the hashes that are committed when the payee is paid.

### Data abstraction

* Addresses are well-formed ones. Hash strings are digests, the empty string,
  or neither; the comparisons of the code ignore case, so a digest stands for
  all its spellings. `Sha256` is a function from keys to digests.
* The commitment of a gate answer hashes `<answer>:<salt>`; its model is that
  text, a sequence of characters with the separator, so two pairs with the same
  text have the same digest.
* A purpose string is a kind and an id. Attestations and votes are sets: an
  attester and a juror appear once, and where the code depends on the order of
  the list (the first pass attester) the bond ids give it.
* Of a reputation score the model keeps whether it is positive: the nodes that
  rank reaches from the teleport set in `MaxIterations` rounds. Somebody with a
  positive score may or may not reach the threshold for evidence.
* Fields that no handler reads (references, URIs, `released_at`, the expiry of
  evidence) and events are left out, except `attested_at` and the key event.
  Texts of an award are present or blank.
* A juror list from a node's environment may name somebody twice;
  `NodeAnchors` is a set.
* The conversion of the dispute window from uint64 to int64 is kept, in words
  of `Word` values. The codec has words of 15 bits and field numbers of 8: like
  64, 15 is one more than a multiple of 7, so the last group of a varint has
  bits that do not fit.
* The length of an epoch is seven days in every genesis considered (none, the
  default state, an exported one): `int64` of it is itself, and the test of the
  catch-up loop that it is positive always holds. A hand-written genesis with a
  length of 2^63 or more would stop the schedule (`emission.go:90`).
* Two calls of the client never sign the same bytes. Calls with one sequence and
  the same message would, and both would be told about the one transaction.
* In `JobEscrow` allowances are given and what the work is, is one bit.

## Runs

| run | instance | shows |
|---|---|---|
| `market` | payer, payee, a payee nobody has heard of, 2 verifiers, 1 juror; ordinary, jury-bound and verifier-bound escrows, quorum 1 or 2, a window of 2, a wrapped deadline; up to 2 cases | conservation, exclusive control of the jury, justified payments and refunds, settlement of all stakes, collateral through the window, the buyer made whole, verdicts never abort, no registration wipes a balance; refinement of `Custody` |
| `anchors` | 2 jurors, the juror set changed to a larger one or to the empty set, bonds posted with the purpose of the dispute | the verdict settles exactly its own stakes; a bond is resolved once: a stake by its own case or reclaim, a posted bond by neither |
| `liveness` | payer, payee, verifier, 3 jurors, fairness | deliveries are not trapped, stakes come back, cases settle |
| `rewards` | 4 answerers (one unregistered), 3 answers, live and decoy gates, awards, 4 epochs of a supply of 7 | the cap, mints only for work, the plurality in every map order, nothing to copy, gates settle; refinement of `EmissionPolicy` |
| `trust` | 4 addresses, 3 vouches, a jury-bound job with a case, evidence, 2 awards, one import | vouches and evidence count once, rings have no standing, conservation over an import, exports validate, artifacts are paid once |
| `codec` | every message of the tables: empty, full, one field at a boundary; numbers of the client in and out of range; cut at every byte; extended by 5 new fields; 4 lengths that lead nowhere | encoder and decoder agree, the client's encoder for the numbers it can carry; damage invents nothing |
| `jobs` | 3 agents, 2 jobs, cap one short of two rewards | solvency, the cap, the window without a race or a gap; refinement of `Custody` |
| `trade` | a buyer, 2 workers, one crash, one late receipt, fairness | only winners work; without faults every job heard of is submitted |
| `prototype` | 4 requests of 9 kinds, one crash or torn write | blocks are valid, the state is the replay, answered requests stay, no transaction counts twice |
| `broadcast` | 2 processes, 3 calls, 2 polls, one restart of the node, fairness | reports are true, rejections only among overlapping calls, calls end |
| `final_release`, `worker_crash` | smallest instances | two comments the code does not meet (below) |

### Bounds

One escrow is enough for the properties about an escrow: escrows share only
accounts and the bond sequence, and bonds carry the id they belong to; the
proofs cover any number. Two cases reach the re-opened case; two verifiers
reach a quorum of two and a split verdict, and with a quorum of one and the
second silent they are a single verifier; three jurors reach a majority with a
dissenter. Amounts are 0 (rejected), 1 (dust, and a stake that does not cover)
and 2. Time runs over both edges of each window. `MaxBonds` is large enough for
every stake of the cases in `market` and `liveness`.

Four answerers and three answers are the least with a tie that a third answer
beats, which the loop over the counts has to forget. A supply of 7 with a
divisor of 2 schedules 3, 2, 1 and the last 1: rounding, the rule for the last
units and exhaustion within four epochs. An epoch is one second there, so an
award and a settlement meet in one epoch and epochs pass unused. Three vouch
ids reach a pair that is vouched for again after other pairs; an import may
come between any two of the transactions. In `codec` cuts and new fields are
tried on the empty and the full message of each table. In `trade` one crash of
either worker at any await, and one receipt that is late, are enough to forget
a claim; in `prototype` four requests are enough for a retry behind two others.

A system that stops is not an error: nobody is obliged to send a message, and
the bounds end every behaviour, so the runs do not check deadlock.

### Fairness

* `FairSpec` (`liveness`). Blocks keep coming: weak fairness of `Tick`. The
  code schedules nothing by itself, every other step is a transaction, so the
  remaining conditions say that a party who gains from a message that stays
  acceptable eventually sends it: the payee collects after the deadline,
  somebody reclaims for the attesters (any signer may), a party has the case
  resolved (any signer may). That a juror votes is an assumption on the jurors:
  the code pays them no fee. Nothing is assumed of payers, of verifiers or of
  governance. Time stops at `MaxTime`, so the properties speak
  of windows that end by then. `CasesSettle` is stated for an odd, unchanging
  jury whose jurors can fund their stake; with an even jury a tie in which all
  have voted can never be resolved, and the escrow and the stakes stay frozen.
* `FairChainSpec` (`rewards`). Blocks keep coming, and who posted a gate sends
  the settlement again while it is not accepted. `GatesSettle` leaves out
  behaviours that end in an epoch with too little for those who revealed one of
  the answers: a gate whose payout exceeds the reward of every later epoch never
  settles.
* `FairTrade` (`trade`). Blocks come, the programs run, transactions are
  executed; nothing makes a worker crash or a receipt late.
* `FairBroadcast` (`broadcast`). The processes run and the node answers; no
  block need come, so a call may have to end by its timeout.

## Disagreements with comments and docs

Two have a run:

* `final_release`: a fail verdict opens a window that a later release by the
  payer or a jury does not close, so that release can be challenged although
  OpenDispute's comment calls it final.
* `worker_crash`: a restarted worker looks only at jobs that are open, so a job
  it had claimed is never worked on and its bond is lost, although `worker.ts`
  says a restart never loses a job.

Others were met while modelling. The model has the behaviour, no property
denies it:

* a jury that accepts a verifier-bound delivery pays the seller without the
  key, which SubmitEscrow's comment rules out
  (`msg_server_resolve_dispute.go:101`);
* the quorum counts the votes of jurors who are no longer eligible
  (`msg_server_resolve_dispute.go:57`);
* a very long dispute window wraps to a deadline in the past, and no refund
  window opens (`msg_server_lock_escrow.go:97`);
* a commitment `<answer>:<salt>` with a colon in its parts has several
  openings, so a poster may still choose between a decoy and a live gate when
  it settles (`msg_server_gate.go:44`);
* an escrow that a jury judged against after a challenge keeps the status
  `released` and still counts as a paid job in the trust graph
  (`reputation_score.go:22`);
* an export carries no bonds, disputes or gates (`genesis.go:72`), while the
  import/export simulation compares all stores; `ChainConservation` counts what
  is lost as `dropped`;
* a job posted between the boot scan's read of `nextJobId` and the start of the
  watch is picked up by neither (`worker.ts:87`);
* a buyer that gave up waiting leaves a later submission unsettled: no program
  calls `release` after the window (`agent-a.ts:49`);
* the client signs and sends a number that its encoder cannot carry
  (`ag3nt.ts:121`, `cli.ts:23`): `pay X -129` sends 127, an expiry of -200 sends
  56, 2^64 arrives as 0, and -1 makes a message that the chain reads otherwise or
  not at all;
* an error of the gateway is reported as a rejection by the mempool
  (`ag3nt.ts:551`), and a timeout as not committed (`ag3nt.ts:565`), although the
  transaction may still be executed; a caller that tries again then pays twice.
  `ReportsAreTrue` leaves both open.

Where coins may rest for good: a jury- or verifier-bound escrow that is never
submitted, once its deadline is over (only its payer can release it); the
stakes of pass verdicts when the quorum is never met; a tied even jury. No doc
promises otherwise.

## Proofs

TLC checks small instances; the theorems hold for every value of the constants:
any finite set of addresses or agents, any genesis, any set of message terms,
any number of processes, requests, crashes and imports.

### Assumptions

They are the named ASSUMEs of the modules, which TLC evaluates in every run.
Addresses and agents are finitely many and message terms have their types. A
record that is not registered holds nothing at genesis. The emission state of a
genesis file is unset, or valid (`ValidEmission`, what Validate asks) and within
the cap: the default state and every exported state are, while Validate lets a
hand-written file through that schedules more for the current epoch than is
left. The texts of gates are sequences of characters. The block files a
prototype starts from hold a valid chain (`StartAssumption`), because replay
does not validate. A tag fits into a word (`WireAssumption`; 32 and 64 bits in the
code).

### Results

| module | theorem | says |
|---|---|---|
| `MarketProofs` | `TypeCorrect` | `TypeOK`, and a dispute refers to an existing escrow |
| | `LedgerCorrect` | the inductive invariant `LedgerInv` |
| | `UnregisteredAreEmpty`, `ConservationHolds`, `VerdictsNeverAbort` | `UnregisteredHoldNothing`, `Conservation`, `VerdictNeverAborts` |
| | `NothingOverflows` | no balance, held escrow or active bond exceeds the genesis supply |
| `JuryProofs` | `MarketCorrect` | the inductive invariant `MarketInv` |
| | `JuryControlHolds`, `VerdictsSettleStakes`, `CollateralHolds` | `JuryControl`, `VerdictSettlesStakes`, `CollateralThroughWindow` |
| | `PaymentsHaveAuthority`, `RefundsJustified` | `PaidWithAuthority`; `RefundJustified`: a jury's rejection, or a fail verdict that nobody contested for a whole window from its own block time |
| | `BondsHaveAuthority`, `BuyersAreMadeWhole` | the action properties `BondAuthority`, `BuyerMadeWhole` |
| | `MarketImplementsCustody` | the refinement `EscrowsAreDeposits` |
| `ChainProofs` | `ChainCorrect` | the inductive invariant `ChainInv` |
| | `SupplyIsCapped`, `ChainConserves`, `MintsAreRewards` | `SupplyCap`, `ChainConservation`, `MintedForWork` |
| | `ChainNeverOverflows` | no balance, escrow, bond or vouch exceeds the genesis ledger and the maximal supply together |
| | `NothingTwice`, `PluralityWins`, `ExportsAlwaysValidate` | `NothingCountsTwice`, `LivePlurality`, `ExportsValidate` |
| | `RevealedCannotBeCopied` | the action property `NothingToCopy` |
| | `RingsGetNoRank` | `RingsHaveNoStanding` |
| | `ChainFollowsPolicy` | the refinement `FollowsPolicy`, from a fresh genesis |
| | `MarketHoldsOnChain` | `MarketInv` on the whole chain, until an import |
| | `MarketStepsHoldOnChain` | what `BondAuthority` and `BuyerMadeWhole` say, of every step of the chain until an import |
| | `ChainVerdictsNeverAbort` | `VerdictNeverAborts` on the whole chain, over imports too |
| `TradeProofs` | `ContractAlwaysPays`, `ContractImplementsCustody` | `ContractSound` and the refinement `JobsAreDeposits`, of the contract with any callers |
| | `WindowBelongsToBuyer` | `NoRaceAtTheWindow`, of the contract with any callers |
| | `TradeCorrect`, `WinnersWork` | the inductive invariant `TradeInv`; `OnlyWinnersWork` |
| | `AgentsTradeByContract` | `TradeSpec` implements `ContractSpec` |
| `BroadcastProofs` | `BroadcastCorrect`, `ReportsTrue` | the inductive invariant `BroadcastInv`; `ReportsAreTrue` |
| | `RejectionsHaveCause` | the action property `RejectedOnlyInOverlap` |
| `PrototypeProofs` | `PrototypeCorrect` | the inductive invariant `ProtoInv` |
| | `BlocksAreValid`, `StateMatchesFiles`, `AnswersStay`, `TransactionsApplyOnce` | `EveryBlockValid`, `StateIsReplay`, `AnsweredStays`, `AppliedOnce` |
| `FramingProofs` | `VarintReadBack`, `CutVarintRefused` | a number is read back wherever it stands, and refused when its end is missing |
| | `VarintFillsItsPlace` | `encodeVarint` writes exactly the `sov(v)` bytes that `Size` reserved |
| | `SignKept` | an `int64` comes back from its word |
| | `NumberFieldReadBack`, `TextFieldReadBack` | a field is found by its tag and read as it was written |
| | `CutFieldRefused` | a buffer that ends within a field is refused there |

### Arguments

**Conservation (`LedgerInv`).** `Conservation` is not inductive: Register writes
a fresh record with a zero balance, so it needs `UnregisteredHoldNothing`; that
in turn needs every credit to go to a registered account, while ReleaseBond and
the settlement loops credit the stored addresses without registering them. Hence
`PartiesRegistered`: whoever is named as poster, payer, payee, attester, opener
or juror was registered when the record was written (`CanPay` of the signer,
`EnsureRegistered` of the payee) and registration is for ever
(`RegisteredForEver`). `TypeOK` in turn needs `DisputesRefer`, since a verdict
reads the escrow its dispute names. Given their conjunction `LedgerInv`,
`ConservationStep` shows for each kind of step how the three pools (balances,
`HeldAmount`, `StakeAmount`) change: `LockStakeConserves` and `LockConserves`
move coins from a balance into a pool, `PayConserves` and `ResolveBondConserves`
back, and `SettleConserves` does it for a whole batch of stakes at once.
`VerdictsNeverAbort` follows from `PartiesRegistered`, with the fact that a first
pass attester exists.

**Jury and collateral (`MarketInv`).** A verdict settles the bond ids its records
name, so the ids must name stakes of the protocol with the purpose of that very
case (`DisputeStakes`, `AttestationsBacked`): only then can no other case,
reclaim or slasher have resolved them before. Attestations differ in verifier
and stake (`AttestationsDiffer`), so a convicted verifier pays the buyer with a
stake of its own. Who may act on an escrow is decided by its status;
`Lifecycle` says what a status tells about delivery, attestations and windows,
`VerdictsLast` and `PayerChallenges` what a case tells about it. For refunds it
ties the stored deadline of a fail verdict to the time of that verdict
(`EscrowLifecycle`), and an escrow that waits on a fail verdict has never had a
case (`FailNeverContested`); no case can be opened on it once it is refunded
without one (`StillNeverContested`). A step is
described once, by what it does to one escrow (`EscrowStep`), one dispute and one
bond, and every part of the invariant is shown to survive each kind of change.
The refinement of `Custody` is `Conservation` for the coins and, for the
deposits, that an escrow that leaves the open statuses and a bond that is
resolved are closed with their whole amount.

**Emission (`SoundEmission`, `ScheduleInv`).** The cap is kept by one turn of the
catch-up (`RollEpochSound`: what an epoch may mine is within what is left, and
what it did not mine is burned first), hence by any number of turns and by a mint
afterwards. For the refinement of `EmissionPolicy`, `ScheduleInv` adds that the
schedule has started, that the stored epoch began in the past and that its reward
is the one the policy gives it. `TurnedAlong` carries that along the turns; a
tick of the clock adds at most one turn (`TimeFollows`: an epoch closes), and
after a mint the stored state needs none (`MintFollows`: coins are mined). The
theorem supposes `FreshGenesis`, a genesis whose schedule has not begun, because
the policy starts at its first epoch.

**The whole chain (`ChainInv`).** Gates, awards and vouches move coins in the same
ledger, so their steps keep `LedgerInv`, and the market's keep theirs.
`GatesSound` says that an open gate has paid nobody, so a settlement mints for
each answer once, and that answers are revealed only after the last commitment;
`VouchersRegistered` that a vouch is given back to an account that exists; an
import keeps the conservation by counting the bonds it drops. The plurality is an invariant of the
loop over the counts, for every order of the walk. The ranks are a recursive
function of the number of rounds: no round enters a ring that has no edge from
outside.

**The market on the chain.** The theorems of `JuryProofs` are about the market
alone. On the chain, gates, awards and vouches change accounts and balances but
no record of the market, and no part of `MarketInv` besides the types reads a
balance (`OthersKeepMarket`), so it holds as long as nothing was imported. After
an import it need not: bonds and disputes are gone while escrows stay, with the
bond ids their attestations recorded, and the ids of new bonds start again at
the first. What rests on `LedgerInv` only survives an import
(`ChainVerdictsNeverAbort`).

**Contract and agents (`ContractInv`, `TradeInv`).** At the end of the window the
conditions of time of `release` and `dispute` exclude each other; that one of the
two always succeeds is solvency, since both pay out the payment and the bond of
the job (`WindowIsBuyers`). Solvency needs that a job has
a worker and a bond exactly from its claim on (`JobsStaffed`). The agents'
programs take only steps that the contract allows (`AgentsTradeByContract`), and
`WorkersHold` says that a program in its work stage is the worker in the
contract: a claimed job changes hands only by the timeout of the claim, which the
programs never call.

**Broadcast (`BroadcastInv`).** A transaction is never twice in mempool and blocks
(`NoDuplicates`), one that was not accepted is nowhere (`UnsentNowhere`), and the
calls that had returned when a call read its sequence are in the blocks below it
(`BeforeIsBelow`); a sequence that is too low must then be the fault of a call
outside that set.

**Prototype (`ProtoInv`).** Between validation, block file and state lie awaits.
`OneInHand` says that the queue admits one transaction at a time, so a
validation still holds when its block is written (`ValidStill`), a written block
that is not applied is the last one (`WrittenIsLast`), and otherwise memory is
the replay of the files (`InStep`). `AppliedOnce` follows from `EveryBlockValid`
alone: a transaction that was applied is below the nonce of its registered
sender for good (`SpentStays`), and no such transaction is valid again.

**Framing.** `RestBounds` says what the encoder's loop has left of a number after
i groups, so a word needs at most `MaxGroups` of them (`LastGroupFits`) and
exactly as many as its bits fill (`VarintFillsItsPlace`). The reader keeps the
invariant that what it has read and what is left make the number
(`GroupsOfVarint`); it stops at the first byte without the continuation bit,
which is the encoder's last one (`EndsOfVarint`) and is not there when the end
was cut (`NoEnd`). Everything is stated for a part that stands at a place of a
buffer (`StandsAt`) or in which the buffer ends (`EndsWithin`): both split at the
boundary of two parts (`PartsStand`, `EndsInPart`), which gives the theorems on
fields. They suppose that field numbers are positive and fit into an `int32`, and
that a text is shorter than the largest `int`, as in Go.

A total is the number of coins in a map (`Coins`), not a recursive sum: the
library's theorems on the cardinality of finite sets are enough for the lemmas of
`CoinsProofs` (one entry changed, pointwise sums, and `TotalRegroup`: payments
grouped by account add up to the payments). Where a recursive function cannot be
avoided (the turns of the catch-up, the ranks, the replay, powers of two and the
groups of a number), the library's
induction theorems do not help, because they take the induction hypothesis as an
operator. Instead the function is shown to exist, by a lemma on sequences of
steps, and induction is stated for a set of numbers (`InductionOnNat`).

### Only model-checked

* Liveness under fairness, which is outside the prover's reach:
  `DeliveryNotTrapped`, `StakesComeBack`, `CasesSettle`, `GatesSettle`,
  `HeardJobsSubmitted`, `CallsEnd`.
* `RoundTrip` and `DamageInventsNothing`, of whole messages: reader and writer of a
  message are recursive operators over nested tables, which the prover cannot
  reason about. Of single fields the same is proved in `FramingProofs`.

## Not modelled

* The application and the daemon (`app/`, `cmd/`): wiring generated by Ignite,
  with no state of its own. Query handlers and the gateway: they return what is
  in a store; the encoding of their messages is in `QueryTables`.
* The sizes of reputation scores: PageRank in floating point is out of TLC's
  reach, and only "at least the threshold" guards a message.
* Several validators. With empty `Params.Anchors` the juror set comes from an
  environment variable or a file of each node (`query_reputation.go:28`), and
  the gate windows from its environment (`msg_server_gate.go:48`); validators
  with other settings compute other states. The model is of one node; what a
  disagreement does is decided by the consensus engine, which is not in this
  repository.
* The lag of a public RPC behind the chain, which the worker reads from
  (`worker.ts:36`): it is a property of the provider.
* A `doWork` that throws (`worker.ts:61`): the work is external, and its failure
  is like a crash after the claim. A power loss that undoes a write the
  prototype was told is done (it does not call fsync): crashes are of the process.
* Key files, the display of queries and the command line of the client; the
  read-only routes of the prototype; the incentive study in `sim/`.
