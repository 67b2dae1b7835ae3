------------------------------- MODULE Chain -------------------------------
(***************************************************************************)
(* The module x/agntcoin as a whole: the escrow market, the gates and      *)
(* awards that mint through the emission schedule, the vouches, and the    *)
(* export of the state to a genesis file that a new chain starts from.     *)
(***************************************************************************)
EXTENDS Gates, Awards, Vouches

CONSTANT MaxImports   \* bound on the number of exports and imports

ASSUME ChainAssumption == MaxImports \in Nat

VARIABLES
  imports,   \* history: the number of imports
  dropped    \* history: coins of active bonds that an import did not restore

marketRest == <<bondVars, escrowVars, juryVars>>
importVars == <<imports, dropped>>
chainVars == <<vars, emission, gateVars, awardVars, vouchVars, importVars>>

(* Every variable has its type, and the hashes in records are digests.     *)
ChainTypeOK ==
  /\ TypeOK /\ EmissionTypeOK /\ GatesTypeOK /\ AwardsTypeOK /\ VouchesTypeOK
  /\ imports \in Nat /\ dropped \in Nat

ChainInit ==
  /\ Init /\ EmissionInit /\ GatesInit /\ AwardsInit /\ VouchesInit
  /\ imports = 0 /\ dropped = 0

(* Mutant: the vouches come back, but their sequence starts again.         *)
ImportedVouchesRestart == vouchSeq' = 0 /\ UNCHANGED <<vouch, evidence>>

ImportedVouches == UNCHANGED vouchVars

(* ExportGenesis on the old chain, InitGenesis on the new one.  Accounts,  *)
(* escrows, vouches, awards, emission and parameters are in the file;      *)
(* bonds, disputes and gates are not, and their sequences start again.     *)
ExportImport ==
  /\ imports < MaxImports
  /\ emission' = ImportedEmission(emission)
  /\ ImportedVouches
  /\ UNCHANGED <<ledgerVars, escrowVars, anchors, awardVars>>
  /\ bond' = [i \in {} |-> NoAddr] /\ bondSeq' = 0 /\ UNCHANGED burned
  /\ dispute' = [i \in {} |-> NoAddr] /\ disputeSeq' = 0
  /\ gate' = [i \in {} |-> NoAddr] /\ gateSeq' = 0
  /\ imports' = imports + 1
  /\ dropped' = dropped + Total(StakeAmount)

ChainNext ==
  \/ Next /\ UNCHANGED <<emission, gateVars, awardVars, vouchVars, importVars>>
  \/ GatesNext /\ UNCHANGED <<marketRest, awardVars, vouchVars, importVars>>
  \/ AwardsNext /\ UNCHANGED <<marketRest, gateVars, vouchVars, importVars>>
  \/ VouchesNext /\ UNCHANGED <<marketRest, emission, gateVars, awardVars, importVars>>
  \/ ExportImport

ChainSpec == ChainInit /\ [][ChainNext]_chainVars

-----------------------------------------------------------------------------
(* What had been mined when the chain started.                             *)
GenesisMined == IF GenesisEmission.maxSupply = 0 THEN 0 ELSE GenesisEmission.totalMined

VouchStake == [id \in DOMAIN vouch |-> vouch[id].stake]

(***************************************************************************)
(* Every coin is in a balance, an unpaid escrow, an active bond or a       *)
(* vouch, was burned by a slash, or was dropped by an import; and every    *)
(* coin was in the genesis ledger or was minted since.  No order of locks, *)
(* verdicts, re-vouches, settlements and imports pays a coin twice.        *)
(***************************************************************************)
ChainConservation ==
  Total(balance) + Total(HeldAmount) + Total(StakeAmount) + Total(VouchStake)
    + burned + dropped + GenesisMined
  = Total(GenesisBalance) + emission.totalMined

(* GenesisState.Validate, of what ExportGenesis writes now: the ids are    *)
(* below the counts that a chain goes on from (lists of a store have no id *)
(* twice), and the emission is within its limits.                          *)
Validate ==
  /\ \A id \in DOMAIN vouch : id < vouchSeq
  /\ \A id \in DOMAIN escrow : id < escrowSeq
  /\ \A id \in DOMAIN award : id < awardSeq
  /\ ValidEmission(emission)

(***************************************************************************)
(* The chain can be exported at any height: the records ExportGenesis      *)
(* writes have their types and pass GenesisState.Validate, before an       *)
(* import and after it, whatever vouches were replaced and withdrawn and   *)
(* wherever an epoch stands.                                               *)
(***************************************************************************)
ExportsValidate == ChainTypeOK /\ Validate

(***************************************************************************)
(* Nothing counts twice, also after an import: a pair has one vouch, so    *)
(* Unvouch returns all that was staked on an edge; an issuer states an     *)
(* evidence once; an artifact is paid for once, whichever anchors accept   *)
(* it for whichever authors.                                               *)
(***************************************************************************)
NothingCountsTwice == OneVouchPerPair /\ EvidenceCountsOnce /\ ArtifactPaidOnce

GatePayout(id) == gate[id].drip * Cardinality({a \in Committed(id) : gate[id].answers[a].paid})

(***************************************************************************)
(* Nothing is minted but rewards: until an import, the supply mined is the *)
(* sum of the awards and of the drips of the answers marked as paid, so a  *)
(* settlement or an award that fails half-way has minted nothing, and none *)
(* is paid twice.                                                          *)
(***************************************************************************)
MintedForWork ==
  imports = 0 =>
    emission.totalMined = GenesisMined
      + Total([id \in DOMAIN gate |-> GatePayout(id)])
      + Total([id \in DOMAIN award |-> award[id].amount])

-----------------------------------------------------------------------------
(* Blocks keep coming, and who posted a gate settles it once it is able    *)
(* to: a settlement that does not fit into the epoch is sent again.        *)

PosterSettles(id) ==
  /\ id \in DOMAIN gate
  /\ \E answer \in Answers, salt \in Salts : SettleGate(id, answer, salt)
  /\ UNCHANGED <<marketRest, awardVars, vouchVars, importVars>>

NextBlock ==
  Tick /\ UNCHANGED <<juryVars, emission, gateVars, awardVars, vouchVars, importVars>>

FairChainSpec ==
  /\ ChainSpec
  /\ WF_chainVars(NextBlock)
  /\ \A id \in 0..(MaxGates - 1) : WF_chainVars(PosterSettles(id))

(* The last block's epoch has too little left to pay those who revealed    *)
(* one of the answers.                                                     *)
EndsTooScarce(id) ==
  /\ now = MaxTime
  /\ \E answer \in RevealedAnswers(id) :
       ~CanMint(Caught, gate[id].drip * Cardinality(Given(id, answer)))

(***************************************************************************)
(* A gate does not stay open for ever: if what other rewards took from the *)
(* epoch leaves too little for all its winners, a later epoch pays them.   *)
(* Time is bounded: the property leaves out behaviours that end in an      *)
(* epoch with too little for the gate.                                     *)
(***************************************************************************)
GatesSettle ==
  \A id \in 0..(MaxGates - 1) :
    (id \in DOMAIN gate /\ gate[id].revealDeadline + EpochLength <= MaxTime)
      ~> (id \notin DOMAIN gate \/ gate[id].status = "settled" \/ EndsTooScarce(id))
=============================================================================
