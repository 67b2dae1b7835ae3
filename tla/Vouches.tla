------------------------------ MODULE Vouches ------------------------------
(***************************************************************************)
(* Staked vouches (Castvouch, Unvouch), the reputation that follows from   *)
(* them, from paid jobs and from jury endorsements, and the unstaked       *)
(* scoped evidence vouches that need reputation.                           *)
(***************************************************************************)
EXTENDS Market

CONSTANTS
  VouchTerms,      \* what Castvouch may ask for: [to, weight, stake]
  EvidenceTerms,   \* what CastScopedEvidenceVouch may state
  MinVouchStake,
  MaxVouchWeight,
  MaxIterations,   \* pagerankMaxIter
  MaxVouches,      \* bound on the vouch ids handed out
  MaxEvidence      \* bound on the number of scoped evidence vouches

(* located: the URIs of artifact and evidence are not blank.               *)
EvidenceTerm ==
  [recipient : Addr, scope : STRING, weight : Nat, located : BOOLEAN,
   artifact : HashField, evidence : HashField, rationale : HashField]

ASSUME VouchAssumption ==
  /\ VouchTerms \subseteq [to : Addr, weight : Nat, stake : Nat]
  /\ EvidenceTerms \subseteq EvidenceTerm
  /\ MinVouchStake \in Nat \ {0} /\ MaxVouchWeight \in Nat
  /\ MaxIterations \in Nat /\ MaxVouches \in Nat /\ MaxEvidence \in Nat

VARIABLES
  vouch,       \* vouch id -> record; a removed vouch leaves a gap
  vouchSeq,    \* the next vouch id (VouchSeq)
  evidence     \* the scoped evidence vouches (ids follow the order of casting)

vouchVars == <<vouch, vouchSeq, evidence>>

VouchRecord == [from : Addr, to : Addr, weight : Nat, stake : Nat]

EvidenceRecord ==
  [issuer : Addr, recipient : Addr, scope : STRING, artifact : Digest, evidence : Digest]

VouchesTypeOK ==
  /\ vouchSeq \in Nat
  /\ DOMAIN vouch \subseteq 0..(vouchSeq - 1)
  /\ vouch \in [DOMAIN vouch -> VouchRecord]
  /\ evidence \in Seq(EvidenceRecord)

VouchesInit ==
  /\ vouch = [i \in {} |-> NoAddr]
  /\ vouchSeq = 0
  /\ evidence = <<>>

(* Mutant: the walk looks at the newest record only.                       *)
VouchesForNewest(c, a) ==
  {id \in DOMAIN vouch \cap {vouchSeq - 1} : vouch[id].from = c /\ vouch[id].to = a}

(* The vouches of c for a; Castvouch keeps at most one.                    *)
VouchesFor(c, a) == {id \in DOMAIN vouch : vouch[id].from = c /\ vouch[id].to = a}

(* The first one the walk over the ids finds.                              *)
VouchFor(c, a) == CHOOSE id \in VouchesFor(c, a) : \A j \in VouchesFor(c, a) : id <= j

OldStake(c, a) == IF VouchesFor(c, a) = {} THEN 0 ELSE vouch[VouchFor(c, a)].stake

(* Replaces an existing vouch after returning its stake.                   *)
Castvouch(c, t) ==
  /\ c # t.to
  /\ t.weight \in 1..MaxVouchWeight
  /\ t.stake >= MinVouchStake
  /\ account[c] = "registered" /\ account[t.to] = "registered"
  /\ balance[c] + OldStake(c, t.to) >= t.stake
  /\ balance' = [balance EXCEPT ![c] = @ + OldStake(c, t.to) - t.stake]
  /\ LET entry == [from |-> c, to |-> t.to, weight |-> t.weight, stake |-> t.stake]
     IN \/ /\ VouchesFor(c, t.to) # {}
           /\ vouch' = [vouch EXCEPT ![VouchFor(c, t.to)] = entry]
           /\ UNCHANGED vouchSeq
        \/ /\ VouchesFor(c, t.to) = {}
           /\ vouchSeq < MaxVouches
           /\ vouch' = Put(vouch, vouchSeq, entry)
           /\ vouchSeq' = vouchSeq + 1
  /\ UNCHANGED <<account, evidence>>

Removed(f, x) == [y \in DOMAIN f \ {x} |-> f[y]]

Unvouch(c, to) ==
  /\ VouchesFor(c, to) # {}
  /\ account[c] # "absent"
  /\ balance' = Credited(balance, c, vouch[VouchFor(c, to)].stake)
  /\ vouch' = Removed(vouch, VouchFor(c, to))
  /\ UNCHANGED <<account, vouchSeq, evidence>>

-----------------------------------------------------------------------------
(* Reputation: PageRank from the anchors over the edges.  Of a score the   *)
(* model keeps whether it is positive.                                     *)

VouchEdges == {<<vouch[id].from, vouch[id].to>> : id \in DOMAIN vouch}

PaidJobs == {id \in DOMAIN escrow : escrow[id].status = "released"}

JobEdges == {<<escrow[id].payer, escrow[id].payee>> : id \in PaidJobs}

EndorsementEdges ==
  UNION {{<<v.juror, Case(d).payee>> : v \in {x \in dispute[d].votes : x.accept}} :
           d \in {x \in DOMAIN dispute : dispute[x].resolution = "accept"}}

(* Self-loops are dropped; stakes and amounts are never zero.              *)
TrustEdges == {e \in VouchEdges \cup JobEdges \cup EndorsementEdges : e[1] # e[2]}

TrustNodes == UNION {{e[1], e[2]} : e \in TrustEdges} \cup Jurors

(* Mutant: the mass teleports to every node.                               *)
TeleportAnywhere == TrustNodes

(* Where rank originates: the anchors, or every node if there is none.     *)
Teleport == IF Jurors # {} THEN Jurors ELSE TrustNodes

(* The nodes with a positive score after so many iterations.  The teleport *)
(* set keeps its rank, every edge passes on a part of its source's.        *)
Rooted ==
  LET ranked[i \in 0..MaxIterations] ==
        IF i = 0 THEN Teleport
        ELSE LET r == ranked[i - 1]
             IN Teleport \cup {e[2] : e \in {x \in TrustEdges : x[1] \in r}}
  IN ranked[MaxIterations]

NotStated(c, t) ==
  \A i \in DOMAIN evidence :
    <<evidence[i].issuer, evidence[i].recipient, evidence[i].scope,
      evidence[i].artifact, evidence[i].evidence>>
      # <<c, t.recipient, t.scope, t.artifact, t.evidence>>

(* An anchor, or somebody whose score reaches the threshold: of the rooted *)
(* addresses any may.  No coins move and no account is needed.             *)
CastScopedEvidenceVouch(c, t) ==
  /\ Len(evidence) < MaxEvidence
  /\ c \in Jurors \/ c \in Rooted
  /\ t.scope # ""
  /\ t.weight \in 1..MaxVouchWeight
  /\ t.located
  /\ IsHexSHA256(t.artifact) /\ IsHexSHA256(t.evidence)
  /\ t.rationale # NoHash => IsHexSHA256(t.rationale)
  /\ NotStated(c, t)
  /\ evidence' = Append(evidence,
       [issuer |-> c, recipient |-> t.recipient, scope |-> t.scope,
        artifact |-> t.artifact, evidence |-> t.evidence])
  /\ UNCHANGED <<ledgerVars, vouch, vouchSeq>>

VouchesNext ==
  \/ \E a \in Addr, t \in VouchTerms : Castvouch(a, t)
  \/ \E a, b \in Addr : Unvouch(a, b)
  \/ \E a \in Addr, t \in EvidenceTerms : CastScopedEvidenceVouch(a, t)

-----------------------------------------------------------------------------
(***************************************************************************)
(* At most one stake is locked behind an edge: however vouches are cast,   *)
(* replaced and removed, a pair has one record, so Unvouch returns all     *)
(* that the voucher has staked on the vouchee.                             *)
(***************************************************************************)
OneVouchPerPair ==
  \A i, j \in DOMAIN vouch :
    vouch[i].from = vouch[j].from /\ vouch[i].to = vouch[j].to => i = j

(***************************************************************************)
(* A ring without inflow from outside has no standing: with anchors, no    *)
(* group that no one outside vouches for, pays or endorses scores, however *)
(* much its members vouch for and pay each other (Reputation's comment).   *)
(***************************************************************************)
RingsHaveNoStanding ==
  Jurors # {} =>
    \A ring \in SUBSET (Addr \ Jurors) :
      (\A e \in TrustEdges : e[2] \in ring => e[1] \in ring) => ring \cap Rooted = {}

(***************************************************************************)
(* The same evidence counts once: no issuer states it twice for a          *)
(* recipient and scope.                                                    *)
(***************************************************************************)
EvidenceCountsOnce ==
  \A i, j \in DOMAIN evidence : evidence[i] = evidence[j] => i = j
=============================================================================
