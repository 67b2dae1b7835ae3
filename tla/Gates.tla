------------------------------- MODULE Gates -------------------------------
(***************************************************************************)
(* Review gates: an anchor posts a task with the commitment to a verdict,  *)
(* registered agents commit hashed answers, reveal them in a second        *)
(* window, and the settlement mints the drip to the coherent answers.  The *)
(* verdict is a known one (decoy) or the empty text (live gate: the strict *)
(* plurality of the revealed answers wins).                                *)
(*                                                                         *)
(* A text is a sequence of characters.  The hash is injective as far as    *)
(* anybody can tell, so a digest is represented by the text it is of.      *)
(***************************************************************************)
EXTENDS Emission

CONSTANTS
  Colon,            \* the character ":"
  GateTerms,        \* what PostGate may ask for
  Answers, Salts,   \* texts that RevealAnswer and SettleGate may give
  Commits,          \* what CommitAnswer may commit: digests, or BadHash
  CommitWindow, RevealWindow,
  MaxDrip,          \* MaxDripPerAnswer
  MaxGateAnswers,
  MaxGates          \* bound on the number of gates

ASSUME GateAssumption ==
  /\ GateTerms \subseteq [payloadHash : HashField, goldCommit : Seq(STRING) \cup {BadHash},
                          drip : Nat, maxAnswers : Nat]
  /\ Colon \in STRING /\ Answers \subseteq Seq(STRING) /\ Salts \subseteq Seq(STRING)
  /\ Commits \subseteq Seq(STRING) \cup {BadHash}
  /\ CommitWindow \in Nat \ {0} /\ RevealWindow \in Nat \ {0}
  /\ MaxDrip \in Nat /\ MaxGateAnswers \in Nat /\ MaxGates \in Nat

VARIABLES
  gate,      \* gate id -> record
  gateSeq    \* the next gate id (GateSeq)

gateVars == <<gate, gateSeq>>

EmptyText == <<>>

(* gateAnswerCommit: the digest of "<answer>:<salt>".                      *)
GateAnswerCommit(answer, salt) == answer \o <<Colon>> \o salt

(* The answers, by agent: an agent commits once.  A revealed answer is     *)
(* never empty, so the empty text stands for one that is not revealed.     *)
AnswerRecord == [commit : Seq(STRING) \cup {NoHash}, answer : Seq(STRING), paid : BOOLEAN]

NoAnswer == [commit |-> NoHash, answer |-> EmptyText, paid |-> FALSE]

GateRecord ==
  [poster : Addr, goldCommit : Seq(STRING), drip : Nat, maxAnswers : Nat,
   commitDeadline : Nat, revealDeadline : Nat, status : {"open", "settled"},
   answers : [Addr -> AnswerRecord], goldAnswer : Seq(STRING), consensus : Seq(STRING)]

GatesTypeOK ==
  /\ gateSeq \in Nat
  /\ gate \in [0..(gateSeq - 1) -> GateRecord]

GatesInit ==
  /\ gate = [i \in {} |-> NoAddr]
  /\ gateSeq = 0

PostGate(c, t) ==
  /\ gateSeq < MaxGates
  /\ c \in Jurors
  /\ IsHexSHA256(t.payloadHash)
  /\ t.goldCommit # BadHash
  /\ t.drip \in 1..MaxDrip
  /\ t.maxAnswers \in 1..MaxGateAnswers
  /\ gate' = Put(gate, gateSeq,
       [poster |-> c, goldCommit |-> t.goldCommit, drip |-> t.drip,
        maxAnswers |-> t.maxAnswers, commitDeadline |-> now + CommitWindow,
        revealDeadline |-> now + CommitWindow + RevealWindow, status |-> "open",
        answers |-> [a \in Addr |-> NoAnswer], goldAnswer |-> EmptyText,
        consensus |-> EmptyText])
  /\ gateSeq' = gateSeq + 1
  /\ UNCHANGED <<ledgerVars, emission>>

Committed(id) == {a \in Addr : gate[id].answers[a].commit # NoHash}

MayAnswer(c, id) ==
  /\ c # gate[id].poster
  /\ account[c] = "registered"
  /\ c \notin Committed(id)

CommitAnswer(c, id, commit) ==
  /\ gate[id].status = "open"
  /\ now < gate[id].commitDeadline
  /\ MayAnswer(c, id)
  /\ commit # BadHash
  /\ Cardinality(Committed(id)) < gate[id].maxAnswers
  /\ gate' = [gate EXCEPT ![id].answers[c].commit = commit]
  /\ UNCHANGED <<ledgerVars, emission, gateSeq>>

(* Mutant: answers may be revealed while others still commit.              *)
RevealsEarly(id) == now < gate[id].revealDeadline

RevealsOpen(id) == gate[id].commitDeadline <= now /\ now < gate[id].revealDeadline

RevealAnswer(c, id, answer, salt) ==
  /\ gate[id].status = "open"
  /\ RevealsOpen(id)
  /\ answer # EmptyText
  /\ c \in Committed(id)
  /\ gate[id].answers[c].answer = EmptyText
  /\ GateAnswerCommit(answer, salt) = gate[id].answers[c].commit
  /\ gate' = [gate EXCEPT ![id].answers[c].answer = answer]
  /\ UNCHANGED <<ledgerVars, emission, gateSeq>>

-----------------------------------------------------------------------------
(* Settlement.                                                             *)

Given(id, answer) == {a \in Committed(id) : gate[id].answers[a].answer = answer}

RevealedAnswers(id) == {gate[id].answers[a].answer : a \in Committed(id)} \ {EmptyText}

(* The orders in which Go may iterate over a map with the keys S.          *)
Orders(S) == {s \in [1..Cardinality(S) -> S] : \A x \in S : \E i \in DOMAIN s : s[i] = x}

(* Mutant: a new best answer does not clear an earlier tie.                *)
CountedStaleTie(best, answer, count) ==
  IF count > best.count
  THEN [answer |-> answer, count |-> count, tied |-> best.tied]
  ELSE [best EXCEPT !.tied = @ \/ count = best.count]

(* One turn of the loop over the counts.                                   *)
Counted(best, answer, count) ==
  IF count > best.count
  THEN [answer |-> answer, count |-> count, tied |-> FALSE]
  ELSE [best EXCEPT !.tied = @ \/ count = best.count]

(* The loop, over the answers in the given order; a tie has no winner.     *)
Plurality(id, order) ==
  LET turn[i \in 0..Len(order)] ==
        IF i = 0
        THEN [answer |-> EmptyText, count |-> 0, tied |-> FALSE]
        ELSE Counted(turn[i - 1], order[i], Cardinality(Given(id, order[i])))
      best == turn[Len(order)]
  IN IF best.tied THEN EmptyText ELSE best.answer

(* The agents the settlement pays.                                         *)
Coherent(id, winning) == IF winning = EmptyText THEN {} ELSE Given(id, winning)

(* Mutants: a gate may be settled again; only at the end of the reveals.   *)
SettleableAgain(id) == now >= gate[id].revealDeadline

SettleableOnTime(id) == gate[id].status = "open" /\ now = gate[id].revealDeadline

Settleable(id) == gate[id].status = "open" /\ now >= gate[id].revealDeadline

Settled(id, goldAnswer, winning) ==
  [gate[id] EXCEPT
     !.status = "settled", !.goldAnswer = goldAnswer, !.consensus = winning,
     !.answers = [a \in Addr |->
                    [gate[id].answers[a] EXCEPT
                       !.paid = @ \/ a \in Coherent(id, winning)]]]

(* Anybody who knows the preimage may settle.  If nobody is paid nothing   *)
(* is minted and the emission state is not synced.                         *)
SettleGate(id, goldAnswer, goldSalt) ==
  /\ Settleable(id)
  /\ GateAnswerCommit(goldAnswer, goldSalt) = gate[id].goldCommit
  /\ \E order \in Orders(RevealedAnswers(id)) :
       LET winning == IF goldAnswer # EmptyText THEN goldAnswer ELSE Plurality(id, order)
       IN /\ \/ /\ Coherent(id, winning) # {}
                /\ MintProtocolReward(Coherent(id, winning), gate[id].drip)
             \/ /\ Coherent(id, winning) = {}
                /\ UNCHANGED <<ledgerVars, emission>>
          /\ gate' = [gate EXCEPT ![id] = Settled(id, goldAnswer, winning)]
  /\ UNCHANGED gateSeq

GatesNext ==
  \/ \E a \in Addr, t \in GateTerms : PostGate(a, t)
  \/ \E id \in DOMAIN gate :
       \/ \E a \in Addr, commit \in Commits : CommitAnswer(a, id, commit)
       \/ \E a \in Addr, answer \in Answers, salt \in Salts : RevealAnswer(a, id, answer, salt)
       \/ \E answer \in Answers, salt \in Salts : SettleGate(id, answer, salt)

-----------------------------------------------------------------------------
(* Whether w is the answer more agents revealed than any other, or empty   *)
(* if there is none.                                                       *)
IsPlurality(id, w) ==
  LET beats(x, y) == Cardinality(Given(id, x)) > Cardinality(Given(id, y))
      winners == {x \in RevealedAnswers(id) :
                    \A y \in RevealedAnswers(id) \ {x} : beats(x, y)}
  IN IF winners = {} THEN w = EmptyText ELSE w \in winners

(***************************************************************************)
(* A live gate pays the answer that more agents revealed than any other,   *)
(* and nobody if there is none: in whatever order Go's map hands the       *)
(* counts to the loop of SettleGate.                                       *)
(***************************************************************************)
LivePlurality ==
  \A id \in DOMAIN gate :
    gate[id].status = "settled" /\ gate[id].goldAnswer = EmptyText =>
      IsPlurality(id, gate[id].consensus)

(* Nobody commits to a gate in which somebody has revealed.                *)
NoCommitAfterReveal ==
  \A id \in DOMAIN gate :
    RevealedAnswers(id) # {} /\ id \in DOMAIN gate' => Committed(id)' = Committed(id)

(***************************************************************************)
(* A revealed answer cannot be copied: once an agent has revealed, nobody  *)
(* commits to that gate any more (the two windows do not overlap).         *)
(***************************************************************************)
NothingToCopy == [][NoCommitAfterReveal]_gateVars
=============================================================================
