---------------------------- MODULE OosValidation ----------------------------
(***************************************************************************)
(* The frozen validation of out-of-sample trades                           *)
(* (app/research/frozen_oos_validation.py), the evidence state derived     *)
(* from it (app/research/forward_oos_automation.py) and the decision of    *)
(* the promotion gate (app/research/oos_promotion_gate.py).                *)
(*                                                                         *)
(* A row is a closed trade with features: r is its realized R as an        *)
(* integer, ml whether the frozen model puts it at or above the frozen     *)
(* threshold, and action what the frozen policy says of its segment.       *)
(***************************************************************************)
EXTENDS Integers, Sequences, SequencesExt

CONSTANTS
  Stages,          \* the signal counts at which the evidence stage changes
  MinimumSignals,  \* minimum_oos_signals
  MinimumSelected  \* minimum_policy_selected_trades

ASSUME ValidationAssumption ==
  /\ Stages \in [{"early", "intermediate", "stronger"} -> Nat]
  /\ MinimumSignals \in Nat /\ MinimumSelected \in Nat

Rows == [r : Int, ml : BOOLEAN, action : {"ML_FILTER", "RULE_BASED"}]

GlobalPicks(rows) == SelectSeq(rows, LAMBDA x : x.ml)

PolicyPicks(rows) ==
  SelectSeq(rows, LAMBDA x : x.action = "RULE_BASED" \/ x.ml)

(***************************************************************************)
(* Metrics of the trades an arm selects.  The means are compared by        *)
(* multiplying out, and a profit factor exists only when something was     *)
(* lost.                                                                   *)
(***************************************************************************)
TotalR(picks) == FoldLeft(LAMBDA sum, x : sum + x.r, 0, picks)

Gained(picks) == TotalR(SelectSeq(picks, LAMBDA x : x.r > 0))
Lost(picks)   == -TotalR(SelectSeq(picks, LAMBDA x : x.r < 0))

Larger(a, b) == IF a > b THEN a ELSE b

MaxDrawdown(picks) ==
  LET Step(acc, x) ==
        LET equity == acc.equity + x.r
            peak   == Larger(acc.peak, equity)
        IN  [equity |-> equity, peak |-> peak,
             deepest |-> Larger(acc.deepest, peak - equity)]
  IN  FoldLeft(Step, [equity |-> 0, peak |-> 0, deepest |-> 0], picks).deepest

(***************************************************************************)
(* validate.                                                               *)
(***************************************************************************)
\* The leakage check compares the class's own list of features with its own
\* lists of names, so that it passes for every data set.
Structural ==
  [manifest_integrity |-> TRUE, model_frozen |-> TRUE,
   threshold_frozen |-> TRUE, policy_frozen |-> TRUE, oos_retuning |-> FALSE,
   fresh_oos |-> TRUE, chronological_integrity |-> TRUE,
   feature_leakage |-> TRUE, production_isolation |-> TRUE]

EnoughEvidence(rows) ==
  /\ Len(rows) >= MinimumSignals
  /\ Len(PolicyPicks(rows)) >= MinimumSelected

Performs(rows) ==
  LET picks == PolicyPicks(rows)
  IN  /\ picks # << >> /\ TotalR(picks) > 0
      /\ Lost(picks) > 0 /\ Gained(picks) > Lost(picks)
      /\ MaxDrawdown(picks) <= MaxDrawdown(GlobalPicks(rows))

Superior(rows) ==
  LET policy == PolicyPicks(rows)
      global == GlobalPicks(rows)
  IN  /\ policy # << >> /\ global # << >>
      /\ TotalR(policy) * Len(global) >= TotalR(global) * Len(policy)
      /\ TotalR(policy) >= TotalR(global)

\* all(structural.values()): every value has to be true.
ValidationPassed(rows) ==
  /\ \A check \in DOMAIN Structural : Structural[check]
  /\ EnoughEvidence(rows) /\ Performs(rows)

(***************************************************************************)
(* What the automation writes into its checkpoint.                         *)
(***************************************************************************)
EvidenceStage(count) ==
  CASE count < Stages.early        -> "TOO_EARLY"
    [] count \in Stages.early .. Stages.intermediate - 1 -> "EARLY_SIGNAL"
    [] count \in Stages.intermediate .. Stages.stronger - 1 -> "INTERMEDIATE"
    [] OTHER -> "STRONGER_EVIDENCE"

EvidenceState(rows) ==
  CASE EvidenceStage(Len(rows)) = "TOO_EARLY" \/ ~EnoughEvidence(rows) -> "TOO_EARLY"
    [] ValidationPassed(rows) /\ Superior(rows) -> "PASS"
    [] ValidationPassed(rows) -> "EVALUATE"
    [] OTHER -> "FAIL"

(***************************************************************************)
(* evaluate of the gate, which knows that oos_retuning has to be false.    *)
(***************************************************************************)
StructuralAccepted ==
  \A check \in DOMAIN Structural : Structural[check] <=> check # "oos_retuning"

Decision(rows) ==
  CASE ~EnoughEvidence(rows) -> "TOO_EARLY"
    [] ~StructuralAccepted \/ ~Performs(rows) -> "REJECT"
    [] ~Superior(rows) -> "CONTINUE_ACCUMULATING"
    [] OTHER -> "ACCEPT"

=============================================================================
