------------------------------- MODULE Rating -------------------------------
(***************************************************************************)
(* The rating of a stored transaction, and its rating again with another   *)
(* model probability, as happens when an idempotent request comes back     *)
(* after a model was replaced or the entity's expected inflow was edited   *)
(* (the two branches of create_transaction, score_transaction).            *)
(***************************************************************************)
EXTENDS RulesEngine

CONSTANTS
  Payloads,        \* the request bodies
  Probabilities    \* what predict_ml_score can return, in percent

ASSUME RatingAssumption ==
  Payloads \subseteq Payload /\ Probabilities \subseteq 0..100

VARIABLES
  txn,   \* the body of the stored transaction
  ml     \* the probability it was last scored with

vars == <<txn, ml>>

Init == txn \in Payloads /\ ml \in Probabilities

Rescore == ml' \in Probabilities \ {ml} /\ UNCHANGED txn

Spec == Init /\ [][Rescore]_vars

----------------------------------------------------------------------------
(***************************************************************************)
(* The sum of the rules never needs min(score, 100): no combination of     *)
(* rules that can fire together is worth more, and a transaction has a     *)
(* score exactly when it has a reason (run_rules).                         *)
(***************************************************************************)
ScoreMeansReason ==
  /\ RulePoints(txn, HighRiskCountries) <= 100
  /\ (RuleScore(txn) = 0) <=> (FlagReasons(txn) = {})

(***************************************************************************)
(* The scorer's table and the service's, on an amount of which one sees    *)
(* the double and the other the Decimal.  If the double is exact, the      *)
(* scorer's table is a part of the service's.  If it is not, a rounded     *)
(* amount is worth at most 50 points more (a cash deposit that becomes     *)
(* 9000), and points without any reason are those of an amount that was    *)
(* rounded to a round one.  The other way round, a threshold that          *)
(* run_rules finds reached is never lost: the scorer gives points too.     *)
(***************************************************************************)
ScorerFollowsService ==
  LET excess == ScorerRuleScore(txn) - RuleScore(txn)
  IN /\ excess <= IF AsFloat[txn.amount] = txn.amount THEN 0 ELSE 50
     /\ ScorerRuleScore(txn) > 0 /\ FlagReasons(txn) = {} =>
          RoundAmount(Loaded(txn)) /\ ~RoundAmount(txn)
     /\ FlagReasons(txn) \ {"HIGH_RISK_JURISDICTION", "ROUND_NUMBER_BIAS"} # {} =>
          ScorerRuleScore(txn) > 0

(***************************************************************************)
(* A higher probability never takes an alert back: scoring a stored        *)
(* transaction again with a more suspicious model keeps it alerted.        *)
(***************************************************************************)
AlertMonotone ==
  [][ml <= ml' /\ ScorerAlert(txn, ml) => ScorerAlert(txn', ml')]_vars
=============================================================================
