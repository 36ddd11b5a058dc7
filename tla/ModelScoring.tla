---------------------------- MODULE ModelScoring ----------------------------
(***************************************************************************)
(* Where the probability of a Rating comes from: the features of           *)
(* app/ml/features.py and the model of app/ml/predictor.py, which is a     *)
(* trained one if a file of MODEL_PATHS loads when the process starts and  *)
(* the FallbackModel otherwise.                                            *)
(*                                                                         *)
(* Of a trained model nothing is known but that its answer is a            *)
(* probability.  The fallback's is the sigmoid of a sum of weights, kept   *)
(* here in ten-thousandths; of the sigmoid only matters that it is 0.5 at  *)
(* 0, that it grows, and that math.exp raises OverflowError far below 0.   *)
(***************************************************************************)
EXTENDS Rating

CONSTANTS
  Expected,   \* values of an entity's expected_monthly_inflow
  Hours,      \* hours of the day of txn_timestamp
  NULL

\* In parts of a unit, as amounts are.
ASSUME ScoringAssumption == Expected \subseteq Int

VARIABLES
  model,     \* "fallback" or "trained": what load_model returned
  context    \* what the features read besides the payload

scoringVars == <<txn, ml, model, context>>

Models == {"fallback", "trained"}
Contexts == [expected: Expected, hour: Hours, direction: {"inbound", "outbound"}]

----------------------------------------------------------------------------
HighRiskFeatureCountries ==
  {"IR", "KP", "SY", "CU", "VE", "MM", "AF", "LY", "SO", "YE"}

Flagged(hit) == IF hit THEN 1 ELSE 0

\* encode_txn_type: the table, or a hash of the name, different in every process.
TypeCodes(txn_type) ==
  CASE txn_type = "cash_deposit" -> {0}
    [] txn_type = "wire_out" -> {1}
    [] txn_type = "pos" -> {2}
    [] txn_type = "transfer" -> {3}
    [] txn_type = "check" -> {4}
    [] OTHER -> 0..9

\* extract_features, which reads the amount as a double; the z-score's divisor is 1
\* when nothing is expected, and the hour 12 when the time is not known.
MutFeatures(t, c, code) ==
  LET amount == AsFloat[t.amount]
  IN [amount |-> amount,
      expected |-> IF c.expected = 0 THEN Unit ELSE c.expected,
      just_below |-> Flagged(9000 * Unit <= amount /\ amount <= 10000 * Unit
                               /\ t.txn_type = "cash_deposit"),
      high_risk |-> Flagged(t.country \in HighRiskFeatureCountries),
      round_number |-> Flagged(amount % (1000 * Unit) = 0 /\ amount >= 5000 * Unit),
      large_wire |-> Flagged(t.txn_type = "wire_out" /\ amount >= 50000 * Unit),
      hour |-> IF c.hour = NULL THEN 12 ELSE c.hour,
      txn_type |-> code,
      direction |-> Flagged(c.direction # "inbound")]
Features(t, c, code) ==
  LET amount == AsFloat[t.amount]
  IN [amount |-> amount,
      expected |-> IF c.expected = 0 THEN Unit ELSE c.expected,
      just_below |-> Flagged(9000 * Unit <= amount /\ amount < 10000 * Unit
                               /\ t.txn_type = "cash_deposit"),
      high_risk |-> Flagged(t.country \in HighRiskFeatureCountries),
      round_number |-> Flagged(amount % (1000 * Unit) = 0 /\ amount >= 5000 * Unit),
      large_wire |-> Flagged(t.txn_type = "wire_out" /\ amount >= 50000 * Unit),
      hour |-> IF c.hour = NULL THEN 12 ELSE c.hour,
      txn_type |-> code,
      direction |-> Flagged(c.direction # "inbound")]

\* min(amount_z / 10.0, 2.0) * 1.2, rounded away from 0 when it is negative.
AmountWeight(f) ==
  IF f.expected > 0
    THEN LET w == (1200 * f.amount) \div f.expected
         IN IF w <= 24000 THEN w ELSE 24000
    ELSE -((1200 * f.amount) \div (-f.expected)) - 1

\* FallbackModel.predict_proba, before the sigmoid.
MutFallbackScore(f) ==
    AmountWeight(f) + 15000 * f.just_below + 20000 * f.high_risk
  + 5000 * f.round_number + 18000 * f.large_wire
  - (IF f.hour < 6 \/ f.hour > 20 THEN 8000 ELSE 0)
  + 2000 * (f.txn_type % 3) + 4000 * f.direction
FallbackScore(f) ==
    AmountWeight(f) + 15000 * f.just_below + 20000 * f.high_risk
  + 5000 * f.round_number + 18000 * f.large_wire
  + (IF f.hour < 6 \/ f.hour > 20 THEN 8000 ELSE 0)
  + 2000 * (f.txn_type % 3) + 4000 * f.direction

\* math.exp(-score) overflows beyond 709.78.
Overflows(score) == score < -7097800

\* The percents predict_ml_score may return.  There is none when the fallback
\* raises: the transaction is not scored (TransactionService!ScoreFails).
Predictions(m, t, c) ==
  IF m = "trained" THEN Probabilities
  ELSE {p \in Probabilities :
          \E code \in TypeCodes(t.txn_type) :
            LET score == FallbackScore(Features(t, c, code))
            IN ~Overflows(score) /\ (p >= 50 <=> score >= 0)}

----------------------------------------------------------------------------
ScoringInit ==
  /\ Init
  /\ model \in Models
  /\ context \in Contexts
  /\ ml \in Predictions(model, txn, context)

\* The request comes back: in a process that loaded another model, or after the
\* entity's expected inflow was edited.
ScoreAgain ==
  /\ Rescore
  /\ model' \in Models
  /\ \E e \in Expected : context' = [context EXCEPT !.expected = e]
  /\ ml' \in Predictions(model', txn, context')

ScoringSpec == ScoringInit /\ [][ScoreAgain]_scoringVars

----------------------------------------------------------------------------
(***************************************************************************)
(* The rules are written down again for the model and for the calibration, *)
(* which see doubles.  A flag of extract_features differs from the reason  *)
(* of run_rules only where the conversion has carried the amount onto the  *)
(* very boundary of the rule (roundness: anywhere); derive_rule_score is   *)
(* off by the points of a missing name, and only where that rule applies,  *)
(* or, when the amount was rounded, by what that can change.               *)
(***************************************************************************)
CopiesMatchRules ==
  LET amount == AsFloat[txn.amount]
      rounded == amount # txn.amount
  IN /\ \A code \in TypeCodes(txn.txn_type) :
          LET f == Features(txn, context, code)
              Differs(flag, name) == ~(flag = 1 <=> name \in FlagReasons(txn))
          IN /\ ~Differs(f.high_risk, "HIGH_RISK_JURISDICTION")
             /\ Differs(f.just_below, "STRUCTURING_PATTERN") =>
                  rounded /\ amount \in {9000 * Unit, 10000 * Unit}
             /\ Differs(f.large_wire, "LARGE_WIRE_OUT") =>
                  rounded /\ amount = 50000 * Unit
             /\ Differs(f.round_number, "ROUND_NUMBER_BIAS") => rounded
     /\ \A row \in HistoryRows(txn) :
          DerivedRuleScore(row) - RuleScore(txn)
            \in IF rounded THEN -25..65
                ELSE IF txn.amount < 5000 * Unit THEN {0} ELSE {-15, 0, 15}

(***************************************************************************)
(* Without a trained model nothing slips through, at the price that        *)
(* everything is alerted: the fallback's sum is never negative, its        *)
(* probability never below one half, and that alone reaches the threshold  *)
(* of calibration.json.  (An entity whose expected inflow is negative is   *)
(* the exception.)                                                         *)
(***************************************************************************)
UntrainedAlertsAll ==
  model = "fallback" /\ context.expected >= 0 => ScorerAlert(txn, ml)
=============================================================================
