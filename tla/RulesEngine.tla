---------------------------- MODULE RulesEngine ----------------------------
(***************************************************************************)
(* Scoring of one transaction (app/services/transaction_service.py,        *)
(* app/ml/scorer.py, app/ml/generate_synthetic.py, app/ml/calibration.py,  *)
(* app/services/entity_service.py).                                        *)
(*                                                                         *)
(* A transaction is rated twice: by run_rules, whose result is stored with *)
(* it, and by the scorer, which has a rule table of its own and adds the   *)
(* model's probability.  The two do not see the same amount: run_rules     *)
(* compares the Decimal of the request, all others the double that the     *)
(* Float column of table transactions makes of it.  Amounts are counted in *)
(* parts of a currency unit, probabilities in whole percents and weights   *)
(* in tenths, so that an ensemble score is an integer of tenths of a       *)
(* point: 0..1000 stands for 0.0..100.0.                                   *)
(***************************************************************************)
EXTENDS Integers

CONSTANTS
  RuleWeight,       \* get_ml_rule_weight, in tenths
  MlWeight,         \* get_ml_score_weight, in tenths
  AlertThreshold,   \* get_ml_alert_threshold, in points
  Unit,             \* parts in a currency unit: the precision of a Decimal
  AsFloat           \* AsFloat[a]: the double nearest to a, in parts again

\* Settings and calibration.json are free to choose them; calibration.py only
\* ever writes a threshold between 30 and 90.
ASSUME RulesAssumption ==
  /\ RuleWeight \in Nat /\ MlWeight \in Nat /\ AlertThreshold \in Nat
  /\ Unit \in Nat \ {0}

\* The amounts a request may have (condecimal(gt=0) in schemas/transaction.py).
Amounts == DOMAIN AsFloat

\* The numbers the rules compare amounts with.
Boundaries == {5000 * Unit, 9000 * Unit, 10000 * Unit, 50000 * Unit}

\* Rounding never carries an amount past a double, which the boundaries are.  Nothing
\* is known of an amount between two of them: a round one may lose its roundness and
\* any other gain it.
ASSUME FloatAssumption ==
  /\ Amounts \subseteq Nat \ {0}
  /\ \A a \in Amounts :
       /\ AsFloat[a] \in Nat
       /\ \A b \in Boundaries :
            (a >= b => AsFloat[a] >= b) /\ (a <= b => AsFloat[a] <= b)

HighRiskCountries == {"IR", "KP", "SY", "CU", "VE", "MM", "AF", "LY", "SO", "YE"}

\* The countries generate_synthetic.py, and with it the scorer, knows of.
ScorerHighRiskCountries == {"IR", "KP", "SY"}

\* What the rules read of a request: `name` says that counterparty_name is a
\* non-empty string.
Payload == [amount: Amounts, txn_type: STRING, country: STRING, name: BOOLEAN]

Points(hit, n) == IF hit THEN n ELSE 0

Capped(score) == IF score <= 100 THEN score ELSE 100

CashOverThreshold(t) == t.amount >= 10000 * Unit /\ t.txn_type = "cash_deposit"

JustBelowThreshold(t) ==
  /\ 9000 * Unit <= t.amount /\ t.amount < 10000 * Unit
  /\ t.txn_type = "cash_deposit"

RoundAmount(t) ==
  t.amount % (1000 * Unit) = 0 /\ t.amount >= 5000 * Unit

LargeWireOut(t) == t.txn_type = "wire_out" /\ t.amount >= 50000 * Unit

NamelessCounterparty(t) == t.amount >= 5000 * Unit /\ ~t.name

\* The points of every rule table; they differ in their countries only.
RulePoints(t, countries) ==
    Points(CashOverThreshold(t), 30) + Points(JustBelowThreshold(t), 40)
  + Points(t.country \in countries, 35) + Points(RoundAmount(t), 10)
  + Points(LargeWireOut(t), 25) + Points(NamelessCounterparty(t), 15)

Reason(hit, name) == IF hit THEN {name} ELSE {}

\* The names of the rules that hit.
Reasons(t, countries) ==
  UNION {Reason(CashOverThreshold(t), "CTR_THRESHOLD"),
         Reason(JustBelowThreshold(t), "STRUCTURING_PATTERN"),
         Reason(t.country \in countries, "HIGH_RISK_JURISDICTION"),
         Reason(RoundAmount(t), "ROUND_NUMBER_BIAS"),
         Reason(LargeWireOut(t), "LARGE_WIRE_OUT"),
         Reason(NamelessCounterparty(t), "MISSING_COUNTERPARTY")}

----------------------------------------------------------------------------
\* run_rules: the reasons and the score stored with the transaction.
MutFlagReasons(t) == Reasons(t, ScorerHighRiskCountries)
FlagReasons(t) == Reasons(t, HighRiskCountries)

RuleScore(t) == Capped(RulePoints(t, HighRiskCountries))

\* A transaction as it is read back from its row: what _scoring_payload_from_txn, the
\* scorer, the features and a history file know of it.
Loaded(t) == [t EXCEPT !.amount = AsFloat[t.amount]]

\* rule_score_for_amount: what the scorer calls the rule score.
MutScorerRuleScore(t) == Capped(RulePoints(Loaded(t), HighRiskCountries \cup {"US"}))
ScorerRuleScore(t) == Capped(RulePoints(Loaded(t), ScorerHighRiskCountries))

\* derive_rule_score: what the calibration calls the rule score.
DerivedRuleScore(t) == Capped(RulePoints(Loaded(t), HighRiskCountries))

\* What calibrate reads of a transaction: an empty name in a CSV file comes back as NaN,
\* which is truthy, and generate_synthetic.py writes no column of names at all.
HistoryRows(t) == {[t EXCEPT !.name = n] : n \in BOOLEAN}

\* get_ensemble_score and the same formula in the scorer; ml is in percent.
MutEnsemble(rule_score, ml) == RuleWeight * rule_score + MlWeight * (100 - ml)
Ensemble(rule_score, ml) == RuleWeight * rule_score + MlWeight * ml

AboveThreshold(ensemble) == ensemble >= 10 * AlertThreshold

\* "alert" in the scorer's answer: what the caller stores as is_flagged.
ScorerAlert(t, ml) ==
  AboveThreshold(Ensemble(ScorerRuleScore(t), ml)) \/ ScorerRuleScore(t) > 0

ShouldGenerateAlert(ensemble, is_flagged) == is_flagged \/ AboveThreshold(ensemble)

\* final_alert in create_transaction: an alert row is ensured iff it is TRUE.
NeedsAlert(scorer_alert, ensemble, flags) ==
  scorer_alert \/ ShouldGenerateAlert(ensemble, flags # {})

\* The severity of a new alert.
Severity(ensemble) ==
  CASE ensemble >= 800 -> "CRITICAL"
    [] ensemble < 800 /\ AboveThreshold(ensemble) -> "HIGH"
    [] ensemble < 800 /\ ~AboveThreshold(ensemble) /\ ensemble >= 400 -> "MEDIUM"
    [] ensemble < 800 /\ ~AboveThreshold(ensemble) /\ ensemble < 400 -> "LOW"

\* The entity's tier in update_risk_scores.
RiskTier(ensemble) ==
  CASE ensemble >= 800 -> "CRITICAL"
    [] ensemble \in 600..799 -> "HIGH"
    [] ensemble \in 400..599 -> "MEDIUM"
    [] ensemble < 400 -> "LOW"

GeneratedBy(scorer_alert, flags) ==
  IF ~scorer_alert THEN "rules" ELSE IF flags = {} THEN "scorer" ELSE "both"
=============================================================================
