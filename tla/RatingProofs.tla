---------------------------- MODULE RatingProofs ----------------------------
(***************************************************************************)
(* The rules for every amount and every rounding of amounts, country,      *)
(* transaction type, weight and threshold: TLC looks at the boundaries     *)
(* (MCRulesEngine), the theorems here at all amounts.  The last part is    *)
(* about the features and about the model that answers when none was       *)
(* trained.                                                                *)
(***************************************************************************)
EXTENDS ModelScoring, RulesEngineProofs

(***************************************************************************)
(* The state holds a request body and a probability.                       *)
(***************************************************************************)
TypeOK == txn \in Payload /\ ml \in 0..100

LEMMA Typed == Spec => []TypeOK
<1>1. Init => TypeOK
  BY RatingAssumption DEF Init, TypeOK
<1>2. TypeOK /\ [Rescore]_vars => TypeOK'
  BY RatingAssumption DEF TypeOK, Rescore, vars
<1> QED  BY <1>1, <1>2, PTL DEF Spec

----------------------------------------------------------------------------
(***************************************************************************)
(* run_rules: a score is never cut off, and there is one exactly when a    *)
(* reason is stored with it, whatever the transaction.                     *)
(***************************************************************************)
THEOREM ScoresHaveReasons == Spec => []ScoreMeansReason
<1>1. TypeOK => ScoreMeansReason
  <2> SUFFICES ASSUME TypeOK PROVE ScoreMeansReason
    OBVIOUS
  <2>1. txn \in Payload /\ txn.amount \in Nat
    BY LoadedIsPayload DEF TypeOK
  <2>2. RulePoints(txn, HighRiskCountries) \in 0..100
    BY <2>1, PointsBounded
  <2>3. RulePoints(txn, HighRiskCountries) = 0 <=> FlagReasons(txn) = {}
    BY PointsMeanReasons DEF FlagReasons
  <2> QED
    BY <2>2, <2>3 DEF ScoreMeansReason, RuleScore, Capped
<1> QED
  BY <1>1, Typed, PTL

(***************************************************************************)
(* What rounding does to the rules with a boundary: one that hit still     *)
(* hits, or has become the next one, and one that hits now only has been   *)
(* rounded onto its boundary.                                              *)
(***************************************************************************)
LEMMA RoundingCarries ==
  ASSUME NEW t \in Payload, NEW l, l = Loaded(t)
  PROVE  /\ CashOverThreshold(t) => CashOverThreshold(l)
         /\ JustBelowThreshold(t) => JustBelowThreshold(l) \/ CashOverThreshold(l)
         /\ LargeWireOut(t) => LargeWireOut(l)
         /\ NamelessCounterparty(t) => NamelessCounterparty(l)
         /\ CashOverThreshold(l) /\ ~CashOverThreshold(t) => JustBelowThreshold(t)
         /\ JustBelowThreshold(t) /\ ~JustBelowThreshold(l) => l.amount = 10000 * Unit
         /\ JustBelowThreshold(l) /\ ~JustBelowThreshold(t) => l.amount = 9000 * Unit
         /\ LargeWireOut(l) /\ ~LargeWireOut(t) => l.amount = 50000 * Unit
         /\ NamelessCounterparty(l) /\ ~NamelessCounterparty(t) => l.amount = 5000 * Unit
<1>1. /\ t.amount \in Nat /\ l.amount \in Nat /\ l.txn_type = t.txn_type /\ l.name = t.name
  BY LoadedIsPayload
<1>2. \A b \in Boundaries : (t.amount >= b => l.amount >= b) /\ (t.amount <= b => l.amount <= b)
  BY LoadedIsPayload, FloatAssumption
<1>3. /\ t.amount >= 5000 * Unit => l.amount >= 5000 * Unit
      /\ t.amount <= 5000 * Unit => l.amount <= 5000 * Unit
      /\ t.amount >= 9000 * Unit => l.amount >= 9000 * Unit
      /\ t.amount <= 9000 * Unit => l.amount <= 9000 * Unit
      /\ t.amount >= 10000 * Unit => l.amount >= 10000 * Unit
      /\ t.amount <= 10000 * Unit => l.amount <= 10000 * Unit
      /\ t.amount >= 50000 * Unit => l.amount >= 50000 * Unit
      /\ t.amount <= 50000 * Unit => l.amount <= 50000 * Unit
  BY <1>2 DEF Boundaries
<1>4. Unit \in Nat \ {0}
  BY RulesAssumption
<1>5. /\ CashOverThreshold(t) => CashOverThreshold(l)
      /\ CashOverThreshold(l) /\ ~CashOverThreshold(t) => JustBelowThreshold(t)
  BY <1>1, <1>3, <1>4 DEF CashOverThreshold, JustBelowThreshold
<1>6. /\ JustBelowThreshold(t) => JustBelowThreshold(l) \/ CashOverThreshold(l)
      /\ JustBelowThreshold(t) /\ ~JustBelowThreshold(l) => l.amount = 10000 * Unit
      /\ JustBelowThreshold(l) /\ ~JustBelowThreshold(t) => l.amount = 9000 * Unit
  BY <1>1, <1>3, <1>4 DEF CashOverThreshold, JustBelowThreshold
<1>7. /\ LargeWireOut(t) => LargeWireOut(l)
      /\ LargeWireOut(l) /\ ~LargeWireOut(t) => l.amount = 50000 * Unit
  BY <1>1, <1>3, <1>4 DEF LargeWireOut
<1>8. /\ NamelessCounterparty(t) => NamelessCounterparty(l)
      /\ NamelessCounterparty(l) /\ ~NamelessCounterparty(t) => l.amount = 5000 * Unit
  BY <1>1, <1>3, <1>4 DEF NamelessCounterparty
<1> QED
  BY <1>5, <1>6, <1>7, <1>8

\* Onto a boundary means to a round amount.
LEMMA BoundaryIsRoundAmount ==
  ASSUME NEW l, l.amount \in Boundaries
  PROVE  RoundAmount(l)
<1>1. l.amount % (1000 * Unit) = 0
  BY BoundariesAreRound
<1>2. l.amount >= 5000 * Unit
  BY RulesAssumption DEF Boundaries
<1> QED
  BY <1>1, <1>2 DEF RoundAmount

\* An amount that is a double is rated as it is.
LEMMA ExactAmountsAgree ==
  ASSUME NEW t \in Payload, NEW l, l = Loaded(t), AsFloat[t.amount] = t.amount
  PROVE  /\ CashOverThreshold(l) <=> CashOverThreshold(t)
         /\ JustBelowThreshold(l) <=> JustBelowThreshold(t)
         /\ RoundAmount(l) <=> RoundAmount(t)
         /\ LargeWireOut(l) <=> LargeWireOut(t)
         /\ NamelessCounterparty(l) <=> NamelessCounterparty(t)
<1>1. l.amount = t.amount /\ l.txn_type = t.txn_type /\ l.name = t.name
  BY LoadedIsPayload
<1> QED
  BY <1>1 DEF CashOverThreshold, JustBelowThreshold, RoundAmount, LargeWireOut,
              NamelessCounterparty

(***************************************************************************)
(* What a rounded amount is worth more than the exact one, the countries   *)
(* and a missing name apart.                                               *)
(***************************************************************************)
Amounted(t) ==
    Points(CashOverThreshold(t), 30) + Points(JustBelowThreshold(t), 40)
  + Points(RoundAmount(t), 10) + Points(LargeWireOut(t), 25)

LEMMA RoundingIsBounded ==
  ASSUME NEW t \in Payload, NEW l, l = Loaded(t)
  PROVE  Amounted(l) - Amounted(t) \in -10..50
<1>1. t.amount \in Nat /\ l.amount \in Nat /\ Unit \in Nat
  BY LoadedIsPayload, RulesAssumption
<1>2. /\ ~CashOverThreshold(t) \/ ~JustBelowThreshold(t)
      /\ ~CashOverThreshold(l) \/ ~JustBelowThreshold(l)
  BY <1>1 DEF CashOverThreshold, JustBelowThreshold
<1>3. /\ LargeWireOut(t) => ~CashOverThreshold(t) /\ ~JustBelowThreshold(t)
      /\ LargeWireOut(l) => ~CashOverThreshold(l) /\ ~JustBelowThreshold(l)
  BY DEF LargeWireOut, CashOverThreshold, JustBelowThreshold
<1>4. JustBelowThreshold(t) /\ ~JustBelowThreshold(l) => RoundAmount(l)
  BY RoundingCarries, BoundaryIsRoundAmount DEF Boundaries
<1>5. /\ CashOverThreshold(t) => CashOverThreshold(l)
      /\ JustBelowThreshold(t) => JustBelowThreshold(l) \/ CashOverThreshold(l)
      /\ LargeWireOut(t) => LargeWireOut(l)
      /\ CashOverThreshold(l) /\ ~CashOverThreshold(t) => JustBelowThreshold(t)
  BY RoundingCarries
<1> QED
  BY <1>2, <1>3, <1>4, <1>5 DEF Amounted, Points

\* A name that is missed for the rounding alone is missed at the lowest boundary.
LEMMA NameMissedAtLowest ==
  ASSUME NEW t \in Payload, NEW l, l = Loaded(t),
         NamelessCounterparty(l), ~NamelessCounterparty(t)
  PROVE  Amounted(l) - Amounted(t) <= 10 /\ RoundAmount(l)
<1>1. l.amount = 5000 * Unit /\ Unit \in Nat \ {0}
  BY RoundingCarries, RulesAssumption
<1>2. ~CashOverThreshold(l) /\ ~JustBelowThreshold(l) /\ ~LargeWireOut(l)
  BY <1>1 DEF CashOverThreshold, JustBelowThreshold, LargeWireOut
<1>3. RoundAmount(l)
  BY <1>1, BoundaryIsRoundAmount DEF Boundaries
<1> QED
  BY <1>2, <1>3 DEF Amounted, Points

LEMMA PointsAreSplit ==
  ASSUME NEW t, NEW countries
  PROVE  /\ RulePoints(t, countries)
              = Amounted(t) + Points(t.country \in countries, 35)
                  + Points(NamelessCounterparty(t), 15)
         /\ Amounted(t) \in Nat
BY DEF RulePoints, Amounted, Points

(***************************************************************************)
(* The scorer's table against the service's, for every rounding: equal     *)
(* amounts never score more, a rounded one at most 50 points more, points  *)
(* without a reason come of an amount that became round, and no threshold  *)
(* that run_rules finds reached is lost.                                   *)
(***************************************************************************)
THEOREM ScorerAlwaysFollows == Spec => []ScorerFollowsService
<1>1. ASSUME TypeOK PROVE ScorerFollowsService
  <2>1. PICK t \in Payload : t = txn
    BY <1>1 DEF TypeOK
  <2>2. PICK l : l = Loaded(t)
    OBVIOUS
  <2>3. /\ ScorerRuleScore(t) = RulePoints(l, ScorerHighRiskCountries)
        /\ RuleScore(t) = RulePoints(t, HighRiskCountries)
        /\ l.country = t.country
    BY <2>2, ScoresAreNat, LoadedIsPayload
  <2>4. t.country \in ScorerHighRiskCountries => t.country \in HighRiskCountries
    BY DEF ScorerHighRiskCountries, HighRiskCountries
  <2>5. NamelessCounterparty(t) => NamelessCounterparty(l)
    BY <2>2, RoundingCarries
  <2> DEFINE excess == ScorerRuleScore(t) - RuleScore(t)
  <2>6. excess <= Amounted(l) - Amounted(t)
          + (IF NamelessCounterparty(l) /\ ~NamelessCounterparty(t) THEN 15 ELSE 0)
    <3>1. Points(l.country \in ScorerHighRiskCountries, 35)
            <= Points(t.country \in HighRiskCountries, 35)
      BY <2>3, <2>4 DEF Points
    <3>2. Points(NamelessCounterparty(l), 15) - Points(NamelessCounterparty(t), 15)
            = IF NamelessCounterparty(l) /\ ~NamelessCounterparty(t) THEN 15 ELSE 0
      BY <2>5 DEF Points
    <3>3. /\ Points(l.country \in ScorerHighRiskCountries, 35) \in Nat
          /\ Points(t.country \in HighRiskCountries, 35) \in Nat
          /\ Points(NamelessCounterparty(l), 15) \in Nat
          /\ Points(NamelessCounterparty(t), 15) \in Nat
      BY DEF Points
    <3> QED
      BY <2>3, <3>1, <3>2, <3>3, PointsAreSplit
  <2>7. excess <= IF AsFloat[t.amount] = t.amount THEN 0 ELSE 50
    <3>1. Amounted(l) - Amounted(t) \in -10..50
      BY <2>2, RoundingIsBounded
    <3>2. NamelessCounterparty(l) /\ ~NamelessCounterparty(t) =>
            Amounted(l) - Amounted(t) <= 10
      BY <2>2, NameMissedAtLowest
    <3>3. AsFloat[t.amount] = t.amount =>
            Amounted(l) = Amounted(t) /\ (NamelessCounterparty(l) => NamelessCounterparty(t))
      BY <2>2, ExactAmountsAgree DEF Amounted, Points
    <3>4. excess \in Int
      <4>1. ScorerRuleScore(t) \in 0..100 /\ RuleScore(t) \in 0..100
        BY ScoresAreNat
      <4> QED
        BY <4>1
    <3>5. Amounted(l) \in Nat /\ Amounted(t) \in Nat
      BY PointsAreSplit
    <3> HIDE DEF excess
    <3> QED
      BY <2>6, <3>1, <3>2, <3>3, <3>4, <3>5
  <2>8. FlagReasons(t) = {} <=> RulePoints(t, HighRiskCountries) = 0
    BY PointsMeanReasons DEF FlagReasons
  <2>9. ASSUME ScorerRuleScore(t) > 0, FlagReasons(t) = {}
        PROVE  RoundAmount(l) /\ ~RoundAmount(t)
    <3>1. /\ ~CashOverThreshold(t) /\ ~JustBelowThreshold(t) /\ ~RoundAmount(t)
          /\ ~LargeWireOut(t) /\ ~NamelessCounterparty(t)
          /\ t.country \notin HighRiskCountries
      BY <2>8, <2>9 DEF RulePoints, Points
    <3>2. l.country \notin ScorerHighRiskCountries
      BY <2>3, <2>4, <3>1
    <3>3. \/ CashOverThreshold(l) \/ JustBelowThreshold(l) \/ RoundAmount(l)
          \/ LargeWireOut(l) \/ NamelessCounterparty(l)
      BY <2>3, <2>9, <3>2 DEF RulePoints, Points
    <3>4. ~CashOverThreshold(l)
      BY <2>2, <3>1, RoundingCarries
    <3>5. JustBelowThreshold(l) \/ LargeWireOut(l) \/ NamelessCounterparty(l) =>
            RoundAmount(l)
      BY <2>2, <3>1, RoundingCarries, BoundaryIsRoundAmount DEF Boundaries
    <3> QED
      BY <3>1, <3>3, <3>4, <3>5
  <2>10. ASSUME FlagReasons(t) \ {"HIGH_RISK_JURISDICTION", "ROUND_NUMBER_BIAS"} # {}
         PROVE  ScorerRuleScore(t) > 0
    <3>1. \/ CashOverThreshold(t) \/ JustBelowThreshold(t) \/ LargeWireOut(t)
          \/ NamelessCounterparty(t)
      BY <2>10 DEF FlagReasons, Reasons, Reason
    <3>2. \/ CashOverThreshold(l) \/ JustBelowThreshold(l) \/ LargeWireOut(l)
          \/ NamelessCounterparty(l)
      BY <2>2, <3>1, RoundingCarries
    <3> QED
      BY <2>3, <3>2 DEF RulePoints, Points
  <2> QED
    BY <2>1, <2>2, <2>7, <2>9, <2>10 DEF ScorerFollowsService
<1> QED
  BY <1>1, Typed, PTL

(***************************************************************************)
(* Weights are not negative, so more probability is never less score.      *)
(***************************************************************************)
LEMMA EnsembleMonotone ==
  ASSUME NEW score \in 0..100, NEW p \in Nat, NEW q \in Nat, p <= q
  PROVE  Ensemble(score, p) <= Ensemble(score, q)
<1>1. PICK d \in Nat : q = p + d
  BY q - p \in Nat
<1>2. MlWeight \in Nat /\ RuleWeight \in Nat
  BY RulesAssumption
<1>3. MlWeight * q = MlWeight * p + MlWeight * d
  BY <1>1, <1>2
<1>4. MlWeight * d \in Nat /\ MlWeight * p \in Nat /\ RuleWeight * score \in Nat
  BY <1>1, <1>2
<1> QED
  BY <1>3, <1>4 DEF Ensemble

(***************************************************************************)
(* A retry under a more suspicious model keeps the alert of the scorer,    *)
(* for all weights and thresholds.                                         *)
(***************************************************************************)
THEOREM AlertsAreMonotone == Spec => AlertMonotone
<1> DEFINE Kept == ml <= ml' /\ ScorerAlert(txn, ml) => ScorerAlert(txn', ml')
<1>1. TypeOK /\ TypeOK' /\ [Rescore]_vars => [Kept]_vars
  <2> SUFFICES ASSUME TypeOK, TypeOK', Rescore, ml <= ml', ScorerAlert(txn, ml)
               PROVE  ScorerAlert(txn', ml')
    BY DEF vars
  <2>1. txn' = txn
    BY DEF Rescore
  <2>2. ScorerRuleScore(txn) \in 0..100
    BY ScoresAreNat DEF TypeOK
  <2>3. ml \in Nat /\ ml' \in Nat
    BY DEF TypeOK
  <2>4. Ensemble(ScorerRuleScore(txn), ml) <= Ensemble(ScorerRuleScore(txn), ml')
    BY <2>2, <2>3, EnsembleMonotone
  <2>5. /\ Ensemble(ScorerRuleScore(txn), ml) \in Nat
        /\ Ensemble(ScorerRuleScore(txn), ml') \in Nat
        /\ 10 * AlertThreshold \in Nat
    BY <2>2, <2>3, RulesAssumption DEF Ensemble
  <2> QED
    BY <2>1, <2>4, <2>5 DEF ScorerAlert, AboveThreshold
<1>2. Spec => [][Kept]_vars
  BY <1>1, Typed, PTL DEF Spec
<1> QED
  BY <1>2 DEF AlertMonotone

----------------------------------------------------------------------------
(***************************************************************************)
(* A transaction scored by some model is a rated one.                      *)
(***************************************************************************)
LEMMA ScoringIsRating == ScoringSpec => Spec
<1>1. \A m, t, c : Predictions(m, t, c) \subseteq Probabilities
  BY DEF Predictions
<1>2. ScoringInit => Init
  BY <1>1 DEF ScoringInit
<1>3. [ScoreAgain]_scoringVars => [Rescore]_vars
  BY DEF ScoreAgain, scoringVars, vars
<1> QED
  BY <1>2, <1>3, PTL DEF ScoringSpec, Spec

ScoringTypeOK ==
  /\ TypeOK
  /\ context.expected \in Int
  /\ ml \in Predictions(model, txn, context)

LEMMA ScoringTyped == ScoringSpec => []ScoringTypeOK
<1>1. ScoringInit => ScoringTypeOK
  BY RatingAssumption, ScoringAssumption
  DEF ScoringInit, Init, ScoringTypeOK, TypeOK, Contexts
<1>2. ASSUME ScoringTypeOK, [ScoreAgain]_scoringVars PROVE ScoringTypeOK'
  <2>1. CASE ScoreAgain
    <3>1. TypeOK'
      BY <1>2, <2>1, RatingAssumption DEF ScoringTypeOK, TypeOK, ScoreAgain, Rescore
    <3>2. context'.expected \in Int
      BY <1>2, <2>1, ScoringAssumption DEF ScoringTypeOK, ScoreAgain
    <3>3. ml' \in Predictions(model', txn', context')
      BY <2>1 DEF ScoreAgain, Rescore
    <3> QED
      BY <3>1, <3>2, <3>3 DEF ScoringTypeOK
  <2>2. CASE UNCHANGED scoringVars
    BY <1>2, <2>2 DEF scoringVars, ScoringTypeOK, TypeOK, Predictions
  <2> QED
    BY <1>2, <2>1, <2>2
<1> QED
  BY <1>1, <1>2, PTL DEF ScoringSpec

(***************************************************************************)
(* Each reason stands for its rule.                                        *)
(***************************************************************************)
LEMMA ReasonsAreRules ==
  ASSUME NEW t
  PROVE  /\ "STRUCTURING_PATTERN" \in FlagReasons(t) <=> JustBelowThreshold(t)
         /\ "HIGH_RISK_JURISDICTION" \in FlagReasons(t) <=> t.country \in HighRiskCountries
         /\ "ROUND_NUMBER_BIAS" \in FlagReasons(t) <=> RoundAmount(t)
         /\ "LARGE_WIRE_OUT" \in FlagReasons(t) <=> LargeWireOut(t)
BY DEF FlagReasons, Reasons, Reason

\* The flags of extract_features are the rules, on the double.
LEMMA FlagsAreRules ==
  ASSUME NEW t \in Payload, NEW l, l = Loaded(t), NEW c, NEW code, NEW f, f = Features(t, c, code)
  PROVE  /\ f.just_below = 1 <=> JustBelowThreshold(l)
         /\ f.high_risk = 1 <=> t.country \in HighRiskCountries
         /\ f.round_number = 1 <=> RoundAmount(l)
         /\ f.large_wire = 1 <=> LargeWireOut(l)
<1>1. l.amount = AsFloat[t.amount] /\ l.txn_type = t.txn_type
  BY LoadedIsPayload
<1> QED
  BY <1>1 DEF Features, Flagged, JustBelowThreshold, RoundAmount, LargeWireOut,
              HighRiskCountries, HighRiskFeatureCountries

(***************************************************************************)
(* extract_features and derive_rule_score against run_rules, for every     *)
(* transaction and every rounding: where the copies differ, a boundary was *)
(* rounded to, and by how much they can.                                   *)
(***************************************************************************)
THEOREM CopiesAlwaysMatch == ScoringSpec => []CopiesMatchRules
<1>1. ASSUME ScoringTypeOK PROVE CopiesMatchRules
  <2>1. PICK t \in Payload : t = txn
    BY <1>1 DEF ScoringTypeOK, TypeOK
  <2>2. PICK l : l = Loaded(t)
    OBVIOUS
  <2>3. l.amount = AsFloat[t.amount] /\ t.amount \in Nat
    BY <2>2, LoadedIsPayload
  <2> DEFINE rounded == l.amount # t.amount
  <2>4. ASSUME NEW code, NEW f, f = Features(t, context, code)
        PROVE  /\ f.high_risk = 1 <=> "HIGH_RISK_JURISDICTION" \in FlagReasons(t)
               /\ ~(f.just_below = 1 <=> "STRUCTURING_PATTERN" \in FlagReasons(t)) =>
                    rounded /\ l.amount \in {9000 * Unit, 10000 * Unit}
               /\ ~(f.large_wire = 1 <=> "LARGE_WIRE_OUT" \in FlagReasons(t)) =>
                    rounded /\ l.amount = 50000 * Unit
               /\ ~(f.round_number = 1 <=> "ROUND_NUMBER_BIAS" \in FlagReasons(t)) =>
                    rounded
    <3>1. /\ f.just_below = 1 <=> JustBelowThreshold(l)
          /\ f.high_risk = 1 <=> t.country \in HighRiskCountries
          /\ f.round_number = 1 <=> RoundAmount(l)
          /\ f.large_wire = 1 <=> LargeWireOut(l)
      BY <2>2, <2>4, FlagsAreRules
    <3>2. ~rounded => /\ JustBelowThreshold(l) <=> JustBelowThreshold(t)
                      /\ RoundAmount(l) <=> RoundAmount(t)
                      /\ LargeWireOut(l) <=> LargeWireOut(t)
      BY <2>2, <2>3, ExactAmountsAgree
    <3>3. /\ JustBelowThreshold(t) /\ ~JustBelowThreshold(l) => l.amount = 10000 * Unit
          /\ JustBelowThreshold(l) /\ ~JustBelowThreshold(t) => l.amount = 9000 * Unit
          /\ LargeWireOut(t) => LargeWireOut(l)
          /\ LargeWireOut(l) /\ ~LargeWireOut(t) => l.amount = 50000 * Unit
      BY <2>2, RoundingCarries
    <3> QED
      BY <3>1, <3>2, <3>3, ReasonsAreRules
  <2>5. ASSUME NEW row \in HistoryRows(t)
        PROVE  DerivedRuleScore(row) - RuleScore(t)
                 \in IF rounded THEN -25..65
                     ELSE IF t.amount < 5000 * Unit THEN {0} ELSE {-15, 0, 15}
    <3>1. /\ row \in Payload /\ row.amount = t.amount /\ row.txn_type = t.txn_type
          /\ row.country = t.country
      BY <2>5 DEF HistoryRows, Payload
    <3>2. PICK k : k = Loaded(row)
      OBVIOUS
    <3>3. k.amount = l.amount /\ k.txn_type = l.txn_type /\ k.country = t.country
      BY <2>2, <3>1, <3>2, LoadedIsPayload
    <3>4. Amounted(k) = Amounted(l)
      BY <3>3 DEF Amounted, CashOverThreshold, JustBelowThreshold, RoundAmount, LargeWireOut
    <3>5. DerivedRuleScore(row) - RuleScore(t)
            = Amounted(l) - Amounted(t) + Points(NamelessCounterparty(k), 15)
                - Points(NamelessCounterparty(t), 15)
      <4>1. /\ DerivedRuleScore(row) = RulePoints(k, HighRiskCountries)
            /\ RuleScore(t) = RulePoints(t, HighRiskCountries)
        BY <3>1, <3>2, ScoresAreNat
      <4>2. /\ Points(t.country \in HighRiskCountries, 35) \in Nat
            /\ Points(NamelessCounterparty(k), 15) \in Nat
            /\ Points(NamelessCounterparty(t), 15) \in Nat
        BY DEF Points
      <4> QED
        BY <3>3, <3>4, <4>1, <4>2, PointsAreSplit
    <3>6. CASE rounded
      <4>1. Amounted(l) - Amounted(t) \in -10..50
        BY <2>2, RoundingIsBounded
      <4>2. Points(NamelessCounterparty(k), 15) \in {0, 15}
              /\ Points(NamelessCounterparty(t), 15) \in {0, 15}
        BY DEF Points
      <4>3. Amounted(l) \in Nat /\ Amounted(t) \in Nat
        BY PointsAreSplit
      <4> QED
        BY <3>5, <3>6, <4>1, <4>2, <4>3
    <3>7. CASE ~rounded
      <4>1. Amounted(l) = Amounted(t) /\ Amounted(t) \in Nat
        BY <2>2, <2>3, <3>7, ExactAmountsAgree, PointsAreSplit DEF Amounted, Points
      <4>2. /\ NamelessCounterparty(k) => t.amount >= 5000 * Unit
            /\ NamelessCounterparty(t) => t.amount >= 5000 * Unit
        BY <3>3, <3>7 DEF NamelessCounterparty
      <4>3. Unit \in Nat
        BY RulesAssumption
      <4> QED
        BY <2>3, <3>5, <3>7, <4>1, <4>2, <4>3 DEF Points
    <3> QED
      BY <3>6, <3>7
  <2> QED
    BY <2>1, <2>2, <2>3, <2>4, <2>5 DEF CopiesMatchRules
<1> QED
  BY <1>1, ScoringTyped, PTL

----------------------------------------------------------------------------
LEMMA QuotientIsNat ==
  ASSUME NEW n \in Nat, NEW d \in Nat \ {0}
  PROVE  n \div d \in Nat
BY SMT

(***************************************************************************)
(* The fallback adds up weights, none of which is negative when the        *)
(* expected inflow is not.                                                 *)
(***************************************************************************)
LEMMA FallbackIsNat ==
  ASSUME NEW t \in Payload, NEW c, c.expected \in Nat, NEW code \in Nat
  PROVE  FallbackScore(Features(t, c, code)) \in Nat
<1> DEFINE f == Features(t, c, code)
<1>1. f.expected \in Nat \ {0} /\ f.amount \in Nat /\ f.txn_type = code
  BY LoadedIsPayload, RulesAssumption DEF Features
<1>2. \A flag \in {"just_below", "high_risk", "round_number", "large_wire", "direction"} :
        f[flag] \in {0, 1}
  BY DEF Features, Flagged
<1>3. AmountWeight(f) \in Nat
  <2>1. 1200 * f.amount \in Nat
    BY <1>1
  <2>2. (1200 * f.amount) \div f.expected \in Nat
    BY <1>1, <2>1, QuotientIsNat
  <2> HIDE DEF f
  <2> QED
    BY <1>1, <2>2 DEF AmountWeight
<1>4. f.txn_type % 3 \in Nat
  BY <1>1
<1> HIDE DEF f
<1>5. /\ f.just_below \in {0, 1} /\ f.high_risk \in {0, 1} /\ f.round_number \in {0, 1}
      /\ f.large_wire \in {0, 1} /\ f.direction \in {0, 1}
  BY <1>2
<1>6. (IF f.hour < 6 \/ f.hour > 20 THEN 8000 ELSE 0) \in {0, 8000}
  OBVIOUS
<1>7. FallbackScore(f) \in Nat
  BY <1>3, <1>4, <1>5, <1>6 DEF FallbackScore
<1> QED
  BY <1>7 DEF f

(***************************************************************************)
(* Without a trained model every transaction of an entity whose expected   *)
(* inflow is not negative is alerted, whenever half a probability alone    *)
(* reaches the threshold, as it does with the weights and the threshold    *)
(* that are shipped (FallbackModel, calibration.json).                     *)
(***************************************************************************)
THEOREM UntrainedModelsAlert ==
  ASSUME MlWeight * 50 >= 10 * AlertThreshold
  PROVE  ScoringSpec => []UntrainedAlertsAll
<1>1. ASSUME ScoringTypeOK, model = "fallback", context.expected >= 0
      PROVE  ScorerAlert(txn, ml)
  <2>1. txn \in Payload /\ ml \in 0..100 /\ context.expected \in Nat
    BY <1>1 DEF ScoringTypeOK, TypeOK
  <2>2. PICK code \in TypeCodes(txn.txn_type) :
               ml >= 50 <=> FallbackScore(Features(txn, context, code)) >= 0
    BY <1>1 DEF ScoringTypeOK, Predictions
  <2>3. code \in Nat
    <3>1. TypeCodes(txn.txn_type) \subseteq 0..9
      BY DEF TypeCodes
    <3> QED
      BY <3>1
  <2>4. ml >= 50
    BY <2>1, <2>2, <2>3, FallbackIsNat
  <2>5. ScorerRuleScore(txn) \in 0..100
    BY <2>1, ScoresAreNat
  <2>6. MlWeight * ml >= MlWeight * 50
    <3>1. PICK d \in Nat : ml = 50 + d
      BY <2>1, <2>4, ml - 50 \in Nat
    <3>2. MlWeight * ml = MlWeight * 50 + MlWeight * d /\ MlWeight * d \in Nat
      BY <3>1, RulesAssumption
    <3> QED
      BY <3>2, RulesAssumption
  <2>7. RuleWeight * ScorerRuleScore(txn) \in Nat /\ MlWeight * ml \in Nat
    BY <2>1, <2>5, RulesAssumption
  <2> QED
    BY <2>6, <2>7, RulesAssumption DEF ScorerAlert, AboveThreshold, Ensemble
<1>2. ScoringTypeOK => UntrainedAlertsAll
  BY <1>1 DEF UntrainedAlertsAll
<1> QED
  BY <1>2, ScoringTyped, PTL
=============================================================================
