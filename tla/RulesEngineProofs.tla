------------------------- MODULE RulesEngineProofs -------------------------
(***************************************************************************)
(* Lemmas about the rule tables of RulesEngine, for every transaction and  *)
(* every set of countries.                                                 *)
(***************************************************************************)
EXTENDS RulesEngine, TLAPS

(***************************************************************************)
(* The rules that exclude each other: cash below and above the threshold,  *)
(* cash and wire.  What is left adds up to at most 100 points, so          *)
(* min(score, 100) of run_rules, of the scorer and of the calibration      *)
(* never changes a score.                                                  *)
(***************************************************************************)
LEMMA PointsBounded ==
  ASSUME NEW t, t.amount \in Nat, NEW countries
  PROVE  RulePoints(t, countries) \in 0..100
<1>1. t.amount \in Nat /\ Unit \in Nat
  BY RulesAssumption
<1>2. ~CashOverThreshold(t) \/ ~JustBelowThreshold(t)
  BY <1>1 DEF CashOverThreshold, JustBelowThreshold
<1>3. LargeWireOut(t) => ~CashOverThreshold(t) /\ ~JustBelowThreshold(t)
  BY DEF LargeWireOut, CashOverThreshold, JustBelowThreshold
<1> QED
  BY <1>2, <1>3 DEF RulePoints, Points

(***************************************************************************)
(* A transaction scores points exactly when some rule hits.                *)
(***************************************************************************)
LEMMA PointsMeanReasons ==
  ASSUME NEW t, NEW countries
  PROVE  RulePoints(t, countries) = 0 <=> Reasons(t, countries) = {}
<1> DEFINE none == /\ ~CashOverThreshold(t) /\ ~JustBelowThreshold(t)
                   /\ ~(t.country \in countries) /\ ~RoundAmount(t)
                   /\ ~LargeWireOut(t) /\ ~NamelessCounterparty(t)
<1>1. RulePoints(t, countries) = 0 <=> none
  BY DEF RulePoints, Points
<1>2. Reasons(t, countries) = {} <=> none
  BY DEF Reasons, Reason
<1> QED
  BY <1>1, <1>2

(***************************************************************************)
(* What is read back of a request: a payload whose amount is the double.   *)
(***************************************************************************)
LEMMA LoadedIsPayload ==
  ASSUME NEW t \in Payload
  PROVE  /\ t.amount \in Nat \ {0} /\ t.amount \in Amounts
         /\ Loaded(t).amount = AsFloat[t.amount] /\ AsFloat[t.amount] \in Nat
         /\ Loaded(t).txn_type = t.txn_type /\ Loaded(t).country = t.country
         /\ Loaded(t).name = t.name
BY FloatAssumption DEF Payload, Loaded

(***************************************************************************)
(* So every rule score is a number of points, and never capped.            *)
(***************************************************************************)
LEMMA ScoresAreNat ==
  ASSUME NEW t \in Payload
  PROVE  /\ RuleScore(t) \in 0..100 /\ RuleScore(t) = RulePoints(t, HighRiskCountries)
         /\ ScorerRuleScore(t) \in 0..100
         /\ ScorerRuleScore(t) = RulePoints(Loaded(t), ScorerHighRiskCountries)
         /\ DerivedRuleScore(t) = RulePoints(Loaded(t), HighRiskCountries)
<1>1. t.amount \in Nat /\ Loaded(t).amount \in Nat
  BY LoadedIsPayload
<1>2. \A countries : /\ RulePoints(t, countries) \in 0..100
                     /\ RulePoints(Loaded(t), countries) \in 0..100
  BY <1>1, PointsBounded
<1> QED
  BY <1>2 DEF RuleScore, ScorerRuleScore, DerivedRuleScore, Capped

(***************************************************************************)
(* The boundaries are round, those of 9000 and above as the rule sees it.  *)
(***************************************************************************)
LEMMA BoundariesAreRound ==
  ASSUME NEW b \in Boundaries
  PROVE  b \in Nat /\ b % (1000 * Unit) = 0
<1> DEFINE K == 1000 * Unit
<1>1. K \in Nat \ {0}
  BY RulesAssumption
<1>2. PICK k \in {5, 9, 10, 50} : b = k * K
  <2>1. \/ b = 5 * (1000 * Unit) \/ b = 9 * (1000 * Unit) \/ b = 10 * (1000 * Unit)
        \/ b = 50 * (1000 * Unit)
    BY RulesAssumption DEF Boundaries
  <2> QED
    BY <2>1
<1> HIDE DEF K
<1>3. (k * K) % K = 0
  BY <1>1
<1> QED
  BY <1>1, <1>2, <1>3 DEF K

(***************************************************************************)
(* An ensemble score is a number of tenths; its severity and its tier are  *)
(* tiers.                                                                  *)
(***************************************************************************)
LEMMA EnsembleIsNat ==
  ASSUME NEW score \in Nat, NEW p \in Nat
  PROVE  Ensemble(score, p) \in Nat
BY RulesAssumption DEF Ensemble

LEMMA TiersAreTiers ==
  ASSUME NEW n \in Nat
  PROVE  /\ RiskTier(n) \in {"LOW", "MEDIUM", "HIGH", "CRITICAL"}
         /\ Severity(n) \in {"LOW", "MEDIUM", "HIGH", "CRITICAL"}
<1>1. RiskTier(n) \in {"LOW", "MEDIUM", "HIGH", "CRITICAL"}
  <2>1. n >= 800 \/ n \in 600..799 \/ n \in 400..599 \/ n < 400
    OBVIOUS
  <2> QED
    BY <2>1 DEF RiskTier
<1>2. Severity(n) \in {"LOW", "MEDIUM", "HIGH", "CRITICAL"}
  <2>1. CASE n >= 800
    BY <2>1 DEF Severity
  <2>2. CASE n < 800 /\ AboveThreshold(n)
    BY <2>2 DEF Severity
  <2>3. CASE n < 800 /\ ~AboveThreshold(n) /\ n >= 400
    BY <2>3 DEF Severity
  <2>4. CASE n < 800 /\ ~AboveThreshold(n) /\ n < 400
    BY <2>4 DEF Severity
  <2> QED
    BY <2>1, <2>2, <2>3, <2>4
<1> QED
  BY <1>1, <1>2
=============================================================================
