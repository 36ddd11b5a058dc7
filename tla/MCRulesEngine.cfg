SPECIFICATION ScoringSpec
CONSTANTS
  RuleWeight = 4
  MlWeight = 6
  AlertThreshold = 30
  Unit <- MCUnit
  AsFloat <- MCAsFloat
  Payloads <- MCPayloads
  Probabilities <- MCProbabilities
  Expected <- MCExpected
  NULL = NULL
  Hours = {3, NULL}
INVARIANTS
  ScoreMeansReason
  ScorerFollowsService
  CopiesMatchRules
  UntrainedAlertsAll
PROPERTY
  AlertMonotone
