SPECIFICATION SortedSpec
CONSTANTS
  RuleWeight = 4
  MlWeight = 6
  AlertThreshold = 30
  Unit = 10
  AsFloat <- MCAsFloat
  r1 = r1
  r2 = r2
  r3 = r3
  t1 = t1
  t2 = t2
  a1 = a1
  a2 = a2
  NULL = NULL
  Requests = {r1, r2, r3}
  Inputs <- MCInputs
  Stripped <- MCStripped
  Entities <- MCEntities
  TxnIds = {t1, t2}
  AlertIds = {a1, a2}
  Probabilities <- MCProbabilities
INVARIANTS
  TypeOK
  OneRowPerKey
  OneAlertPerTransaction
  SuspiciousHasAlert
  NoOrphans
PROPERTIES
  ImplementsLedger
  AllAnswered
