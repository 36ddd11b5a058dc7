SPECIFICATION FairSpec
CONSTANTS
  w1 = w1
  w2 = w2
  NULL = NULL
  Workers = {w1, w2}
  NumItems = 3
  BatchSize = 2
  MaxAttempts = 3
  AttemptsCap = 4
  Flaky = {1}
  MaxTroubles = 2
INVARIANTS
  TypeOK
  RowsAccountedFor
  RunsDontOverclaim
PROPERTIES
  ResolvedAgainOnlyIfShared
  AttemptsDropOnlyIfShared
  RevivedOnlyIfShared
  EveryRowSettled
