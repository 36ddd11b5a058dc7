SPECIFICATION FairSpec
CONSTANTS
  w1 = w1
  w2 = w2
  NULL = NULL
  Workers = {w1}
  NumItems = 2
  BatchSize = 1
  MaxAttempts = 3
  AttemptsCap = 4
  Flaky = {1}
  MaxTroubles = 0
PROPERTY
  EveryRowRetried
