SPECIFICATION FairSpec
CONSTANTS
  w1 = w1
  w2 = w2
  NULL = NULL
  Owners = {w1, w2}
  Connected = {w1}
  Outlasting = {}
  MaxLaunches = 3
INVARIANTS
  TypeOK
  KeyIsAccountedFor
PROPERTIES
  StopEndsLoop
  WorkGoesOn
