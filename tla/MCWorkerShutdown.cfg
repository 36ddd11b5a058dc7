SPECIFICATION FairSpec
CONSTANTS
  w1 = w1
  w2 = w2
  NULL = NULL
  Owners = {w1}
  Connected = {}
  Outlasting = {}
  MaxLaunches = 1
PROPERTY
  SignalEndsProcess
