SPECIFICATION FairSpec
CONSTANTS
  o1 = o1
  o2 = o2
  o3 = o3
  o4 = o4
  e1 = e1
  e2 = e2
  NULL = NULL
  Owners = {o1, o2, o3, o4}
  Connected = {o1, o2, o3}
  Outlasting = {o1}
  Timed = {o4}
  Entities = {e1, e2}
INVARIANTS
  TypeOK
  BootstrapAtomic
PROPERTIES
  ImplementsSingleRunner
  LockComesFree
