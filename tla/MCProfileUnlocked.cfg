SPECIFICATION Spec
CONSTANTS
  o1 = o1
  o2 = o2
  o3 = o3
  o4 = o4
  e1 = e1
  e2 = e2
  NULL = NULL
  Owners = {o1, o2, o3}
  Connected = {}
  Outlasting = {}
  Timed = {o1, o2, o3}
  Entities = {e1, e2}
INVARIANT
  OneRunAtATime
