SPECIFICATION Spec
CONSTANTS
  c1 = c1
  c2 = c2
  c3 = c3
  c4 = c4
  i1 = i1
  i2 = i2
  NULL = NULL
  Calls = {c1, c2, c3, c4}
  Requests <- AllRequests
  Ids = {i1, i2}
SYMMETRY Symmetry
INVARIANTS
  TypeOK
  OneActive
  RetrainedHasArtifact
