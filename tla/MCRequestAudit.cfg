SPECIFICATION AuditSpec
CONSTANTS
  r1 = r1
  r2 = r2
  r3 = r3
  NULL = NULL
  Requests = {r1, r2, r3}
  Workloads <- MCWorkloads
  Stored <- MCStored
  Orders = {TRUE, FALSE}
  Pool = 2
  ApiKey = "right"
  MaxFaults = 1
SYMMETRY Symmetry
INVARIANTS
  TypeOK
  
  AuditTypeOK
  RecordsAreTrue
  CommitsAreAudited
  SomeoneGoesOn
PROPERTIES
  NoCollateralWrites
  AnswersAreTrue
