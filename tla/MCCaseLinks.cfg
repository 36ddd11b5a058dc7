SPECIFICATION AuditSpec
CONSTANTS
  r1 = r1
  r2 = r2
  r3 = r3
  NULL = NULL
  Requests = {r1, r2}
  Workloads <- LinkWorkloads
  Stored <- MCStored
  Orders = {FALSE}
  Pool = 2
  ApiKey = "right"
  MaxFaults = 0
INVARIANT
  LinksAreKept
