CONSTANTS
  Requests = {q1, q2, q3}
  Records = {r1, r2}
  Reconcilers = {c1}
  MaxRetries = 2
  MaxFailures = 2
  None = None
SPECIFICATION Spec
SYMMETRY RequestSymmetry
INVARIANTS RecordsConsistent ReconcileRepairs
PROPERTIES LegalInMemory TrailKeptInMemory
CHECK_DEADLOCK FALSE
