CONSTANTS
  Jobs = {j1}
  Pods = {p1, p2}
  Requests = {r1, r2}
  MaxConcurrent = 1
  MaxAttempts = 3
  LlmEnabled = TRUE
  EvalGate = TRUE
  DurableQueue = FALSE
  Operations = {"cancel", "expire"}
  MaxCrashes = 1
  MaxStoreErrors = 1
SYMMETRY PodRequestSymmetry
SPECIFICATION Spec
INVARIANTS CompletedIsBacked DuplicatesOnlyFromLostCalls
PROPERTIES SettledIsFinal RevivedByOwnTaskOnly ImplementsIntake
CHECK_DEADLOCK FALSE
