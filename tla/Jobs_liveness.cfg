CONSTANTS
  Jobs = {j1, j2}
  Pods = {p1}
  Requests = {r1}
  MaxConcurrent = 1
  MaxAttempts = 1
  LlmEnabled = FALSE
  EvalGate = FALSE
  DurableQueue = TRUE
  Operations = {"expire"}
  MaxCrashes = 1
  MaxStoreErrors = 1
SPECIFICATION Spec
PROPERTIES EveryJobSettles EveryTaskEnds
CHECK_DEADLOCK FALSE
