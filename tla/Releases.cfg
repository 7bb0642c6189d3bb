CONSTANTS
  Releases = {r1, r2, r3}
  NoRelease = NoRelease
  Runs = {e1}
  Checks = {"agent_eval", "live_content", "review_queue"}
  Lenient = {"review_queue"}
  Limited = {"agent_eval", "review_queue"}
  Calls = {c1, c2}
  MaxFails = 1
  MaxFlips = 2
SPECIFICATION Spec
SYMMETRY ReleaseSymmetry
INVARIANTS OnePromoted PromotedWasGated GateHasEvidence
CHECK_DEADLOCK FALSE
