CONSTANTS
  Pods = {p1, p2}
  NoPod = NoPod
  Requests = {r1}
  Syncs = {1}
  Kinds = {"google_drive","unassigned"}
  PauseAt = 2
  MaxChanges = 1
  MaxMishaps = 1
SPECIFICATION LiveSpec
PROPERTIES LockReleased SyncEnds
CHECK_DEADLOCK FALSE
