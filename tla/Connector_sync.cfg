CONSTANTS
  Pods = {p1, p2}
  NoPod = NoPod
  Requests = {r1}
  Syncs = {1, 2}
  Kinds = {"google_drive","generic","unassigned"}
  PauseAt = 2
  MaxChanges = 1
  MaxMishaps = 1
SPECIFICATION Spec
SYMMETRY PodSymmetry
VIEW WhatMatters
INVARIANTS ScheduledExclusion NothingSkippedSilently RunningRowsAreLive
PROPERTY TokenMonotone
CHECK_DEADLOCK FALSE
