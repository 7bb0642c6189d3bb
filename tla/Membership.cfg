CONSTANTS
  Streams = {s1, s2}
  NoStream = NoStream
  Invites = {1, 2}
  NoInvite = NoInvite
  Requests = {q1}
  NoRequest = NoRequest
  Calls = {c1, c2}
  Ops <- AllOps
  Grants = {1, 3, 4}
  MaxCalls = 3
  MaxFails = 1
SPECIFICATION Spec
SYMMETRY CallSymmetry
INVARIANTS ColumnAgrees OnePendingInvite InvitationHonest NoneOutlivesManager
PROPERTY AcceptNeverDemotes
CHECK_DEADLOCK FALSE
