CONSTANTS
  Pods = {p1, p2}
  NoPod = NoPod
  Sockets = {s1, s2}
  Turns = {t1}
  MaxConnections = 2
  MaxOpens = 3
  MaxLive = 1
  MaxMishaps = 2
SPECIFICATION Spec
SYMMETRY SocketSymmetry
VIEW WhatMatters
INVARIANTS SubscribedWhileListening ToldIsStored NoOrphanPlaceholder EvidenceFits AudienceHearsAll
PROPERTY ImplementsTurns
CHECK_DEADLOCK FALSE
