CONSTANTS
  Messages = {m1, m2, m3}
  MaxQueue = 1
  MaxDeliveries = 2
  MaxCrashes = 1
  None = None
SPECIFICATION Spec
INVARIANT OnePlace
PROPERTIES PostAnswered ImplementsDelivery
CHECK_DEADLOCK FALSE
