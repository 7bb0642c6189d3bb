CONSTANTS
  Handlers = {h1, h2}
  MaxPerOrg = 1
  MaxErrors = 0
  MaxCrashes = 1
  CrashAt = {"arm", "decide", "held", "open", "clamp"}
  ExpiryRaces = TRUE
SPECIFICATION Spec
PROPERTY LimitReleased
