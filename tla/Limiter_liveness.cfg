CONSTANTS
  Handlers = {h1, h2, h3}
  MaxPerOrg = 2
  MaxErrors = 0
  MaxCrashes = 2
  CrashAt = {"held"}
  ExpiryRaces = TRUE
SPECIFICATION Spec
INVARIANT LeakHasExpiry
PROPERTY LimitReleased
