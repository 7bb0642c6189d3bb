CONSTANTS
  Handlers = {h1, h2, h3}
  MaxPerOrg = 2
  MaxErrors = 2
  MaxCrashes = 1
  CrashAt = {"arm", "decide", "held", "open", "clamp"}
  ExpiryRaces = FALSE
SPECIFICATION Spec
INVARIANTS TenantLimit CounterCoversHolders LeakBounded
PROPERTY ImplementsSemaphore
