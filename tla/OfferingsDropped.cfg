SPECIFICATION Spec
CONSTANTS
  Caller = {c1}
  Zone = {"z1", "z2"}
  Configured = {"z1", "z2"}
  Pools <- MCPools
  Volatile <- MCVolatile
  Steady <- MCSteady
  TTL = 1
  Delay = 0
  MaxTime = 4
INVARIANT KnownPairIsOffered
CHECK_DEADLOCK FALSE
