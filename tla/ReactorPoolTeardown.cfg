SPECIFICATION Spec
CONSTANTS
  Clients = {c1, c2}
  PoolSize = 1
  MaxReactors = 2
INVARIANT SafeRelease
CHECK_DEADLOCK FALSE
