\* The default build: collector off, memory zeroed by the host, malloc succeeds.
SPECIFICATION Spec
CONSTANTS
  Types = {val, entry}
  W = 2
  NWords = 2
  Garbage = {{}}
  GcAllowed = FALSE
  NoMem = FALSE
  MaxPools = 6
  MaxAllocs = 20
INVARIANTS TypeOK Bump PoolsNeeded
PROPERTIES NoAlias
CHECK_DEADLOCK FALSE
