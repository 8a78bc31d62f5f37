SPECIFICATION Spec
CONSTANTS
  Types = {val, entry}
  W = 2
  NWords = 2
  Garbage = {{}}
  GcAllowed = TRUE
  NoMem = TRUE
  MaxPools = 5
  MaxAllocs = 14
INVARIANTS ChainSound CountCoversUsed
 
CHECK_DEADLOCK FALSE
