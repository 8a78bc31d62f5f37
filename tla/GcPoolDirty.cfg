\* Collector off; the part of gp_freemap that memset misses is not zero.
SPECIFICATION Spec
CONSTANTS
  Types = {val, entry}
  W = 2
  NWords = 2
  Garbage = {{}, {1}, {2, 3}}
  GcAllowed = FALSE
  NoMem = FALSE
  MaxPools = 4
  MaxAllocs = 10
PROPERTY NoAlias
CHECK_DEADLOCK FALSE
