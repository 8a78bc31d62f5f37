\* Collector off; the host runs out of memory.
SPECIFICATION Spec
CONSTANTS
  Types = {val, entry}
  W = 2
  NWords = 2
  Garbage = {{}}
  GcAllowed = FALSE
  NoMem = TRUE
  MaxPools = 4
  MaxAllocs = 10
INVARIANT HeadNeverFreed
CHECK_DEADLOCK FALSE
