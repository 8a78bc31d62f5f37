SPECIFICATION Spec
CONSTANTS
  MaxEntries = 4
  MaxDepth = 1
  MaxArgs = 1
PROPERTY UngivenIsNothing
CHECK_DEADLOCK FALSE
