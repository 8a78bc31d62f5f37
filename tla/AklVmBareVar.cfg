SPECIFICATION Spec
CONSTANTS
  Programs <- BareVariable
  CodeOf <- Compile
  Library <- Apply
  CompareLists <- ListsCompared
INVARIANT ResultIsMeaning
CHECK_DEADLOCK FALSE
