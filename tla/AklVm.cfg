SPECIFICATION Spec
CONSTANTS
  Programs <- MCPrograms
  CodeOf <- Compile
  Library <- Apply
  CompareLists <- ListsCompared
INVARIANTS TypeOK ResultIsMeaning CodeIsBalanced OwnValues
PROPERTIES CallLeavesOne MisuseIsTold ProperUseIsSilent InterruptStops Finishes
CHECK_DEADLOCK FALSE
