SPECIFICATION Spec
CONSTANTS
  Lines <- MCLines
  Files <- MCFiles
  Steps <- MCSteps
  MaxLoads = 2
INVARIANTS TypeOK QuietLinesRun KilledByTwo
PROPERTY SignalStopsProgram
CHECK_DEADLOCK FALSE
