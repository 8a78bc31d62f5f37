SPECIFICATION Spec
CONSTANTS
  Lines <- MCLines
  Files <- MCFiles
  Steps <- MCSteps
  MaxLoads = 2
INVARIANT OnlySignalsStop
CHECK_DEADLOCK FALSE
