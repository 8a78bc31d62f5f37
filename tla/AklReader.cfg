SPECIFICATION Spec
CONSTANTS
  StartSize = 3
  Sources <- MCSources
INVARIANTS TypeOK QuotedIsRead LambdaIsRead NoReadBehind BufferHolds ParamsInside
PROPERTY ReadingEnds
CHECK_DEADLOCK FALSE
