SPECIFICATION Spec
CONSTANTS
  MaxEntries = 5
  MaxDepth = 2
  MaxArgs = 2
INVARIANTS TypeOK Linked FramesLead CallerUntouched
PROPERTIES ImplementsStack
CHECK_DEADLOCK FALSE
