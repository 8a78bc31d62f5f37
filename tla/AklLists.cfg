SPECIFICATION Spec
CONSTANTS
  Vars = {x, y}
  MaxEntries = 6
  LoopEntries = 5
SYMMETRY Alike
INVARIANTS TypeOK IntactIsRight WalksEnd IterationMeetsAll OnlySpoiledCrash
CHECK_DEADLOCK FALSE
