CONSTANTS
  Modes <- MCModes
  Keyboard = "keyboard"
  PipeSize = 1
  Sizes = {1, 2}
  MaxSignals = 3
  MaxOpens = 2
SPECIFICATION FairSpec
INVARIANTS
  UnwindsOnlyCommitted
CHECK_DEADLOCK FALSE
