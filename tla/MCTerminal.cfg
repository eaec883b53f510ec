CONSTANTS
  Modes <- MCModes
  Keyboard = "keyboard"
  PipeSize = 1
  Sizes = {1, 2}
  MaxSignals = 3
  MaxOpens = 2
SPECIFICATION FairSpec
INVARIANTS
  DeviceIsRestored
  NoLostWakeup
  ResizeIsRemembered
PROPERTIES
  PollWakes
CHECK_DEADLOCK FALSE
