SPECIFICATION Spec
CONSTANTS
  Scancodes <- MCOneScancode
  QueueSize = 2
  MaxBytes = 1
  MaxTicks = 1
  AllocFails = TRUE
PROPERTIES HltWakes
