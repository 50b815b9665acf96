SPECIFICATION Spec
CONSTANTS
  Entries = 5
  NUM_PD = 4
  NUM_PT = 5
  Base = 7
  Gates = 256
  Half = 256
  Handler0 = 53248
  Vectors <- MCVectors
  MaxWords = 4
  MaxDepth = 3
INVARIANT
  TimerRuns100Hz
