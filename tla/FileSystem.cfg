SPECIFICATION Spec
CONSTANTS
  Devices <- MCDevices
  Names <- MCNames
  Bytes = {"a", "b"}
  Buffers <- MCBuffers
  Offsets <- MCOffsets
  Counts <- MCCounts
  MaxSize = 4
  MaxPos = 5
  MaxOpens = 2
CHECK_DEADLOCK FALSE
INVARIANTS
  SequentialWritesConcatenate
  ReadExceedsByAtMostOne
PROPERTIES
  NothingOverwritten
