SPECIFICATION DisplaySpec
CONSTANTS
  Width = 165
  Height = 31
  Letters = {"x"}
  Pairs <- MCPairs
  Messages <- MCMessages
  BufferSize = 19
  MaxTyped = 0
  BytesPerScanLine = 660
  bytes_per_pixel = 4
  U32 = 1048576
INVARIANTS
  OnDisplay
  PixelsInBuffer
PROPERTIES
  FramesGoOn
  ShowsTerminal
