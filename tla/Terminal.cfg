\* Lines of five characters, two of them on the screen.
SPECIFICATION Spec
CONSTANTS
  Width = 45
  Height = 46
  Letters = {"x"}
  Pairs <- MCPairs
  Messages <- MCMessages
  BufferSize = 3
  MaxTyped = 2
INVARIANTS
  OnlyEmptyBackspaceFails
  ShellRunsTypedLine
