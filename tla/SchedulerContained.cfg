SPECIFICATION Safety
CONSTANTS
  InitialTasks = 1
  MaxTasks = 2
  MaskCount = 2
  WaitTicks = {1}
  MaxTicks = 2
  CCalls = FALSE
  SyscallErrors = TRUE
INVARIANTS ErrorsAreContained
