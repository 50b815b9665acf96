\* keyboard_task and one other task, with a queue of two scancodes.
SPECIFICATION KernelSpec
CONSTANTS
  InitialTasks = 2
  MaxTasks = 2
  MaskCount = 2
  WaitTicks = {1}
  MaxTicks = 1
  CCalls = TRUE
  SyscallErrors = TRUE
  Scancodes <- MCScancodes
  Capacity = 2
  MaxScancodes = 3
INVARIANTS HandledInOrder
PROPERTIES KeysReachShell
