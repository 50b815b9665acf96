\* A task and a second one it may add, preempted every other instruction.
SPECIFICATION Spec
CONSTANTS
  InitialTasks = 1
  MaxTasks = 2
  MaskCount = 2
  WaitTicks = {0, 1}
  MaxTicks = 2
  CCalls = TRUE
  SyscallErrors = TRUE
INVARIANTS RoundRobin HaltedMeansIdle
PROPERTIES NeverEarly NoStarvation IdleHalts
