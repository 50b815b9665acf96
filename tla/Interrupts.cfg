\* The processor, the controllers, the handlers and get_keyboard_interrupt, all together:
\* safety, the bounded channel they implement, and progress while keyboard_task polls.
CONSTANTS
  Scancodes <- MCScancodes
  QueueSize = 2
  MaxBytes = 4
  MaxTicks = 1
  AllocFails = TRUE
SPECIFICATION Spec
INVARIANTS TypeOK NothingLost HandlerReadsItsDevice InServiceMatchesHandler
PROPERTIES ImplementsChannel ImplementsFairChannel HltWakesUnlessAllocFails
