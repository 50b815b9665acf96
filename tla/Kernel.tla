-------------------------------- MODULE Kernel --------------------------------
(***************************************************************************)
(* The path of a key through the whole kernel: the keyboard interrupt puts *)
(* its scancode in the queue of luakernel.c, the scheduler resumes         *)
(* keyboard_task among the other tasks when its wait is over, and          *)
(* keyboard_task takes the queue's content and gives it to key_pressed.    *)
(*                                                                         *)
(* The tasks and their scheduler are those of module Scheduler, with       *)
(* keyboard_task as task 1: its steps follow its program.  The queue is    *)
(* the bounded channel that module Interrupts implements.  key_pressed     *)
(* runs the line that was typed: that may be any program, and need not     *)
(* return.                                                                 *)
(***************************************************************************)
EXTENDS Scheduler, Sequences

CONSTANTS
  Scancodes,    \* the bytes a keyboard sends
  Capacity,     \* the length of keyboard_scancode_queue
  MaxScancodes  \* bound: scancodes in a behaviour

ASSUME QueueAssumption == Capacity \in Nat \ {0} /\ MaxScancodes \in Nat
ASSUME KeyboardWaits == WaitTicks # {}

VARIABLES
  offered,     \* scancodes the interrupt handler has offered so far
  chan,        \* the queue
  received,    \* history: what get_keyboard_interrupt returned so far
  kpc,         \* the statement of keyboard_task
  scancodes,   \* its table, from the element the loop is at
  handled      \* history: the scancodes key_pressed was called with

keyboard_vars == <<kpc, scancodes, handled>>
kernel_vars == <<vars, offered, chan, received, keyboard_vars>>

Queue == INSTANCE ScancodeChannel

keyboard == 1

KernelInit ==
  /\ Init
  /\ Queue!Init
  /\ kpc = "get" /\ scancodes = <<>> /\ handled = <<>>

-------------------------------------------------------------------------------
(* The keyboard interrupt: the handler stores or drops the scancode, and a *)
(* halted CPU goes on.                                                     *)
KeyboardInterrupt ==
  /\ offered < MaxScancodes
  /\ \E s \in Scancodes : Queue!Offer(s)
  /\ OtherInterrupt
  /\ UNCHANGED keyboard_vars

(* What the other tasks, the scheduler and the timer do is no concern of   *)
(* the keyboard.                                                           *)
OtherTask == \E t \in Tasks \ {keyboard} : TaskStep(t)

Elsewhere(step) ==
  /\ step
  /\ UNCHANGED <<offered, chan, received, keyboard_vars>>

-------------------------------------------------------------------------------
(* keyboard_task, whose instructions count like those of any other task.   *)

(* local scancodes = get_keyboard_interrupt()                              *)
GetKeyboardInterrupt ==
  /\ kpc = "get"
  /\ Compute(keyboard)
  /\ IF chan = <<>> THEN UNCHANGED <<offered, chan, received>> ELSE Queue!Drain
  /\ scancodes' = chan
  /\ kpc' = "for"
  /\ UNCHANGED handled

(* for _, scancode in ipairs(scancodes) do key_pressed(scancode) end       *)
KeyPressed ==
  /\ kpc = "for" /\ scancodes # <<>>
  /\ Compute(keyboard)
  /\ handled' = Append(handled, Head(scancodes))
  /\ scancodes' = Tail(scancodes)
  /\ kpc' = "key"
  /\ UNCHANGED <<offered, chan, received>>

(* key_pressed, and the command it runs for Enter: any instructions but    *)
(* wait, which is local to luakernel.lua.  Its pcall catches an error of   *)
(* the command; an error of key_pressed itself kills keyboard_task.        *)
InsideKeyPressed ==
  /\ kpc = "key"
  /\ TaskStep(keyboard)
  /\ stage'[keyboard] = "run" /\ costatus'[keyboard] # "returned"
  /\ UNCHANGED <<offered, chan, received, keyboard_vars>>

\* Mutant: the loop ends with the first scancode.
AfterKeyWait == "wait"
AfterKey == "for"

KeyReturns ==
  /\ kpc = "key" /\ ~ nny[keyboard]
  /\ Compute(keyboard)
  /\ kpc' = AfterKey
  /\ UNCHANGED <<offered, chan, received, scancodes, handled>>

(* wait(5), whose steps are those of module Scheduler.                     *)
CallsWait ==
  /\ kpc = "for" /\ scancodes = <<>>
  /\ \E ticks_ \in WaitTicks : CallWait(keyboard, ticks_)
  /\ kpc' = "wait"
  /\ UNCHANGED <<offered, chan, received, scancodes, handled>>

InsideWait ==
  /\ kpc = "wait"
  /\ ReadTicks(keyboard) \/ AssignWaitUntil(keyboard) \/ YieldInWait(keyboard)
  /\ UNCHANGED <<offered, chan, received, keyboard_vars>>

Loops ==
  /\ kpc = "wait"
  /\ Compute(keyboard)
  /\ kpc' = "get"
  /\ UNCHANGED <<offered, chan, received, scancodes, handled>>

(* The count hook interrupts it anywhere.                                  *)
Preempted ==
  /\ Preempt(keyboard)
  /\ UNCHANGED <<offered, chan, received, keyboard_vars>>

KeyboardTask ==
  \/ GetKeyboardInterrupt \/ KeyPressed \/ InsideKeyPressed \/ KeyReturns
  \/ CallsWait \/ InsideWait \/ Loops \/ Preempted

KernelNext ==
  KeyboardInterrupt \/ Elsewhere(TimerInterrupt) \/ Elsewhere(SchedulerStep \/ OtherTask)
    \/ KeyboardTask

(* The CPU executes and the PIT runs: nothing is assumed of the tasks.     *)
KernelFairness ==
  /\ WF_kernel_vars(KeyboardTask \/ Elsewhere(SchedulerStep \/ OtherTask))
  /\ WF_kernel_vars(Elsewhere(TimerInterrupt))

KernelSpec == KernelInit /\ [][KernelNext]_kernel_vars /\ KernelFairness

-------------------------------------------------------------------------------
(* What key_pressed was called with, then the rest of the table in         *)
(* keyboard_task's hands, is what get_keyboard_interrupt returned: a       *)
(* suspended keyboard_task neither loses nor repeats a scancode.           *)
HandledInOrder == handled \o scancodes = received

\* keyboard_task is suspended in wait, which has set the tick it sleeps until;
\* the bounded clock reaches that tick.
Asleep ==
  kpc = "wait" /\ stage[keyboard] \in {"yield", "yielded"} /\ costatus[keyboard] = "suspended"
WillWake == Asleep /\ wait_until[keyboard] <= MaxTicks

\* keyboard_task was killed by an error in key_pressed, or all of the kernel
\* by one in a system call.
KeyboardGone == costatus[keyboard] = "error" \/ spc = "stopped"

\* Every command that is typed returns, and no task is caught by the hook in
\* a C call for ever (NoStarvation).
CommandsReturn == []<>(kpc # "key") /\ <>[]HookMayYield

(* A scancode reaches key_pressed whatever the other tasks do, if commands *)
(* return and nothing kills keyboard_task.  It is told in three parts, as  *)
(* MaxTicks bounds the clock: a keyboard_task that is awake empties the    *)
(* queue or goes to sleep; one that sleeps until some tick empties it when *)
(* that tick has come; and what it took from the queue it handles.         *)
KeysReachShell ==
  CommandsReturn =>
    /\ chan # <<>> ~> chan = <<>> \/ Asleep \/ KeyboardGone
    /\ chan # <<>> /\ WillWake ~> chan = <<>> \/ KeyboardGone
    /\ \A k \in 1 .. MaxScancodes : Len(received) >= k ~> Len(handled) >= k \/ KeyboardGone
===============================================================================
