# A TLA+ verification of luakernel

luakernel is a small x86-64 kernel: about a thousand lines of C, assembler and
Lua that boot through GRUB, bring up the Lua 5.2 interpreter on the bare
machine, and run a handful of Lua coroutines as tasks. This directory holds
TLA+ models of it, the TLC configurations that check them on small instances,
and proofs, checked by TLAPS, of all their safety properties for every instance.

Paths such as `luakernel.c:457` refer to `src/src/`.

## 1. The system and its parts

| Part | Code | State | Operations |
|---|---|---|---|
| Boot | `init.S:71-222`, `init.c:3-63` | page tables, GDT, IDT, control registers | enter long mode, program PIC and PIT, `sti`, call `main` |
| Interrupt entry | `interrupt.S`, `init.S:232-282`, `init.c:65-110` | the interrupt stack frame, 256 gates | push registers, call `handle_interrupt`, pop, `iretq` |
| Interrupt handling and keyboard queue | `luakernel.c:348-409`, `457-480` | `timer_ticks`, `keyboard_scancode_queue`, the in-service bits of the two 8259s | timer, keyboard and mouse handlers, `get_keyboard_interrupt`, `hlt` |
| Task scheduler | `luakernel.lua:7-23`, `168-177`, `407-411`, `432-457`, `luakernel.c:434-455` | `tasks`, their coroutines and `wait_until`, the Lua copy of `timer_ticks` | `taskadd`, `wait`, one pass of the loop, the count hook, `hlt` |
| System calls | `luakernel.c:56-222` | Lua registry references used as descriptors | `open`, `close`, `lseek`, `read`, `write`, `writev`, stubs |
| File system | `luakernel.lua:25-143` | `fs`, open descriptors with a position | `open`, `lseek`, `read`, `write` |
| Terminal and keyboard task | `luakernel.lua:118-143`, `179-320` | `terminal_lines`, `shift_on`, `ctrl_on`, `tilda` | output to descriptor 1, `key_pressed`, `keyboard_task` |
| Display | `luakernel.c:224-271`, `luakernel.lua:145-166`, `219-253`, `364-401` | back buffer, frame buffer | `putpixel`, lines, text, `swap_buffers` |
| Demo tasks | `luakernel.lua:322-362` | a colour each | draw, `wait(5)` |
| Boot information and memory | `luakernel.c:41-54`, `273-346`, `521-574` | `heap_end`, frame buffer address and geometry | walk the multiboot tags, configure the heap, create the Lua state |
| SQLite's allocator | `dep/sqlite3/sqlite3.c` (memsys5), `luakernel.c:41-54` | the pool, its control bytes and free lists | `l_alloc`, `memsys5Malloc`, `memsys5Free`, `memsys5Realloc` |
| Module loader | `luakernel.c:482-519`, `luakernel.lua:3-5` | none | look a module up in the bundle, compile, run |
| Lua, musl, the rest of SQLite | `dep/` | | third-party code the kernel is linked with |

How they interact: the CPU runs either the main context or one interrupt
handler. The main context is one C stack, on which the main Lua thread runs the
scheduler loop; it resumes a task's coroutine, which runs until it yields, is
made to yield by the count hook, returns or raises an error. Handlers and the
main context share `timer_ticks` and the scancode queue. C library calls of Lua
code end in `handle_syscall`, which calls back into Lua (`open`, `read`,
`write`, `lseek`) on the *main* Lua thread, whatever coroutine is running. All
memory Lua uses comes from SQLite's buddy allocator, to which `main` gives the
memory behind the kernel.

### What is hard about it

* Devices and handlers interleave with the main context at every instruction;
  only `cli`/`sti` in `get_keyboard_interrupt` protects the queue.
* The code between `cli` and `sti` may leave by `longjmp`.
* Both interrupt controllers have to be acknowledged, for the right lines.
* Tasks are preempted between any two VM instructions, also inside `wait`,
  `key_pressed`, `draw_terminal` and in their own calls of `open` and `write`; a
  preemption inside a C call is an error instead.
* `write` replaces the table of the screen's lines while other tasks hold it.
* The scheduler's clock is a copy, read once per pass; `hlt` follows later.
* Tasks are added while the scheduler walks over the list.
* An error in Lua code run for a system call unwinds the wrong stack.
* The allocator decides by control bytes that nobody clears.

`PROJECT.json` lists these and the other hazards at the lines where they bite,
with the properties that cover them.

## 2. The modules

| Module | Models | Checked by |
|---|---|---|
| `ScancodeChannel` | what the keyboard path promises | refined by `Interrupts`, used by `Kernel` |
| `Interrupts` | handlers, controllers, scancode queue, `get_keyboard_interrupt`, `hlt` | two runs, `InterruptsProofs` |
| `Scheduler` | `taskadd`, `wait`, the scheduler loop, the count hook | two runs, `SchedulerProofs` |
| `Kernel` | composition of `Scheduler`, the channel and `keyboard_task` | one run, `SchedulerProofs` |
| `Terminal` | `terminal_lines`, output to descriptor 1, `key_pressed` | one run, `DisplayProofs` |
| `Display` | composition of `Terminal` with `display_task`; `putpixel`, `swap_buffers` | one run, `DisplayProofs` |
| `FileSystem` | `open`, `close`, `lseek`, `read`, `write` from system call to `fs`, and called by a task | one run, `FileSystemProofs` |
| `Boot` | control registers, page tables, IDT, 8259s, PIT | with `InterruptEntry`; `MachineProofs` |
| `InterruptEntry` | composition of `Boot` with the CPU: frames, stubs, saved registers, `iretq` | two runs, `MachineProofs` |
| `Heap` | `l_alloc` and memsys5 | with `Memory`; `HeapFacts`, `HeapStepProofs`, `HeapProofs` |
| `Memory` | composition of `Heap` with `main`: the multiboot tags, the heap, the Lua state | one run, `HeapProofs` |
| `Loader` | the bundle, `lua_loader`, `require` | one run, `SchedulerProofs` |

`MC<module>` gives the constants of a module their values for TLC (`MCMachine`
those of `InterruptEntry`). Definitions introduced by a comment "Mutant" are
faulty variants of the definition that follows them; no specification uses them.
They record that the property named beside them in `PROJECT.json` fails when the
code is changed that way.

### ScancodeChannel and Interrupts

`ScancodeChannel` says what the keyboard path promises: a bounded channel. A
scancode enters it or, only when it is full, is dropped; the keyboard task takes
all of its content at once and in order.

`Interrupts` is the code. The C variables `timer_ticks`,
`keyboard_scancode_queue`, `keyboard_scancode_queue_len`, `scancode` and `i`
keep their names; `vector`/`hpc` and `mainpc` are the program counters of
`handle_interrupt` and of the main context. Each statement of the three handlers
is an action (`CountTick`; `ReadScancode`, `StoreScancode`; `ReadMouse`;
`EndOfInterrupt2`, `EndOfInterrupt1`; `Iretq`), and so is each statement of
`lua_get_keyboard_interrupt` (`Cli`, `CreateTable` or `CreateTableFails`,
`CopyScancode`, `LeaveLoop`, `ClearQueue`, `Sti`). Devices act between any two
of them. The requested and in-service lines of the 8259s follow the way init.S
programs them: edge triggered, fully nested, PIC2 behind line 2. `stored`,
`offered` and `delivered` are history variables.

### Scheduler

The loop at the end of `luakernel.lua`, one action per branch (`StartPass`,
`SkipTask`, `ResumeTask`, `EndPass`, `Hlt`). A task is an arbitrary Lua program,
one action per VM instruction; each instruction uses up one of the `MaskCount`
that the count hook allows, then `Preempt` (`lua_hook`) or, inside a C call that
called Lua back, `PreemptAcrossC` is the only possible step. `wait` takes four
instructions (`CallWait`, `ReadTicks`, `AssignWaitUntil`, `YieldInWait`), so that
it can be preempted inside. `cticks` is the counter of the interrupt handler,
`timer_ticks` the scheduler's copy. `SyscallError` is the error raised in the Lua
half of a system call, which unwinds to `main`.

### Kernel

The path of a key through the kernel. `Kernel` extends `Scheduler` and gives its
task 1 the program of `keyboard_task`: `GetKeyboardInterrupt`, then for each
scancode the call `KeyPressed`, any instructions inside it (`InsideKeyPressed`) and
`KeyReturns`, then `CallsWait` and the steps of `wait`, preempted anywhere. The
inside is arbitrary because Enter runs the typed line as a program: it may fail,
stop the kernel through a failing system call, or never return. The other tasks
stay arbitrary too. The scancode queue is `ScancodeChannel`, which `Interrupts` is
shown to implement.

### Terminal

`WriteChar` is one round of the loop of `write`, with wrapping and clearing.
`key_pressed` is split where it looks at the screen: reading the table
(`GetTable`), its length (`GetIndex`), the element (`GetLine`), then the branches.
Between any two of them other tasks print lines (`PrintLine`), write text without
a newline (`IoWrite`) and flush (`IoFlush`). Clearing replaces the table, and the
suspended `key_pressed` may go on with the abandoned one: `held` says which.
musl's buffer for standard output, which all tasks share, is `stdout`: text stays
in it until a newline, a flush, or text that no longer fits (`Fwrite`). After
`Load` the command runs as one more task that writes, until it returns
(`CommandReturns`), its error is printed (`ReportError`), or printing it fails
(`ReportFails`). `RemoveError` is the error of `table.remove`. Both errors end the
keyboard task (`Dies`). `typed` is a history variable: the characters typed since
the line began, or `Disturbed` once something else may be on that line.

### Display

`display_task` statement by statement beside every step of `Terminal`: the
border, the frame that the grave key turns on, the memory usage, then
`draw_terminal` line by line, the cursor and `swap_buffers`. `dtable` is the table
that `ipairs` was given; it may be taken off the screen by `write` or Ctrl-L
while the loop goes through it. What a call draws is the box of its pixels
(`Drawing`), with `putpixel`'s unsigned arithmetic for the bytes it stores to.
`drawn` and `shown` say whether the back buffer and the frame buffer hold the
terminal's present text. Colours and the shapes of glyphs are left out.

### FileSystem

A system call is one action, since its Lua half runs on the main state, which has
no hook. `registry` holds what `luaL_ref` was given, the -1 of a failed `open`
included. `Sub` is Lua's `string.sub` with its negative and out-of-range
positions, `sinsert` the function of that name. `writev` has the two pieces that
musl gives it. One task calls `open` and `write` itself (`Direct...`): there the
hook can preempt it between the test and the assignment of `fs[path]`, and
between the read and the assignment of `fd.top.buf`.

### Boot and InterruptEntry

`Boot` goes through init.S in order (`Steps`): control registers, the stores of
the four nested loops of `setup_page_table`, the gates of `setup_IDT`, and every
`out`. The processor's page walk, by the four indices that an address consists
of, and what the controllers make of the bytes are external definitions. As in
the source, a page directory has as many page tables as a table has entries.

`InterruptEntry` continues after the last step with `sti` and the call of
`main`. Its stack consists of 8-byte words that remember what they are: the
processor's frame with its alignment and error code (`Deliver`, through the gate
that `Boot` wrote), the stub, the sixteen pushes, the call, the pops and `iretq`,
for interrupts and for exceptions nested inside handlers. When `main` returns, a
`hlt` follows, and behind it the code of `handle_interrupt_0` (`FallThrough`).
`Interrupts` uses this whole path as its steps `TakeInterrupt` and `Iretq`.

### Heap and Memory

`Heap` is memsys5 as `l_alloc` uses it, one action per iteration of its loops:
`Divide` (the pool's first division), `Split`, `Merge`. `aCtrl` keeps the control
byte of every atom, also those inside a block, which are stale: their initial
contents are arbitrary (`Garbage`). The free lists are sequences, because links
are put in front and taken out anywhere. `cell` says who wrote an atom last, so
that overlapping blocks, links stored in a used block or a copy after the free
would be seen. `blocks` is a history variable. `LAlloc` has the four outcomes of
`sqlite3_realloc`: the block is kept, refused, moved, or, for a size that is not
positive as an `int`, freed under Lua's hands. Sizes are `size_t`; what reaches
the allocator is their low 32 bits with a sign (`ToInt`).

`Memory` is `main`: the walk over the multiboot tags (`ReadTag`, `EndTag`), the
size of the heap as an `int`, `lua_newstate` and `lua_newuserdata` with their
failures, then the Lua program, which allocates and frees as it likes. A boot
information is a sequence of tags that carry their offsets; `LaidOut` and
`WellFormed` state what the multiboot specification makes the boot loader do,
and the walk has to find the offsets by itself.

### Loader

All bundles up to a size are initial states; `Require` is `require` with the
kernel's searcher and loader, including what it returns after an error, and the
second loading of a module that returned `false`.

## 3. The runs

| Run | Properties | Distinct states |
|---|---|---|
| `interrupts` | types; `NothingLost`; `HandlerReadsItsDevice`; `InServiceMatchesHandler`; `ImplementsChannel` and `ImplementsFairChannel` (refinement); `HltWakesUnlessAllocFails` | 37,132 |
| `interrupts_hlt_fails` | `HltWakes` is violated when `lua_createtable` may fail | counterexample |
| `scheduler` | `RoundRobin`; `HaltedMeansIdle`; `NeverEarly`; `NoStarvation`; `IdleHalts` | 82,788 |
| `scheduler_contained` | `ErrorsAreContained` is violated | counterexample |
| `kernel` | `HandledInOrder`; `KeysReachShell` | 378,802 |
| `terminal` | `OnlyEmptyBackspaceFails`; `ShellRunsTypedLine` | 2,298,616 |
| `display` | `OnDisplay`; `PixelsInBuffer`; `FramesGoOn`; `ShowsTerminal` | 1,152,164 |
| `file_system` | `SequentialWritesConcatenate`; `ReadExceedsByAtMostOne`; `NothingOverwritten` | 926,326 |
| `machine` | `IdentityMap`; `LinesHaveHandlers`; `CalledAsCompiled`; `OneExternalAtATime`; `ResumesInterrupted` | 2,334 |
| `machine_timer` | `TimerRuns100Hz` is violated | counterexample |
| `memory` | types; `DataIntact`; `PoolAccounted`; `Coalesced`; `AsLargeAsAsked`; `ShrinkNeverFails`; `BootInfoRead`; `HeapInMemory` | 366,444 |
| `loader` | `ModuleFoundByName` | 7,320 |

What they show, in short:

* a scancode that found room in the queue reaches `key_pressed` at most once and
  in order, and does reach it as long as the commands typed before it return and
  no error ends `keyboard_task` or the kernel, although other tasks never give the
  CPU up by themselves (`interrupts`, `kernel`);
* a task that is due is resumed after each other task was resumed at most once,
  `wait` never returns early, and the CPU sleeps exactly when nobody is due
  (`scheduler`);
* whatever is printed while `key_pressed` is suspended, it finds the line it looks
  for; it fails in one case, Backspace on an empty line on which another task then
  prints; and the shell runs the line that was typed, provided that the line did
  not wrap and that no other output came on it (`terminal`);
* what `draw_terminal` draws meanwhile stays on the display, but for one stated
  position of the cursor (`display`);
* no write destroys what a file holds, except the stale assignment of a task that
  calls `write` itself (`file_system`);
* when interrupts are enabled everything they need is in place, and an interrupt
  without an error code gives the interrupted code its stack pointer and the words
  above it, its general registers, its flag and its instruction pointer back
  (`machine`). It says nothing of the red zone below the stack pointer and of the
  SSE registers, see section 5;
* the heap lies in the memory the boot loader described, unless its size is
  negative as an `int`, and the allocator keeps the contract Lua relies on for
  sizes below 2^31 (`memory`).

### Bounds

* Interrupts: a queue of two cells instead of eight, and four scancodes of two
  kinds, so that the queue fills, overflows, is drained and fills again.
  `MaxTicks` only stops a counter nobody reads here.
* Scheduler: one task and a second it may add; two instructions between hooks, so
  that a hook falls between any two steps of `wait`; waits of no and of one tick
  and a clock of two; C calls that call back into Lua, and failing system calls.
  Behind `MaxTicks` the timer still interrupts but the clock stands still;
  `NoStarvation` therefore speaks of tasks due by then. The theorems cover any
  number of tasks.
* Kernel: `keyboard_task` and one arbitrary task, two instructions between hooks,
  a queue of two cells, three scancodes, so that the queue overflows and fills
  again, waits of one tick and a clock that gets there, calls back from C, and
  failing system calls. `KeysReachShell` says what happens before the bounded
  clock stands still.
* Terminal: a display of 45 by 46 pixels, lines of five characters and the lowest
  height with two lines below the clearing limit. Messages of two characters and a
  buffer of three: two messages overflow the buffer, a typed line and two messages
  wrap, and few are enough to clear. Lines typed at the keyboard are up to two
  characters long, and Backspace meets empty and other lines. One letter is enough: no property compares letters with
  each other except by their place in the line.
* Display: 165 by 31 pixels of four bytes, the narrowest on which the text fits; a
  message of nineteen characters, which wraps and clears, and a buffer that holds
  just one. `U32` is 2^20, larger than the buffer as 2^32 is.
* FileSystem: one device, one file, two descriptors and the one of the task that
  calls `open` itself, empty texts and texts of two bytes, sizes up to four and
  positions from -5 to 5. A position is one more than the bytes before it, so that
  two writes of two bytes follow each other and fill the file, and every case of
  `string.sub` occurs.
* Machine: tables of five entries, four of which lead to directories, so that the
  last entry of the second level stays empty as in the source; half words of 256
  values; all 256 gates and all port writes as in the source. Stacks of up to
  four words, hence of either alignment; three levels; a vector of each kind:
  fault with and without error code, external interrupt of either controller.
* Memory: blocks of up to sixteen atoms of two bytes; pools of one, two and eleven
  atoms, of which eleven divides into blocks of three sizes; four allocations;
  requests below, at and above the limits, which are scaled down (12 for 2^30, 64
  for 2^31, 128 for 2^32): 20 is refused, 64 is negative as an `int`, and of 131
  only 3 arrives. Every stale control byte claims to be a free block of one atom, the
  most misleading value. Four tags in every order, of sizes that are and are not
  multiples of eight, and boot informations with memory that is missing, too
  small, larger than an `int`, or listed twice, in text mode, without a mode and
  without any tag.
* Loader: up to three modules with three names, one the beginning of another, and
  every outcome.

Deadlock is checked everywhere but in `file_system`, where the kernel really
stops after an error and descriptors reach their bounds.

### Fairness

* `Interrupts!Fairness`: weak fairness of handlers and of
  `get_keyboard_interrupt`, which are straight code on the only CPU with
  interrupts disabled, and of the timer, which never stops. Strong fairness of
  taking interrupts: a CPU that enables them again and again takes a pending one
  at the first instruction boundary. Nothing is assumed of the main context's
  choices. That `keyboard_task` polls again and again is the premise
  `KeepsPolling` of `ImplementsFairChannel`, because the code does not guarantee
  it: a typed command that never returns ends the polling. No module discharges
  it; `Kernel` checks its own claims from what it assumes of commands.
* `Scheduler!Fairness`: weak fairness of the CPU as a whole, never of one task or
  one branch, and of the timer. `NoStarvation` assumes that from some time on the
  hook does not find a task inside a C call that called Lua back
  (`HookMayYield`): a task that is always inside one when its count runs out and
  catches the error is not preempted.
* `Kernel!KernelFairness`: weak fairness of the CPU as a whole and of the timer,
  nothing of any task. `KeysReachShell` has the premise `CommandsReturn`: commands
  return, and the hook's exception of `NoStarvation` does not last. Its other
  escape is an error that ends `keyboard_task` or the kernel.
* `Display!DisplaySpec`: strong fairness of `display_task`, which is what
  `NoStarvation` says of every task, and weak fairness of the loop of `write`,
  which runs without a hook.

### Findings

* `interrupts_hlt_fails`: `lua_createtable` at `luakernel.c:463` runs between
  `cli` and `sti`. If it raises a memory error, the `longjmp` skips `sti`; the
  keyboard task dies and the next `hlt` never ends, where `luakernel.lua:454` says
  "Idle until the next interrupt." `HltWakesUnlessAllocFails` shows that this is
  the only way.
* `scheduler_contained`: the Lua half of a system call runs on the main state
  (`luakernel.c:150`); an error in it unwinds to `main`, past the `pcall` of
  `key_pressed` and the `coroutine.resume` of the scheduler.
* `machine_timer`: the divisor 0x04a9 makes the timer interrupt 1000 times a
  second; `init.S:183` and `luakernel.c:375` say 100 Hz.

Observed while modelling and stated in the models as the code has it: a task
that died of an error is not restarted (the restart is commented out); the error
code of an exception is not popped, so that `iretq` loses the processor, as
`init.S:260` admits; when `main` returns, the next interrupt runs into
`handle_interrupt_0`; `read` returns up to one byte more than asked for; `require`
returns `true` for a name that is not in the bundle and an error message for a
module that fails, and loads a module that returned `false` again; Backspace on an
empty line ends the keyboard task when another task prints on the line between
`#line` and `table.remove`; text that a command or task left without a newline
becomes part of the next line that is typed; `open` of a missing file returns a positive number; the test
for `O_APPEND` is never true; a frame buffer tag counts only behind the VBE tag;
a reallocation to a size that is not positive as an `int` (2^31 bytes for one)
frees the block instead of refusing, and of a size of 2^32 bytes or more only the
low bits are allocated; two tasks that call `open` themselves may both create a
path, and one entry is replaced; the
cursor of a full screen that `write` clears under `draw_terminal` may lie below
the display, where `putpixel` drops it.

## 4. The proofs

All theorems hold for every value of the constants that satisfies the named
assumptions of the modules.

`InterruptsProofs` proves type correctness, `NothingLost`,
`HandlerReadsItsDevice`, `InServiceMatchesHandler` and the refinement
`ImplementsChannel`, for every queue size and every set of scancodes.
None is inductive. The inductive invariant `IInv` adds that a handler and the code
between `cli` and `sti` exclude each other (`Exclusion`), which line is in
service at which statement (`InService`), that a byte in the 8042 is announced by
a pending or running interrupt of its device (`ByteIsAnnounced`), and that the
table being built is the first `i` cells of the queue (`CopySoFar`). The
refinement then maps `StoreScancode` to offering, `ClearQueue` to draining, and
every other step to a stutter.

`SchedulerProofs` proves type correctness, `RoundRobin`, `HaltedMeansIdle` and
the action property `NeverEarly`, for any number of tasks, any hook count and any
waits. The inductive invariant `SInv` consists of: exactly the task at `cur`
runs while the loop is in `resume` (`Structure`); what `wait` has computed at
each of its stages is no earlier than its deadline, as the clock only advances
(`Deadlines`); the tasks the pass has walked over without finding one ready are
not ready (`Idle`); and who has been overtaken by whom, given the position of the
loop (`Turns`).

The same module goes on to `Kernel` and `Loader`. The kernel is a scheduler whose
first task happens to run `keyboard_task` (`KernelImplementsScheduler`), so that
the theorems above hold of it; it uses the queue only as `ScancodeChannel` allows
(`KernelImplementsChannel`); and `HandledInOrder` holds for any queue, any
scancodes and any preemption, because the table of scancodes is empty except
inside the task's loop (`KInv`). For the loader, `ModuleFoundByName` holds for
every bundle and every set of names that are sequences: `package.loaded` has for a
name nothing, or what the loader makes of it (`LInv`).

`DisplayProofs` proves, about `Terminal`, type correctness,
`OnlyEmptyBackspaceFails` and `ShellRunsTypedLine`, for displays, messages and
buffers of any size. The inductive invariant `TInv` says that the lines fit the width and the
screen is below the clearing limit, or has a single line; that a table abandoned
while `key_pressed` stands between its two reads was at the clearing limit, hence
is at least as long as the one whose length is read; and that the index stays
inside the held table, whose lines do not get shorter. For the shell, `SInv` adds
where the characters of the command are at each statement of `key_pressed`: in
the last line of the screen, but for the one in the buffer of standard output or
on its way from there.

About `Display` it proves `OnDisplay` and `PixelsInBuffer`, for every display and
mode. The invariant `DInv` adds to `TInv` that the table being drawn fits the
screen although it may be abandoned, that the line drawn last is one of its lines,
and that its length, when read, was within the width. That no pixel leaves the
buffer needs no invariant: it follows from the test of `putpixel`, because in a
mode of four bytes a pixel the address and the length are both multiples of four
(`PixelInBuffer`).

`FileSystemProofs` proves type correctness, `SequentialWritesConcatenate`,
`ReadExceedsByAtMostOne`, and the action property `NothingOverwritten`, for any
files, texts and positions.
The lemmas on `string.sub` and `sinsert` carry the argument: at any position,
`sinsert` keeps a beginning and an end of the text that together are all of it
(`SinsertShape`). The inductive invariant `FInv` says that an entry with a single
author has at most one descriptor, which stands behind its last byte, and that a
task suspended inside its own `write` has read the present contents (`Sole`).

`HeapFacts` (lemmas), `HeapStepProofs` (one lemma per action) and `HeapProofs` prove all six properties of
`Heap` (`HeapTypeOK`, `DataIntact`, `PoolAccounted`, `Coalesced`,
`AsLargeAsAsked`, `ShrinkNeverFails`) for every pool, every sequence of requests
and any stale control bytes. `LimitsAssumption` states relations of the limits that
hold of the source's constants and puts no bound on the sizes Lua asks for: they
are any positive `size_t`. `AsLargeAsAsked` therefore speaks of the size modulo
2^32. `PowersAssumption` states what is needed of powers of two; TLC evaluates both
on the instance. The inductive invariant `HeapInv` says
that, before a block is lost to a request of 2^31 bytes or more, the blocks start
at multiples of their size and tile the pool (`Tiling`), that the lists hold free
blocks of their size once each (`ListsOK`), that Lua holds the others once each
(`HeldOK`, `AccountedOK`), that no two free halves are left (`JoinedOK`), and what
each loop has established so far (`LoopsOK`). The centre is `BuddyIsABlock`: the
control byte at the buddy of a block is that of a block, never a stale one, for
else a block around it would reach into the one in hand.

`HeapProofs` also holds the proofs about `Memory`. Its steps are steps of `Heap`
(`MemoryImplementsHeap`), so that the six properties hold of the composition.
`BootInfoRead` and `HeapInMemory` hold for boot informations of any number of tags,
in any order and of any sizes. `BootInfosAssumption` says what the boot loader
writes, and `AddressesAssumption` that the kernel lies below two gigabytes. The
inductive invariant `WalkInv` names the tag the walk has reached and says that what
was found so far is what the tags before it say; the step from one tag to the next
is `PaddedReachesNext`.

`MachineProofs` proves the five properties of `Boot` and `InterruptEntry`, for
tables of any size, any placement of the stubs, any nesting and any set of vectors.
There are two inductive invariants.

* `MInv`: which registers are in place at each step of init.S (`OrderInv`), which
  gates are written and where they lead (`GatesInv`), what the controllers hold
  after each `out` (`DevicesInv`), and the processor (`CpuInv`). The last one says
  that the stack at each point of the interrupt path is the interrupted one, the
  alignment, the frame and what has been pushed on it, and the same of every
  interrupted handler below. Only then do the pops give each register its own
  value and does `iretq` find its frame. `LinesHaveHandlers`, `CalledAsCompiled`,
  `OneExternalAtATime` and `ResumesInterrupted` follow.
* `TablesInv`: the counter of `setup_page_table` is the page that the three loop
  variables denote (`CountersInv`), and every entry of every table holds what the
  loops have stored so far (`ContentsInv`). It needs that no two tables are the
  same page, which is arithmetic on the layout of `struct PML4`. `IdentityMap`
  follows, as a page lies below four gigabytes exactly when its first index is 0
  and its second one below `NUM_PD`.

Only model-checked are the properties that are out of the prover's reach: the
liveness properties (`HltWakesUnlessAllocFails`, `NoStarvation`, `IdleHalts`,
`KeysReachShell`, `FramesGoOn`, `ShowsTerminal`) and the fair refinement
`ImplementsFairChannel`. No property needs induction over data, and none of the
proved modules defines anything by recursion.

## 5. What is not modelled

* Lua's compiler, virtual machine and garbage collector, musl, and all of SQLite
  but its allocator. They are almost all of the repository's lines, written and
  tested elsewhere. What the kernel's behaviour depends on is modelled where it is
  used: coroutines and the count hook, `luaL_ref`, `string.sub`, `table.remove`,
  `require`, the buffer of standard output, memsys5.
* System calls that change nothing (`brk`, `ioctl`, `fcntl`, `fsync`, `getpid`,
  `chown`, the clocks), calls the kernel does not know, which return -1, and
  `readv`, which is one of them.
* `lseek` on standard error or on a failed descriptor, and a task's own calls of
  `lseek` and `read`, which assign no shared state.
* A heap of a negative size (memory of two to four gigabytes behind the kernel:
  `ConfigStray`), what follows when a block is freed under Lua's hands
  (`FreeInstead`), and what follows when Lua writes behind a block that it takes
  for 2^32 bytes or more (`Ready`).
* memsys5's statistics, and its mutexes, which do nothing in one thread.
* The contents of the GDT, which are constants, and the SSE registers and the red
  zone during an interrupt. They depend on generated code: `init.S` saves no SSE
  register, the interrupt frame is pushed on the interrupted stack, and the
  Makefile has no `-mno-red-zone`, so that `ResumesInterrupted` is about code that
  uses neither.
* A task that calls the global `write(1, ...)` itself, and can then be preempted
  inside it (`Terminal` has output through the C library, as `print` and
  `io.write` do); tasks and commands that reassign the kernel's globals or call
  `key_pressed` or `get_keyboard_interrupt` themselves; a memory error inside
  `key_pressed` in `Terminal` (`Kernel` has errors anywhere).
* Colours, the shapes of glyphs, and the pixels inside a box; the demo tasks
  beyond their rectangles, as they are instances of the arbitrary tasks of
  `Scheduler`.
