------------------------------ MODULE Interrupts -------------------------------
(***************************************************************************)
(* The interrupt side of the kernel: the two 8259 interrupt controllers,   *)
(* handle_interrupt for the three lines that init.S unmasks (timer,        *)
(* keyboard, mouse), the scancode queue that the keyboard handler fills,   *)
(* and the code of the main context that meets it: get_keyboard_interrupt, *)
(* which drains the queue between cli and sti, and hlt.                    *)
(*                                                                         *)
(* One CPU runs either the main context or one handler.  Every gate of the *)
(* IDT is an interrupt gate (flags 0x8E), so a handler runs with           *)
(* interrupts disabled and is not nested; devices raise their lines        *)
(* between any two steps of either.                                        *)
(***************************************************************************)
EXTENDS Naturals, Sequences

CONSTANTS
  Scancodes,    \* the bytes the keyboard sends
  QueueSize,    \* arraylen(keyboard_scancode_queue), 8 in the source
  MaxBytes,     \* bound: bytes the keyboard sends in a behaviour
  MaxTicks,     \* bound: timer_ticks stops counting here
  AllocFails    \* may the Lua allocator refuse the table?

ASSUME ScancodesAssumption == Scancodes \subseteq Nat
ASSUME QueueSizeAssumption == QueueSize \in Nat \ {0}
ASSUME BoundsAssumption == MaxBytes \in Nat /\ MaxTicks \in Nat
ASSUME AllocFailsAssumption == AllocFails \in BOOLEAN

VARIABLES
  obuf,         \* output buffer of the 8042 controller, read at port 0x60
  irr,          \* interrupt lines requested at the two 8259s
  isr1, isr2,   \* lines in service at PIC1 and at PIC2
  intr_enabled, \* RFLAGS.IF
  vector,       \* the n of the running handle_interrupt(n), NoVector outside
  hpc,          \* the next statement of handle_interrupt
  scancode,     \* its local variable
  timer_ticks,
  keyboard_scancode_queue,
  keyboard_scancode_queue_len,
  mainpc,       \* the next statement of the main context
  i,            \* the loop variable of lua_get_keyboard_interrupt
  table,        \* the Lua table it builds
  kbd_alive,    \* has keyboard_task not been killed by an error?
  sent,         \* bytes the keyboard has sent
  offered,      \* history: scancodes the handler has dealt with
  stored,       \* history: scancodes the handler put into the queue
  delivered     \* history: scancodes Lua received

device_vars == <<obuf, irr, sent>>
pic_vars == <<isr1, isr2>>
handler_vars == <<vector, hpc, scancode>>
queue_vars == <<keyboard_scancode_queue, keyboard_scancode_queue_len, offered, stored>>
main_vars == <<mainpc, i, table, kbd_alive, delivered>>
vars == <<device_vars, pic_vars, intr_enabled, handler_vars, timer_ticks,
          queue_vars, main_vars>>

NoVector == 0
NoByte == [src |-> "none", byte |-> 0]

(* Interrupt lines; the mouse line of PIC2 reaches PIC1 through line 2.    *)
TIMER == 0
KEYBOARD == 1
CASCADE == 2
MOUSE == 12
Lines == {TIMER, KEYBOARD, MOUSE}

(* ICW 2: PIC1 delivers at 0x20 + line, PIC2 at 0x28 + (line - 8).         *)
Vector(line) == IF line < 8 THEN 32 + line ELSE 40 + (line - 8)
MasterLine(line) == IF line < 8 THEN line ELSE CASCADE

(* The queue of the source as a sequence: its first n cells.               *)
Content(queue, n) == [k \in 1 .. n |-> queue[k - 1]]
Queued == Content(keyboard_scancode_queue, keyboard_scancode_queue_len)

Init ==
  /\ obuf = NoByte /\ irr = {} /\ sent = 0
  /\ isr1 = {} /\ isr2 = {}
  /\ intr_enabled = TRUE
  /\ vector = NoVector /\ hpc = "none" /\ scancode = 0
  /\ timer_ticks = 0
  /\ keyboard_scancode_queue = [k \in 0 .. QueueSize - 1 |-> 0]
  /\ keyboard_scancode_queue_len = 0
  /\ offered = 0 /\ stored = <<>>
  /\ mainpc = "lua" /\ i = 0 /\ table = <<>> /\ kbd_alive = TRUE
  /\ delivered = <<>>

--------------------------------------------------------------------------------
(* Devices.  The 8042 holds one byte at a time for its two devices, and    *)
(* loads the next one when port 0x60 has been read.  Lines are edge        *)
(* triggered: an edge on a line that is already requested is lost.         *)

TimerEdge ==
  /\ irr' = irr \cup {TIMER}
  /\ UNCHANGED <<obuf, sent, pic_vars, intr_enabled, handler_vars, timer_ticks,
                 queue_vars, main_vars>>

LoadByte(src, byte, line) ==
  /\ obuf = NoByte
  /\ obuf' = [src |-> src, byte |-> byte]
  /\ irr' = irr \cup {line}
  /\ UNCHANGED <<pic_vars, intr_enabled, handler_vars, timer_ticks, queue_vars,
                 main_vars>>

KeyboardByte(c) ==
  /\ sent < MaxBytes
  /\ sent' = sent + 1
  /\ LoadByte("keyboard", c, KEYBOARD)

MouseByte == LoadByte("mouse", 0, MOUSE) /\ UNCHANGED sent

--------------------------------------------------------------------------------
(* The CPU takes the interrupt of highest priority that no line in service *)
(* masks; a halted CPU continues behind its hlt when the handler returns.  *)

Deliverable(line) ==
  /\ line \in irr
  /\ \A s \in isr1 : MasterLine(line) < s
  /\ line = MOUSE => isr2 = {}

TakeInterrupt(line) ==
  /\ intr_enabled
  /\ vector = NoVector
  /\ Deliverable(line)
  /\ \A other \in Lines : Deliverable(other) => MasterLine(line) <= MasterLine(other)
  /\ irr' = irr \ {line}
  /\ isr1' = isr1 \cup {MasterLine(line)}
  /\ isr2' = IF line = MOUSE THEN {MOUSE} ELSE isr2
  /\ intr_enabled' = FALSE
  /\ vector' = Vector(line)
  /\ hpc' = "dispatch"
  /\ mainpc' = IF mainpc = "halted" THEN "lua" ELSE mainpc
  /\ UNCHANGED <<obuf, sent, scancode, timer_ticks, queue_vars, i, table, kbd_alive,
                 delivered>>

--------------------------------------------------------------------------------
(* handle_interrupt(n), one statement per step.                            *)

CountTick ==
  /\ vector = 32 /\ hpc = "dispatch"
  /\ timer_ticks' = IF timer_ticks < MaxTicks THEN timer_ticks + 1 ELSE timer_ticks
  /\ hpc' = "eoi1"
  /\ UNCHANGED <<device_vars, pic_vars, intr_enabled, vector, scancode, queue_vars,
                 main_vars>>

(* inb(0x60) frees the controller's buffer for the next byte.              *)
ReadScancode ==
  /\ vector = 33 /\ hpc = "dispatch"
  /\ scancode' = obuf.byte
  /\ obuf' = NoByte
  /\ hpc' = "store"
  /\ UNCHANGED <<irr, sent, pic_vars, intr_enabled, vector, timer_ticks, queue_vars,
                 main_vars>>

(* The test against arraylen(keyboard_scancode_queue).  Mutants: one       *)
(* scancode too many; the last cell of the queue is never used.            *)
RoomPastEnd(n) == n <= QueueSize
RoomButLast(n) == n < QueueSize - 1
HasRoom(n) == n < QueueSize

StoreScancode ==
  /\ vector = 33 /\ hpc = "store"
  /\ IF HasRoom(keyboard_scancode_queue_len)
       THEN /\ keyboard_scancode_queue' =
                 [keyboard_scancode_queue EXCEPT ![keyboard_scancode_queue_len] = scancode]
            /\ keyboard_scancode_queue_len' = keyboard_scancode_queue_len + 1
            /\ stored' = Append(stored, scancode)
       ELSE UNCHANGED <<keyboard_scancode_queue, keyboard_scancode_queue_len, stored>>
  /\ offered' = offered + 1
  /\ hpc' = "eoi1"
  /\ UNCHANGED <<device_vars, pic_vars, intr_enabled, vector, scancode, timer_ticks,
                 main_vars>>

(* What follows the inb of the mouse handler.  Mutant: it may read on, for *)
(* the rest of the mouse packet.                                           *)
ReadsPacket == {"dispatch", "eoi2"}
ReadsOneByte == {"eoi2"}

ReadMouse ==
  /\ vector = 44 /\ hpc = "dispatch"
  /\ obuf' = NoByte
  /\ hpc' \in ReadsOneByte
  /\ UNCHANGED <<irr, sent, pic_vars, intr_enabled, vector, scancode, timer_ticks,
                 queue_vars, main_vars>>

(* outb(0xa0, 0x20) and outb(0x20, 0x20): a non-specific end of interrupt  *)
(* takes the line of highest priority out of service.  Mutant: it is not   *)
(* sent.                                                                   *)
NotSent(inservice) == inservice
NonSpecificEOI(inservice) == {s \in inservice : \E higher \in inservice : higher < s}

EndOfInterrupt2 ==
  /\ hpc = "eoi2"
  /\ isr2' = NonSpecificEOI(isr2)
  /\ hpc' = "eoi1"
  /\ UNCHANGED <<device_vars, isr1, intr_enabled, vector, scancode, timer_ticks,
                 queue_vars, main_vars>>

EndOfInterrupt1 ==
  /\ hpc = "eoi1"
  /\ isr1' = NonSpecificEOI(isr1)
  /\ hpc' = "iretq"
  /\ UNCHANGED <<device_vars, isr2, intr_enabled, vector, scancode, timer_ticks,
                 queue_vars, main_vars>>

(* iretq restores the RFLAGS of the interrupted code, in which IF was set. *)
(* Mutant: a plain ret, which leaves interrupts disabled.                  *)
FlagAfterRet == intr_enabled
FlagAfterIretq == TRUE

Iretq ==
  /\ hpc = "iretq"
  /\ vector' = NoVector
  /\ hpc' = "none"
  /\ scancode' = 0
  /\ intr_enabled' = FlagAfterIretq
  /\ UNCHANGED <<device_vars, pic_vars, timer_ticks, queue_vars, main_vars>>

--------------------------------------------------------------------------------
(* The main context: Lua code of some task or of the scheduler ("lua"),    *)
(* which may call get_keyboard_interrupt, as keyboard_task does, or hlt.   *)

MainUnchanged == UNCHANGED <<device_vars, pic_vars, handler_vars, timer_ticks>>

(* Mutant: the cli is forgotten.                                           *)
FlagWithoutCli == intr_enabled
FlagAfterCli == FALSE

Cli ==
  /\ vector = NoVector /\ mainpc = "lua" /\ kbd_alive
  /\ intr_enabled' = FlagAfterCli
  /\ mainpc' = "createtable"
  /\ UNCHANGED <<queue_vars, i, table, kbd_alive, delivered>> /\ MainUnchanged

CreateTable ==
  /\ vector = NoVector /\ mainpc = "createtable"
  /\ mainpc' = "copy"
  /\ table' = <<>> /\ i' = 0
  /\ UNCHANGED <<intr_enabled, queue_vars, kbd_alive, delivered>> /\ MainUnchanged

(* lua_createtable allocates the whole array part, so it is the only call  *)
(* of the loop that can fail; its error leaves the function by longjmp     *)
(* and, as nothing in keyboard_task catches it, kills the task.            *)
CreateTableFails ==
  /\ AllocFails
  /\ vector = NoVector /\ mainpc = "createtable"
  /\ mainpc' = "lua"
  /\ kbd_alive' = FALSE
  /\ UNCHANGED <<intr_enabled, queue_vars, i, table, delivered>> /\ MainUnchanged

CopyScancode ==
  /\ vector = NoVector /\ mainpc = "copy"
  /\ i < keyboard_scancode_queue_len
  /\ table' = Append(table, keyboard_scancode_queue[i])
  /\ i' = i + 1
  /\ UNCHANGED <<intr_enabled, queue_vars, mainpc, kbd_alive, delivered>>
  /\ MainUnchanged

LeaveLoop ==
  /\ vector = NoVector /\ mainpc = "copy"
  /\ i >= keyboard_scancode_queue_len
  /\ mainpc' = "clear"
  /\ UNCHANGED <<intr_enabled, queue_vars, i, table, kbd_alive, delivered>>
  /\ MainUnchanged

ClearQueue ==
  /\ vector = NoVector /\ mainpc = "clear"
  /\ keyboard_scancode_queue_len' = 0
  /\ mainpc' = "sti"
  /\ UNCHANGED <<intr_enabled, keyboard_scancode_queue, offered, stored, i, table,
                 kbd_alive, delivered>>
  /\ MainUnchanged

(* Mutant: the sti is forgotten.                                           *)
FlagWithoutSti == intr_enabled
FlagAfterSti == TRUE

Sti ==
  /\ vector = NoVector /\ mainpc = "sti"
  /\ intr_enabled' = FlagAfterSti
  /\ delivered' = delivered \o table
  /\ mainpc' = "lua"
  /\ table' = <<>> /\ i' = 0
  /\ UNCHANGED <<queue_vars, kbd_alive>> /\ MainUnchanged

Hlt ==
  /\ vector = NoVector /\ mainpc = "lua"
  /\ mainpc' = "halted"
  /\ UNCHANGED <<intr_enabled, queue_vars, i, table, kbd_alive, delivered>>
  /\ MainUnchanged

--------------------------------------------------------------------------------
Device == TimerEdge \/ MouseByte \/ \E c \in Scancodes : KeyboardByte(c)

HandlerStep ==
  \/ CountTick
  \/ ReadScancode
  \/ StoreScancode
  \/ ReadMouse
  \/ EndOfInterrupt2
  \/ EndOfInterrupt1
  \/ Iretq

GetKeyboardInterrupt ==
  \/ CreateTable
  \/ CreateTableFails
  \/ CopyScancode
  \/ LeaveLoop
  \/ ClearQueue
  \/ Sti

Next ==
  \/ Device
  \/ \E line \in Lines : TakeInterrupt(line)
  \/ HandlerStep
  \/ Cli
  \/ GetKeyboardInterrupt
  \/ Hlt

(* Handlers and get_keyboard_interrupt run to their end: they are straight *)
(* code on the only CPU, and interrupts are off inside them.  The PIT      *)
(* never stops.  A request is not ignored for ever by a CPU that takes     *)
(* interrupts again and again.  Nothing is assumed of the polling: that is *)
(* up to keyboard_task, which also runs the commands that are typed.       *)
Fairness ==
  /\ WF_vars(HandlerStep)
  /\ WF_vars(GetKeyboardInterrupt)
  /\ WF_vars(TimerEdge)
  /\ SF_vars(\E line \in Lines : TakeInterrupt(line))

Safety == Init /\ [][Next]_vars
Spec == Safety /\ Fairness

--------------------------------------------------------------------------------
(* Type invariant; in particular, the handler writes only to cells of the  *)
(* queue.                                                                  *)
TypeOK ==
  /\ obuf \in {NoByte} \cup [src : {"keyboard"}, byte : Scancodes]
                       \cup [src : {"mouse"}, byte : {0}]
  /\ irr \subseteq Lines
  /\ isr1 \subseteq {TIMER, KEYBOARD, CASCADE} /\ isr2 \subseteq {MOUSE}
  /\ intr_enabled \in BOOLEAN
  /\ vector \in {NoVector, 32, 33, 44}
  /\ hpc \in {"none", "dispatch", "store", "eoi2", "eoi1", "iretq"}
  /\ scancode \in Scancodes \cup {0}
  /\ timer_ticks \in 0 .. MaxTicks
  /\ keyboard_scancode_queue \in [0 .. QueueSize - 1 -> Scancodes \cup {0}]
  /\ keyboard_scancode_queue_len \in 0 .. QueueSize
  /\ mainpc \in {"lua", "createtable", "copy", "clear", "sti", "halted"}
  /\ i \in 0 .. QueueSize
  /\ table \in Seq(Scancodes \cup {0})
  /\ kbd_alive \in BOOLEAN
  /\ sent \in 0 .. MaxBytes
  /\ offered \in Nat
  /\ stored \in Seq(Scancodes \cup {0})
  /\ delivered \in Seq(Scancodes \cup {0})

(* Scancodes that left the queue and are on their way to Lua.              *)
InFlight == IF mainpc = "sti" THEN table ELSE <<>>

(* No scancode that the handler accepted is lost, duplicated or reordered, *)
(* whatever interrupts hit get_keyboard_interrupt: what was stored is what *)
(* Lua received, then what is in flight, then what is queued.              *)
NothingLost == stored = delivered \o InFlight \o Queued

(* The keyboard handler reads a keyboard byte and the mouse handler a      *)
(* mouse byte from the buffer the two devices share at port 0x60.          *)
HandlerReadsItsDevice ==
  /\ vector = 33 /\ hpc = "dispatch" => obuf.src = "keyboard"
  /\ vector = 44 /\ hpc = "dispatch" => obuf.src = "mouse"

(* Outside handlers no line is in service, so none stays masked for ever;  *)
(* inside, exactly the line of the running handler is, until its EOI.      *)
InServiceMatchesHandler ==
  /\ hpc \in {"none", "iretq"} => isr1 = {} /\ isr2 = {}
  /\ hpc \in {"dispatch", "store", "eoi2", "eoi1"} =>
       \E line \in Lines : vector = Vector(line) /\ isr1 = {MasterLine(line)}

Channel == INSTANCE ScancodeChannel
  WITH Capacity <- QueueSize, chan <- Queued, received <- delivered \o InFlight

(* The keyboard path implements a bounded channel (safety).                *)
ImplementsChannel == Channel!Safety

(* keyboard_task lives and does not stop calling get_keyboard_interrupt    *)
(* while Lua code runs again and again.  It runs the typed commands        *)
(* itself, so a command that never returns ends the polling.               *)
KeepsPolling == []kbd_alive /\ SF_vars(Cli)

(* As long as keyboard_task polls, the channel is drained again and again: *)
(* every hlt in between ends, every handler returns, and every call of     *)
(* get_keyboard_interrupt gets from cli to sti.                            *)
ImplementsFairChannel == KeepsPolling => Channel!Fairness

(* hlt idles until the next interrupt: the CPU does not stay halted.       *)
HltWakes == mainpc = "halted" ~> mainpc # "halted"

(* The same as long as the table of get_keyboard_interrupt can be          *)
(* allocated: no other path leaves interrupts disabled behind it.          *)
HltWakesUnlessAllocFails == []kbd_alive => HltWakes
================================================================================
