--------------------------- MODULE InterruptsProofs ----------------------------
(***************************************************************************)
(* Proofs about module Interrupts, for every set of scancodes, every size  *)
(* of the queue and every bound: its invariants, and that the keyboard     *)
(* path implements the bounded channel of module ScancodeChannel.          *)
(***************************************************************************)
EXTENDS Interrupts, TLAPS

--------------------------------------------------------------------------------
(* The inductive invariant behind the four invariants of the module.       *)

(* Interrupts are disabled in a handler and in get_keyboard_interrupt, and *)
(* a handler never interrupts the latter.                                  *)
Exclusion ==
  /\ vector = NoVector <=> hpc = "none"
  /\ vector = 32 => hpc \in {"dispatch", "eoi1", "iretq"}
  /\ vector = 33 => hpc \in {"dispatch", "store", "eoi1", "iretq"}
  /\ vector = 44 => hpc \in {"dispatch", "eoi2", "eoi1", "iretq"}
  /\ vector # NoVector => ~ intr_enabled /\ mainpc = "lua"
  /\ mainpc \in {"createtable", "copy", "clear", "sti"} => ~ intr_enabled

(* The lines in service, as a function of where the handler is.            *)
InService ==
  /\ isr1 = IF hpc \in {"none", "iretq"} THEN {}
            ELSE {MasterLine(line) : line \in {l \in Lines : vector = Vector(l)}}
  /\ isr2 = IF vector = 44 /\ hpc \in {"dispatch", "eoi2"} THEN {MOUSE} ELSE {}

(* A byte sits in the 8042 exactly while its interrupt is outstanding.     *)
ByteIsAnnounced ==
  /\ obuf.src = "keyboard" <=> KEYBOARD \in irr \/ (vector = 33 /\ hpc = "dispatch")
  /\ obuf.src = "mouse" <=> MOUSE \in irr \/ (vector = 44 /\ hpc = "dispatch")
  /\ ~ (KEYBOARD \in irr /\ vector = 33 /\ hpc = "dispatch")
  /\ ~ (MOUSE \in irr /\ vector = 44 /\ hpc = "dispatch")
  /\ hpc = "store" => scancode \in Scancodes

(* The table is the part of the queue that was copied.                     *)
CopySoFar ==
  /\ mainpc = "copy" => i <= keyboard_scancode_queue_len
                        /\ table = Content(keyboard_scancode_queue, i)
  /\ mainpc = "clear" => table = Queued
  /\ mainpc = "sti" => keyboard_scancode_queue_len = 0

IInv == TypeOK /\ Exclusion /\ InService /\ ByteIsAnnounced /\ CopySoFar /\ NothingLost

--------------------------------------------------------------------------------
(* Facts about the queue seen as a sequence.                               *)

(* The first n cells of the queue form a sequence of length n.             *)
LEMMA ContentType ==
  ASSUME NEW S, NEW queue \in [0 .. QueueSize - 1 -> S], NEW n \in 0 .. QueueSize
  PROVE  /\ Content(queue, n) \in Seq(S)
         /\ Len(Content(queue, n)) = n
         /\ \A k \in 1 .. n : Content(queue, n)[k] = queue[k - 1]
BY QueueSizeAssumption DEF Content

(* An empty queue is the empty sequence.                                   *)
LEMMA ContentEmpty == ASSUME NEW queue PROVE Content(queue, 0) = <<>>
BY DEF Content

(* The copy loop's step: one more cell is one more element at the end.     *)
LEMMA ContentAppend ==
  ASSUME NEW S, NEW queue \in [0 .. QueueSize - 1 -> S], NEW n \in 0 .. QueueSize - 1
  PROVE  Content(queue, n + 1) = Append(Content(queue, n), queue[n])
BY QueueSizeAssumption DEF Content

(* The empty sequence is neutral.                                          *)
LEMMA ConcatEmpty ==
  ASSUME NEW S, NEW s \in Seq(S)
  PROVE  s \o <<>> = s /\ <<>> \o s = s
OBVIOUS

--------------------------------------------------------------------------------
(* The steps of the system, one lemma per part of the invariant.           *)

(* Every variable keeps its type.                                          *)
LEMMA TypeStep == TypeOK /\ Exclusion /\ ByteIsAnnounced /\ [Next]_vars => TypeOK'
<1> SUFFICES ASSUME TypeOK, Exclusion, ByteIsAnnounced, [Next]_vars PROVE TypeOK'
  BY Zenon
<1> USE QueueSizeAssumption, BoundsAssumption, AllocFailsAssumption
<1>1. CASE Device
  <2>1. CASE TimerEdge
    BY <1>1, <2>1 DEF TimerEdge, TypeOK, Lines, TIMER, pic_vars, handler_vars, queue_vars,
                      main_vars
  <2>2. CASE MouseByte
    BY <1>1, <2>2 DEF MouseByte, LoadByte, TypeOK, Lines, pic_vars, handler_vars, queue_vars,
                      main_vars
  <2>3. ASSUME NEW c \in Scancodes, KeyboardByte(c) PROVE TypeOK'
    BY <1>1, <2>3 DEF KeyboardByte, LoadByte, TypeOK, Lines, pic_vars, handler_vars,
                      queue_vars, main_vars
  <2> QED
    BY Zenon, <1>1, <2>1, <2>2, <2>3 DEF Device
<1>2. ASSUME NEW line \in Lines, TakeInterrupt(line) PROVE TypeOK'
  <2>1. /\ irr' \subseteq Lines /\ isr2' \subseteq {MOUSE}
        /\ isr1' \subseteq {TIMER, KEYBOARD, CASCADE}
        /\ vector' \in {NoVector, 32, 33, 44}
    BY <1>2 DEF TakeInterrupt, TypeOK, Lines, TIMER, KEYBOARD, MOUSE, CASCADE, Vector,
                MasterLine
  <2> QED
    BY Zenon, <1>2, <2>1 DEF TakeInterrupt, TypeOK, queue_vars
<1>3. CASE CountTick
  BY <1>3 DEF CountTick, TypeOK, device_vars, pic_vars, queue_vars, main_vars
<1>4. CASE ReadScancode
  BY <1>4 DEF ReadScancode, TypeOK, Exclusion, NoByte, pic_vars, queue_vars, main_vars
<1>5. CASE StoreScancode
  <2>1. /\ keyboard_scancode_queue' \in [0 .. QueueSize - 1 -> Scancodes \cup {0}]
        /\ keyboard_scancode_queue_len' \in 0 .. QueueSize
        /\ stored' \in Seq(Scancodes \cup {0})
    <3>1. CASE keyboard_scancode_queue_len < QueueSize
      <4> DEFINE len == keyboard_scancode_queue_len
      <4>1. /\ keyboard_scancode_queue' = [keyboard_scancode_queue EXCEPT ![len] = scancode]
            /\ keyboard_scancode_queue_len' = len + 1
            /\ stored' = Append(stored, scancode)
        BY Zenon, <1>5, <3>1 DEF StoreScancode, HasRoom
      <4>2. /\ keyboard_scancode_queue \in [0 .. QueueSize - 1 -> Scancodes \cup {0}]
            /\ len \in 0 .. QueueSize
            /\ stored \in Seq(Scancodes \cup {0}) /\ scancode \in Scancodes \cup {0}
        BY Zenon DEF TypeOK
      <4> QED
        BY <3>1, <4>1, <4>2
    <3>2. CASE ~ (keyboard_scancode_queue_len < QueueSize)
      BY <1>5, <3>2 DEF StoreScancode, TypeOK, HasRoom
    <3> QED
      BY Zenon, <3>1, <3>2
  <2>2. /\ offered' \in Nat /\ hpc' = "eoi1"
        /\ UNCHANGED <<device_vars, pic_vars, intr_enabled, vector, scancode, timer_ticks,
                       main_vars>>
    BY <1>5 DEF StoreScancode, TypeOK, HasRoom
  <2> QED
    BY <2>1, <2>2 DEF TypeOK, device_vars, pic_vars, main_vars
<1>6. CASE ReadMouse
  BY <1>6 DEF ReadMouse, TypeOK, pic_vars, queue_vars, main_vars, ReadsOneByte
<1>7. CASE EndOfInterrupt2
  BY <1>7 DEF EndOfInterrupt2, TypeOK, device_vars, queue_vars, main_vars, NonSpecificEOI
<1>8. CASE EndOfInterrupt1
  BY <1>8 DEF EndOfInterrupt1, TypeOK, device_vars, queue_vars, main_vars, NonSpecificEOI
<1>9. CASE Iretq
  BY Zenon, <1>9 DEF Iretq, TypeOK, NoVector, device_vars, pic_vars, queue_vars, main_vars,
    FlagAfterIretq
<1> USE DEF MainUnchanged, device_vars, pic_vars, handler_vars, queue_vars
<1>10. CASE Cli
  BY Zenon, <1>10 DEF Cli, TypeOK, FlagAfterCli
<1>11. CASE Hlt
  BY <1>11 DEF Hlt, TypeOK
<1>12. CASE CreateTable
  BY <1>12 DEF CreateTable, TypeOK
<1>13. CASE CreateTableFails
  BY Zenon, <1>13 DEF CreateTableFails, TypeOK
<1>14. CASE CopyScancode
  BY <1>14 DEF CopyScancode, TypeOK
<1>15. CASE LeaveLoop
  BY <1>15 DEF LeaveLoop, TypeOK
<1>16. CASE ClearQueue
  BY <1>16 DEF ClearQueue, TypeOK
<1>17. CASE Sti
  BY <1>17 DEF Sti, TypeOK, FlagAfterSti
<1>18. CASE UNCHANGED vars
  BY <1>18 DEF vars, TypeOK, main_vars
<1> QED
  BY Zenon, <1>1, <1>2, <1>3, <1>4, <1>5, <1>6, <1>7, <1>8, <1>9, <1>10, <1>11, <1>12, <1>13, <1>14,
    <1>15, <1>16, <1>17, <1>18 DEF Next, HandlerStep, GetKeyboardInterrupt

(* Handlers and get_keyboard_interrupt exclude each other.                 *)
LEMMA ExclusionStep == TypeOK /\ Exclusion /\ [Next]_vars => Exclusion'
<1> SUFFICES ASSUME TypeOK, Exclusion, [Next]_vars PROVE Exclusion'
  BY Zenon
<1> USE DEF Exclusion, NoVector
<1>1. CASE Device
  BY <1>1 DEF Device, TimerEdge, MouseByte, KeyboardByte, LoadByte, handler_vars, main_vars
<1>2. ASSUME NEW line \in Lines, TakeInterrupt(line) PROVE Exclusion'
  BY <1>2 DEF TakeInterrupt, TypeOK, Lines, TIMER, KEYBOARD, MOUSE, Vector
<1>3. CASE HandlerStep
  BY <1>3 DEF HandlerStep, CountTick, ReadScancode, StoreScancode, ReadMouse,
              EndOfInterrupt2, EndOfInterrupt1, Iretq, TypeOK, main_vars, HasRoom,
              ReadsOneByte, NonSpecificEOI, FlagAfterIretq
<1>4. CASE Cli \/ Hlt
  BY Zenon, <1>4 DEF Cli, Hlt, MainUnchanged, handler_vars, FlagAfterCli
<1>5. CASE GetKeyboardInterrupt
  BY <1>5 DEF GetKeyboardInterrupt, CreateTable, CreateTableFails, CopyScancode, LeaveLoop,
              ClearQueue, Sti, MainUnchanged, handler_vars, FlagAfterSti
<1>6. CASE UNCHANGED vars
  BY Zenon, <1>6 DEF vars, handler_vars, main_vars
<1> QED
  BY Zenon, <1>1, <1>2, <1>3, <1>4, <1>5, <1>6 DEF Next

(* The lines in service follow the handler.                                *)
LEMMA InServiceStep == TypeOK /\ Exclusion /\ InService /\ [Next]_vars => InService'
<1> SUFFICES ASSUME TypeOK, Exclusion, InService, [Next]_vars PROVE InService'
  BY Zenon
<1>1. CASE Device
  BY Zenon, <1>1 DEF Device, TimerEdge, MouseByte, KeyboardByte, LoadByte, handler_vars, pic_vars,
    InService
<1>2. ASSUME NEW line \in Lines, TakeInterrupt(line) PROVE InService'
  BY <1>2 DEF TakeInterrupt, InService, Exclusion, Lines, TIMER, KEYBOARD, MOUSE, CASCADE,
              Vector, MasterLine, NoVector
<1>3. CASE CountTick \/ ReadScancode \/ StoreScancode \/ ReadMouse
  BY <1>3 DEF CountTick, ReadScancode, StoreScancode, ReadMouse, InService, pic_vars,
              HasRoom, ReadsOneByte
<1>4. CASE EndOfInterrupt2
  <2>1. isr2 = {MOUSE} \/ isr2 = {}
    BY Zenon DEF InService
  <2>2. isr2' = {}
    BY <1>4, <2>1 DEF EndOfInterrupt2, NonSpecificEOI, MOUSE
  <2> QED
    BY Zenon, <1>4, <2>2 DEF EndOfInterrupt2, InService
<1>5. CASE EndOfInterrupt1
  <2>1. vector \in {32, 33, 44} /\ hpc = "eoi1"
    BY Zenon, <1>5 DEF EndOfInterrupt1, TypeOK, Exclusion, NonSpecificEOI
  <2>2. isr1 = {0} \/ isr1 = {1} \/ isr1 = {2}
    BY <2>1 DEF InService, Lines, TIMER, KEYBOARD, MOUSE, CASCADE, Vector, MasterLine
  <2>3. isr1' = {}
    BY <1>5, <2>2 DEF EndOfInterrupt1, NonSpecificEOI
  <2> QED
    BY Zenon, <1>5, <2>1, <2>3 DEF EndOfInterrupt1, InService, NonSpecificEOI
<1>6. CASE Iretq
  BY Zenon, <1>6 DEF Iretq, InService, pic_vars, FlagAfterIretq
<1>7. CASE Cli \/ Hlt \/ GetKeyboardInterrupt
  BY Zenon, <1>7 DEF Cli, Hlt, GetKeyboardInterrupt, CreateTable, CreateTableFails, CopyScancode,
    LeaveLoop, ClearQueue, Sti, MainUnchanged, handler_vars, pic_vars, InService, FlagAfterCli,
    FlagAfterSti
<1>8. CASE UNCHANGED vars
  BY Zenon, <1>8 DEF vars, handler_vars, pic_vars, InService
<1> QED
  BY Zenon, <1>1, <1>2, <1>3, <1>4, <1>5, <1>6, <1>7, <1>8 DEF Next, HandlerStep

(* Bytes in the 8042 and outstanding interrupts belong together.           *)
LEMMA ByteStep == TypeOK /\ Exclusion /\ ByteIsAnnounced /\ [Next]_vars => ByteIsAnnounced'
<1> SUFFICES ASSUME TypeOK, Exclusion, ByteIsAnnounced, [Next]_vars PROVE ByteIsAnnounced'
  BY Zenon
<1>1. CASE Device
  BY <1>1 DEF Device, TimerEdge, MouseByte, KeyboardByte, LoadByte, handler_vars, NoByte,
              TIMER, KEYBOARD, MOUSE, ByteIsAnnounced
<1>2. ASSUME NEW line \in Lines, TakeInterrupt(line) PROVE ByteIsAnnounced'
  BY <1>2 DEF TakeInterrupt, Deliverable, ByteIsAnnounced, Exclusion, Lines, TIMER, KEYBOARD,
              MOUSE, Vector, NoVector
<1>3. CASE CountTick
  BY <1>3 DEF CountTick, ByteIsAnnounced, device_vars
<1>4. CASE ReadScancode
  BY <1>4 DEF ReadScancode, ByteIsAnnounced, TypeOK, NoByte, Lines, KEYBOARD, MOUSE
<1>5. CASE StoreScancode
  BY Zenon, <1>5 DEF StoreScancode, ByteIsAnnounced, device_vars, HasRoom
<1>6. CASE ReadMouse
  BY Zenon, <1>6 DEF ReadMouse, ByteIsAnnounced, TypeOK, NoByte, Lines, KEYBOARD, MOUSE,
    ReadsOneByte
<1>7. CASE EndOfInterrupt2 \/ EndOfInterrupt1 \/ Iretq
  BY Zenon, <1>7 DEF EndOfInterrupt2, EndOfInterrupt1, Iretq, ByteIsAnnounced, device_vars,
    NoVector, NonSpecificEOI, FlagAfterIretq
<1>8. CASE Cli \/ Hlt \/ GetKeyboardInterrupt
  BY <1>8 DEF Cli, Hlt, GetKeyboardInterrupt, CreateTable, CreateTableFails, CopyScancode,
              LeaveLoop, ClearQueue, Sti, MainUnchanged, handler_vars, device_vars,
              ByteIsAnnounced, FlagAfterCli, FlagAfterSti
<1>9. CASE UNCHANGED vars
  BY Zenon, <1>9 DEF vars, handler_vars, device_vars, ByteIsAnnounced
<1> QED
  BY Zenon, <1>1, <1>2, <1>3, <1>4, <1>5, <1>6, <1>7, <1>8, <1>9 DEF Next, HandlerStep

(* No accepted scancode is lost and the table follows the queue.           *)
LEMMA QueueStep ==
  TypeOK /\ Exclusion /\ CopySoFar /\ NothingLost /\ [Next]_vars => CopySoFar' /\ NothingLost'
<1> SUFFICES ASSUME TypeOK, Exclusion, CopySoFar, NothingLost, [Next]_vars
             PROVE  CopySoFar' /\ NothingLost'
  BY Zenon
<1> DEFINE S == Scancodes \cup {0}
<1> USE QueueSizeAssumption
<1>1. /\ keyboard_scancode_queue \in [0 .. QueueSize - 1 -> S]
      /\ keyboard_scancode_queue_len \in 0 .. QueueSize
      /\ i \in 0 .. QueueSize
      /\ table \in Seq(S) /\ delivered \in Seq(S) /\ scancode \in S
  BY Zenon DEF TypeOK
<1> HIDE DEF S
<1>2. Queued \in Seq(S)
  BY Zenon, <1>1, ContentType DEF Queued
<1>3. ASSUME UNCHANGED <<queue_vars, main_vars>> PROVE CopySoFar' /\ NothingLost'
  BY Zenon, <1>3 DEF CopySoFar, NothingLost, Queued, InFlight, Content, queue_vars, main_vars
<1>4. CASE Device
  BY Zenon, <1>3, <1>4 DEF Device, TimerEdge, MouseByte, KeyboardByte, LoadByte
<1>5. ASSUME NEW line \in Lines, TakeInterrupt(line) PROVE CopySoFar' /\ NothingLost'
  <2>1. mainpc \in {"lua", "halted"} /\ mainpc' = "lua"
    BY Zenon, <1>5 DEF TakeInterrupt, Exclusion, TypeOK
  <2> QED
    BY Zenon, <1>5, <2>1 DEF TakeInterrupt, CopySoFar, NothingLost, Queued, InFlight, queue_vars
<1>6. CASE StoreScancode
  <2>1. mainpc = "lua" /\ mainpc' = "lua"
    BY Zenon, <1>6 DEF StoreScancode, Exclusion, NoVector, main_vars, HasRoom
  <2>2. CASE keyboard_scancode_queue_len < QueueSize
    <3>1. Queued' = Append(Queued, scancode)
      <4>1. keyboard_scancode_queue_len \in 0 .. QueueSize - 1
        BY <1>1, <2>2
      <4>2. /\ keyboard_scancode_queue' =
                 [keyboard_scancode_queue EXCEPT ![keyboard_scancode_queue_len] = scancode]
            /\ keyboard_scancode_queue_len' = keyboard_scancode_queue_len + 1
        BY Zenon, <1>6, <2>2 DEF StoreScancode, HasRoom
      <4>3. Content([keyboard_scancode_queue EXCEPT ![keyboard_scancode_queue_len] = scancode],
                    keyboard_scancode_queue_len + 1)
              = Append(Content(keyboard_scancode_queue, keyboard_scancode_queue_len), scancode)
        <5>1. keyboard_scancode_queue \in [0 .. QueueSize - 1 -> S] /\ scancode \in S
          BY Zenon, <1>1
        <5> QED
          BY <4>1, <5>1, QueueSizeAssumption DEF Content
      <4> QED
        BY Zenon, <4>2, <4>3 DEF Queued
    <3>2. stored = delivered \o Queued
      BY Zenon, <1>1, <1>2, <2>1, ConcatEmpty DEF NothingLost, InFlight
    <3>3. stored' = delivered \o Queued'
      <4>1. stored' = Append(stored, scancode)
        BY Zenon, <1>6, <2>2 DEF StoreScancode, HasRoom
      <4>2. Append(delivered \o Queued, scancode) = delivered \o Append(Queued, scancode)
        <5>1. delivered \in Seq(S) /\ Queued \in Seq(S) /\ scancode \in S
          BY Zenon, <1>1, <1>2
        <5> QED
          BY <5>1
      <4> QED
        BY Zenon, <3>1, <3>2, <4>1, <4>2
    <3>4. delivered' = delivered
      BY Zenon, <1>6 DEF StoreScancode, main_vars, HasRoom
    <3>5. NothingLost'
      BY Zenon, <1>1, <2>1, <3>3, <3>4, ConcatEmpty DEF NothingLost, InFlight
    <3> QED
      BY Zenon, <2>1, <3>5 DEF CopySoFar
  <2>3. CASE ~ (keyboard_scancode_queue_len < QueueSize)
    <3>1. UNCHANGED <<keyboard_scancode_queue, keyboard_scancode_queue_len, stored>>
      BY Zenon, <1>6, <2>3 DEF StoreScancode, HasRoom
    <3>2. UNCHANGED <<Queued, InFlight, delivered>>
      BY Zenon, <1>6, <2>1, <3>1 DEF StoreScancode, Queued, InFlight, main_vars, HasRoom
    <3> QED
      BY Zenon, <2>1, <3>1, <3>2 DEF CopySoFar, NothingLost
  <2> QED
    BY Zenon, <2>2, <2>3
<1>7. CASE CountTick \/ ReadScancode \/ ReadMouse \/ EndOfInterrupt2 \/ EndOfInterrupt1 \/ Iretq
  BY Zenon, <1>3, <1>7 DEF CountTick, ReadScancode, ReadMouse, EndOfInterrupt2, EndOfInterrupt1,
    Iretq, ReadsOneByte, NonSpecificEOI, FlagAfterIretq
<1>8. CASE Cli \/ Hlt \/ CreateTableFails
  BY Zenon, <1>8 DEF Cli, Hlt, CreateTableFails, CopySoFar, NothingLost, Queued, InFlight,
              queue_vars, FlagAfterCli
<1>9. CASE CreateTable
  <2>1. UNCHANGED <<Queued, InFlight, stored, delivered>>
    BY Zenon, <1>9 DEF CreateTable, Queued, InFlight, queue_vars
  <2>2. NothingLost'
    BY Zenon, <2>1 DEF NothingLost
  <2>3. i' <= keyboard_scancode_queue_len' /\ table' = Content(keyboard_scancode_queue', i')
    BY <1>1, <1>9, ContentEmpty DEF CreateTable, queue_vars
  <2> QED
    BY Zenon, <1>9, <2>2, <2>3 DEF CreateTable, CopySoFar
<1>10. CASE CopyScancode
  <2>1. UNCHANGED <<Queued, InFlight, stored, delivered>>
    BY Zenon, <1>10 DEF CopyScancode, Queued, InFlight, queue_vars
  <2>2. i \in 0 .. QueueSize - 1 /\ i + 1 <= keyboard_scancode_queue_len
    BY <1>1, <1>10 DEF CopyScancode
  <2>3. Content(keyboard_scancode_queue, i + 1) = Append(table, keyboard_scancode_queue[i])
    BY Zenon, <1>1, <1>10, <2>2, ContentAppend DEF CopyScancode, CopySoFar
  <2> QED
    BY Zenon, <1>10, <2>1, <2>2, <2>3 DEF CopyScancode, CopySoFar, NothingLost, queue_vars
<1>11. CASE LeaveLoop
  <2>1. i = keyboard_scancode_queue_len
    BY <1>1, <1>11 DEF LeaveLoop, CopySoFar
  <2> QED
    BY Zenon, <1>11, <2>1 DEF LeaveLoop, CopySoFar, NothingLost, Queued, InFlight, queue_vars
<1>12. CASE ClearQueue
  <2>1. Queued' = <<>> /\ InFlight' = Queued /\ InFlight = <<>>
    BY Zenon, <1>12, ContentEmpty DEF ClearQueue, CopySoFar, Queued, InFlight
  <2>2. stored = delivered \o Queued
    BY Zenon, <1>1, <1>2, <2>1, ConcatEmpty DEF NothingLost
  <2>3. NothingLost'
    BY <1>1, <1>2, <1>12, <2>1, <2>2, ConcatEmpty DEF ClearQueue, NothingLost
  <2> QED
    BY Zenon, <1>12, <2>3 DEF ClearQueue, CopySoFar
<1>13. CASE Sti
  <2>1. Queued' = <<>> /\ Queued = <<>> /\ InFlight' = <<>> /\ InFlight = table
    BY Zenon, <1>13, ContentEmpty DEF Sti, CopySoFar, Queued, InFlight, queue_vars, FlagAfterSti
  <2>2. NothingLost'
    BY <1>1, <1>13, <2>1, ConcatEmpty DEF Sti, NothingLost, queue_vars, FlagAfterSti
  <2> QED
    BY Zenon, <1>13, <2>2 DEF Sti, CopySoFar, FlagAfterSti
<1>14. CASE UNCHANGED vars
  BY Zenon, <1>3, <1>14 DEF vars
<1> QED
  BY Zenon, <1>4, <1>5, <1>6, <1>7, <1>8, <1>9, <1>10, <1>11, <1>12, <1>13, <1>14 DEF Next,
    HandlerStep, GetKeyboardInterrupt

--------------------------------------------------------------------------------
(* The initial state.                                                      *)
LEMMA InitIInv == Init => IInv
<1> SUFFICES ASSUME Init PROVE IInv
  BY Zenon
<1> USE QueueSizeAssumption, BoundsAssumption
<1>1. TypeOK
  BY DEF Init, TypeOK, Lines, NoVector
<1>2. Exclusion /\ InService /\ ByteIsAnnounced
  BY DEF Init, Exclusion, InService, ByteIsAnnounced, NoVector, NoByte
<1>3. CopySoFar /\ NothingLost
  BY ContentEmpty DEF Init, CopySoFar, NothingLost, Queued, InFlight
<1> QED
  BY Zenon, <1>1, <1>2, <1>3 DEF IInv

(* The invariant of the interrupt side holds in every reachable state.     *)
THEOREM Invariance == Safety => []IInv
<1>1. IInv /\ [Next]_vars => IInv'
  BY Zenon, TypeStep, ExclusionStep, InServiceStep, ByteStep, QueueStep DEF IInv
<1> QED
  BY InitIInv, <1>1, PTL DEF Safety

(* Type correctness: in particular the handler never writes behind the end *)
(* of keyboard_scancode_queue, and its length never exceeds the array.     *)
THEOREM TypeCorrect == Safety => []TypeOK
<1>1. IInv => TypeOK
  BY Zenon DEF IInv
<1> QED
  BY Invariance, <1>1, PTL

(* Every scancode handle_interrupt accepted reaches Lua exactly once and   *)
(* in order, for every queue size and under every interleaving of devices, *)
(* handlers and get_keyboard_interrupt.                                    *)
THEOREM NoScancodeLost == Safety => []NothingLost
<1>1. IInv => NothingLost
  BY Zenon DEF IInv
<1> QED
  BY Invariance, <1>1, PTL

(* The handlers of keyboard and mouse never take each other's byte from    *)
(* port 0x60.                                                              *)
THEOREM HandlersReadTheirDevice == Safety => []HandlerReadsItsDevice
<1>1. IInv => HandlerReadsItsDevice
  BY Zenon DEF IInv, ByteIsAnnounced, HandlerReadsItsDevice
<1> QED
  BY Invariance, <1>1, PTL

(* handle_interrupt acknowledges what it serves at both controllers: no    *)
(* line is left in service, which would mask it for ever.                  *)
THEOREM LinesAreReleased == Safety => []InServiceMatchesHandler
<1>1. IInv => InServiceMatchesHandler
  <2> SUFFICES ASSUME IInv PROVE InServiceMatchesHandler
    BY Zenon
  <2>1. hpc \in {"none", "iretq"} => isr1 = {} /\ isr2 = {}
    BY Zenon DEF IInv, InService, Exclusion
  <2>2. ASSUME hpc \in {"dispatch", "store", "eoi2", "eoi1"}
        PROVE  \E line \in Lines : vector = Vector(line) /\ isr1 = {MasterLine(line)}
    <3>1. vector \in {32, 33, 44}
      BY Zenon, <2>2 DEF IInv, TypeOK, Exclusion, NoVector
    <3>2. isr1 = {MasterLine(line) : line \in {l \in Lines : vector = Vector(l)}}
      BY Zenon, <2>2 DEF IInv, InService
    <3> QED
      BY <3>1, <3>2 DEF Lines, TIMER, KEYBOARD, MOUSE, CASCADE, Vector, MasterLine
  <2> QED
    BY Zenon, <2>1, <2>2 DEF InServiceMatchesHandler
<1> QED
  BY Invariance, <1>1, PTL

--------------------------------------------------------------------------------
(* A step that leaves the queue and what Lua has been given alone.         *)
LEMMA ChannelStutter ==
  UNCHANGED <<queue_vars, delivered, InFlight>> => UNCHANGED Channel!vars
BY DEF queue_vars, Queued, Channel!vars

(* Each step of the keyboard path is a step of the channel, or none.       *)
LEMMA ChannelStep == IInv /\ [Next]_vars => [Channel!Next]_(Channel!vars)
<1> SUFFICES ASSUME IInv, [Next]_vars PROVE [Channel!Next]_(Channel!vars)
  BY Zenon
<1> DEFINE S == Scancodes \cup {0}
<1> USE QueueSizeAssumption
<1>1. /\ keyboard_scancode_queue \in [0 .. QueueSize - 1 -> S]
      /\ keyboard_scancode_queue_len \in 0 .. QueueSize
      /\ table \in Seq(S) /\ delivered \in Seq(S) /\ scancode \in S
  BY Zenon DEF IInv, TypeOK
<1> HIDE DEF S
<1>2. Queued \in Seq(S) /\ Len(Queued) = keyboard_scancode_queue_len
  BY Zenon, <1>1, ContentType DEF Queued
<1>3. CASE Device
  BY Zenon, <1>3, ChannelStutter DEF Device, TimerEdge, MouseByte, KeyboardByte, LoadByte, InFlight,
    main_vars
<1>4. ASSUME NEW line \in Lines, TakeInterrupt(line) PROVE UNCHANGED Channel!vars
  <2>1. mainpc # "sti" /\ mainpc' # "sti"
    BY Zenon, <1>4 DEF TakeInterrupt, IInv, Exclusion
  <2> QED
    BY Zenon, <1>4, <2>1, ChannelStutter DEF TakeInterrupt, InFlight
<1>5. CASE StoreScancode
  <2>1. mainpc = "lua" /\ UNCHANGED <<mainpc, delivered>> /\ scancode \in Scancodes
        /\ offered' = offered + 1
    BY Zenon, <1>5 DEF StoreScancode, IInv, Exclusion, ByteIsAnnounced, NoVector, main_vars, HasRoom
  <2>2. InFlight' = InFlight
    BY Zenon, <2>1 DEF InFlight
  <2>3. CASE keyboard_scancode_queue_len < QueueSize
    <3>1. keyboard_scancode_queue_len \in 0 .. QueueSize - 1
      BY <1>1, <2>3
    <3>2. Content([keyboard_scancode_queue EXCEPT ![keyboard_scancode_queue_len] = scancode],
                  keyboard_scancode_queue_len + 1)
            = Append(Content(keyboard_scancode_queue, keyboard_scancode_queue_len), scancode)
      <4>1. keyboard_scancode_queue \in [0 .. QueueSize - 1 -> Scancodes \cup {0}]
            /\ scancode \in Scancodes \cup {0}
        BY <1>1, <2>1 DEF TypeOK
      <4> QED
        BY <3>1, <4>1, QueueSizeAssumption DEF Content
    <3>3. Queued' = Append(Queued, scancode)
      BY Zenon, <1>5, <2>3, <3>2 DEF StoreScancode, Queued, HasRoom
    <3>4. Channel!Offer(scancode)
      BY Zenon, <1>2, <2>1, <2>2, <2>3, <3>3 DEF Channel!Offer
    <3> QED
      BY Zenon, <2>1, <3>4 DEF Channel!Next
  <2>4. CASE ~ (keyboard_scancode_queue_len < QueueSize)
    <3>1. Queued' = Queued
      BY Zenon, <1>5, <2>4 DEF StoreScancode, Queued, HasRoom
    <3>2. Channel!Offer(scancode)
      BY Zenon, <1>2, <2>1, <2>2, <2>4, <3>1 DEF Channel!Offer
    <3> QED
      BY Zenon, <2>1, <3>2 DEF Channel!Next
  <2> QED
    BY Zenon, <2>3, <2>4
<1>6. CASE CountTick \/ ReadScancode \/ ReadMouse \/ EndOfInterrupt2 \/ EndOfInterrupt1 \/ Iretq
  BY Zenon, <1>6, ChannelStutter DEF CountTick, ReadScancode, ReadMouse, EndOfInterrupt2,
    EndOfInterrupt1, Iretq, InFlight, main_vars, ReadsOneByte, NonSpecificEOI, FlagAfterIretq
<1>7. CASE Cli \/ Hlt \/ CreateTable \/ CreateTableFails \/ CopyScancode \/ LeaveLoop
  BY Zenon, <1>7, ChannelStutter DEF Cli, Hlt, CreateTable, CreateTableFails, CopyScancode,
    LeaveLoop, InFlight, FlagAfterCli
<1>8. CASE ClearQueue
  <2>1. /\ Queued' = <<>> /\ InFlight' = Queued /\ InFlight = <<>>
        /\ UNCHANGED <<delivered, offered>>
    BY Zenon, <1>8, ContentEmpty DEF ClearQueue, IInv, CopySoFar, Queued, InFlight
  <2>2. delivered \o InFlight = delivered
    BY Zenon, <1>1, <2>1, ConcatEmpty
  <2>3. CASE Queued = <<>>
    BY Zenon, <2>1, <2>3 DEF Channel!vars
  <2>4. CASE Queued # <<>>
    BY Zenon, <2>1, <2>2, <2>4 DEF Channel!Drain, Channel!Next
  <2> QED
    BY Zenon, <2>3, <2>4
<1>9. CASE Sti
  <2>1. InFlight' = <<>> /\ InFlight = table /\ UNCHANGED queue_vars
        /\ delivered' = delivered \o table
    BY Zenon, <1>9 DEF Sti, InFlight, FlagAfterSti
  <2>2. (delivered \o table) \o <<>> = delivered \o table
    BY <1>1
  <2>3. UNCHANGED Queued
    BY Zenon, <2>1 DEF Queued, queue_vars
  <2> QED
    BY Zenon, <2>1, <2>2, <2>3 DEF Channel!vars, queue_vars
<1>10. CASE UNCHANGED vars
  BY Zenon, <1>10, ChannelStutter DEF vars, main_vars, InFlight
<1> QED
  BY Zenon, <1>3, <1>4, <1>5, <1>6, <1>7, <1>8, <1>9, <1>10 DEF Next, HandlerStep,
    GetKeyboardInterrupt

(* handle_interrupt's queue and get_keyboard_interrupt together implement  *)
(* the atomic bounded channel: a scancode is dropped only when QueueSize   *)
(* others wait, and one call takes all that wait, in order.                *)
THEOREM KeyboardPathIsAChannel == Safety => ImplementsChannel
<1>1. Init => Channel!Init
  BY ContentEmpty DEF Init, Queued, InFlight, Channel!Init
<1> QED
  BY Invariance, ChannelStep, <1>1, PTL DEF Safety, ImplementsChannel, Channel!Safety
================================================================================
