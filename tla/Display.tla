------------------------------- MODULE Display -------------------------------
(***************************************************************************)
(* display_task, beside the tasks that print and type (Terminal), the demo *)
(* tasks' rectangles, and putpixel and swap_buffers of luakernel.c.        *)
(*                                                                         *)
(* The count hook may suspend display_task between any two instructions.   *)
(* The loop of draw_terminal holds the table that terminal_lines was when  *)
(* it began; write() and Ctrl-L may take that table off the screen         *)
(* meanwhile.  What a call draws is given by the box of its pixels.        *)
(***************************************************************************)
EXTENDS Terminal

CONSTANTS
  BytesPerScanLine,
  bytes_per_pixel,  \* BitsPerPixel / 8
  U32               \* values of a u32: 2^32

ASSUME ModeAssumption ==
  /\ bytes_per_pixel \in 2..4 /\ BytesPerScanLine \in Nat /\ U32 \in Nat \ {0}
  /\ BytesPerScanLine >= Width * bytes_per_pixel

VARIABLES
  dpc,       \* what display_task does next
  dtable,    \* the table that draw_terminal goes through
  y,         \* the line of it drawn last
  cursor_x,  \* its length when it was read
  drawn,     \* display_buffer has the text of the lines up to y as they are now
  shown      \* fbmem has the text of terminal_lines as it is now

display_vars == <<dpc, dtable, y, cursor_x, drawn, shown>>
all_vars == <<vars, display_vars>>

-----------------------------------------------------------------------------
display_buffer_len == Height * BytesPerScanLine

\* Mutant: the pointer is not compared with the end of the buffer.
Unchecked(ptr) == TRUE
BelowEnd(ptr) == ptr < display_buffer_len

(* The bytes putpixel stores to.  A negative coordinate becomes a u32 by   *)
(* wrapping, and so do the products and their sum.                         *)
putpixel(x, row) ==
  LET ptr == ((row % U32) * BytesPerScanLine + (x % U32) * bytes_per_pixel) % U32
  IN  IF BelowEnd(ptr) THEN ptr..ptr + 3 ELSE {}

rectangle(x, row, width, height) ==
  [left |-> x, top |-> row, right |-> x + width, bottom |-> row + height]

\* The extent of the largest glyphs; a character takes 8 columns.
GlyphWidth == 10
GlyphHeight == 13

\* The memory usage, of one to seven digits, ends in spaces, 3 pixels wide.
MessageLengths == 30..36
SpaceWidth == 3
Message(n) == rectangle(Width - 8 * n, 150, 8 * (n - 1) + SpaceWidth - 1, GlyphHeight - 1)

\* drawtext for line y of the terminal
Text == rectangle(10, 15 * y, 8 * (cursor_x - 1) + GlyphWidth - 1, GlyphHeight - 1)
Cursor == rectangle(cursor_x * 8 + 10, y * 15 - 2, 1, 14)

\* What the demo tasks draw, at any time
DemoRectangles ==
  {rectangle(Width - 420, 100, 100, 100), rectangle(Width - 410, 110, 100, 100),
   rectangle(Width - 400, 120, 100, 100)}

\* What display_task draws next
Drawing ==
  CASE dpc = "border"  -> {rectangle(0, 0, Width - 1, Height - 1)}
    [] dpc = "tilda"   -> {rectangle(4, 4, Width - 8, Height - 8)}
    [] dpc = "message" -> {Message(n) : n \in MessageLengths}
    [] dpc = "text"    -> IF cursor_x = 0 THEN {} ELSE {Text}
    [] dpc = "cursor"  -> {Cursor}
    [] OTHER           -> {}

-----------------------------------------------------------------------------
DTable == IF dtable.live THEN terminal_lines ELSE dtable.lines

DisplayInit ==
  /\ Init
  /\ dpc = "border" /\ dtable = NoTable /\ y = 0 /\ cursor_x = 0
  /\ drawn = FALSE /\ shown = FALSE

\* No task runs while write() does
Turn(from) == out = <<>> /\ dpc = from /\ UNCHANGED vars

DrawBorder ==
  /\ Turn("border")
  /\ dpc' = IF tilda THEN "tilda" ELSE "message"
  /\ UNCHANGED <<dtable, y, cursor_x, drawn, shown>>

DrawTilda ==
  /\ Turn("tilda")
  /\ dpc' = "message"
  /\ UNCHANGED <<dtable, y, cursor_x, drawn, shown>>

DrawMessage ==
  /\ Turn("message")
  /\ dpc' = "ipairs"
  /\ UNCHANGED <<dtable, y, cursor_x, drawn, shown>>

\* Mutant: the table is looked up once, for all frames.
FirstTable == IF dtable = NoTable THEN [live |-> TRUE, lines |-> <<>>] ELSE dtable
CurrentTable == [live |-> TRUE, lines |-> <<>>]

(* ipairs(terminal_lines)                                                  *)
Ipairs ==
  /\ Turn("ipairs")
  /\ dtable' = CurrentTable
  /\ y' = 0 /\ cursor_x' = 0
  /\ drawn' = TRUE
  /\ dpc' = "next"
  /\ UNCHANGED shown

\* Mutant: the loop starts again when the screen was cleared.
NextOrFirst == IF dtable.live THEN y + 1 ELSE 1
NextLine == y + 1

(* The next line, and table.concat of it, or the end of the loop.          *)
Concatenate ==
  /\ Turn("next")
  /\ IF y < Len(DTable)
       THEN /\ y' = NextLine
            /\ cursor_x' = Len(DTable[y'])
            /\ drawn' = (drawn /\ y' \in DOMAIN terminal_lines /\ DTable[y'] = terminal_lines[y'])
            /\ dpc' = "text"
       ELSE dpc' = "cursor" /\ UNCHANGED <<y, cursor_x, drawn>>
  /\ UNCHANGED <<dtable, shown>>

DrawText ==
  /\ Turn("text")
  /\ dpc' = "next"
  /\ UNCHANGED <<dtable, y, cursor_x, drawn, shown>>

DrawCursor ==
  /\ Turn("cursor")
  /\ dpc' = "swap"
  /\ UNCHANGED <<dtable, y, cursor_x, drawn, shown>>

(* swap_buffers copies the buffer and clears it; then wait(10).            *)
SwapBuffers ==
  /\ Turn("swap")
  /\ shown' = (drawn /\ y = Len(terminal_lines))
  /\ drawn' = FALSE
  /\ y' = 0 /\ cursor_x' = 0
  /\ dpc' = "border"
  /\ UNCHANGED dtable

DisplayTask ==
  \/ DrawBorder \/ DrawTilda \/ DrawMessage \/ Ipairs \/ Concatenate
  \/ DrawText \/ DrawCursor \/ SwapBuffers

-----------------------------------------------------------------------------
\* The table `lines' is taken off the screen
TakenOff(lines) == IF dtable.live THEN [live |-> FALSE, lines |-> lines] ELSE dtable

\* Backspace works on a table that is off the screen; it may be the same one.
Shortened ==
  IF ~ held.live /\ length # 0 /\ ~ dtable.live /\ dtable.lines = held.lines
    THEN {dtable, [dtable EXCEPT !.lines[index] = Without(@, length)]}
    ELSE {dtable}

OtherTask ==
  /\ \/ WriteChar /\ dtable' = LET lines == Appended(Head(out)) IN
                               IF Clears(lines) THEN TakenOff(lines) ELSE dtable
     \/ ClearKey /\ dtable' = TakenOff(terminal_lines)
     \/ RemoveChar /\ dtable' \in Shortened
     \/ /\ \/ PrintLine \/ IoWrite \/ IoFlush
           \/ ShiftKey \/ CtrlKey \/ GraveKey \/ CharKey
           \/ GetTable \/ GetIndex \/ GetLine \/ GetLength \/ RemoveError
           \/ PutChar \/ Flush \/ NewLine \/ Concat
           \/ Load \/ CommandReturns \/ ReportError \/ ReportFails
        /\ dtable' = dtable
  /\ drawn' = (drawn /\ terminal_lines' = terminal_lines)
  /\ shown' = (shown /\ terminal_lines' = terminal_lines)
  /\ UNCHANGED <<dpc, y, cursor_x>>

DisplayNext == DisplayTask \/ OtherTask

(* write() is not interrupted, and the scheduler resumes every task again  *)
(* and again (Scheduler, NoStarvation).                                    *)
DisplaySpec ==
  DisplayInit /\ [][DisplayNext]_all_vars /\ SF_all_vars(DisplayTask) /\ WF_all_vars(OtherTask /\ WriteChar)

-----------------------------------------------------------------------------
Inside(box) ==
  0 <= box.left /\ box.right < Width /\ 0 <= box.top /\ box.bottom < Height

\* Large enough for the terminal: every VBE graphics mode is.
UsableDisplay == Width >= 165 /\ Height > 30

(* display_task draws inside the display, whatever is printed while it     *)
(* goes through the lines, with one exception: when write() clears a full  *)
(* screen under it, the cursor of the abandoned last line may lie below    *)
(* the display.  putpixel compares no column with the width, so a pixel    *)
(* beyond it would appear at the other side.                               *)
OnDisplay ==
  UsableDisplay =>
    \A box \in Drawing :
      \/ Inside(box)
      \/ dpc = "message" /\ (Width < 288 \/ Height < 163)
      \/ /\ dpc = "cursor" /\ ~ dtable.live /\ Clears(dtable.lines)
         /\ 0 <= box.left /\ box.right < Width /\ box.top < Height

\* A pixel has the four bytes that putpixel stores.
FourByteMode == bytes_per_pixel = 4 /\ BytesPerScanLine % 4 = 0 /\ U32 % 4 = 0

(* No pixel of any task is stored outside display_buffer, wherever it is   *)
(* drawn, in a mode of four bytes a pixel; in others at most three bytes   *)
(* beyond the end are written.                                             *)
PixelsInBuffer ==
  \A box \in Drawing \cup DemoRectangles :
    \A x \in {box.left, box.right}, row \in {box.top, box.bottom} :
      putpixel(x, row) \subseteq 0..display_buffer_len - 1 + (IF FourByteMode THEN 0 ELSE 3)

(* Frames go on being shown however much is printed: the loop over the     *)
(* lines ends because a table is replaced before it has grown too long.    *)
FramesGoOn == []<>(dpc = "swap")

(* When nothing is printed, erased or cleared any more, the display comes  *)
(* to show the text of the terminal, although a frame may have been drawn  *)
(* from a table that was replaced meanwhile.                               *)
ShowsTerminal == []<>shown \/ []<><<WriteChar \/ ClearKey \/ RemoveChar>>_all_vars

=============================================================================
