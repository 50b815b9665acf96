------------------------------ MODULE Terminal ------------------------------
(***************************************************************************)
(* The terminal of luakernel.lua: the table terminal_lines, what write()   *)
(* does to it for standard output, and the shell in key_pressed().         *)
(*                                                                         *)
(* key_pressed runs in the keyboard task, whose count hook may suspend it  *)
(* between any two instructions, and other tasks print meanwhile.  write   *)
(* is reached through SYS_write on the main Lua state, which has no hook,  *)
(* so what musl hands to it is one uninterrupted sequence of WriteChar     *)
(* steps.  The command that key_pressed runs is a program like any other:  *)
(* it may print, write without a newline, fail, and never return.          *)
(*                                                                         *)
(* Assigning {{}} to terminal_lines abandons a table that the suspended    *)
(* key_pressed may still hold in a register, so what it holds is either    *)
(* the table on the screen (held.live) or the abandoned one (held.lines),  *)
(* which nobody else can reach and which no longer changes.                *)
(***************************************************************************)
EXTENDS Integers, Sequences

CONSTANTS
  Width,       \* DISPLAY_WIDTH
  Height,      \* DISPLAY_HEIGHT
  Letters,     \* characters without a meaning of their own
  Pairs,       \* scancode2char: plain and shifted character of their keys
  Messages,    \* what tasks, commands and the reports of their errors print
  BufferSize,  \* BUFSIZ
  MaxTyped     \* bound: length of the line being typed

ASSUME SizeAssumption == Width \in Nat \ {0} /\ Height \in Nat
ASSUME LettersAssumption == "nl" \notin Letters
ASSUME PairsAssumption == Pairs \subseteq Letters \X Letters
ASSUME MessagesAssumption == Messages \subseteq Seq(Letters)
ASSUME BufferAssumption == BufferSize \in Nat \ {0}
ASSUME MaxTypedAssumption == MaxTyped \in Nat

VARIABLES
  terminal_lines, \* the lines on the screen
  out,            \* what remains of the string a running write() goes through
  stdout,         \* musl's buffer for standard output
  kpc,            \* where the keyboard task is inside key_pressed
  c,              \* the character key_pressed is handling
  held,           \* the table read from terminal_lines
  index,          \* #terminal_lines as read afterwards
  length,         \* #line as read by the Backspace branch
  shift_on,
  ctrl_on,
  tilda,
  executed,       \* the string given to load()
  typed           \* history: the line being typed, or Disturbed

registers == <<c, held, index, length>>
modifiers == <<shift_on, ctrl_on, tilda>>
vars == <<terminal_lines, out, stdout, kpc, registers, modifiers, executed, typed>>

NL == "nl"
Backspace == "bs"
Char == Letters \cup {NL}
NoLine == <<"no line">>
Disturbed == <<"disturbed">>
NoTable == [live |-> FALSE, lines |-> <<>>]

\* Mutant: WRAP_X = DISPLAY_WIDTH / 8 leaves no room for the left margin.
WrapsAtEdge(line) == 8 * Len(line) >= Width

\* #line >= WRAP_X, where WRAP_X = DISPLAY_WIDTH / 9 need not be whole
Wraps(line) == 9 * Len(line) >= Width

\* #terminal_lines >= CLEAR_Y, where CLEAR_Y = (DISPLAY_HEIGHT / 15) - 1
Clears(lines) == 15 * (Len(lines) + 1) >= Height

Last(s) == s[Len(s)]
WithoutLast(s) == SubSeq(s, 1, Len(s) - 1)
Without(s, i) == SubSeq(s, 1, i - 1) \o SubSeq(s, i + 1, Len(s))

Held == IF held.live THEN terminal_lines ELSE held.lines
HeldLine == Held[index]

\* Mutant: the screen is cleared by emptying the table instead of replacing it.
AbandonNothing(lines) == held

\* terminal_lines is about to be replaced; its last contents were `lines'
Abandon(lines) == IF held.live THEN [live |-> FALSE, lines |-> lines] ELSE held

Init ==
  /\ terminal_lines = <<<<>>>>
  /\ out = <<>> /\ stdout = <<>>
  /\ kpc = "idle" /\ c = NL /\ held = NoTable /\ index = 0 /\ length = 0
  /\ shift_on = 0 /\ ctrl_on = 0 /\ tilda = FALSE
  /\ executed = NoLine
  /\ typed = <<>>

-----------------------------------------------------------------------------
(* One iteration of the loop of write() for standard output.  A typed      *)
(* character that opens a new line leaves the rest of the command behind.  *)
Appended(ch) ==
  LET n == Len(terminal_lines)
      line == Append(terminal_lines[n], ch)
      lines == [terminal_lines EXCEPT ![n] = line]
  IN  IF ch = NL \/ Wraps(line) THEN Append(lines, <<>>) ELSE lines

WriteChar ==
  /\ out # <<>>
  /\ LET lines == Appended(Head(out)) IN
     IF Clears(lines)
       THEN terminal_lines' = <<<<>>>> /\ held' = Abandon(lines)
       ELSE terminal_lines' = lines /\ held' = held
  /\ out' = Tail(out)
  /\ typed' = IF typed # <<>> /\ Head(out) # NL /\ Last(terminal_lines') = <<>>
                THEN Disturbed ELSE typed
  /\ UNCHANGED <<stdout, kpc, c, index, length, modifiers, executed>>

(* fwrite() of a text without a newline.  stdout is line buffered, as      *)
(* SYS_ioctl succeeds: the text stays in the buffer, but one that does not *)
(* fit is written at once, behind what is there.                           *)
Fwrite(text) ==
  IF Len(stdout) + Len(text) > BufferSize
    THEN out' = stdout \o text /\ stdout' = <<>>
    ELSE out' = <<>> /\ stdout' = stdout \o text

(* print(): the message, a newline, and fflush(stdout)                     *)
Prints(m) == out' = stdout \o m \o <<NL>> /\ stdout' = <<>>

(* What a task does while the shell loads or runs a command is not in the  *)
(* way of the line that was typed; otherwise a line of output is only when *)
(* nothing has been typed yet, and other output always is.                 *)
Running == kpc \in {"load", "run"}

TaskWrites ==
  /\ out = <<>>
  /\ UNCHANGED <<terminal_lines, kpc, registers, modifiers, executed>>

(* A task, the command included, calls print(), or the scheduler does.     *)
PrintLine ==
  /\ TaskWrites
  /\ \E m \in Messages : Prints(m)
  /\ typed' = IF Running \/ (typed = <<>> /\ kpc = "idle") THEN typed ELSE Disturbed

(* io.write() of a text that does not end with a newline, from its last    *)
(* newline on; musl writes the lines before it at once, like print().      *)
IoWrite ==
  /\ TaskWrites
  /\ \E m \in Messages : Fwrite(m)
  /\ typed' = IF Running THEN typed ELSE Disturbed

(* io.flush()                                                              *)
IoFlush ==
  /\ TaskWrites
  /\ stdout # <<>>
  /\ out' = stdout /\ stdout' = <<>>
  /\ UNCHANGED typed

-----------------------------------------------------------------------------
(* key_pressed up to the point where it looks at the screen.               *)
Press ==
  /\ out = <<>>
  /\ kpc = "idle"
  /\ UNCHANGED <<out, stdout, executed>>

ShiftKey ==
  /\ Press
  /\ shift_on' \in {0, 1}
  /\ UNCHANGED <<terminal_lines, kpc, registers, ctrl_on, tilda, typed>>

CtrlKey ==
  /\ Press
  /\ ctrl_on' \in {0, 1}
  /\ UNCHANGED <<terminal_lines, kpc, registers, shift_on, tilda, typed>>

GraveKey ==
  /\ Press
  /\ tilda' = ~tilda
  /\ UNCHANGED <<terminal_lines, kpc, registers, shift_on, ctrl_on, typed>>

(* The l key while Ctrl is down; without Ctrl it is one of Pairs.          *)
ClearKey ==
  /\ Press
  /\ ctrl_on = 1
  /\ terminal_lines' = <<<<>>>>
  /\ typed' = IF stdout = <<>> THEN <<>> ELSE Disturbed
  /\ UNCHANGED <<kpc, registers, modifiers>>

(* A key that types a character, Enter or Backspace.  Other scancodes have *)
(* no string in scancode2char and do nothing.                              *)
CharKey ==
  /\ Press
  /\ \/ \E p \in Pairs : c' = p[shift_on + 1]
     \/ c' \in {NL, Backspace}
  /\ Len(typed) < MaxTyped \/ c' \in {NL, Backspace}
  /\ kpc' = "table"
  /\ UNCHANGED <<terminal_lines, held, index, length, modifiers, typed>>

(* local line = terminal_lines[#terminal_lines], instruction by            *)
(* instruction: the table, its length (terminal_lines is read again), the  *)
(* element.  OnlyEmptyBackspaceFails shows that the element exists, so     *)
(* that the branch "if not line" is dead.                                  *)
GetTable ==
  /\ out = <<>>
  /\ kpc = "table"
  /\ held' = [live |-> TRUE, lines |-> <<>>]
  /\ kpc' = "index"
  /\ UNCHANGED <<terminal_lines, out, stdout, c, index, length, modifiers, executed, typed>>

GetIndex ==
  /\ out = <<>>
  /\ kpc = "index"
  /\ index' = Len(terminal_lines)
  /\ kpc' = "line"
  /\ UNCHANGED <<terminal_lines, out, stdout, c, held, length, modifiers, executed, typed>>

GetLine ==
  /\ out = <<>>
  /\ kpc = "line"
  /\ kpc' = CASE c = Backspace -> "length" [] c = NL -> "newline" [] OTHER -> "putc"
  /\ UNCHANGED <<terminal_lines, out, stdout, registers, modifiers, executed, typed>>

-----------------------------------------------------------------------------
Return ==
  /\ kpc' = "idle"
  /\ c' = NL
  /\ index' = 0
  /\ length' = 0
  /\ held' = NoTable

(* An error ends keyboard_task; the scheduler prints it.                   *)
Dies ==
  /\ kpc' = "dead"
  /\ c' = NL /\ index' = 0 /\ length' = 0 /\ held' = NoTable
  /\ \E m \in Messages : Prints(m)
  /\ typed' = Disturbed

GetLength ==
  /\ out = <<>>
  /\ kpc = "length"
  /\ length' = Len(HeldLine)
  /\ kpc' = "remove"
  /\ UNCHANGED <<terminal_lines, out, stdout, c, held, index, modifiers, executed, typed>>

(* table.remove(line, length) compares length with the line's size now:    *)
(* "position out of bounds" unless they agree or the position is in it.    *)
RemoveFails == length # Len(HeldLine) /\ length \notin 1..Len(HeldLine) + 1

(* It removes nothing from an empty line.                                  *)
RemoveChar ==
  /\ out = <<>>
  /\ kpc = "remove" /\ ~ RemoveFails
  /\ terminal_lines' =
       IF held.live /\ length # 0
         THEN [terminal_lines EXCEPT ![index] = Without(@, length)]
         ELSE terminal_lines
  /\ typed' = IF typed \in {<<>>, Disturbed} THEN typed ELSE WithoutLast(typed)
  /\ Return
  /\ UNCHANGED <<out, stdout, modifiers, executed>>

RemoveError ==
  /\ out = <<>>
  /\ kpc = "remove" /\ RemoveFails
  /\ Dies
  /\ UNCHANGED <<terminal_lines, modifiers, executed>>

(* io.write(c) leaves c in the buffer, io.flush() empties it.              *)
PutChar ==
  /\ out = <<>>
  /\ kpc = "putc"
  /\ Fwrite(<<c>>)
  /\ typed' = IF typed = Disturbed THEN typed ELSE Append(typed, c)
  /\ kpc' = "flush"
  /\ UNCHANGED <<terminal_lines, registers, modifiers, executed>>

Flush ==
  /\ out = <<>>
  /\ kpc = "flush"
  /\ out' = stdout
  /\ stdout' = <<>>
  /\ Return
  /\ UNCHANGED <<terminal_lines, modifiers, executed, typed>>

(* io.write("\n") flushes by itself.                                       *)
NewLine ==
  /\ out = <<>>
  /\ kpc = "newline"
  /\ out' = Append(stdout, NL)
  /\ stdout' = <<>>
  /\ kpc' = "concat"
  /\ UNCHANGED <<terminal_lines, registers, modifiers, executed, typed>>

\* Mutant: the last line is looked up after io.write("\n").
ConcatLast ==
  /\ out = <<>>
  /\ kpc = "concat"
  /\ executed' = Last(terminal_lines)
  /\ kpc' = "load"
  /\ UNCHANGED <<terminal_lines, out, stdout, registers, modifiers, typed>>

Concat ==
  /\ out = <<>>
  /\ kpc = "concat"
  /\ executed' = HeldLine
  /\ kpc' = "load"
  /\ UNCHANGED <<terminal_lines, out, stdout, registers, modifiers, typed>>

(* load(linestr), and pcall() of the chunk                                 *)
Load ==
  /\ out = <<>>
  /\ kpc = "load"
  /\ kpc' = "run"
  /\ held' = NoTable /\ executed' = NoLine /\ typed' = <<>>
  /\ UNCHANGED <<terminal_lines, out, stdout, c, index, length, modifiers>>

(* What the command left on the last line, or in the buffer, comes before  *)
(* what is typed next.                                                     *)
CommandReturns ==
  /\ out = <<>>
  /\ kpc = "run"
  /\ Return
  /\ typed' = IF Last(terminal_lines) = <<>> /\ stdout = <<>> THEN <<>> ELSE Disturbed
  /\ UNCHANGED <<terminal_lines, out, stdout, modifiers, executed>>

(* print(errmsg) of a line that is no chunk, or print(err) of its error    *)
ReportError ==
  /\ out = <<>>
  /\ Running
  /\ \E m \in Messages : Prints(m)
  /\ Return
  /\ typed' = <<>> /\ executed' = NoLine
  /\ UNCHANGED <<terminal_lines, modifiers>>

(* print(err) raises an error when tostring gives no string for err.       *)
ReportFails ==
  /\ out = <<>>
  /\ kpc = "run"
  /\ Dies
  /\ UNCHANGED <<terminal_lines, modifiers, executed>>

Next ==
  \/ WriteChar \/ PrintLine \/ IoWrite \/ IoFlush
  \/ ShiftKey \/ CtrlKey \/ GraveKey \/ ClearKey \/ CharKey
  \/ GetTable \/ GetIndex \/ GetLine
  \/ GetLength \/ RemoveChar \/ RemoveError
  \/ PutChar \/ Flush
  \/ NewLine \/ Concat
  \/ Load \/ CommandReturns \/ ReportError \/ ReportFails

Spec == Init /\ [][Next]_vars

-----------------------------------------------------------------------------
(* Type invariant.                                                         *)
TypeOK ==
  /\ terminal_lines \in Seq(Seq(Char))
  /\ out \in Seq(Char)
  /\ stdout \in Seq(Letters)
  /\ kpc \in {"idle", "table", "index", "line", "length", "remove", "putc",
              "flush", "newline", "concat", "load", "run", "dead"}
  /\ c \in Char \cup {Backspace}
  /\ held \in [live : BOOLEAN, lines : Seq(Seq(Char))]
  /\ index \in Nat
  /\ length \in Nat
  /\ shift_on \in {0, 1}
  /\ ctrl_on \in {0, 1}
  /\ tilda \in BOOLEAN
  /\ executed \in Seq(Char) \cup {NoLine}
  /\ typed \in Seq(Letters) \cup {Disturbed}

(* Other tasks may print, and even clear the screen, between key_pressed's *)
(* reads of the table, of its length and of the line.  It never finds nil  *)
(* for the last line: a table that write() replaced has more lines than    *)
(* any later one.  And table.remove raises an error, which would end       *)
(* keyboard_task for good, in one case only: Backspace on an empty line    *)
(* that another task printed on after its length was read.                 *)
OnlyEmptyBackspaceFails ==
  /\ kpc \in {"line", "length", "remove", "putc", "newline", "concat"} => index \in DOMAIN Held
  /\ kpc = "remove" /\ RemoveFails => length = 0 /\ typed = Disturbed

(* The shell loads exactly the line that was typed, Backspace applied,     *)
(* even if Enter makes write() clear the screen before the line is read,   *)
(* unless the line wrapped, another task wrote meanwhile, or the line      *)
(* began behind text that a command or a task had left without a newline.  *)
ShellRunsTypedLine == kpc = "load" /\ typed # Disturbed => executed = Append(typed, NL)

=============================================================================
