---------------------------- MODULE DisplayProofs ----------------------------
(***************************************************************************)
(* Proofs about Terminal, for displays and messages of every size, and     *)
(* about Display, for displays of every size and mode.                     *)
(***************************************************************************)
EXTENDS Display, SequenceTheorems, TLAPS

Line == Seq(Char)

(* Every line but the last may have reached the width, none is longer; the *)
(* screen is below the height at which it is cleared.                      *)
Fits(lines) ==
  /\ \A row \in DOMAIN lines : 9 * (Len(lines[row]) - 1) < Width
  /\ ~ Wraps(Last(lines))
  /\ Clears(lines) => Len(lines) = 1

(* Lemma: a screen at which write() clears has at least as many lines as   *)
(* one that write() leaves.                                                *)
LEMMA FullIsLonger ==
  ASSUME NEW a \in Nat, NEW b \in Nat, b >= 1,
         15 * (b + 1) >= Height, ~ (15 * (a + 1) >= Height) \/ a = 1
  PROVE  a <= b
BY SizeAssumption

(* Lemma: the length of two lines put together.                            *)
LEMMA ConcatLine ==
  ASSUME NEW a \in Line, NEW b \in Line
  PROVE  a \o b \in Line /\ Len(a \o b) = Len(a) + Len(b)
BY DEF Line

(* Lemma: appending a character in write() gives at least as many lines,   *)
(* none shorter than before, that fit the width.                           *)
LEMMA AppendedLines ==
  ASSUME NEW ch \in Char,
         terminal_lines \in Seq(Line), terminal_lines # <<>>, Fits(terminal_lines)
  PROVE  /\ Appended(ch) \in Seq(Line)
         /\ Len(Appended(ch)) \in {Len(terminal_lines), Len(terminal_lines) + 1}
         /\ \A row \in DOMAIN terminal_lines :
              Len(Appended(ch)[row]) >= Len(terminal_lines[row])
         /\ \A row \in DOMAIN Appended(ch) : 9 * (Len(Appended(ch)[row]) - 1) < Width
         /\ ~ Wraps(Last(Appended(ch)))
<1> DEFINE n == Len(terminal_lines)
           line == Append(terminal_lines[n], ch)
           lines == [terminal_lines EXCEPT ![n] = line]
<1>1. n \in Nat \ {0} /\ terminal_lines[n] \in Line
  OBVIOUS
<1>2. line \in Line /\ Len(line) = Len(terminal_lines[n]) + 1
  BY <1>1 DEF Line
<1>3. lines \in Seq(Line) /\ Len(lines) = n /\ DOMAIN lines = 1..n
  BY <1>1, <1>2
<1>4. \A row \in 1..n : lines[row] = IF row = n THEN line ELSE terminal_lines[row]
  BY <1>1
<1>5. \A row \in 1..n : Len(terminal_lines[row]) \in Nat
  BY DEF Line
<1>6. 9 * Len(terminal_lines[n]) < Width
  BY <1>1, <1>5, SizeAssumption DEF Fits, Wraps, Last
<1>7. \A row \in 1..n : 9 * (Len(lines[row]) - 1) < Width /\ Len(lines[row]) >= Len(terminal_lines[row])
  BY <1>1, <1>2, <1>4, <1>5, <1>6, SizeAssumption DEF Fits
<1>8. CASE ch = NL \/ Wraps(line)
  <2>1. Appended(ch) = Append(lines, <<>>)
    BY Zenon, <1>8 DEF Appended
  <2>2. <<>> \in Line /\ Len(<<>>) = 0
    BY DEF Line
  <2> HIDE DEF lines, line, n
  <2>3. /\ Append(lines, <<>>) \in Seq(Line)
        /\ Len(Append(lines, <<>>)) = n + 1
        /\ \A row \in 1..n : Append(lines, <<>>)[row] = lines[row]
        /\ Append(lines, <<>>)[n + 1] = <<>>
        /\ DOMAIN Append(lines, <<>>) = 1..n + 1
    BY <1>1, <1>3, <2>2
  <2>4. ~ Wraps(<<>>)
    BY <2>2, SizeAssumption DEF Wraps
  <2>5. Last(Append(lines, <<>>)) = <<>>
    BY Zenon, <2>3 DEF Last
  <2>6. \A row \in 1..n + 1 : 9 * (Len(Append(lines, <<>>)[row]) - 1) < Width
    <3> SUFFICES ASSUME NEW row \in 1..n + 1 PROVE 9 * (Len(Append(lines, <<>>)[row]) - 1) < Width
      BY Zenon
    <3>1. CASE row \in 1..n
      BY Zenon, <3>1, <2>3, <1>7
    <3>2. CASE row = n + 1
      BY <3>2, <2>3, <2>2, SizeAssumption
    <3>3. row \in 1..n \/ row = n + 1
      BY <1>1
    <3> QED BY Zenon, <3>1, <3>2, <3>3
  <2>7. \A row \in DOMAIN terminal_lines : row \in 1..n
    BY DEF n
  <2> QED BY Zenon, <2>1, <2>3, <2>4, <2>5, <2>6, <2>7, <1>7 DEF n
<1>9. CASE ~ (ch = NL \/ Wraps(line))
  <2>1. Appended(ch) = lines
    BY Zenon, <1>9 DEF Appended
  <2>2. Last(lines) = line
    BY <1>1, <1>3, <1>4 DEF Last
  <2> QED BY Zenon, <2>1, <2>2, <1>1, <1>3, <1>7, <1>9
<1> QED BY Zenon, <1>8, <1>9

-----------------------------------------------------------------------------
InBranch == {"line", "length", "remove", "putc", "newline", "concat"}

(* The inductive invariant.  Between reading the table and its length,     *)
(* key_pressed holds the table on the screen or one that write() replaced  *)
(* because it was full; afterwards the index it read is in the table, and  *)
(* lines only grow until Backspace has removed its character.              *)
TInv ==
  /\ TypeOK
  /\ terminal_lines # <<>>
  /\ Fits(terminal_lines)
  /\ kpc = "idle" => ~ held.live
  /\ kpc = "index" /\ ~ held.live => held.lines # <<>> /\ Clears(held.lines)
  /\ kpc \in InBranch => index \in 1..Len(Held)
  /\ kpc = "remove" => length <= Len(HeldLine)
  /\ kpc = "putc" => c \in Letters

LEMMA TInvInit == Init => TInv
<1> SUFFICES ASSUME Init PROVE TInv
  BY Zenon
<1> USE DEF Init
<1>1. <<>> \in Line /\ <<>> \in Seq(Letters) /\ <<<<>>>> \in Seq(Line)
  BY DEF Line
<1>2. NoTable \in [live : BOOLEAN, lines : Seq(Line)] /\ ~ NoTable.live
  BY DEF NoTable
<1>3. TypeOK
  BY Zenon, <1>1, <1>2 DEF TypeOK, Line, Char, NL
<1>4. Fits(terminal_lines)
  BY SizeAssumption DEF Fits, Wraps, Last
<1>5. kpc = "idle" /\ terminal_lines # <<>>
  BY Zenon
<1> QED BY Zenon, <1>2, <1>3, <1>4, <1>5 DEF TInv, InBranch

(* Lemma: write() keeps the invariant, also when it clears the screen      *)
(* while key_pressed holds the old table.                                  *)
LEMMA TInvWriteChar == TInv /\ WriteChar => TInv'
<1> SUFFICES ASSUME TInv, WriteChar PROVE TInv'
  BY Zenon
<1> DEFINE lines == Appended(Head(out))
<1> USE DEF TInv
<1>1. Head(out) \in Char /\ Tail(out) \in Seq(Char)
  BY DEF WriteChar, TypeOK
<1>2. terminal_lines \in Seq(Line)
  BY Zenon DEF TypeOK, Line
<1>3. /\ lines \in Seq(Line)
      /\ Len(lines) \in {Len(terminal_lines), Len(terminal_lines) + 1}
      /\ \A row \in DOMAIN terminal_lines : Len(lines[row]) >= Len(terminal_lines[row])
      /\ \A row \in DOMAIN lines : 9 * (Len(lines[row]) - 1) < Width
      /\ ~ Wraps(Last(lines))
  BY Zenon, <1>1, <1>2, AppendedLines
<1>4. /\ terminal_lines' = IF Clears(lines) THEN <<<<>>>> ELSE lines
      /\ held' = IF Clears(lines) THEN Abandon(lines) ELSE held
      /\ UNCHANGED <<stdout, kpc, c, index, length, shift_on, ctrl_on, tilda, executed>>
      /\ out' = Tail(out)
      /\ typed' \in {typed, Disturbed}
  BY Zenon DEF WriteChar, modifiers
<1> HIDE DEF lines
<1>5. Len(terminal_lines) \in Nat \ {0} /\ DOMAIN terminal_lines = 1..Len(terminal_lines)
  BY <1>2
<1>6. lines # <<>> /\ DOMAIN lines = 1..Len(lines) /\ Len(lines) \in Nat /\ Len(lines) >= Len(terminal_lines)
  BY <1>3, <1>5
<1>7. <<<<>>>> \in Seq(Line) /\ Fits(<<<<>>>>) /\ <<<<>>>> # <<>>
  BY SizeAssumption DEF Line, Fits, Wraps, Last
<1>8. terminal_lines' \in Seq(Line) /\ terminal_lines' # <<>> /\ Fits(terminal_lines')
  <2>1. CASE Clears(lines)
    BY Zenon, <2>1, <1>4, <1>7
  <2>2. CASE ~ Clears(lines)
    BY Zenon, <2>2, <1>4, <1>3, <1>6 DEF Fits
  <2> QED BY Zenon, <2>1, <2>2
<1>9. held \in [live : BOOLEAN, lines : Seq(Line)]
  BY Zenon DEF TypeOK, Line
<1>10. held' \in [live : BOOLEAN, lines : Seq(Line)]
  <2>1. CASE Clears(lines)
    BY Zenon, <2>1, <1>4, <1>3, <1>9 DEF Abandon
  <2>2. CASE ~ Clears(lines)
    BY Zenon, <2>2, <1>4, <1>9
  <2> QED BY Zenon, <2>1, <2>2
<1>11. TypeOK'
  BY <1>1, <1>4, <1>8, <1>10 DEF TypeOK, Line
<1>12. Held' = IF held.live THEN lines ELSE Held
  <2>1. CASE Clears(lines) /\ held.live
    BY Zenon, <2>1, <1>4 DEF Held, Abandon
  <2>2. CASE Clears(lines) /\ ~ held.live
    BY Zenon, <2>2, <1>4 DEF Held, Abandon
  <2>3. CASE ~ Clears(lines)
    BY Zenon, <2>3, <1>4 DEF Held
  <2> QED BY Zenon, <2>1, <2>2, <2>3, <1>9
<1>13. held.live => Held = terminal_lines
  BY Zenon DEF Held
<1>14. (kpc \in InBranch => index \in 1..Len(Held))'
  BY <1>4, <1>5, <1>6, <1>12, <1>13
<1>15. (kpc = "remove" => length <= Len(HeldLine))'
  <2> SUFFICES ASSUME kpc = "remove" PROVE length <= Len(Held'[index])
    BY Zenon, <1>4 DEF HeldLine
  <2>1. index \in 1..Len(Held) /\ length <= Len(Held[index]) /\ length \in Nat
    BY Zenon DEF InBranch, HeldLine, TypeOK
  <2>2. CASE held.live
    <3>1. index \in DOMAIN terminal_lines /\ length <= Len(terminal_lines[index])
      BY Zenon, <2>1, <2>2, <1>5, <1>13
    <3>2. Len(lines[index]) >= Len(terminal_lines[index])
      BY Zenon, <3>1, <1>3
    <3>3. lines[index] \in Line /\ terminal_lines[index] \in Line
      <4>1. index \in 1..Len(terminal_lines) /\ index \in 1..Len(lines)
        BY <3>1, <1>5, <1>6
      <4>2. lines \in Seq(Line)
        BY Zenon, <1>3
      <4> HIDE DEF TInv
      <4> QED BY <4>1, <4>2, <1>2
    <3>4. Len(lines[index]) \in Nat /\ Len(terminal_lines[index]) \in Nat
      BY <3>3 DEF Line
    <3> QED BY <3>1, <3>2, <3>4, <2>1, <2>2, <1>12
  <2>3. CASE ~ held.live
    BY Zenon, <2>1, <2>3, <1>12
  <2> QED BY Zenon, <2>2, <2>3
<1>16. (kpc = "idle" => ~ held.live)'
  BY Zenon, <1>4, <1>9 DEF Abandon
<1>17. (kpc = "index" /\ ~ held.live => held.lines # <<>> /\ Clears(held.lines))'
  <2>1. CASE Clears(lines) /\ held.live
    BY Zenon, <2>1, <1>4, <1>6 DEF Abandon
  <2>2. CASE ~ (Clears(lines) /\ held.live)
    BY Zenon, <2>2, <1>4, <1>9 DEF Abandon
  <2> QED BY Zenon, <2>1, <2>2
<1>18. (kpc = "putc" => c \in Letters)'
  BY Zenon, <1>4
<1> QED BY Zenon, <1>8, <1>11, <1>14, <1>15, <1>16, <1>17, <1>18

(* Lemma: what musl buffers and writes has its type.                       *)
LEMMA OutputType ==
  ASSUME TInv, NEW m \in Seq(Letters)
  PROVE  /\ Prints(m) => out' \in Seq(Char) /\ stdout' \in Seq(Letters)
         /\ Fwrite(m) => out' \in Seq(Char) /\ stdout' \in Seq(Letters)
<1>1. stdout \in Seq(Letters) /\ <<>> \in Seq(Letters) /\ <<>> \in Seq(Char)
  BY Zenon, EmptySeq DEF TInv, TypeOK
<1>2. stdout \o m \in Seq(Letters)
  BY Zenon, <1>1, ConcatProperties
<1>3. Seq(Letters) \subseteq Seq(Char)
  BY DEF Char
<1>4. stdout \o m \in Seq(Char) /\ <<NL>> \in Seq(Char)
  BY <1>2, <1>3 DEF Char
<1>5. (stdout \o m) \o <<NL>> \in Seq(Char)
  BY Zenon, <1>4, ConcatProperties
<1> QED BY Zenon, <1>1, <1>2, <1>4, <1>5 DEF Prints, Fwrite

(* Lemma: what tasks write does not concern the keyboard task.             *)
LEMMA TInvWrites == TInv /\ (PrintLine \/ IoWrite \/ IoFlush) => TInv'
<1> SUFFICES ASSUME TInv, PrintLine \/ IoWrite \/ IoFlush PROVE TInv'
  BY Zenon
<1>1. /\ UNCHANGED <<terminal_lines, kpc, c, held, index, length, shift_on, ctrl_on, tilda, executed>>
      /\ typed' \in {typed, Disturbed}
  BY Zenon DEF PrintLine, IoWrite, IoFlush, TaskWrites, registers, modifiers
<1>2. out' \in Seq(Char) /\ stdout' \in Seq(Letters)
  <2>1. CASE PrintLine \/ IoWrite
    BY Zenon, <2>1, OutputType, MessagesAssumption DEF PrintLine, IoWrite
  <2>2. CASE IoFlush
    BY <2>2 DEF IoFlush, TInv, TypeOK, Char
  <2> QED BY Zenon, <2>1, <2>2
<1>3. TypeOK'
  BY Zenon, <1>1, <1>2 DEF TInv, TypeOK
<1>4. Held' = Held /\ HeldLine' = HeldLine
  BY Zenon, <1>1 DEF Held, HeldLine
<1> QED BY Zenon, <1>1, <1>3, <1>4 DEF TInv

(* Lemma: what the keyboard task does outside the screen keeps the         *)
(* invariant.                                                              *)
LEMMA TInvKeys ==
  TInv /\ (ShiftKey \/ CtrlKey \/ GraveKey \/ ClearKey \/ CharKey) => TInv'
<1> SUFFICES ASSUME TInv PROVE
      (ShiftKey \/ CtrlKey \/ GraveKey \/ ClearKey \/ CharKey) => TInv'
  BY Zenon
<1> USE DEF TInv
<1>2. ASSUME ShiftKey \/ CtrlKey \/ GraveKey PROVE TInv'
  <2>1. /\ UNCHANGED <<terminal_lines, kpc, c, held, index, length, typed, out, stdout, executed>>
        /\ shift_on' \in {0, 1} /\ ctrl_on' \in {0, 1}
    BY Zenon, <1>2 DEF ShiftKey, CtrlKey, GraveKey, Press, registers, TypeOK
  <2>2. tilda' \in BOOLEAN
    BY Zenon, <1>2 DEF ShiftKey, CtrlKey, GraveKey, TypeOK
  <2>3. TypeOK'
    BY Zenon, <2>1, <2>2 DEF TypeOK
  <2> QED BY Zenon, <2>1, <2>3 DEF Held, HeldLine
<1>3. ASSUME ClearKey PROVE TInv'
  <2>1. /\ UNCHANGED <<kpc, c, held, index, length, out, stdout, executed, shift_on, ctrl_on, tilda>>
        /\ kpc = "idle" /\ terminal_lines' = <<<<>>>> /\ typed' \in {<<>>, Disturbed}
    BY Zenon, <1>3 DEF ClearKey, Press, registers, modifiers
  <2>2. <<<<>>>> \in Seq(Line) /\ Fits(<<<<>>>>) /\ <<<<>>>> # <<>>
    BY SizeAssumption DEF Line, Fits, Wraps, Last
  <2>3. typed' \in Seq(Letters) \cup {Disturbed}
    BY Zenon, <2>1, EmptySeq
  <2>4. TypeOK'
    BY Zenon, <2>1, <2>2, <2>3 DEF TypeOK, Line
  <2> QED BY Zenon, <2>1, <2>2, <2>4 DEF InBranch
<1>4. ASSUME CharKey PROVE TInv'
  <2>1. /\ UNCHANGED <<terminal_lines, held, index, length, out, stdout, executed, typed, shift_on, ctrl_on, tilda>>
        /\ kpc = "idle" /\ kpc' = "table"
    BY Zenon, <1>4 DEF CharKey, Press, modifiers
  <2>2. c' \in Char \cup {Backspace}
    <3>1. ASSUME NEW p \in Pairs PROVE p[shift_on + 1] \in Letters
      <4>1. PICK a \in Letters, b \in Letters : p = <<a, b>>
        BY <3>1, PairsAssumption
      <4>2. shift_on = 0 \/ shift_on = 1
        BY Zenon DEF TypeOK
      <4> QED BY <4>1, <4>2
    <3> QED BY Zenon, <3>1, <1>4 DEF CharKey, Char
  <2>3. TypeOK'
    BY Zenon, <2>1, <2>2 DEF TypeOK
  <2> QED BY Zenon, <2>1, <2>3 DEF InBranch
<1> QED BY Zenon, <1>2, <1>3, <1>4

(* Lemma: looking the last line up.  A table that write() replaced was too *)
(* long for the screen, hence longer than the one whose length is read.    *)
LEMMA TInvLookup == TInv /\ (GetTable \/ GetIndex \/ GetLine) => TInv'
<1> SUFFICES ASSUME TInv PROVE (GetTable \/ GetIndex \/ GetLine) => TInv'
  BY Zenon
<1> USE DEF TInv
<1>0. terminal_lines \in Seq(Line) /\ held \in [live : BOOLEAN, lines : Seq(Line)]
  BY Zenon DEF TypeOK, Line
<1>1. ASSUME GetTable PROVE TInv'
  <2>1. /\ UNCHANGED <<terminal_lines, out, stdout, c, index, length, shift_on, ctrl_on, tilda, executed, typed>>
        /\ held' = [live |-> TRUE, lines |-> <<>>] /\ kpc' = "index"
    BY Zenon, <1>1 DEF GetTable, modifiers
  <2>2. held' \in [live : BOOLEAN, lines : Seq(Line)] /\ held'.live
    BY <2>1
  <2>3. TypeOK'
    BY Zenon, <2>1, <2>2 DEF TypeOK, Line
  <2> QED BY Zenon, <2>1, <2>2, <2>3 DEF InBranch
<1>2. ASSUME GetIndex PROVE TInv'
  <2>1. /\ UNCHANGED <<terminal_lines, out, stdout, c, held, length, shift_on, ctrl_on, tilda, executed, typed>>
        /\ index' = Len(terminal_lines) /\ kpc = "index" /\ kpc' = "line"
    BY Zenon, <1>2 DEF GetIndex, modifiers
  <2>2. Len(terminal_lines) \in Nat \ {0} /\ Len(held.lines) \in Nat
    BY <1>0
  <2>3. Len(terminal_lines) <= Len(Held)
    <3>1. CASE held.live
      BY <3>1, <2>2 DEF Held
    <3>2. CASE ~ held.live
      <4>1. Held = held.lines /\ held.lines # <<>> /\ Clears(held.lines)
        BY Zenon, <3>2, <2>1 DEF Held
      <4>2. Len(held.lines) >= 1
        BY <4>1, <1>0, <2>2
      <4>3. Clears(terminal_lines) => Len(terminal_lines) = 1
        BY Zenon DEF Fits
      <4>4. 15 * (Len(held.lines) + 1) >= Height
        BY Zenon, <4>1 DEF Clears
      <4>5. ~ (15 * (Len(terminal_lines) + 1) >= Height) \/ Len(terminal_lines) = 1
        BY Zenon, <4>3 DEF Clears
      <4> HIDE DEF TInv
      <4>6. Len(terminal_lines) <= Len(held.lines)
        BY Zenon, <4>2, <4>4, <4>5, <2>2, FullIsLonger
      <4> QED BY Zenon, <4>1, <4>6
    <3> QED BY Zenon, <3>1, <3>2
  <2>4. Held' = Held /\ Len(Held) \in Nat
    BY Zenon, <2>1, <2>2 DEF Held
  <2>5. TypeOK'
    BY Zenon, <2>1, <2>2 DEF TypeOK
  <2>6. index' \in 1..Len(Held')
    BY <2>1, <2>2, <2>3, <2>4
  <2> QED BY Zenon, <2>1, <2>5, <2>6
<1>3. ASSUME GetLine PROVE TInv'
  <2>1. /\ UNCHANGED <<terminal_lines, out, stdout, c, held, index, length, shift_on, ctrl_on, tilda, executed, typed>>
        /\ kpc = "line"
        /\ kpc' = CASE c = Backspace -> "length" [] c = NL -> "newline" [] OTHER -> "putc"
    BY Zenon, <1>3 DEF GetLine, registers, modifiers
  <2>2. kpc' \in {"length", "newline", "putc"} /\ (kpc' = "putc" => c \in Letters)
    <3>1. CASE c = Backspace
      BY Zenon, <3>1, <2>1 DEF Backspace, NL
    <3>2. CASE c = NL
      BY Zenon, <3>2, <2>1 DEF Backspace, NL
    <3>3. CASE c # Backspace /\ c # NL
      BY Zenon, <3>3, <2>1 DEF TypeOK, Char
    <3> QED BY Zenon, <3>1, <3>2, <3>3
  <2>3. TypeOK'
    BY Zenon, <2>1, <2>2 DEF TypeOK
  <2> QED BY Zenon, <2>1, <2>2, <2>3 DEF InBranch, Held
<1> QED BY Zenon, <1>1, <1>2, <1>3

(* Lemma: removing a character from a line shortens it and no other.       *)
LEMMA ShorterTable ==
  ASSUME NEW table \in Seq(Line), NEW i \in 1..Len(table), NEW n \in 1..Len(table[i])
  PROVE  LET lines == [table EXCEPT ![i] = Without(@, n)] IN
         /\ lines \in Seq(Line) /\ Len(lines) = Len(table) /\ DOMAIN lines = 1..Len(table)
         /\ \A k \in 1..Len(table) : Len(lines[k]) \in Nat /\ Len(lines[k]) <= Len(table[k])
<1> DEFINE line == table[i]
           before == SubSeq(line, 1, n - 1)
           after == SubSeq(line, n + 1, Len(line))
           short == Without(line, n)
           lines == [table EXCEPT ![i] = short]
<1>1. line \in Line /\ Len(line) \in Nat
  BY DEF Line
<1>2. short = before \o after
  BY Zenon DEF Without
<1>3. n \in 1..Len(line)
  BY Zenon
<1> HIDE DEF line
<1>4. before \in Line /\ Len(before) = n - 1
  BY <1>1, <1>3 DEF Line
<1>5. after \in Line /\ Len(after) = Len(line) - n
  BY <1>1, <1>3 DEF Line
<1> HIDE DEF before, after, short
<1>6. short \in Line /\ Len(short) = Len(before) + Len(after)
  BY Zenon, <1>2, <1>4, <1>5, ConcatLine
<1>7. Len(short) \in Nat /\ Len(short) <= Len(line)
  BY <1>1, <1>3, <1>4, <1>5, <1>6
<1>8. lines \in Seq(Line) /\ Len(lines) = Len(table) /\ DOMAIN lines = 1..Len(table)
  BY <1>6
<1>9. \A k \in 1..Len(table) : lines[k] = IF k = i THEN short ELSE table[k]
  OBVIOUS
<1>10. \A k \in 1..Len(table) : Len(table[k]) \in Nat
  BY DEF Line
<1>11. \A k \in 1..Len(table) : Len(lines[k]) \in Nat /\ Len(lines[k]) <= Len(table[k])
  <2> TAKE k \in 1..Len(table)
  <2>1. CASE k = i
    BY Zenon, <1>7, <1>9, <2>1 DEF line
  <2>2. CASE k # i
    BY <1>9, <1>10, <2>2
  <2> QED BY Zenon, <2>1, <2>2
<1>12. lines = [table EXCEPT ![i] = Without(@, n)]
  BY Zenon DEF short, line
<1> HIDE DEF lines
<1> QED BY Zenon, <1>8, <1>11, <1>12

(* Lemma: Backspace shortens one line and keeps the invariant.             *)
LEMMA TInvBackspace == TInv /\ (GetLength \/ RemoveChar) => TInv'
<1> SUFFICES ASSUME TInv PROVE (GetLength \/ RemoveChar) => TInv'
  BY Zenon
<1> USE DEF TInv
<1>1. terminal_lines \in Seq(Line) /\ held \in [live : BOOLEAN, lines : Seq(Line)]
  BY Zenon DEF TypeOK, Line
<1>2. Held \in Seq(Line)
  BY Zenon, <1>1 DEF Held
<1>3. kpc \in {"length", "remove"} => HeldLine \in Line /\ Len(HeldLine) \in Nat
  BY <1>2 DEF HeldLine, InBranch, Line
<1>4. ASSUME GetLength PROVE TInv'
  <2>1. /\ UNCHANGED <<terminal_lines, out, stdout, c, held, index, shift_on, ctrl_on, tilda, executed, typed>>
        /\ kpc = "length" /\ kpc' = "remove" /\ length' = Len(HeldLine)
    BY Zenon, <1>4 DEF GetLength, modifiers
  <2>2. TypeOK'
    BY Zenon, <2>1, <1>3 DEF TypeOK
  <2>3. Held' = Held /\ HeldLine' = HeldLine
    BY Zenon, <2>1 DEF Held, HeldLine
  <2>4. length' <= Len(HeldLine')
    BY <2>1, <2>3, <1>3
  <2>5. index' \in 1..Len(Held')
    BY Zenon, <2>1, <2>3 DEF InBranch
  <2> QED BY Zenon, <2>1, <2>2, <2>4, <2>5
<1>5. ASSUME RemoveChar PROVE TInv'
  <2> DEFINE line == terminal_lines[index]
             short == Without(line, length)
             lines == [terminal_lines EXCEPT ![index] = short]
  <2>1. /\ UNCHANGED <<out, stdout, shift_on, ctrl_on, tilda, executed>>
        /\ kpc = "remove" /\ kpc' = "idle" /\ c' = NL /\ index' = 0 /\ length' = 0
        /\ held' = NoTable
        /\ terminal_lines' = IF held.live /\ length # 0 THEN lines ELSE terminal_lines
    BY Zenon, <1>5 DEF RemoveChar, Return, modifiers
  <2>2. typed' \in Seq(Letters) \cup {Disturbed}
    <3>1. CASE typed \in {<<>>, Disturbed}
      BY Zenon, <3>1, <1>5 DEF RemoveChar, TypeOK
    <3>2. CASE typed \notin {<<>>, Disturbed}
      <4>1. typed' = WithoutLast(typed)
        BY Zenon, <3>2, <1>5 DEF RemoveChar
      <4>2. typed \in Seq(Letters) /\ Len(typed) \in Nat \ {0}
        BY <3>2 DEF TypeOK
      <4> HIDE DEF TInv
      <4>3. SubSeq(typed, 1, Len(typed) - 1) \in Seq(Letters)
        BY <4>2
      <4> QED BY Zenon, <4>1, <4>3 DEF WithoutLast
    <3> QED BY Zenon, <3>1, <3>2
  <2>3. terminal_lines' \in Seq(Line) /\ terminal_lines' # <<>> /\ Fits(terminal_lines')
    <3>1. CASE ~ (held.live /\ length # 0)
      BY Zenon, <3>1, <2>1, <1>1
    <3>2. CASE held.live /\ length # 0
      <4>1. index \in 1..Len(terminal_lines) /\ length \in 1..Len(line) /\ line \in Line /\ Len(line) \in Nat
        BY <3>2, <2>1, <1>1, <1>3 DEF Held, HeldLine, InBranch, TypeOK
      <4>2. lines = [terminal_lines EXCEPT ![index] = Without(@, length)]
        BY Zenon
      <4> HIDE DEF lines, TInv
      <4>3. lines \in Seq(Line) /\ Len(lines) = Len(terminal_lines) /\ DOMAIN lines = 1..Len(terminal_lines)
        BY <4>1, <4>2, <1>1, ShorterTable
      <4>5. \A row \in 1..Len(terminal_lines) : Len(terminal_lines[row]) \in Nat
        BY <1>1 DEF Line
      <4>6. \A row \in 1..Len(terminal_lines) :
              Len(lines[row]) \in Nat /\ Len(lines[row]) <= Len(terminal_lines[row])
        BY Zenon, <4>1, <4>2, <1>1, ShorterTable
      <4> USE DEF TInv
      <4>7. \A row \in DOMAIN lines : 9 * (Len(lines[row]) - 1) < Width
        BY <4>3, <4>5, <4>6, <1>1, SizeAssumption DEF Fits
      <4>8. ~ Wraps(Last(lines))
        BY <4>1, <4>3, <4>5, <4>6, SizeAssumption DEF Fits, Wraps, Last
      <4>9. Clears(lines) => Len(lines) = 1
        BY Zenon, <4>3 DEF Fits, Clears
      <4>10. lines # <<>>
        BY <4>1, <4>3
      <4> QED BY Zenon, <3>2, <2>1, <4>3, <4>7, <4>8, <4>9, <4>10 DEF Fits
    <3> QED BY Zenon, <3>1, <3>2
  <2>4. NoTable \in [live : BOOLEAN, lines : Seq(Line)] /\ ~ NoTable.live
    BY DEF NoTable
  <2>5. TypeOK'
    BY Zenon, <2>1, <2>2, <2>3, <2>4 DEF TypeOK, Line, Char
  <2> QED BY Zenon, <2>1, <2>3, <2>4, <2>5 DEF InBranch
<1> QED BY Zenon, <1>4, <1>5

(* Lemma: an error that ends the keyboard task keeps the invariant.        *)
LEMMA TInvDies == TInv /\ (RemoveError \/ ReportFails) => TInv'
<1> SUFFICES ASSUME TInv, RemoveError \/ ReportFails PROVE TInv'
  BY Zenon
<1>1. /\ UNCHANGED <<terminal_lines, shift_on, ctrl_on, tilda, executed>>
      /\ kpc' = "dead" /\ c' = NL /\ index' = 0 /\ length' = 0 /\ held' = NoTable
      /\ typed' = Disturbed
      /\ \E m \in Messages : Prints(m)
  BY Zenon DEF RemoveError, ReportFails, Dies, modifiers
<1>2. out' \in Seq(Char) /\ stdout' \in Seq(Letters)
  BY Zenon, <1>1, OutputType, MessagesAssumption
<1>3. NoTable \in [live : BOOLEAN, lines : Seq(Seq(Char))] /\ NL \in Char /\ 0 \in Nat
  BY DEF NoTable, Char
<1>4. TypeOK'
  BY Zenon, <1>1, <1>2, <1>3 DEF TInv, TypeOK
<1> QED BY Zenon, <1>1, <1>4 DEF TInv, InBranch

(* Lemma: printing what was typed, and the shell, keep the invariant.      *)
LEMMA TInvShell ==
  /\ TInv
  /\ PutChar \/ Flush \/ NewLine \/ Concat \/ Load \/ CommandReturns \/ ReportError
  => TInv'
<1> SUFFICES ASSUME TInv PROVE
      PutChar \/ Flush \/ NewLine \/ Concat \/ Load \/ CommandReturns \/ ReportError => TInv'
  BY Zenon
<1> USE DEF TInv
<1>1. stdout \in Seq(Letters) /\ stdout \in Seq(Char) /\ NL \in Char
  BY DEF TypeOK, Char
<1>2. NoTable \in [live : BOOLEAN, lines : Seq(Seq(Char))] /\ ~ NoTable.live
  BY DEF NoTable
<1>3. ASSUME PutChar PROVE TInv'
  <2>1. /\ UNCHANGED <<terminal_lines, c, held, index, length, shift_on, ctrl_on, tilda, executed>>
        /\ kpc = "putc" /\ kpc' = "flush" /\ Fwrite(<<c>>) /\ c \in Letters
        /\ typed' = IF typed = Disturbed THEN typed ELSE Append(typed, c)
    BY Zenon, <1>3 DEF PutChar, registers, modifiers
  <2>2. out' \in Seq(Char) /\ stdout' \in Seq(Letters)
    <3>1. <<c>> \in Seq(Letters)
      BY <2>1
    <3> QED BY Zenon, <2>1, <3>1, OutputType
  <2>3. typed' \in Seq(Letters) \cup {Disturbed}
    BY <2>1 DEF TypeOK
  <2>4. TypeOK'
    BY Zenon, <2>1, <2>2, <2>3 DEF TypeOK
  <2> QED BY Zenon, <2>1, <2>4 DEF InBranch
<1>4. ASSUME Flush PROVE TInv'
  <2>1. /\ UNCHANGED <<terminal_lines, shift_on, ctrl_on, tilda, executed, typed>>
        /\ out' = stdout /\ stdout' = <<>> /\ held' = NoTable
        /\ kpc' = "idle" /\ c' = NL /\ index' = 0 /\ length' = 0
    BY Zenon, <1>4 DEF Flush, Return, modifiers
  <2>2. TypeOK'
    BY <2>1, <1>1, <1>2 DEF TypeOK
  <2> QED BY Zenon, <2>1, <2>2, <1>2 DEF InBranch
<1>5. ASSUME NewLine PROVE TInv'
  <2>1. /\ UNCHANGED <<terminal_lines, c, held, index, length, shift_on, ctrl_on, tilda, executed, typed>>
        /\ out' = Append(stdout, NL) /\ stdout' = <<>> /\ kpc = "newline" /\ kpc' = "concat"
    BY Zenon, <1>5 DEF NewLine, registers, modifiers
  <2>2. out' \in Seq(Char)
    BY <2>1, <1>1
  <2>3. TypeOK'
    BY <2>1, <2>2 DEF TypeOK
  <2> QED BY Zenon, <2>1, <2>3 DEF InBranch, Held
<1>6. ASSUME Concat PROVE TInv'
  <2>1. /\ UNCHANGED <<terminal_lines, out, stdout, c, held, index, length, shift_on, ctrl_on, tilda, typed>>
        /\ kpc = "concat" /\ kpc' = "load" /\ executed' = HeldLine
    BY Zenon, <1>6 DEF Concat, registers, modifiers
  <2>2. Held \in Seq(Line) /\ index \in 1..Len(Held)
    BY Zenon, <2>1 DEF Held, TypeOK, Line, InBranch
  <2>3. HeldLine \in Line
    BY <2>2 DEF HeldLine
  <2>4. TypeOK'
    BY Zenon, <2>1, <2>3 DEF TypeOK, Line
  <2> QED BY Zenon, <2>1, <2>4 DEF InBranch
<1>7. ASSUME Load PROVE TInv'
  <2>1. /\ UNCHANGED <<terminal_lines, out, stdout, c, index, length, shift_on, ctrl_on, tilda>>
        /\ kpc' = "run" /\ held' = NoTable /\ executed' = NoLine /\ typed' = <<>>
    BY Zenon, <1>7 DEF Load, modifiers
  <2>2. TypeOK'
    BY <2>1, <1>2 DEF TypeOK
  <2> QED BY Zenon, <2>1, <2>2 DEF InBranch
<1>8. ASSUME CommandReturns \/ ReportError PROVE TInv'
  <2>1. /\ UNCHANGED <<terminal_lines, shift_on, ctrl_on, tilda>>
        /\ typed' \in {<<>>, Disturbed} /\ held' = NoTable /\ executed' \in {executed, NoLine}
        /\ kpc' = "idle" /\ c' = NL /\ index' = 0 /\ length' = 0
    BY Zenon, <1>8 DEF CommandReturns, ReportError, Return, modifiers
  <2>2. out' \in Seq(Char) /\ stdout' \in Seq(Letters)
    BY Zenon, <1>8, OutputType, MessagesAssumption DEF CommandReturns, ReportError, TypeOK
  <2>3. typed' \in Seq(Letters) \cup {Disturbed}
    BY Zenon, <2>1, EmptySeq
  <2>4. TypeOK'
    BY Zenon, <2>1, <2>2, <2>3, <1>1, <1>2, 0 \in Nat DEF TypeOK
  <2> QED BY Zenon, <2>1, <2>4, <1>2 DEF InBranch
<1> QED BY Zenon, <1>3, <1>4, <1>5, <1>6, <1>7, <1>8

-----------------------------------------------------------------------------
(* Lemma: the invariant is inductive.                                      *)
LEMMA TInvNext == TInv /\ [Next]_vars => TInv'
<1>1. TInv /\ UNCHANGED vars => TInv'
  BY DEF TInv, TypeOK, Held, HeldLine, vars, registers, modifiers
<1>2. TInv /\ Next => TInv'
  BY Zenon, TInvWriteChar, TInvWrites, TInvKeys, TInvLookup, TInvBackspace, TInvDies, TInvShell
  DEF Next
<1> QED BY Zenon, <1>1, <1>2

(* Theorem: the inductive invariant holds in every state.                  *)
THEOREM TInvHolds == Spec => []TInv
BY TInvInit, TInvNext, PTL DEF Spec

(* Theorem: the variables of the terminal have their types.                *)
THEOREM TerminalTypeCorrect == Spec => []TypeOK
<1>1. TInv => TypeOK
  BY Zenon DEF TInv
<1> QED BY TInvHolds, <1>1, PTL

-----------------------------------------------------------------------------
(* What the shell loads.  Until the line is disturbed, the last line on    *)
(* the screen is the command typed so far, except that the character in    *)
(* the buffer, or on its way from there, is still missing.                 *)
Looking == {"index", "line", "length", "remove", "putc", "newline"}

Echoed(s) == \E ch \in Letters : s = <<ch>> /\ typed = Append(Last(terminal_lines), ch)

\* Nothing is on its way to the screen.
Settled == out = <<>> /\ stdout = <<>> /\ Last(terminal_lines) = typed

Undisturbed ==
  /\ kpc = "idle" => \/ Settled
                     \/ stdout = <<>> /\ out # <<>> /\ Last(out) = NL /\ typed = <<>>
                     \/ stdout = <<>> /\ Echoed(out)
  /\ kpc = "table" => Settled
  /\ kpc \in Looking => Settled /\ held.live
  /\ kpc \in Looking \ {"index"} => index = Len(terminal_lines)
  /\ kpc = "remove" => length = Len(typed)
  /\ kpc = "flush" => \/ Settled
                      \/ out = <<>> /\ Echoed(stdout)
                      \/ stdout = <<>> /\ Echoed(out)
  /\ kpc = "concat" =>
       /\ stdout = <<>>
       /\ \/ /\ out = <<NL>> /\ Last(terminal_lines) = typed
             /\ held.live /\ index = Len(terminal_lines)
          \/ out = <<>> /\ HeldLine = Append(typed, NL)
  /\ kpc = "load" => executed = Append(typed, NL)

SInv == typed # Disturbed => Undisturbed

(* Lemma: the last element of a sequence that loses its first.             *)
LEMMA LastOfTail ==
  ASSUME NEW s \in Seq(Char), s # <<>>
  PROVE  /\ Tail(s) = <<>> => Head(s) = Last(s)
         /\ Tail(s) # <<>> => Last(Tail(s)) = Last(s)
<1>1. /\ Len(s) \in Nat \ {0} /\ Tail(s) \in Seq(Char) /\ Len(Tail(s)) = Len(s) - 1
      /\ \A i \in 1..Len(Tail(s)) : Tail(s)[i] = s[i + 1]
  BY Zenon, HeadTailProperties, EmptySeq, LenProperties
<1>2. ASSUME Tail(s) = <<>> PROVE Head(s) = Last(s)
  <2>1. Len(s) = 1
    BY <1>1, <1>2
  <2> QED BY <2>1 DEF Last
<1>3. ASSUME Tail(s) # <<>> PROVE Last(Tail(s)) = Last(s)
  <2>1. Len(Tail(s)) # 0 /\ Len(Tail(s)) \in Nat
    BY Zenon, <1>1, <1>3, EmptySeq
  <2>2. Len(s) - 1 \in 1..Len(Tail(s)) /\ Len(s) - 1 + 1 = Len(s)
    BY <1>1, <2>1
  <2> QED BY Zenon, <1>1, <2>2 DEF Last
<1> QED BY Zenon, <1>2, <1>3

(* Lemma: what print() hands to write() ends with a newline.               *)
LEMMA PrintedEnds ==
  ASSUME NEW s \in Seq(Letters), NEW m \in Messages
  PROVE  s \o m \o <<NL>> # <<>> /\ Last(s \o m \o <<NL>>) = NL
<1>1. s \o m \in Seq(Letters) /\ Len(s \o m) \in Nat
  BY Zenon, MessagesAssumption, ConcatProperties, LenProperties
<1> DEFINE t == s \o m
<1> HIDE DEF t
<1>2. t \in Seq(Char) /\ Len(t) \in Nat
  BY <1>1 DEF t, Char
<1>3. Len(t \o <<NL>>) = Len(t) + 1 /\ (t \o <<NL>>)[Len(t) + 1] = NL
  BY <1>2 DEF Char
<1>4. t \o <<NL>> # <<>>
  BY <1>2, <1>3
<1> QED BY Zenon, <1>3, <1>4 DEF Last, t

(* Lemma: the last line after write() has appended a character.            *)
LEMMA AppendedLast ==
  ASSUME NEW ch \in Char, terminal_lines \in Seq(Line), terminal_lines # <<>>
  PROVE  LET n == Len(terminal_lines)
             line == Append(Last(terminal_lines), ch)
         IN  /\ Appended(ch)[n] = line
             /\ Last(Appended(ch)) = IF ch = NL \/ Wraps(line) THEN <<>> ELSE line
             /\ line # <<>> /\ line \in Line
<1> DEFINE n == Len(terminal_lines)
           line == Append(Last(terminal_lines), ch)
           lines == [terminal_lines EXCEPT ![n] = line]
<1>1. n \in Nat \ {0} /\ Last(terminal_lines) \in Line /\ Last(terminal_lines) = terminal_lines[n]
  BY DEF Last
<1>2. line \in Line /\ line # <<>>
  <2>1. Last(terminal_lines) \in Seq(Char)
    BY Zenon, <1>1 DEF Line
  <2>2. line \in Seq(Char) /\ Len(line) = Len(Last(terminal_lines)) + 1
    BY <2>1
  <2>3. Len(Last(terminal_lines)) \in Nat
    BY <2>1
  <2> HIDE DEF line
  <2>4. line # <<>>
    BY <2>2, <2>3
  <2> QED BY Zenon, <2>2, <2>4 DEF Line
<1>3. lines \in Seq(Line) /\ Len(lines) = n /\ lines[n] = line
  BY <1>1, <1>2
<1>4. Appended(ch) = IF ch = NL \/ Wraps(line) THEN Append(lines, <<>>) ELSE lines
  BY Zenon, <1>1 DEF Appended
<1>5. <<>> \in Line
  BY DEF Line
<1> HIDE DEF lines, line, n
<1>6. /\ Len(Append(lines, <<>>)) = n + 1 /\ Append(lines, <<>>)[n + 1] = <<>>
      /\ Append(lines, <<>>)[n] = line
  BY <1>1, <1>3, <1>5
<1>7. Last(Append(lines, <<>>)) = <<>> /\ Last(lines) = line
  BY Zenon, <1>3, <1>6 DEF Last
<1>8. /\ Appended(ch)[n] = line
      /\ Last(Appended(ch)) = IF ch = NL \/ Wraps(line) THEN <<>> ELSE line
  BY Zenon, <1>3, <1>4, <1>6, <1>7
<1> QED BY Zenon, <1>2, <1>8 DEF n, line

(* Lemma: write() keeps it.                                                *)
LEMMA SInvWriteChar == TInv /\ SInv /\ WriteChar => SInv'
<1> SUFFICES ASSUME TInv, SInv, WriteChar PROVE SInv'
  BY Zenon
<1> DEFINE ch == Head(out)
           lines == Appended(ch)
           n == Len(terminal_lines)
           line == Append(Last(terminal_lines), ch)
           last == Last(terminal_lines')
<1>1. /\ out \in Seq(Char) /\ out # <<>> /\ ch \in Char /\ terminal_lines \in Seq(Line)
      /\ terminal_lines # <<>> /\ held \in [live : BOOLEAN, lines : Seq(Line)]
  BY DEF TInv, TypeOK, WriteChar, Line
<1>2. /\ terminal_lines' = IF Clears(lines) THEN <<<<>>>> ELSE lines
      /\ held' = IF Clears(lines) THEN Abandon(lines) ELSE held
      /\ stdout' = stdout /\ kpc' = kpc /\ index' = index /\ length' = length /\ executed' = executed
      /\ out' = Tail(out)
      /\ typed' = IF typed # <<>> /\ ch # NL /\ last = <<>> THEN Disturbed ELSE typed
  BY Zenon DEF WriteChar
<1>3. /\ lines[n] = line
      /\ Last(lines) = IF ch = NL \/ Wraps(line) THEN <<>> ELSE line
      /\ line # <<>>
  BY Zenon, <1>1, AppendedLast
<1>4. last \in {<<>>, line} /\ (ch = NL => last = <<>>)
  <2>1. Last(<<<<>>>>) = <<>>
    BY Zenon DEF Last
  <2> HIDE DEF lines, line, ch
  <2> QED BY Zenon, <1>2, <1>3, <2>1
<1>5. /\ Tail(out) = <<>> => ch = Last(out)
      /\ Tail(out) # <<>> => Last(Tail(out)) = Last(out)
  BY Zenon, <1>1, LastOfTail
<1>6. held.live => Held'[n] = line
  <2>1. CASE Clears(lines) /\ held.live
    BY Zenon, <2>1, <1>2, <1>3 DEF Held, Abandon
  <2>2. CASE ~ Clears(lines)
    BY Zenon, <2>2, <1>2, <1>3 DEF Held
  <2> QED BY Zenon, <2>1, <2>2
<1> HIDE DEF ch, lines, line, last, n
<1>9. ASSUME typed' # Disturbed PROVE Undisturbed'
  <2>1. typed # Disturbed /\ typed' = typed /\ Undisturbed
    BY Zenon, <1>2, <1>9 DEF SInv
  <2>2. kpc \in {"idle", "flush", "concat", "load", "run", "dead"}
    BY Zenon, <1>1, <2>1 DEF Undisturbed, Settled, Looking, TInv, TypeOK
  <2>3. CASE kpc \in {"idle", "flush"}
    <3>0. stdout = <<>> /\ (Echoed(out) \/ (kpc = "idle" /\ Last(out) = NL /\ typed = <<>>))
      BY Zenon, <1>1, <2>1, <2>3 DEF Undisturbed, Settled
    <3>1. CASE kpc = "idle" /\ Last(out) = NL /\ typed = <<>>
      <4>1. \/ out' = <<>> /\ last = typed'
            \/ out' # <<>> /\ Last(out') = NL /\ typed' = <<>>
        BY Zenon, <1>2, <1>4, <1>5, <2>1, <3>1
      <4> QED BY Zenon, <1>2, <3>0, <3>1, <4>1 DEF Undisturbed, Settled, Looking, last
    <3>2. CASE Echoed(out)
      <4>1. PICK a \in Letters : out = <<a>> /\ typed = Append(Last(terminal_lines), a)
        BY Zenon, <3>2 DEF Echoed
      <4>2. ch = a /\ Tail(out) = <<>> /\ a # NL
        BY <4>1, LettersAssumption DEF ch, NL
      <4>3. typed = line
        BY Zenon, <4>1, <4>2 DEF line
      <4>4. out' = <<>> /\ last = typed'
        BY Zenon, <1>2, <1>3, <1>4, <1>9, <2>1, <4>2, <4>3
      <4>5. Settled'
        BY Zenon, <1>2, <3>0, <4>4 DEF Settled, last
      <4> QED BY Zenon, <1>2, <2>3, <4>5 DEF Undisturbed, Looking
    <3> QED BY Zenon, <3>0, <3>1, <3>2
  <2>4. CASE kpc = "concat"
    <3>1. /\ out = <<NL>> /\ Last(terminal_lines) = typed
          /\ held.live /\ index = n /\ stdout = <<>>
      BY Zenon, <1>1, <2>1, <2>4 DEF Undisturbed, n
    <3>2. ch = NL /\ Tail(out) = <<>> /\ line = Append(typed, NL)
      BY <3>1 DEF ch, line
    <3>3. out' = <<>> /\ HeldLine' = Append(typed', NL)
      BY Zenon, <1>2, <1>6, <2>1, <3>1, <3>2 DEF HeldLine
    <3> QED BY Zenon, <1>2, <2>4, <3>1, <3>3 DEF Undisturbed, Looking
  <2>5. CASE kpc \in {"load", "run", "dead"}
    BY Zenon, <1>2, <2>1, <2>5 DEF Undisturbed, Looking
  <2> QED BY Zenon, <2>2, <2>3, <2>4, <2>5
<1> QED BY Zenon, <1>9 DEF SInv

(* Lemma: what tasks write keeps it.                                       *)
LEMMA SInvWrites == TInv /\ SInv /\ (PrintLine \/ IoWrite \/ IoFlush) => SInv'
<1> SUFFICES ASSUME TInv, SInv, PrintLine \/ IoWrite \/ IoFlush, typed' # Disturbed
             PROVE  Undisturbed'
  BY Zenon DEF SInv
<1>1. /\ out = <<>> /\ kpc' = kpc /\ terminal_lines' = terminal_lines /\ executed' = executed
      /\ typed' = typed /\ Undisturbed
  BY Zenon DEF PrintLine, IoWrite, IoFlush, TaskWrites, SInv
<1>2. CASE Running
  BY Zenon, <1>1, <1>2 DEF Running, Undisturbed, Looking
<1>3. CASE ~ Running /\ PrintLine
  <2>1. PICK m \in Messages : Prints(m)
    BY Zenon, <1>3 DEF PrintLine
  <2>2. out' # <<>> /\ Last(out') = NL /\ stdout' = <<>>
    BY Zenon, <2>1, PrintedEnds DEF Prints, TInv, TypeOK
  <2>3. kpc' = "idle" /\ typed' = <<>>
    BY Zenon, <1>1, <1>3 DEF PrintLine
  <2> QED BY Zenon, <2>2, <2>3 DEF Undisturbed, Looking
<1>4. CASE ~ Running /\ IoFlush
  <2>1. stdout # <<>> /\ out' = stdout /\ stdout' = <<>>
    BY Zenon, <1>4 DEF IoFlush
  <2>2. kpc \in {"flush", "run", "dead"}
    BY Zenon, <1>1, <1>4, <2>1 DEF Running, Undisturbed, Settled, Looking, TInv, TypeOK
  <2>3. kpc = "flush" => Echoed(stdout)
    BY Zenon, <1>1, <2>1 DEF Undisturbed, Settled
  <2>4. kpc = "flush" => Echoed(out)'
    BY Zenon, <1>1, <2>1, <2>3 DEF Echoed
  <2> QED BY Zenon, <1>1, <2>1, <2>2, <2>4 DEF Undisturbed, Looking
<1>5. CASE ~ Running /\ IoWrite
  BY Zenon, <1>5 DEF IoWrite
<1> QED BY Zenon, <1>2, <1>3, <1>4, <1>5

(* Lemma: the keys that only set flags, Ctrl-L and the start of key_pressed *)
(* keep it.                                                                *)
LEMMA SInvKeys ==
  TInv /\ SInv /\ (ShiftKey \/ CtrlKey \/ GraveKey \/ ClearKey \/ CharKey) => SInv'
<1> SUFFICES ASSUME TInv, SInv PROVE
      (ShiftKey \/ CtrlKey \/ GraveKey \/ ClearKey \/ CharKey) => SInv'
  BY Zenon
<1>1. kpc = "idle" /\ out = <<>> /\ typed # Disturbed => Settled
  <2>1. \A ch \in Letters : <<ch>> # <<>>
    OBVIOUS
  <2>2. out = <<>> => ~ Echoed(out)
    BY Zenon, <2>1 DEF Echoed
  <2> QED BY Zenon, <2>2 DEF SInv, Undisturbed
<1>2. ASSUME ShiftKey \/ CtrlKey \/ GraveKey PROVE SInv'
  <2>1. /\ kpc = "idle" /\ out = <<>>
        /\ UNCHANGED <<terminal_lines, kpc, typed, out, stdout>>
    BY Zenon, <1>2 DEF ShiftKey, CtrlKey, GraveKey, Press
  <2> QED BY Zenon, <1>1, <2>1 DEF SInv, Undisturbed, Settled, Looking
<1>3. ASSUME ClearKey PROVE SInv'
  <2>1. /\ kpc' = "idle" /\ out' = <<>> /\ stdout' = stdout
        /\ terminal_lines' = <<<<>>>> /\ typed' = IF stdout = <<>> THEN <<>> ELSE Disturbed
    BY Zenon, <1>3 DEF ClearKey, Press
  <2>2. Last(<<<<>>>>) = <<>>
    BY Zenon DEF Last
  <2> QED BY Zenon, <2>1, <2>2 DEF SInv, Undisturbed, Settled, Looking
<1>4. ASSUME CharKey PROVE SInv'
  <2>1. /\ kpc = "idle" /\ kpc' = "table" /\ out = <<>>
        /\ UNCHANGED <<terminal_lines, typed, out, stdout>>
    BY Zenon, <1>4 DEF CharKey, Press
  <2> QED BY Zenon, <1>1, <2>1 DEF SInv, Undisturbed, Settled, Looking
<1> QED BY Zenon, <1>1, <1>2, <1>3, <1>4

(* Lemma: looking the last line up keeps it.                               *)
LEMMA SInvLookup == TInv /\ SInv /\ (GetTable \/ GetIndex \/ GetLine \/ GetLength) => SInv'
<1> SUFFICES ASSUME TInv, SInv PROVE (GetTable \/ GetIndex \/ GetLine \/ GetLength) => SInv'
  BY Zenon
<1>1. ASSUME GetTable PROVE SInv'
  <2>1. /\ kpc = "table" /\ kpc' = "index" /\ held'.live
        /\ UNCHANGED <<terminal_lines, out, stdout, typed>>
    BY Zenon, <1>1 DEF GetTable
  <2> QED BY Zenon, <2>1 DEF SInv, Undisturbed, Settled, Looking
<1>2. ASSUME GetIndex PROVE SInv'
  <2>1. /\ kpc = "index" /\ kpc' = "line" /\ index' = Len(terminal_lines)
        /\ UNCHANGED <<terminal_lines, out, stdout, held, typed>>
    BY Zenon, <1>2 DEF GetIndex
  <2> QED BY Zenon, <2>1 DEF SInv, Undisturbed, Settled, Looking
<1>3. ASSUME GetLine PROVE SInv'
  <2>1. /\ kpc = "line" /\ kpc' \in {"length", "newline", "putc"}
        /\ UNCHANGED <<terminal_lines, out, stdout, held, index, typed>>
    BY Zenon, <1>3 DEF GetLine, registers
  <2> QED BY Zenon, <2>1 DEF SInv, Undisturbed, Settled, Looking
<1>4. ASSUME GetLength PROVE SInv'
  <2>1. /\ kpc = "length" /\ kpc' = "remove" /\ length' = Len(HeldLine)
        /\ UNCHANGED <<terminal_lines, out, stdout, held, index, typed>>
    BY Zenon, <1>4 DEF GetLength
  <2>2. typed # Disturbed => HeldLine = typed
    BY Zenon, <2>1 DEF SInv, Undisturbed, Settled, Looking, HeldLine, Held, Last
  <2> QED BY Zenon, <2>1, <2>2 DEF SInv, Undisturbed, Settled, Looking
<1> QED BY Zenon, <1>1, <1>2, <1>3, <1>4

(* Lemma: removing the last element of a sequence.                         *)
LEMMA WithoutTheLast ==
  ASSUME NEW s \in Seq(Char), s # <<>>
  PROVE  Without(s, Len(s)) = WithoutLast(s)
<1>1. Len(s) \in Nat \ {0}
  BY Zenon, EmptySeq, LenProperties
<1>2. SubSeq(s, Len(s) + 1, Len(s)) = <<>>
  BY <1>1, SubSeqEmpty
<1>3. SubSeq(s, 1, Len(s) - 1) \in Seq(Char)
  BY <1>1
<1>4. SubSeq(s, 1, Len(s) - 1) \o <<>> = SubSeq(s, 1, Len(s) - 1)
  BY Zenon, <1>3, ConcatEmptySeq
<1> QED BY Zenon, <1>2, <1>4 DEF Without, WithoutLast

(* Lemma: Backspace takes the same character from the line and from the    *)
(* command.                                                                *)
LEMMA SInvRemove == TInv /\ SInv /\ RemoveChar => SInv'
<1> SUFFICES ASSUME TInv, SInv, RemoveChar PROVE SInv'
  BY Zenon
<1>1. /\ kpc = "remove" /\ kpc' = "idle" /\ out' = out /\ out = <<>> /\ stdout' = stdout
      /\ terminal_lines' = IF held.live /\ length # 0
                           THEN [terminal_lines EXCEPT ![index] = Without(@, length)]
                           ELSE terminal_lines
      /\ typed' = IF typed \in {<<>>, Disturbed} THEN typed ELSE WithoutLast(typed)
  BY Zenon DEF RemoveChar, Return
<1>2. ASSUME typed # Disturbed PROVE Last(terminal_lines') = typed' /\ stdout = <<>>
  <2>1. /\ held.live /\ Last(terminal_lines) = typed /\ index = Len(terminal_lines)
        /\ length = Len(typed) /\ stdout = <<>>
    BY Zenon, <1>1, <1>2 DEF SInv, Undisturbed, Settled, Looking
  <2>2. /\ terminal_lines \in Seq(Line) /\ Len(terminal_lines) \in Nat \ {0}
        /\ typed \in Seq(Char)
    BY <1>2 DEF TInv, TypeOK, Line, Char
  <2>3. CASE typed = <<>>
    BY Zenon, <1>1, <2>1, <2>3
  <2>4. CASE typed # <<>>
    <3>1. Len(typed) # 0
      BY Zenon, <2>2, <2>4, EmptySeq
    <3>2. terminal_lines' = [terminal_lines EXCEPT ![index] = Without(typed, length)]
      BY Zenon, <1>1, <2>1, <3>1 DEF Last
    <3>3. Without(typed, length) = WithoutLast(typed) /\ typed' = WithoutLast(typed)
      BY Zenon, <1>1, <1>2, <2>1, <2>2, <2>4, WithoutTheLast
    <3>4. Len(terminal_lines') = Len(terminal_lines) /\ terminal_lines'[index] = WithoutLast(typed)
      BY <2>1, <2>2, <3>2, <3>3
    <3> QED BY Zenon, <2>1, <3>3, <3>4 DEF Last
  <2> QED BY Zenon, <2>3, <2>4
<1>3. typed' # Disturbed => typed # Disturbed
  BY Zenon, <1>1
<1> QED BY Zenon, <1>1, <1>2, <1>3 DEF SInv, Undisturbed, Settled, Looking

(* Lemma: echoing a character, Enter and the shell keep it.                *)
LEMMA SInvShell ==
  /\ TInv /\ SInv
  /\ PutChar \/ Flush \/ NewLine \/ Concat \/ Load \/ CommandReturns \/ ReportError
  => SInv'
<1> SUFFICES ASSUME TInv, SInv PROVE
      PutChar \/ Flush \/ NewLine \/ Concat \/ Load \/ CommandReturns \/ ReportError => SInv'
  BY Zenon
<1>1. ASSUME PutChar PROVE SInv'
  <2>1. /\ kpc = "putc" /\ kpc' = "flush" /\ out = <<>> /\ Fwrite(<<c>>)
        /\ typed' = IF typed = Disturbed THEN typed ELSE Append(typed, c)
        /\ terminal_lines' = terminal_lines /\ c \in Letters
    BY Zenon, <1>1 DEF PutChar, TInv
  <2>2. ASSUME stdout = <<>> PROVE out' = <<>> /\ stdout' = <<c>>
    <3>1. ~ (Len(<<>>) + Len(<<c>>) > BufferSize) /\ <<>> \o <<c>> = <<c>>
      BY BufferAssumption
    <3> QED BY Zenon, <2>1, <2>2, <3>1 DEF Fwrite
  <2>3. ASSUME typed' # Disturbed PROVE out' = <<>> /\ Echoed(stdout)'
    <3>1. typed = Last(terminal_lines) /\ typed' = Append(typed, c) /\ stdout = <<>>
      BY Zenon, <2>1, <2>3 DEF SInv, Undisturbed, Settled, Looking
    <3> QED BY Zenon, <2>1, <2>2, <3>1 DEF Echoed
  <2> QED BY Zenon, <2>1, <2>3 DEF SInv, Undisturbed, Looking
<1>2. ASSUME Flush PROVE SInv'
  <2>1. /\ kpc = "flush" /\ kpc' = "idle" /\ out = <<>> /\ out' = stdout /\ stdout' = <<>>
        /\ UNCHANGED <<terminal_lines, typed>>
    BY Zenon, <1>2 DEF Flush, Return
  <2>2. typed' # Disturbed => Settled \/ Echoed(stdout)
    BY Zenon, <2>1 DEF SInv, Undisturbed, Echoed
  <2>3. typed' # Disturbed => Settled' \/ Echoed(out)'
    BY Zenon, <2>1, <2>2 DEF Settled, Echoed
  <2> QED BY Zenon, <2>1, <2>3 DEF SInv, Undisturbed, Looking
<1>3. ASSUME NewLine PROVE SInv'
  <2>1. /\ kpc = "newline" /\ kpc' = "concat" /\ out' = Append(stdout, NL) /\ stdout' = <<>>
        /\ UNCHANGED <<terminal_lines, held, index, typed>>
    BY Zenon, <1>3 DEF NewLine, registers
  <2>2. ASSUME typed' # Disturbed
        PROVE  /\ out' = <<NL>> /\ Last(terminal_lines) = typed
               /\ held.live /\ index = Len(terminal_lines)
    <3>1. Settled /\ held.live /\ index = Len(terminal_lines)
      BY Zenon, <2>1, <2>2 DEF SInv, Undisturbed, Looking
    <3>2. Append(<<>>, NL) = <<NL>>
      OBVIOUS
    <3> QED BY Zenon, <2>1, <3>1, <3>2 DEF Settled
  <2> QED BY Zenon, <2>1, <2>2 DEF SInv, Undisturbed, Looking
<1>4. ASSUME Concat PROVE SInv'
  <2>1. /\ kpc = "concat" /\ kpc' = "load" /\ out = <<>> /\ executed' = HeldLine
        /\ typed' = typed
    BY Zenon, <1>4 DEF Concat
  <2>2. <<NL>> # <<>>
    BY Zenon
  <2> QED BY Zenon, <2>1, <2>2 DEF SInv, Undisturbed, Looking
<1>5. ASSUME Load PROVE SInv'
  <2>1. kpc' = "run"
    BY Zenon, <1>5 DEF Load
  <2> QED BY Zenon, <2>1 DEF SInv, Undisturbed, Looking
<1>6. ASSUME CommandReturns PROVE SInv'
  <2>1. /\ kpc' = "idle" /\ out' = <<>> /\ UNCHANGED <<terminal_lines, stdout>>
        /\ typed' = IF Last(terminal_lines) = <<>> /\ stdout = <<>> THEN <<>> ELSE Disturbed
    BY Zenon, <1>6 DEF CommandReturns, Return
  <2>2. typed' # Disturbed => Settled'
    BY Zenon, <2>1 DEF Settled
  <2> QED BY Zenon, <2>1, <2>2 DEF SInv, Undisturbed, Looking
<1>7. ASSUME ReportError PROVE SInv'
  <2>1. PICK m \in Messages : Prints(m)
    BY Zenon, <1>7 DEF ReportError
  <2>2. out' # <<>> /\ Last(out') = NL /\ stdout' = <<>>
    BY Zenon, <2>1, PrintedEnds DEF Prints, TInv, TypeOK
  <2>3. kpc' = "idle" /\ typed' = <<>>
    BY Zenon, <1>7 DEF ReportError, Return
  <2> QED BY Zenon, <2>2, <2>3 DEF SInv, Undisturbed, Looking
<1> QED BY Zenon, <1>1, <1>2, <1>3, <1>4, <1>5, <1>6, <1>7

(* Lemma: it holds at the start and every step keeps it.                   *)
LEMMA SInvInductive == (Init => SInv) /\ (TInv /\ SInv /\ [Next]_vars => SInv')
<1>1. ASSUME Init PROVE SInv
  <2>1. kpc = "idle" /\ out = <<>> /\ stdout = <<>> /\ typed = <<>> /\ terminal_lines = <<<<>>>>
    BY Zenon, <1>1 DEF Init
  <2>2. Last(<<<<>>>>) = <<>>
    BY Zenon DEF Last
  <2> QED BY Zenon, <2>1, <2>2 DEF SInv, Undisturbed, Settled, Looking
<1>2. RemoveError \/ ReportFails => SInv'
  BY Zenon DEF RemoveError, ReportFails, Dies, SInv
<1>3. TInv /\ SInv /\ Next => SInv'
  BY ZenonT(60), <1>2, SInvWriteChar, SInvWrites, SInvKeys, SInvLookup, SInvRemove, SInvShell
  DEF Next
<1>4. SInv /\ UNCHANGED vars => SInv'
  BY Zenon DEF SInv, Undisturbed, Settled, Echoed, Held, HeldLine, vars, registers, modifiers
<1> QED BY Zenon, <1>1, <1>3, <1>4

(* Lemma: it holds in every state.                                         *)
LEMMA SInvHolds == Spec => []SInv
BY SInvInductive, TInvHolds, PTL DEF Spec

(* Theorem: key_pressed never finds nil for the last line, and fails only  *)
(* when Backspace meets a line that was empty and is not any more, on a    *)
(* display of any size and whatever is printed while it looks.             *)
THEOREM OnlyEmptyBackspaceKills == Spec => []OnlyEmptyBackspaceFails
<1> DEFINE size == Len(HeldLine)
<1>1. ASSUME TInv PROVE Held \in Seq(Line) /\ (kpc \in InBranch => index \in DOMAIN Held)
  <2>1. Held \in Seq(Line)
    BY Zenon, <1>1 DEF TInv, TypeOK, Held, Line
  <2> QED BY <1>1, <2>1 DEF TInv
<1>2. ASSUME TInv, SInv, kpc = "remove", RemoveFails PROVE length = 0 /\ typed = Disturbed
  <2>1. HeldLine \in Line
    BY <1>1, <1>2 DEF HeldLine, InBranch
  <2>2. size \in Nat /\ length \in Nat /\ length <= size
    BY <1>2, <2>1 DEF TInv, TypeOK, Line
  <2>3. length # size /\ length \notin 1..size + 1
    BY Zenon, <1>2 DEF RemoveFails
  <2>4. typed # Disturbed => length = size
    BY Zenon, <1>2 DEF SInv, Undisturbed, Settled, Looking, HeldLine, Held, Last
  <2> HIDE DEF size
  <2>5. length = 0
    BY <2>2, <2>3
  <2> QED BY Zenon, <2>3, <2>4, <2>5
<1>3. TInv /\ SInv => OnlyEmptyBackspaceFails
  BY Zenon, <1>1, <1>2 DEF OnlyEmptyBackspaceFails, InBranch
<1> QED BY TInvHolds, SInvHolds, <1>3, PTL

(* Theorem: the shell loads exactly the line that was typed, Backspace     *)
(* applied, on a display of any size, unless the line wrapped, another     *)
(* task wrote meanwhile, or the line began behind text that was left       *)
(* without a newline.                                                      *)
THEOREM ShellRunsWhatWasTyped == Spec => []ShellRunsTypedLine
<1>1. SInv => ShellRunsTypedLine
  BY Zenon DEF SInv, Undisturbed, ShellRunsTypedLine
<1> QED BY SInvHolds, <1>1, PTL

-----------------------------------------------------------------------------
(* Lemma: the remainder of a multiple of 4 by a multiple of 4 is one.      *)
LEMMA RemainderOfFours ==
  ASSUME NEW a \in Nat, NEW m \in Nat \ {0}, a % 4 = 0, m % 4 = 0
  PROVE  (a % m) % 4 = 0
<1> DEFINE s == a \div 4
           t == m \div 4
           q == a \div m
           r == a % m
<1>1. s \in Nat /\ t \in Nat /\ a = 4 * s /\ m = 4 * t
  OBVIOUS
<1>2. q \in Nat /\ r \in Nat
  OBVIOUS
<1>3. r = a - m * q
  BY Z3
<1> HIDE DEF s, t, q, r
<1>4. t * q \in Nat /\ m * q = 4 * (t * q)
  BY <1>1, <1>2
<1>5. r = 4 * (s - t * q)
  BY <1>1, <1>2, <1>3, <1>4
<1>6. r % 4 = 0
  BY <1>1, <1>2, <1>4, <1>5
<1> QED BY Zenon, <1>6 DEF r

(* Lemma: the product of two multiples of 4, or of one, is one.            *)
LEMMA ProductOfFours ==
  ASSUME NEW a \in Nat, NEW b \in Nat, b % 4 = 0
  PROVE  a * b \in Nat /\ (a * b) % 4 = 0
<1> DEFINE t == b \div 4
<1>1. t \in Nat /\ b = 4 * t
  OBVIOUS
<1>2. a * t \in Nat /\ a * b = 4 * (a * t)
  BY <1>1
<1> HIDE DEF t
<1> QED BY <1>2

(* Lemma: putpixel stores inside the buffer, or at most three bytes past   *)
(* its end, whatever the coordinates are.                                  *)
LEMMA PixelInBuffer ==
  ASSUME NEW x \in Int, NEW row \in Int
  PROVE  putpixel(x, row) \subseteq 0..display_buffer_len - 1 + (IF FourByteMode THEN 0 ELSE 3)
<1> DEFINE a == (row % U32) * BytesPerScanLine
           b == (x % U32) * bytes_per_pixel
           ptr == (a + b) % U32
<1>1. bytes_per_pixel \in Nat /\ BytesPerScanLine \in Nat /\ U32 \in Nat \ {0} /\ Height \in Nat
  BY ModeAssumption, SizeAssumption
<1>2. row % U32 \in Nat /\ x % U32 \in Nat
  BY <1>1
<1>3. a \in Nat /\ b \in Nat /\ display_buffer_len \in Nat
  BY <1>1, <1>2 DEF display_buffer_len
<1>4. ptr \in Nat
  BY <1>1, <1>3
<1>5. ASSUME FourByteMode PROVE ptr % 4 = 0 /\ display_buffer_len % 4 = 0
  <2>1. bytes_per_pixel % 4 = 0 /\ BytesPerScanLine % 4 = 0 /\ U32 % 4 = 0
    BY <1>5 DEF FourByteMode
  <2>2. a % 4 = 0 /\ b % 4 = 0 /\ display_buffer_len % 4 = 0
    BY Zenon, <1>1, <1>2, <2>1, ProductOfFours DEF display_buffer_len
  <2> HIDE DEF a, b
  <2>3. a + b \in Nat /\ (a + b) % 4 = 0
    BY <1>3, <2>2
  <2> QED BY Zenon, <1>1, <2>1, <2>2, <2>3, RemainderOfFours
<1>6. putpixel(x, row) = IF ptr < display_buffer_len THEN ptr..ptr + 3 ELSE {}
  BY Zenon DEF putpixel, BelowEnd
<1> HIDE DEF a, b, ptr
<1>7. CASE FourByteMode
  BY <1>3, <1>4, <1>5, <1>6, <1>7
<1>8. CASE ~FourByteMode
  BY <1>3, <1>4, <1>6, <1>8
<1> QED BY Zenon, <1>7, <1>8

-----------------------------------------------------------------------------
(* A table on the screen, or one taken off it: when write() cleared it     *)
(* because it was full, its last line is empty.                            *)
Good(lines) ==
  /\ lines \in Seq(Line) /\ lines # <<>>
  /\ \A k \in 1..Len(lines) : 9 * (Len(lines[k]) - 1) < Width
  /\ 9 * Len(lines[Len(lines)]) < Width
  /\ UsableDisplay /\ Len(lines) > 1 => 15 * Len(lines) < Height
  /\ UsableDisplay /\ Clears(lines) => Len(lines[Len(lines)]) = 0

InLoop == dpc \in {"next", "text", "cursor"}

(* The inductive invariant.  The line read last is within the table, and   *)
(* if no line follows it, it was not a full one.                           *)
DInv ==
  /\ TInv
  /\ dpc \in {"border", "tilda", "message", "ipairs", "next", "text", "cursor", "swap"}
  /\ y \in Nat /\ cursor_x \in Nat
  /\ InLoop =>
       /\ dtable \in [live : BOOLEAN, lines : Seq(Line)] /\ Good(DTable)
       /\ y <= Len(DTable)
       /\ y > 0 /\ y = Len(DTable) =>
            9 * cursor_x < Width /\ (UsableDisplay /\ Clears(DTable) => cursor_x = 0)
  /\ dpc = "text" => y > 0 /\ 9 * (cursor_x - 1) < Width
  /\ dpc = "cursor" => y > 0 /\ 9 * cursor_x < Width

(* Lemma: the elements of a table are lines.                               *)
LEMMA LineOf ==
  ASSUME NEW s \in Seq(Line), NEW k \in 1..Len(s)
  PROVE  s[k] \in Line /\ Len(s[k]) \in Nat
<1>1. s[k] \in Line
  OBVIOUS
<1> QED BY <1>1 DEF Line

(* Lemma: what write() leaves on the screen is such a table.               *)
LEMMA GoodScreen ==
  ASSUME NEW lines \in Seq(Line), lines # <<>>, Fits(lines)
  PROVE  Good(lines)
<1> DEFINE n == Len(lines)
<1>1. n \in Nat \ {0} /\ DOMAIN lines = 1..n /\ Len(lines[n]) \in Nat
  BY DEF Line
<1>2. (\A k \in 1..n : 9 * (Len(lines[k]) - 1) < Width) /\ 9 * Len(lines[n]) < Width
  BY <1>1, SizeAssumption DEF Fits, Wraps, Last
<1>3. UsableDisplay => ~Clears(lines)
  BY <1>1, SizeAssumption DEF Fits, Clears, UsableDisplay
<1>4. UsableDisplay => 15 * n < Height
  BY <1>1, <1>3, SizeAssumption DEF Clears
<1> QED BY Zenon, <1>2, <1>3, <1>4 DEF Good

(* Lemma: so is one that write() takes off it.                             *)
LEMMA GoodWhenFull ==
  ASSUME TInv, NEW ch \in Char, Clears(Appended(ch))
  PROVE  Good(Appended(ch)) /\ Len(Appended(ch)) >= Len(terminal_lines)
<1> DEFINE lines == Appended(ch)
           n == Len(terminal_lines)
<1>1. terminal_lines \in Seq(Line) /\ terminal_lines # <<>> /\ Fits(terminal_lines)
  BY Zenon DEF TInv, TypeOK, Line
<1>2. n \in Nat \ {0}
  BY <1>1
<1>3. /\ lines \in Seq(Line) /\ Len(lines) \in {n, n + 1}
      /\ \A k \in DOMAIN lines : 9 * (Len(lines[k]) - 1) < Width
      /\ ~Wraps(Last(lines))
  BY Zenon, <1>1, AppendedLines
<1>4. UsableDisplay => ~Clears(terminal_lines)
  BY <1>1, <1>2, SizeAssumption DEF Fits, Clears, UsableDisplay
<1>5. UsableDisplay => Len(lines) = n + 1 /\ 15 * Len(lines) < Height
  BY <1>2, <1>3, <1>4, SizeAssumption DEF Clears
<1>6. Len(lines) = n + 1 => Len(lines[n + 1]) = 0
  <2> DEFINE line == Append(terminal_lines[n], ch)
             put == [terminal_lines EXCEPT ![n] = line]
  <2>1. terminal_lines[n] \in Line
    BY <1>1, <1>2
  <2>2. line \in Line
    BY <2>1 DEF Line
  <2>3. put \in Seq(Line) /\ Len(put) = n
    BY <1>1, <1>2, <2>2
  <2>4. CASE ch = NL \/ Wraps(line)
    <3>1. lines = Append(put, <<>>)
      BY Zenon, <2>4 DEF Appended
    <3> HIDE DEF put, lines, n
    <3> QED BY <1>2, <2>3, <3>1
  <2>5. CASE ~(ch = NL \/ Wraps(line))
    <3>1. lines = put
      BY Zenon, <2>5 DEF Appended
    <3> HIDE DEF put, lines, n
    <3> QED BY <1>2, <2>3, <3>1
  <2> QED BY Zenon, <2>4, <2>5
<1> HIDE DEF lines
<1> DEFINE m == Len(lines)
           last == lines[m]
<1>7. lines \in Seq(Line)
  BY Zenon, <1>3
<1>8. m \in Nat \ {0} /\ m >= n
  BY <1>2, <1>3
<1>9. lines # <<>> /\ DOMAIN lines = 1..m
  BY <1>7, <1>8
<1>10. Len(last) \in Nat
  BY <1>7, <1>8, LineOf
<1>11. 9 * Len(last) < Width
  <2>1. ~Wraps(last)
    BY Zenon, <1>3 DEF Last
  <2> HIDE DEF last
  <2> QED BY <1>10, <2>1, SizeAssumption DEF Wraps
<1>12. \A k \in 1..m : 9 * (Len(lines[k]) - 1) < Width
  BY Zenon, <1>3, <1>9
<1>13. UsableDisplay => Len(last) = 0 /\ 15 * m < Height
  BY Zenon, <1>5, <1>6
<1>14. Good(lines) /\ m >= n
  BY Zenon, <1>7, <1>8, <1>9, <1>11, <1>12, <1>13 DEF Good
<1> QED BY Zenon, <1>14 DEF lines

(* Lemma: Backspace keeps a table that is off the screen such a table.     *)
LEMMA GoodWhenShortened ==
  ASSUME NEW table \in Seq(Line), Good(table),
         NEW i \in 1..Len(table), NEW n \in 1..Len(table[i])
  PROVE  /\ Good([table EXCEPT ![i] = Without(@, n)])
         /\ Len([table EXCEPT ![i] = Without(@, n)]) = Len(table)
<1> DEFINE lines == [table EXCEPT ![i] = Without(@, n)]
           m == Len(table)
<1>1. /\ lines \in Seq(Line) /\ Len(lines) = m
      /\ \A k \in 1..m : Len(lines[k]) \in Nat /\ Len(lines[k]) <= Len(table[k])
  BY ShorterTable
<1> HIDE DEF lines
<1>2. m \in Nat \ {0} /\ m \in 1..m
  OBVIOUS
<1>3. \A k \in 1..m : Len(table[k]) \in Nat
  BY Zenon, LineOf
<1> HIDE DEF m
<1>4. /\ \A k \in 1..m : 9 * (Len(table[k]) - 1) < Width
      /\ 9 * Len(table[m]) < Width
      /\ UsableDisplay /\ m > 1 => 15 * m < Height
      /\ UsableDisplay /\ Clears(table) => Len(table[m]) = 0
  BY Zenon DEF Good, m
<1>5. \A k \in 1..m : 9 * (Len(lines[k]) - 1) < Width
  <2> TAKE k \in 1..m
  <2>1. /\ Len(lines[k]) \in Nat /\ Len(table[k]) \in Nat /\ Len(lines[k]) <= Len(table[k])
        /\ 9 * (Len(table[k]) - 1) < Width
    BY Zenon, <1>1, <1>3, <1>4
  <2> QED BY <2>1, SizeAssumption
<1>6. 9 * Len(lines[m]) < Width /\ (Len(table[m]) = 0 => Len(lines[m]) = 0)
  <2>1. /\ Len(lines[m]) \in Nat /\ Len(table[m]) \in Nat /\ Len(lines[m]) <= Len(table[m])
        /\ 9 * Len(table[m]) < Width
    BY Zenon, <1>1, <1>2, <1>3, <1>4
  <2> QED BY <2>1, SizeAssumption
<1>7. Clears(lines) => Clears(table)
  <2>1. Len(lines) = Len(table)
    BY Zenon, <1>1 DEF m
  <2> QED BY Zenon, <2>1 DEF Clears
<1>8. lines # <<>>
  BY Zenon, <1>1, <1>2
<1>9. Good(lines)
  BY Zenon, <1>1, <1>4, <1>5, <1>6, <1>7, <1>8 DEF Good
<1> QED BY Zenon, <1>1, <1>9 DEF lines, m

(* Lemma: whatever the other tasks do, the table that draw_terminal goes   *)
(* through stays such a table and loses no line.                           *)
LEMMA TableStep ==
  ASSUME DInv, OtherTask, InLoop
  PROVE  /\ Good(DTable') /\ Len(DTable') >= Len(DTable)
         /\ dtable' \in [live : BOOLEAN, lines : Seq(Line)]
<1>1. /\ TInv /\ dtable \in [live : BOOLEAN, lines : Seq(Line)] /\ Good(DTable)
      /\ terminal_lines \in Seq(Line) /\ held \in [live : BOOLEAN, lines : Seq(Line)]
  BY Zenon DEF DInv, TInv, TypeOK, Line
<1>2. TInv'
  <2>1. Next
    BY Zenon DEF OtherTask, Next
  <2> QED BY Zenon, <1>1, <2>1, TInvNext
<1>3. Good(terminal_lines')
  <2>1. terminal_lines' \in Seq(Line) /\ terminal_lines' # <<>> /\ Fits(terminal_lines')
    BY Zenon, <1>2 DEF TInv, TypeOK, Line
  <2> QED BY Zenon, <2>1, GoodScreen
<1>4. DTable \in Seq(Line) /\ Len(DTable) \in Nat /\ Len(terminal_lines) \in Nat
  BY <1>1 DEF DTable
<1>5. ASSUME terminal_lines' = terminal_lines, dtable' = dtable
      PROVE  Good(DTable') /\ Len(DTable') >= Len(DTable)
  <2>1. DTable' = DTable
    BY Zenon, <1>5 DEF DTable
  <2> QED BY <1>1, <1>4, <2>1
<1>6. ASSUME WriteChar,
             dtable' = LET lines == Appended(Head(out)) IN
                       IF Clears(lines) THEN TakenOff(lines) ELSE dtable
      PROVE  /\ Good(DTable') /\ Len(DTable') >= Len(DTable)
             /\ dtable' \in [live : BOOLEAN, lines : Seq(Line)]
  <2> DEFINE lines == Appended(Head(out))
  <2>1. Head(out) \in Char
    BY <1>1, <1>6 DEF WriteChar, TInv, TypeOK
  <2>2. terminal_lines' = IF Clears(lines) THEN <<<<>>>> ELSE lines
    BY Zenon, <1>6 DEF WriteChar
  <2>3. lines \in Seq(Line) /\ Len(lines) \in Nat /\ Len(lines) >= Len(terminal_lines)
    <3>1. terminal_lines # <<>> /\ Fits(terminal_lines)
      BY Zenon, <1>1 DEF TInv
    <3>2. lines \in Seq(Line) /\ Len(lines) \in {Len(terminal_lines), Len(terminal_lines) + 1}
      BY Zenon, <1>1, <2>1, <3>1, AppendedLines
    <3> QED BY <1>4, <3>2
  <2>4. Clears(lines) => Good(lines)
    BY Zenon, <1>1, <2>1, GoodWhenFull
  <2>5. dtable' = IF Clears(lines) THEN TakenOff(lines) ELSE dtable
    BY Zenon, <1>6
  <2> HIDE DEF lines
  <2>6. CASE ~dtable.live
    <3>1. dtable' = dtable
      BY Zenon, <2>5, <2>6 DEF TakenOff
    <3>2. DTable' = DTable
      BY Zenon, <2>6, <3>1 DEF DTable
    <3> QED BY <1>1, <1>4, <3>1, <3>2
  <2>7. CASE dtable.live /\ ~Clears(lines)
    <3>1. dtable' = dtable /\ DTable' = terminal_lines' /\ DTable = terminal_lines /\ terminal_lines' = lines
      BY Zenon, <2>2, <2>5, <2>7 DEF DTable
    <3> QED BY Zenon, <1>1, <1>3, <2>3, <3>1
  <2>8. CASE dtable.live /\ Clears(lines)
    <3>1. dtable' = [live |-> FALSE, lines |-> lines]
      BY Zenon, <2>5, <2>8 DEF TakenOff
    <3>2. dtable' \in [live : BOOLEAN, lines : Seq(Line)] /\ DTable' = lines
      BY Zenon, <2>3, <3>1 DEF DTable
    <3>3. DTable = terminal_lines
      BY Zenon, <2>8 DEF DTable
    <3> QED BY Zenon, <2>3, <2>4, <2>8, <3>2, <3>3
  <2> QED BY Zenon, <2>6, <2>7, <2>8
<1>7. ASSUME ClearKey, dtable' = TakenOff(terminal_lines)
      PROVE  /\ Good(DTable') /\ Len(DTable') >= Len(DTable)
             /\ dtable' \in [live : BOOLEAN, lines : Seq(Line)]
  <2>1. CASE ~dtable.live
    <3>1. dtable' = dtable
      BY Zenon, <1>7, <2>1 DEF TakenOff
    <3>2. DTable' = DTable
      BY Zenon, <2>1, <3>1 DEF DTable
    <3> QED BY <1>1, <1>4, <3>1, <3>2
  <2>2. CASE dtable.live
    <3>1. dtable' = [live |-> FALSE, lines |-> terminal_lines]
      BY Zenon, <1>7, <2>2 DEF TakenOff
    <3>2. dtable' \in [live : BOOLEAN, lines : Seq(Line)] /\ DTable' = terminal_lines
      BY Zenon, <1>1, <3>1 DEF DTable
    <3>3. DTable = terminal_lines
      BY Zenon, <2>2 DEF DTable
    <3> QED BY <1>1, <1>4, <3>2, <3>3
  <2> QED BY Zenon, <2>1, <2>2
<1>8. ASSUME RemoveChar, dtable' \in Shortened
      PROVE  /\ Good(DTable') /\ Len(DTable') >= Len(DTable)
             /\ dtable' \in [live : BOOLEAN, lines : Seq(Line)]
  <2>1. index \in 1..Len(Held) /\ length \in Nat /\ length <= Len(HeldLine)
    BY Zenon, <1>1, <1>8 DEF RemoveChar, TInv, InBranch, TypeOK
  <2>2. CASE dtable' = dtable /\ ~dtable.live
    <3>1. DTable' = DTable
      BY Zenon, <2>2 DEF DTable
    <3> QED BY <1>1, <1>4, <2>2, <3>1
  <2>3. CASE dtable' = dtable /\ dtable.live
    <3>1. DTable' = terminal_lines' /\ DTable = terminal_lines
      BY Zenon, <2>3 DEF DTable
    <3>2. Len(terminal_lines') = Len(terminal_lines)
      <4>1. CASE ~(held.live /\ length # 0)
        BY Zenon, <1>8, <4>1 DEF RemoveChar
      <4>2. CASE held.live /\ length # 0
        <5>1. terminal_lines' = [terminal_lines EXCEPT ![index] = Without(@, length)]
          BY Zenon, <1>8, <4>2 DEF RemoveChar
        <5>2. Held = terminal_lines /\ index \in 1..Len(terminal_lines) /\ length \in 1..Len(terminal_lines[index])
          BY <2>1, <4>2 DEF Held, HeldLine
        <5> QED BY Zenon, <1>1, <5>1, <5>2, ShorterTable
      <4> QED BY Zenon, <4>1, <4>2
    <3> QED BY <1>1, <1>3, <1>4, <2>3, <3>1, <3>2
  <2>4. CASE dtable' # dtable
    <3>1. /\ ~held.live /\ length # 0 /\ ~dtable.live /\ dtable.lines = held.lines
          /\ dtable' = [dtable EXCEPT !.lines[index] = Without(@, length)]
      BY Zenon, <1>8, <2>4 DEF Shortened
    <3>2. DTable = dtable.lines /\ Held = dtable.lines
      BY Zenon, <3>1 DEF DTable, Held
    <3>3. dtable.lines \in Seq(Line) /\ index \in 1..Len(dtable.lines) /\ length \in 1..Len(dtable.lines[index])
      BY <1>1, <2>1, <3>1, <3>2 DEF HeldLine
    <3>4. /\ Good([dtable.lines EXCEPT ![index] = Without(@, length)])
          /\ Len([dtable.lines EXCEPT ![index] = Without(@, length)]) = Len(dtable.lines)
      BY Zenon, <1>1, <3>2, <3>3, GoodWhenShortened
    <3>5. dtable' = [live |-> FALSE, lines |-> [dtable.lines EXCEPT ![index] = Without(@, length)]]
      BY Zenon, <1>1, <3>1
    <3>6. DTable' = [dtable.lines EXCEPT ![index] = Without(@, length)]
      BY Zenon, <3>5 DEF DTable
    <3>7. [dtable.lines EXCEPT ![index] = Without(@, length)] \in Seq(Line)
      BY Zenon, <3>4 DEF Good
    <3> QED BY <1>4, <3>2, <3>4, <3>5, <3>6, <3>7
  <2> QED BY Zenon, <1>1, <2>2, <2>3, <2>4
<1>9. ASSUME dtable' = dtable,
             \/ PrintLine \/ IoWrite \/ IoFlush
             \/ ShiftKey \/ CtrlKey \/ GraveKey \/ CharKey
             \/ GetTable \/ GetIndex \/ GetLine \/ GetLength \/ RemoveError
             \/ PutChar \/ Flush \/ NewLine \/ Concat
             \/ Load \/ CommandReturns \/ ReportError \/ ReportFails
      PROVE  terminal_lines' = terminal_lines
  BY Zenon, <1>9 DEF PrintLine, IoWrite, IoFlush, TaskWrites, ShiftKey, CtrlKey, GraveKey, CharKey,
     Press, GetTable, GetIndex, GetLine, GetLength, RemoveError, PutChar, Flush, NewLine, Concat,
     Load, CommandReturns, ReportError, ReportFails
<1> QED BY ZenonT(60), <1>1, <1>5, <1>6, <1>7, <1>8, <1>9 DEF OtherTask

-----------------------------------------------------------------------------
(* Lemma: the invariant holds at the start.                                *)
LEMMA DInvInit == DisplayInit => DInv
<1> SUFFICES ASSUME DisplayInit PROVE DInv
  BY Zenon
<1>1. TInv
  BY Zenon, TInvInit DEF DisplayInit
<1> QED BY Zenon, <1>1 DEF DisplayInit, DInv, InLoop

(* Lemma: the other tasks keep it.                                         *)
LEMMA DInvOther == DInv /\ OtherTask => DInv'
<1> SUFFICES ASSUME DInv, OtherTask PROVE DInv'
  BY Zenon
<1>1. TInv' /\ UNCHANGED <<dpc, y, cursor_x>>
  <2>1. Next
    BY Zenon DEF OtherTask, Next
  <2> QED BY Zenon, <2>1, TInvNext DEF DInv, OtherTask
<1>2. CASE InLoop
  <2>1. /\ Good(DTable') /\ Len(DTable') >= Len(DTable)
        /\ dtable' \in [live : BOOLEAN, lines : Seq(Line)]
    BY Zenon, <1>2, TableStep
  <2>2. DTable \in Seq(Line) /\ DTable' \in Seq(Line) /\ y \in Nat /\ y <= Len(DTable)
    BY Zenon, <1>2, <2>1 DEF DInv, Good
  <2>3. Len(DTable) \in Nat /\ Len(DTable') \in Nat
    BY <2>2
  <2>4. y <= Len(DTable')
    BY <2>1, <2>2, <2>3
  <2>5. ASSUME y > 0, y = Len(DTable')
        PROVE  9 * cursor_x < Width /\ (UsableDisplay /\ Clears(DTable') => cursor_x = 0)
    <3>1. y = Len(DTable)
      BY <2>1, <2>2, <2>3, <2>5
    <3>2. Clears(DTable') => Clears(DTable)
      BY Zenon, <2>5, <3>1 DEF Clears
    <3> QED BY Zenon, <1>2, <2>5, <3>1, <3>2 DEF DInv
  <2> QED BY Zenon, <1>1, <2>1, <2>4, <2>5 DEF DInv, InLoop
<1>3. CASE ~InLoop
  BY Zenon, <1>1, <1>3 DEF DInv, InLoop
<1> QED BY Zenon, <1>2, <1>3

(* Lemma: display_task keeps it.                                           *)
LEMMA DInvTask == DInv /\ DisplayTask => DInv'
<1> SUFFICES ASSUME DInv PROVE DisplayTask => DInv'
  BY Zenon
<1>1. ASSUME UNCHANGED vars PROVE TInv' /\ terminal_lines' = terminal_lines
  BY Zenon, <1>1, TInvNext DEF DInv, vars
<1>2. terminal_lines \in Seq(Line) /\ Len(terminal_lines) \in Nat /\ Good(terminal_lines)
  <2>1. terminal_lines \in Seq(Line) /\ terminal_lines # <<>> /\ Fits(terminal_lines)
    BY Zenon DEF DInv, TInv, TypeOK, Line
  <2> QED BY <2>1, GoodScreen
<1>3. ASSUME DrawBorder \/ DrawTilda \/ DrawMessage \/ SwapBuffers PROVE DInv'
  <2>1. UNCHANGED vars /\ dpc' \in {"tilda", "message", "ipairs", "border"}
    BY Zenon, <1>3 DEF DrawBorder, DrawTilda, DrawMessage, SwapBuffers, Turn
  <2>2. y' \in Nat /\ cursor_x' \in Nat
    BY <1>3 DEF DInv, DrawBorder, DrawTilda, DrawMessage, SwapBuffers
  <2> QED BY Zenon, <1>1, <2>1, <2>2 DEF DInv, InLoop
<1>4. ASSUME Ipairs PROVE DInv'
  <2>1. /\ UNCHANGED vars /\ dpc' = "next" /\ y' = 0 /\ cursor_x' = 0
        /\ dtable' = [live |-> TRUE, lines |-> <<>>]
    BY Zenon, <1>4 DEF Ipairs, Turn, CurrentTable
  <2>2. dtable' \in [live : BOOLEAN, lines : Seq(Line)]
    BY <2>1
  <2>3. DTable' = terminal_lines
    BY Zenon, <1>1, <2>1 DEF DTable
  <2> QED BY <1>1, <1>2, <2>1, <2>2, <2>3 DEF DInv, InLoop
<1>5. ASSUME DrawText \/ DrawCursor PROVE DInv'
  <2>1. UNCHANGED <<vars, dtable, y, cursor_x>>
    BY Zenon, <1>5 DEF DrawText, DrawCursor, Turn
  <2>2. (dpc = "text" /\ dpc' = "next") \/ dpc' = "swap"
    BY Zenon, <1>5 DEF DrawText, DrawCursor, Turn
  <2>3. DTable' = DTable
    BY Zenon, <1>1, <2>1 DEF DTable
  <2> QED BY Zenon, <1>1, <2>1, <2>2, <2>3 DEF DInv, InLoop
<1>6. ASSUME Concatenate PROVE DInv'
  <2>1. UNCHANGED vars /\ dtable' = dtable /\ dpc = "next"
    BY Zenon, <1>6 DEF Concatenate, Turn
  <2>2. DTable' = DTable
    BY Zenon, <1>1, <2>1 DEF DTable
  <2>3. /\ dtable \in [live : BOOLEAN, lines : Seq(Line)] /\ Good(DTable) /\ DTable \in Seq(Line)
        /\ y \in Nat /\ cursor_x \in Nat /\ y <= Len(DTable)
    BY Zenon, <2>1 DEF DInv, InLoop, Good
  <2>4. Len(DTable) \in Nat \ {0}
    BY <2>3 DEF Good
  <2>5. CASE y < Len(DTable)
    <3> DEFINE z == y + 1
    <3>1. y' = z /\ cursor_x' = Len(DTable[z]) /\ dpc' = "text"
      BY Zenon, <1>6, <2>5 DEF Concatenate, NextLine
    <3>2. z \in 1..Len(DTable)
      BY <2>3, <2>4, <2>5
    <3> HIDE DEF z
    <3>3. Len(DTable[z]) \in Nat
      BY Zenon, <2>3, <3>2, LineOf
    <3>4. 9 * (Len(DTable[z]) - 1) < Width
      BY Zenon, <2>3, <3>2 DEF Good
    <3>5. ASSUME z = Len(DTable)
          PROVE  9 * Len(DTable[z]) < Width /\ (UsableDisplay /\ Clears(DTable) => Len(DTable[z]) = 0)
      BY Zenon, <2>3, <3>5 DEF Good
    <3>6. z \in Nat /\ z > 0 /\ z <= Len(DTable)
      BY <2>4, <3>2
    <3> QED BY Zenon, <1>1, <2>1, <2>2, <2>3, <3>1, <3>3, <3>4, <3>5, <3>6 DEF DInv, InLoop
  <2>6. CASE ~(y < Len(DTable))
    <3>1. dpc' = "cursor" /\ y' = y /\ cursor_x' = cursor_x
      BY Zenon, <1>6, <2>6 DEF Concatenate
    <3>2. y = Len(DTable) /\ y > 0
      BY <2>3, <2>4, <2>6
    <3>3. 9 * cursor_x < Width /\ (UsableDisplay /\ Clears(DTable) => cursor_x = 0)
      BY Zenon, <2>1, <3>2 DEF DInv, InLoop
    <3> QED BY Zenon, <1>1, <2>1, <2>2, <2>3, <3>1, <3>2, <3>3 DEF DInv, InLoop
  <2> QED BY Zenon, <2>5, <2>6
<1> QED BY Zenon, <1>3, <1>4, <1>5, <1>6 DEF DisplayTask

(* Theorem: the inductive invariant holds in every state.                  *)
THEOREM DInvHolds == DisplaySpec => []DInv
<1>1. DInv /\ UNCHANGED all_vars => DInv'
  <2> SUFFICES ASSUME DInv, UNCHANGED all_vars PROVE DInv'
    BY Zenon
  <2>1. UNCHANGED <<vars, dpc, dtable, y, cursor_x>>
    BY Zenon DEF all_vars, display_vars
  <2>2. TInv' /\ terminal_lines' = terminal_lines
    BY Zenon, <2>1, TInvNext DEF DInv, vars
  <2>3. DTable' = DTable
    BY Zenon, <2>1, <2>2 DEF DTable
  <2> QED BY Zenon, <2>1, <2>2, <2>3 DEF DInv, InLoop
<1>2. DInv /\ [DisplayNext]_all_vars => DInv'
  BY Zenon, <1>1, DInvTask, DInvOther DEF DisplayNext
<1> QED BY DInvInit, <1>2, PTL DEF DisplaySpec

(* Theorem: display_task draws inside the display, except for the cursor   *)
(* of a table that write() cleared under it, on every display that is      *)
(* large enough and whatever is printed and typed meanwhile.               *)
THEOREM OnDisplayHolds == DisplaySpec => []OnDisplay
<1>1. DInv => OnDisplay
  <2> SUFFICES ASSUME DInv, UsableDisplay, NEW box \in Drawing
               PROVE  \/ Inside(box)
                      \/ dpc = "message" /\ (Width < 288 \/ Height < 163)
                      \/ /\ dpc = "cursor" /\ ~ dtable.live /\ Clears(dtable.lines)
                         /\ 0 <= box.left /\ box.right < Width /\ box.top < Height
    BY Zenon DEF OnDisplay
  <2>1. Width \in Nat /\ Height \in Nat /\ Width >= 165 /\ Height > 30
    BY Zenon, SizeAssumption DEF UsableDisplay
  <2>2. CASE dpc \in {"border", "tilda"}
    BY <2>1, <2>2 DEF Drawing, rectangle, Inside
  <2>3. CASE dpc = "message"
    <3>1. PICK n \in 30..36 : box = Message(n)
      BY Zenon, <2>3 DEF Drawing, MessageLengths
    <3> QED BY <2>1, <2>3, <3>1 DEF Message, rectangle, Inside, SpaceWidth, GlyphHeight
  <2>4. ASSUME InLoop
        PROVE  /\ y \in Nat /\ cursor_x \in Nat /\ Len(DTable) \in Nat \ {0} /\ y <= Len(DTable)
               /\ Len(DTable) > 1 => 15 * Len(DTable) < Height
    <3>1. DTable \in Seq(Line) /\ DTable # <<>>
      BY Zenon, <2>4 DEF DInv, Good
    <3>2. Len(DTable) \in Nat \ {0}
      BY <3>1
    <3> QED BY Zenon, <2>4, <3>2 DEF DInv, Good
  <2>5. ASSUME InLoop, ~Clears(DTable) PROVE 15 * y + 13 < Height
    BY <2>1, <2>4, <2>5 DEF Clears
  <2>6. CASE dpc = "text"
    <3>1. box = Text /\ cursor_x # 0 /\ InLoop
      BY Zenon, <2>6 DEF Drawing, InLoop
    <3>2. y > 0 /\ 9 * (cursor_x - 1) < Width
      BY Zenon, <2>6 DEF DInv
    <3>3. 15 * y + 13 < Height
      <4>1. CASE y < Len(DTable)
        BY <2>1, <2>4, <3>1, <3>2, <4>1
      <4>2. CASE y = Len(DTable)
        <5>1. ~Clears(DTable)
          BY Zenon, <3>1, <3>2, <4>2 DEF DInv
        <5> QED BY Zenon, <2>5, <3>1, <5>1
      <4> QED BY <2>4, <3>1, <4>1, <4>2
    <3>4. /\ box.left = 10 /\ box.right = 10 + (8 * (cursor_x - 1) + 10 - 1)
          /\ box.top = 15 * y /\ box.bottom = 15 * y + (13 - 1)
      BY Zenon, <3>1 DEF Text, rectangle, GlyphWidth, GlyphHeight
    <3>5. y \in Nat /\ cursor_x \in Nat
      BY Zenon, <2>4, <3>1
    <3>6. box.right < Width /\ 0 <= box.top /\ box.bottom < Height
      BY <2>1, <3>2, <3>3, <3>4, <3>5
    <3> QED BY <3>4, <3>6 DEF Inside
  <2>7. CASE dpc = "cursor"
    <3>1. box = Cursor /\ InLoop
      BY Zenon, <2>7 DEF Drawing, InLoop
    <3>2. y > 0 /\ 9 * cursor_x < Width
      BY Zenon, <2>7 DEF DInv
    <3>0. /\ box.left = cursor_x * 8 + 10 /\ box.right = cursor_x * 8 + 10 + 1
          /\ box.top = y * 15 - 2 /\ box.bottom = y * 15 - 2 + 14
      BY Zenon, <3>1 DEF Cursor, rectangle
    <3>3. 0 <= box.left /\ box.right < Width /\ 0 <= box.top /\ box.top < Height
      <4>1. y \in Nat /\ cursor_x \in Nat
        BY Zenon, <2>4, <3>1
      <4>2. y * 15 - 2 < Height
        <5> DEFINE n == Len(DTable)
        <5>1. n \in Nat \ {0} /\ y <= n /\ (n > 1 => 15 * n < Height)
          BY Zenon, <2>4, <3>1
        <5> HIDE DEF n
        <5> QED BY <2>1, <4>1, <5>1
      <4> QED BY <2>1, <3>0, <3>2, <4>1, <4>2
    <3>4. CASE ~Clears(DTable)
      <4>1. 15 * y + 13 < Height /\ y \in Nat
        BY Zenon, <2>4, <2>5, <3>1, <3>4
      <4>2. box.bottom < Height
        BY <2>1, <3>0, <4>1
      <4> QED BY Zenon, <3>3, <4>2 DEF Inside
    <3>5. CASE Clears(DTable) /\ dtable.live
      <4>1. DTable = terminal_lines /\ Fits(terminal_lines)
        BY Zenon, <3>5 DEF DTable, DInv, TInv
      <4>2. Len(DTable) = 1
        BY Zenon, <3>5, <4>1 DEF Fits
      <4> QED BY <2>1, <2>4, <3>1, <3>5, <4>2 DEF Clears
    <3>6. CASE Clears(DTable) /\ ~dtable.live
      BY Zenon, <2>7, <3>3, <3>6 DEF DTable
    <3> QED BY Zenon, <3>4, <3>5, <3>6
  <2> QED BY Zenon, <2>2, <2>3, <2>6, <2>7 DEF Drawing
<1> QED BY DInvHolds, <1>1, PTL

(* Theorem: no pixel that any task draws is stored outside display_buffer, *)
(* on a display of any size, in every mode of four bytes a pixel.          *)
THEOREM PixelsInBufferHolds == DisplaySpec => []PixelsInBuffer
<1>1. DInv => PixelsInBuffer
  <2> SUFFICES ASSUME DInv, NEW box \in Drawing \cup DemoRectangles
               PROVE  {box.left, box.right, box.top, box.bottom} \subseteq Int
    BY Zenon, PixelInBuffer DEF PixelsInBuffer
  <2>1. Width \in Int /\ Height \in Int /\ y \in Int /\ cursor_x \in Int
    BY SizeAssumption DEF DInv
  <2>2. ASSUME NEW x \in Int, NEW row \in Int, NEW width \in Int, NEW height \in Int,
               box = rectangle(x, row, width, height)
        PROVE  {box.left, box.right, box.top, box.bottom} \subseteq Int
    BY <2>2 DEF rectangle
  <2>3. CASE box \in DemoRectangles
    BY <2>1, <2>2, <2>3 DEF DemoRectangles
  <2>4. CASE dpc = "message" /\ box \in Drawing
    <3>1. PICK n \in 30..36 : box = Message(n)
      BY Zenon, <2>4 DEF Drawing, MessageLengths
    <3> QED BY <2>1, <2>2, <3>1 DEF Message, SpaceWidth, GlyphHeight
  <2>5. CASE dpc # "message" /\ box \in Drawing
    <3>1. \/ box \in {rectangle(0, 0, Width - 1, Height - 1), rectangle(4, 4, Width - 8, Height - 8)}
          \/ box \in {Text, Cursor}
      BY Zenon, <2>5 DEF Drawing
    <3> QED BY <2>1, <2>2, <3>1 DEF Text, Cursor, GlyphWidth, GlyphHeight
  <2> QED BY Zenon, <2>3, <2>4, <2>5
<1> QED BY DInvHolds, <1>1, PTL

=============================================================================
