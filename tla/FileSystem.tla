----------------------------- MODULE FileSystem -----------------------------
(***************************************************************************)
(* The in-memory file system of luakernel.lua and its two ways in.         *)
(*                                                                         *)
(* System calls: handle_syscall turns open, lseek, read and write into     *)
(* calls of the Lua functions of the same names, on the main Lua state,    *)
(* which has no hook, so each system call is one step.  A descriptor       *)
(* number is a reference into the Lua registry.  An error in the Lua       *)
(* function unwinds to the pcall of main() and ends the kernel.            *)
(*                                                                         *)
(* Direct calls: open and write are globals, which a task may call itself; *)
(* there the count hook may let other tasks run between two instructions.  *)
(* One such task is modelled, with a descriptor table of its own.          *)
(***************************************************************************)
EXTENDS Integers, Sequences

CONSTANTS
  Devices,   \* <<"/dev/null", "/dev/urandom">>
  Names,     \* the other path names in use
  Bytes,
  Buffers,   \* strings written in one call
  Offsets,   \* offsets given to lseek
  Counts,    \* counts given to read
  MaxSize,   \* bound: length of a file
  MaxPos,    \* bound: positions, in both directions
  MaxOpens   \* bound: calls of open

Paths == {Devices[i] : i \in DOMAIN Devices} \cup Names

ASSUME PathsAssumption ==
  /\ Devices \in Seq(STRING)
  /\ \A i \in DOMAIN Devices : Devices[i] \notin Names
ASSUME BuffersAssumption == Buffers \subseteq Seq(Bytes)
ASSUME NumbersAssumption ==
  /\ Offsets \subseteq Int /\ MaxSize \in Nat
  /\ \A count \in Counts : count \in Nat /\ count < 10000
  /\ MaxPos \in Nat \ {0} /\ MaxOpens \in Nat

VARIABLES
  fs,        \* the entry of each path, 0 for none
  buf,       \* the contents of each entry
  registry,  \* descriptor tables, or Failed, in the order of their references
  running,   \* no error has unwound to main()
  data,      \* the bytes the last read copied to the caller
  direct,    \* the task that calls open and write itself
  wanted,    \* history: the count of the last read, 0 after other calls
  log        \* history: what an entry's only descriptor wrote in sequence

vars == <<fs, buf, registry, running, data, direct, wanted, log>>

Failed == [top |-> 0, pos |-> -1]
Mixed == <<"mixed">>
SEEK_SET == 0
SEEK_CUR == 1
SEEK_END == 2

\* luaL_ref: registry[1] and [2] are Lua's own
Ref(i) == i + 2
Open == {Ref(i) : i \in DOMAIN registry}
Descriptor(fd) == registry[fd - 2]

-----------------------------------------------------------------------------
(* str_sub() of lstrlib.c: negative positions count from the end.          *)
PosRelat(pos, len) ==
  CASE pos >= 0 -> pos [] -pos > len -> 0 [] OTHER -> len + pos + 1

Sub(s, i, j) ==
  LET first == PosRelat(i, Len(s))
      last == PosRelat(j, Len(s))
  IN  SubSeq(s, IF first < 1 THEN 1 ELSE first, IF last > Len(s) THEN Len(s) ELSE last)

\* Mutant: the bytes behind pos are replaced.
SinsertOverwrites(str, val, pos) ==
  Sub(str, 0, pos) \o val \o Sub(str, pos + Len(val) + 1, Len(str))

sinsert(str, val, pos) == Sub(str, 0, pos) \o val \o Sub(str, pos + 1, Len(str))

(* The decimal digits of a count, which is what a device's read() returns. *)
Digits(n) ==
  LET digit(power) == (n \div power) % 10
  IN  CASE n < 10 -> <<n>>
        [] n >= 10 /\ n < 100 -> <<digit(10), digit(1)>>
        [] n >= 100 /\ n < 1000 -> <<digit(100), digit(10), digit(1)>>
        [] OTHER -> <<digit(1000), digit(100), digit(10), digit(1)>>

-----------------------------------------------------------------------------
Init ==
  /\ fs = [p \in Paths |-> IF p \in Names THEN 0 ELSE CHOOSE i \in DOMAIN Devices : Devices[i] = p]
  /\ buf = [i \in DOMAIN Devices |-> <<>>]
  /\ registry = <<>>
  /\ running = TRUE
  /\ data = <<>> /\ wanted = 0
  /\ direct = [pc |-> "open", path |-> "", top |-> 0, pos |-> 1, str |-> <<>>, text |-> <<>>]
  /\ log = [i \in DOMAIN Devices |-> Mixed]

NewEntry(entries) == Append(entries, <<>>)

Creates(path, creat) == fs[path] = 0 /\ creat

(* SYS_open.  The reference is made of whatever open() returned, also of   *)
(* its -1 for a missing file.  The test for O_APPEND is never true, and    *)
(* fs[path].fd, which collects the descriptors, is never read.             *)
SysOpen(pathname, creat) ==
  LET new == Len(buf) + 1 IN
  /\ running
  /\ Len(registry) < MaxOpens
  /\ IF Creates(pathname, creat)
     THEN /\ fs' = [fs EXCEPT ![pathname] = new]
          /\ buf' = NewEntry(buf)
          /\ log' = Append(log, <<>>)
          /\ registry' = Append(registry, [top |-> new, pos |-> 1])
     ELSE /\ registry' = Append(registry,
               IF fs[pathname] = 0 THEN Failed ELSE [top |-> fs[pathname], pos |-> 1])
          /\ log' = IF fs[pathname] = 0 THEN log ELSE [log EXCEPT ![fs[pathname]] = Mixed]
          /\ UNCHANGED <<fs, buf>>
  /\ data' = <<>> /\ wanted' = 0
  /\ UNCHANGED <<running, direct>>

(* SYS_close does nothing: the descriptor stays usable.                    *)
SysClose(fd) ==
  /\ running
  /\ data' = <<>> /\ wanted' = 0
  /\ UNCHANGED <<fs, buf, registry, running, direct, log>>

(* read or write of standard input, standard error or the reference of -1: *)
(* an index into a number or into nil raises an error.                     *)
ErrorInCall(fd) ==
  /\ running
  /\ fd \in Open => Descriptor(fd) = Failed
  /\ running' = FALSE
  /\ UNCHANGED <<fs, buf, registry, data, direct, wanted, log>>

(* lseek: the new position                                                 *)
lseek(d, offset, whence) ==
  CASE whence = SEEK_SET -> offset + 1 [] whence = SEEK_CUR -> d.pos + offset [] OTHER -> d.pos

SysLseek(fd, offset, whence) ==
  LET d == Descriptor(fd)
      pos == lseek(d, offset, whence)
  IN  /\ running
      /\ d # Failed
      /\ pos \in -MaxPos..MaxPos
      /\ registry' = [registry EXCEPT ![fd - 2].pos = pos]
      /\ data' = <<>> /\ wanted' = 0
      /\ log' = [log EXCEPT ![d.top] = Mixed]
      /\ UNCHANGED <<fs, buf, running, direct>>

IsDevice(top) == top \in DOMAIN Devices

\* Mutant: read() returns all that follows the position.
ReadToEnd(d, count) == Sub(buf[d.top], d.pos, Len(buf[d.top]))

(* read: a device returns the number count, which becomes its digits.      *)
read(d, count) ==
  IF IsDevice(d.top) THEN Digits(count) ELSE Sub(buf[d.top], d.pos, d.pos + count)

SysRead(fd, count) ==
  LET d == Descriptor(fd) IN
  /\ running
  /\ d # Failed
  /\ d.pos + count <= MaxPos
  /\ registry' = IF IsDevice(d.top) THEN registry ELSE [registry EXCEPT ![fd - 2].pos = @ + count]
  /\ data' = read(d, count)
  /\ wanted' = count
  /\ log' = [log EXCEPT ![d.top] = Mixed]
  /\ UNCHANGED <<fs, buf, running, direct>>

\* Mutant: the position stays.
Stays(pos, text) == pos
Advanced(pos, text) == pos + Len(text)

Logged(top, text) == IF log[top] = Mixed THEN log ELSE [log EXCEPT ![top] = @ \o text]

(* SYS_writev with the two pieces of the C library, what was buffered and  *)
(* what is new: a SYS_write for each.  SYS_write is the case of an empty   *)
(* second piece.  The write functions of the devices are never called.     *)
SysWritev(fd, first, second) ==
  LET d == Descriptor(fd)
      pos == Advanced(d.pos, first)
      str == sinsert(sinsert(buf[d.top], first, d.pos), second, pos)
  IN  /\ running
      /\ d # Failed
      /\ Len(str) <= MaxSize /\ Advanced(pos, second) <= MaxPos
      /\ buf' = [buf EXCEPT ![d.top] = str]
      /\ registry' = [registry EXCEPT ![fd - 2].pos = Advanced(pos, second)]
      /\ data' = <<>> /\ wanted' = 0
      /\ log' = Logged(d.top, first \o second)
      /\ UNCHANGED <<fs, running, direct>>

-----------------------------------------------------------------------------
(* A task calls open itself.  It looks the path up, prints, and only then  *)
(* stores a new entry, whatever fs[pathname] has become by then.           *)
DirectOpen(pathname, creat) ==
  /\ running
  /\ direct.pc = "open"
  /\ \/ /\ Creates(pathname, creat)
        /\ direct' = [direct EXCEPT !.pc = "create", !.path = pathname]
        /\ UNCHANGED log
     \/ /\ fs[pathname] # 0
        /\ direct' = [direct EXCEPT !.pc = "write", !.path = pathname, !.top = fs[pathname]]
        /\ log' = [log EXCEPT ![fs[pathname]] = Mixed]
  /\ UNCHANGED <<fs, buf, registry, running, data, wanted>>

DirectCreate ==
  /\ running
  /\ direct.pc = "create"
  /\ fs' = [fs EXCEPT ![direct.path] = Len(buf) + 1]
  /\ buf' = NewEntry(buf)
  /\ log' = Append(log, <<>>)
  /\ direct' = [direct EXCEPT !.pc = "write", !.top = Len(buf) + 1]
  /\ UNCHANGED <<registry, running, data, wanted>>

(* It calls write: fd.top.buf is read, and assigned after sinsert.         *)
DirectWrite(text) ==
  /\ running
  /\ direct.pc = "write"
  /\ direct' = [direct EXCEPT !.pc = "assign", !.str = buf[direct.top], !.text = text]
  /\ UNCHANGED <<fs, buf, registry, running, data, wanted, log>>

DirectAssign ==
  LET str == sinsert(direct.str, direct.text, direct.pos) IN
  /\ running
  /\ direct.pc = "assign"
  /\ Len(str) <= MaxSize /\ Advanced(direct.pos, direct.text) <= MaxPos
  /\ buf' = [buf EXCEPT ![direct.top] = str]
  /\ direct' = [direct EXCEPT !.pc = "write", !.pos = Advanced(@, direct.text),
                              !.str = <<>>, !.text = <<>>]
  /\ log' = Logged(direct.top, direct.text)
  /\ UNCHANGED <<fs, registry, running, data, wanted>>

Direct ==
  \/ \E p \in Paths, creat \in BOOLEAN : DirectOpen(p, creat)
  \/ DirectCreate
  \/ \E text \in Buffers : DirectWrite(text)
  \/ DirectAssign

SystemCall ==
  \/ \E p \in Paths, creat \in BOOLEAN : SysOpen(p, creat)
  \/ \E fd \in Open \cup {0, 2} : ErrorInCall(fd)
  \/ \E fd \in Open :
       \/ SysClose(fd)
       \/ \E offset \in Offsets, whence \in {SEEK_SET, SEEK_CUR, SEEK_END} :
            SysLseek(fd, offset, whence)
       \/ \E count \in Counts : SysRead(fd, count)
       \/ \E first, second \in Buffers : SysWritev(fd, first, second)

Next == SystemCall \/ Direct

Spec == Init /\ [][Next]_vars

-----------------------------------------------------------------------------
(* Type invariant; a descriptor refers to an entry that exists.            *)
TypeOK ==
  /\ fs \in [Paths -> 0..Len(buf)]
  /\ buf \in Seq(Seq(Bytes))
  /\ registry \in Seq([top : DOMAIN buf, pos : -MaxPos..MaxPos] \cup {Failed})
  /\ running \in BOOLEAN
  /\ wanted \in Counts \cup {0}
  /\ direct \in [pc : {"open", "create", "write", "assign"}, path : Paths \cup {""}, top : Nat,
                 pos : 1..MaxPos, str : Seq(Bytes), text : Seq(Bytes)]
  /\ direct.pc = "create" => direct.path \in Paths
  /\ direct.pc \in {"write", "assign"} => direct.top \in DOMAIN buf
  /\ log \in Seq(Seq(Bytes) \cup {Mixed}) /\ Len(log) = Len(buf)

(* Every byte of old is still in new, in order.                            *)
Keeps(old, new) ==
  \E at \in [1..Len(old) -> 1..Len(new)] :
    \A i \in 1..Len(old) : new[at[i]] = old[i] /\ \A j \in 1..i - 1 : at[j] < at[i]

\* The assignment of a direct write() that has read an older buf
StaleAssignment == direct.pc = "assign" /\ direct'.pc = "write" /\ direct.str # buf[direct.top]

(* No call destroys what is in a file: write() inserts, wherever lseek or  *)
(* reads and writes through other descriptors have left the position,      *)
(* before the beginning and past the end included.  The one exception: a   *)
(* task that calls write() itself was preempted between reading and        *)
(* assigning fd.top.buf, and another write came between.                   *)
NothingOverwritten ==
  [][StaleAssignment \/ \A e \in DOMAIN buf : buf'[e] # buf[e] => Keeps(buf[e], buf'[e])]_vars

(* A new file written in sequence through one descriptor holds what was    *)
(* written, although positions count from 1 and sinsert goes behind them.  *)
SequentialWritesConcatenate == \A e \in DOMAIN buf : log[e] # Mixed => buf[e] = log[e]

(* SYS_read copies at most one byte more than the caller has room for,     *)
(* from a file at any position as from a device (string.sub includes its   *)
(* last position, and memcpy copies all that read() returned).             *)
ReadExceedsByAtMostOne == Len(data) <= wanted + 1

=============================================================================
