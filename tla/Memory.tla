------------------------------- MODULE Memory -------------------------------
(***************************************************************************)
(* main of luakernel.c up to the start of the Lua program: the walk over   *)
(* the tags of the multiboot information, the memory handed to the         *)
(* allocator of module Heap, the Lua state and the display buffer; then    *)
(* the Lua program, which uses the allocator as it likes.                  *)
(***************************************************************************)
EXTENDS Heap

CONSTANTS
  BootInfos,   \* boot informations: sequences of tags, the last one "end"; a
               \* tag's field "at" is its offset
  KernelBase,  \* where the kernel is loaded: 0x100000
  heap_start,  \* the first address behind it
  StateSize,   \* bytes lua_newstate asks for
  UdataSize    \* bytes Lua adds to a userdata

\* The kernel lies below 2 GB, and main may hand over any int.
ASSUME AddressesAssumption ==
  /\ KernelBase \in Nat \ {0} /\ heap_start \in KernelBase .. IntLimit
  /\ StateSize \in Sizes /\ UdataSize \in Sizes /\ {1, 2} \subseteq Ids
  /\ 0 .. IntLimit - 1 \subseteq HeapSizes

(* What the boot loader writes.  The first tag is at offset 8, each of the *)
(* others at the first multiple of eight behind the one before it.  Only   *)
(* the last one is the end tag, the others occur once, and of the memory   *)
(* map's entries one starts where the kernel is loaded.                    *)
Of(tags, type) == {k \in DOMAIN tags : tags[k].type = type}

IsHeap(entry) == entry.available /\ entry.addr = KernelBase

LaidOut(tags) ==
  /\ Len(tags) \in Nat \ {0} /\ DOMAIN tags = 1 .. Len(tags) /\ tags[1].at = 8
  /\ \A k \in DOMAIN tags : tags[k].at \in Nat /\ tags[k].size \in Nat \ {0}
  /\ \A j, k \in DOMAIN tags : j < k => tags[j].at + tags[j].size <= tags[k].at
  /\ \A k \in 1 .. Len(tags) - 1 :
       tags[k + 1].at = 8 * ((tags[k].at + tags[k].size + 7) \div 8)

WellFormed(tags) ==
  /\ Of(tags, "end") = {Len(tags)}
  /\ \A type \in {"vbe", "framebuffer", "mmap"} : \A j, k \in Of(tags, type) : j = k
  /\ \A k \in Of(tags, "mmap") :
       LET entries == tags[k].entries
       IN  /\ Len(entries) \in Nat /\ DOMAIN entries = 1 .. Len(entries)
           /\ \A e \in DOMAIN entries : entries[e].addr \in Nat /\ entries[e].len \in Nat
           /\ \A e, f \in DOMAIN entries : IsHeap(entries[e]) /\ IsHeap(entries[f]) => e = f

ASSUME BootInfosAssumption ==
  \A tags \in BootInfos :
    /\ LaidOut(tags) /\ WellFormed(tags)
    /\ \A k \in Of(tags, "vbe") :
         tags[k].mode.YResolution * tags[k].mode.BytesPerScanLine + UdataSize \in Sizes

VARIABLES
  info,      \* the boot information; forgotten when main has read it
  tag,       \* the offset of the tag being looked at
  modeinfo,  \* the fields of the VBE mode that are used later
  fbmem, heap_end,
  mpc        \* where main is

boot_vars == <<info, tag, modeinfo, fbmem, heap_end, mpc>>
vars == <<heap_vars, boot_vars>>

NoMode == [XResolution |-> 0, YResolution |-> 0, BytesPerScanLine |-> 0]

\* Mutant: a tag of a multiple of eight bytes is padded as well.
PaddedAlways(size) == size + (8 - (size % 8))

(* Tags are padded to a multiple of eight bytes.                           *)
Padded(size) == IF size % 8 = 0 THEN size ELSE size + (8 - (size % 8))

TagsAt(offset) == {k \in DOMAIN info : info[k].at = offset}

(* The loop over the entries of the memory map; the last one that passes   *)
(* its test wins.                                                          *)
HeapEnd(entries) ==
  LET hits == {k \in DOMAIN entries : IsHeap(entries[k])}
      last == CHOOSE k \in hits : \A j \in hits : j <= k
  IN  IF hits = {} THEN heap_end ELSE entries[last].addr + entries[last].len

Init ==
  /\ HeapInit
  /\ info \in BootInfos
  /\ tag = 8
  /\ modeinfo = NoMode
  /\ fbmem = 0
  /\ heap_end = 0
  /\ mpc = "tags"

(* The framebuffer tag counts only when a VBE tag came before it.          *)
HasMode(mode) == mode.XResolution > 0

(* One iteration of get_multiboot_info's loop.                             *)
ReadTag ==
  /\ mpc = "tags"
  /\ \E k \in TagsAt(tag) :
       LET t == info[k]
       IN  /\ t.type # "end"
           /\ modeinfo' = IF t.type = "vbe" THEN t.mode ELSE modeinfo
           /\ fbmem' = IF t.type = "framebuffer" /\ HasMode(modeinfo) THEN t.addr ELSE fbmem
           /\ heap_end' = IF t.type = "mmap" THEN HeapEnd(t.entries) ELSE heap_end
           /\ tag' = tag + Padded(t.size)
  /\ UNCHANGED <<heap_vars, info, mpc>>

EndTag ==
  /\ mpc = "tags"
  /\ \E k \in TagsAt(tag) : info[k].type = "end"
  /\ mpc' = "config"
  /\ UNCHANGED <<heap_vars, info, tag, modeinfo, fbmem, heap_end>>

(* The int that sqlite3_config takes from the argument list.               *)
nHeap ==
  LET low == (heap_end - heap_start) % (2 * IntLimit)
  IN  IF low >= IntLimit THEN low - 2 * IntLimit ELSE low

(* sqlite3_config; memsys5Init runs at the first allocation.  A negative   *)
(* size, divided as an unsigned number, gives a pool that is not in the    *)
(* memory the boot loader described: what happens then is not modelled.    *)
ConfigHeap ==
  /\ mpc = "config"
  /\ nHeap >= 0
  /\ Memsys5Init(nHeap)
  /\ mpc' = "newstate"
  /\ info' = <<>> /\ tag' = 0
  /\ UNCHANGED <<modeinfo, fbmem, heap_end>>

ConfigStray ==
  /\ mpc = "config"
  /\ nHeap < 0
  /\ mpc' = "stray"
  /\ UNCHANGED <<heap_vars, info, tag, modeinfo, fbmem, heap_end>>

(* lua_newstate; main returns when it fails.                               *)
NewState ==
  /\ mpc = "newstate"
  /\ \/ Grow(1, StateSize) /\ mpc' = "openlibs"
     \/ Refuse(1, StateSize) /\ mpc' = "returned"
  /\ UNCHANGED <<info, tag, modeinfo, fbmem, heap_end>>

display_buffer_len == modeinfo.YResolution * modeinfo.BytesPerScanLine

(* luaL_openlibs finds no memory: outside any protected call, so that Lua  *)
(* calls abort.                                                            *)
OpenLibsFails ==
  /\ mpc = "openlibs"
  /\ \E i \in Ids \ {1, 2}, n \in Sizes : Refuse(i, n)
  /\ mpc' = "aborted"
  /\ UNCHANGED <<info, tag, modeinfo, fbmem, heap_end>>

(* display_buffer = lua_newuserdata, after luaL_openlibs.                  *)
NewUserdata ==
  /\ mpc = "openlibs"
  /\ \/ Grow(2, display_buffer_len + UdataSize) /\ mpc' = "run"
     \/ Refuse(2, display_buffer_len + UdataSize) /\ mpc' = "aborted"
  /\ UNCHANGED <<info, tag, modeinfo, fbmem, heap_end>>

(* The loops of the allocator, whoever called it.                          *)
Loops ==
  /\ Divide \/ Split \/ FinishMalloc \/ Merge \/ FinishFree
  /\ UNCHANGED boot_vars

(* luaL_openlibs and the Lua program: the state and the display buffer     *)
(* stay where they are.                                                    *)
Run ==
  /\ mpc \in {"openlibs", "run"}
  /\ \E i \in Ids \ {1, 2} : Free(i) \/ \E n \in Sizes : LAlloc(i, n)
  /\ UNCHANGED boot_vars

Stopped ==
  /\ \/ hpc = "dangling"
     \/ hpc = "idle" /\ ~Ready
     \/ mpc \in {"stray", "returned", "aborted"} /\ hpc \in {"off", "idle"}
  /\ UNCHANGED vars

Next ==
  \/ ReadTag \/ EndTag \/ ConfigHeap \/ ConfigStray \/ NewState \/ OpenLibsFails \/ NewUserdata
  \/ Loops \/ Run \/ Stopped

Spec == Init /\ [][Next]_vars

-----------------------------------------------------------------------------
(* The walk finds its way over tags of every length, in every order, to    *)
(* the end tag: what it found is the memory that starts where the kernel   *)
(* is loaded and the mode of the VBE tag; and a framebuffer only where a   *)
(* VBE tag with a graphics mode came first (luakernel.c:295).              *)
BootInfoRead ==
  /\ mpc = "tags" => TagsAt(tag) # {}
  /\ mpc = "config" =>
       /\ \A k \in Of(info, "mmap") : \A e \in DOMAIN info[k].entries :
            info[k].entries[e].available /\ info[k].entries[e].addr = KernelBase
              => heap_end = KernelBase + info[k].entries[e].len
       /\ heap_end # 0 => \E k \in Of(info, "mmap") : \E e \in DOMAIN info[k].entries :
            heap_end = KernelBase + info[k].entries[e].len
       /\ \A k \in Of(info, "vbe") : modeinfo = info[k].mode
       /\ \A k \in Of(info, "framebuffer") :
            fbmem = IF \E v \in Of(info, "vbe") : v < k /\ info[v].mode.XResolution > 0
                    THEN info[k].addr ELSE 0

(* The pool and its control bytes lie between the end of the kernel and    *)
(* the end of the memory that holds it, whatever that memory's size: of    *)
(* four gigabytes and more a part is used, and between two and four, where *)
(* the int is negative, main's heap is not modelled.                       *)
HeapInMemory ==
  nBlock > 0 => heap_start + nBlock * (szAtom + 1) <= heap_end

=============================================================================
