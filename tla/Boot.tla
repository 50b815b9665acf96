-------------------------------- MODULE Boot --------------------------------
(***************************************************************************)
(* From start in init.S to the call of main: the control registers, then   *)
(* setup_page_table and setup_IDT (init.c), the programming of the         *)
(* interrupt controllers and of the timer, with what the processor and the *)
(* devices make of it.  The size of a table is a parameter; addresses of   *)
(* tables and of memory are counted in pages.                              *)
(***************************************************************************)
EXTENDS Integers, Sequences

CONSTANTS
  Entries,    \* entries of a table: 512
  NUM_PD,     \* page directories: 4
  NUM_PT,     \* page tables of a directory: 512
  Base,       \* the page of PML4
  Gates,      \* entries of the IDT: 256
  Half,       \* values of a u16, half of a u32: 2^16
  Handler0    \* the address of handle_interrupt_0

ASSUME TablesAssumption ==
  Entries \in Nat /\ NUM_PD \in 1..Entries /\ NUM_PT = Entries /\ Base \in Nat \ {0}
ASSUME GatesAssumption == 
  Gates \in 1..256 /\ Half \in Nat \ {0} /\ Handler0 \in 0..Half * Half - 32 * Gates

VARIABLES
  pc,       \* the step being executed
  enabled,  \* the steps that put a register of the processor in place
  mem,      \* contents of the tables: the page an entry refers to, or Absent
  nPD, nPT, i, addr,  \* the variables of setup_page_table
  IDT,      \* the gates written so far
  n,        \* number of port writes done
  pic,      \* the two interrupt controllers
  pit       \* channel 0 of the timer

table_vars == <<mem, nPD, nPT, i, addr>>
device_vars == <<n, pic, pit>>
boot_vars == <<pc, enabled, table_vars, IDT, device_vars>>

Absent == -1
Tables == Base..Base + 1 + NUM_PD * (1 + NUM_PT)

\* struct PML4: a pointer page, then the structures it points to
PML4_ == Base
PDP_ == Base + 1
PD_(d) == PDP_ + 1 + d * (1 + NUM_PT)
PT_(d, t) == PD_(d) + 1 + t

\* Four gigabytes, in pages: what a u32 address reaches
Pages32 == NUM_PD * Entries * Entries

-----------------------------------------------------------------------------
(* The processor's walk of the four levels: the fields of an address are   *)
(* the digits of its page's number, each the index into a table.           *)
Index == 0..Entries - 1
Page(i3, i2, i1, i0) == ((i3 * Entries + i2) * Entries + i1) * Entries + i0

Entry(table, k) == IF table = Absent THEN Absent ELSE mem[<<table, k>>]

Translate(i3, i2, i1, i0) == Entry(Entry(Entry(Entry(PML4_, i3), i2), i1), i0)

(* An 8259 controller: after ICW1 at its command port it takes ICW2, ICW3  *)
(* and ICW4 at its data port; later bytes there are the mask.              *)
Ports == <<32, 160>>

Pic0 == [expects |-> 0, base |-> 0, cascade |-> 0, mask |-> 0]

PicCommand(p, v) ==
  IF (v \div 16) % 2 = 1 THEN [Pic0 EXCEPT !.expects = 2] ELSE p

PicData(p, v) ==
  [expects |-> IF p.expects \in {2, 3} THEN p.expects + 1 ELSE 0,
   base |-> IF p.expects = 2 THEN v ELSE p.base,
   cascade |-> IF p.expects = 3 THEN v ELSE p.cascade,
   mask |-> IF p.expects = 0 THEN v ELSE p.mask]

Bits == <<1, 2, 4, 8, 16, 32, 64, 128>>
Unmasked(k) == {b \in 0..7 : (pic[k].mask \div Bits[b + 1]) % 2 = 0}

\* The vectors that can arrive; line 2 of the first controller is the second.
LineVectors ==
  {pic[1].base + b : b \in Unmasked(1) \ {2}} \cup {pic[2].base + b : b \in Unmasked(2)}

(* The 8254 timer, access mode low byte then high byte.                    *)
PitCommand(v) == [expects |-> IF (v \div 16) % 4 = 3 THEN "low" ELSE "one byte", divisor |-> 0]
PitData(p, v) ==
  IF p.expects = "low" THEN [expects |-> "high", divisor |-> v]
  ELSE [expects |-> "low", divisor |-> p.divisor + 256 * v]

\* Mutant: ICW 4 is left out, though ICW 1 announces it.
OutsWithoutICW4 ==
  << <<32, 17>>, <<160, 17>>, <<33, 32>>, <<161, 40>>, <<33, 4>>, <<161, 2>>,
     <<67, 54>>, <<64, 169>>, <<64, 4>>, <<33, 248>>, <<161, 239>> >>

(* The out instructions of init.S, in order.                               *)
Outs ==
  << <<32, 17>>, <<160, 17>>,      \* ICW 1
     <<33, 32>>, <<161, 40>>,      \* ICW 2
     <<33, 4>>, <<161, 2>>,        \* ICW 3
     <<33, 1>>, <<161, 1>>,        \* ICW 4
     <<67, 54>>, <<64, 169>>, <<64, 4>>,
     <<33, 248>>, <<161, 239>> >>  \* IMR

\* Mutant: paging is enabled before the tables exist.
StepsPagingFirst ==
  <<"sse", "pae", "lme", "paging", "tables", "cr3", "gdt", "IDT", "idtr", "Realm64", "out",
    "fpu", "main">>

(* The order of init.S; setup_page_table ends with the load of CR3.        *)
Steps ==
  <<"sse", "pae", "lme", "tables", "cr3", "paging", "gdt", "IDT", "idtr", "Realm64", "out",
    "fpu", "main">>

After(step) == Steps[1 + CHOOSE k \in DOMAIN Steps : Steps[k] = step]

-----------------------------------------------------------------------------
BootInit ==
  /\ pc = Steps[1]
  /\ enabled = {}
  /\ mem = [x \in Tables \X (0..Entries - 1) |-> Absent]
  /\ nPD = 0 /\ nPT = 0 /\ i = 0 /\ addr = 0
  /\ IDT = <<>>
  /\ n = 0
  /\ pic = [k \in 1..2 |-> Pic0]
  /\ pit = [expects |-> "command", divisor |-> 0]

(* A register of the processor is given its value for good.                *)
Enable ==
  /\ pc \in {"sse", "pae", "lme", "cr3", "paging", "gdt", "idtr", "Realm64", "fpu"}
  /\ enabled' = enabled \cup {pc}
  /\ pc' = After(pc)
  /\ UNCHANGED <<table_vars, IDT, device_vars>>

(* setup_page_table, one store per step.                                   *)
StorePDP ==
  /\ pc = "tables"
  /\ mem' = [mem EXCEPT ![<<PML4_, 0>>] = PDP_]
  /\ pc' = "PD"
  /\ UNCHANGED <<enabled, nPD, nPT, i, addr, IDT, device_vars>>

StorePD ==
  /\ pc = "PD"
  /\ mem' = [mem EXCEPT ![<<PDP_, nPD>>] = PD_(nPD)]
  /\ nPT' = 0
  /\ pc' = "PT"
  /\ UNCHANGED <<enabled, nPD, i, addr, IDT, device_vars>>

StorePT ==
  /\ pc = "PT"
  /\ mem' = [mem EXCEPT ![<<PD_(nPD), nPT>>] = PT_(nPD, nPT)]
  /\ i' = 0
  /\ pc' = "addr"
  /\ UNCHANGED <<enabled, nPD, nPT, addr, IDT, device_vars>>

(* PT_->addr[i] = (addr * 4096) | 3, in 32 bits, and the loop heads.       *)
StoreAddr ==
  /\ pc = "addr"
  /\ mem' = [mem EXCEPT ![<<PT_(nPD, nPT), i>>] = addr % Pages32]
  /\ addr' = addr + 1
  /\ i' = i + 1
  /\ IF i + 1 < Entries THEN pc' = "addr" /\ UNCHANGED <<nPT, nPD>>
     ELSE IF nPT + 1 < NUM_PT THEN pc' = "PT" /\ nPT' = nPT + 1 /\ UNCHANGED nPD
     ELSE /\ nPD' = nPD + 1 /\ UNCHANGED nPT
          /\ pc' = IF nPD + 1 < NUM_PD THEN "PD" ELSE After("tables")
  /\ UNCHANGED <<enabled, IDT, device_vars>>

\* Mutant: trap gates.
TrapGate == 143
InterruptGate == 142

(* setIDT(i, addr, 0x08, 0x8E): the address in three pieces, and the type. *)
setIDT(base) ==
  [baseLow |-> base % Half, baseMid |-> (base \div Half) % Half, baseHigh |-> base \div (Half * Half),
   flags |-> InterruptGate]

SetGate ==
  /\ pc = "IDT"
  /\ IDT' = Append(IDT, setIDT((Handler0 + 32 * Len(IDT)) % (Half * Half)))
  /\ pc' = IF Len(IDT) + 1 < Gates THEN "IDT" ELSE After("IDT")
  /\ UNCHANGED <<enabled, table_vars, device_vars>>

Out ==
  /\ pc = "out"
  /\ LET port == Outs[n + 1][1]
         v == Outs[n + 1][2]
     IN  /\ pic' = [k \in 1..2 |-> IF port = Ports[k] THEN PicCommand(pic[k], v)
                                  ELSE IF port = Ports[k] + 1 THEN PicData(pic[k], v)
                                  ELSE pic[k]]
         /\ pit' = IF port = 67 THEN PitCommand(v) ELSE IF port = 64 THEN PitData(pit, v) ELSE pit
  /\ n' = n + 1
  /\ pc' = IF n + 1 < Len(Outs) THEN "out" ELSE After("out")
  /\ UNCHANGED <<enabled, table_vars, IDT>>

BootNext == Enable \/ StorePDP \/ StorePD \/ StorePT \/ StoreAddr \/ SetGate \/ Out

-----------------------------------------------------------------------------
(* setup_page_table maps a page to itself or not at all, at every moment   *)
(* of its loops.  When paging is enabled, in the mode and with the table   *)
(* that long mode asks for, the first four gigabytes are mapped (init.c:3  *)
(* "map 0x00000000 to 0xffffffff (4GiB)") and nothing above them.          *)
IdentityMap ==
  /\ "paging" \in enabled => {"pae", "lme", "cr3"} \subseteq enabled
  /\ \A i3, i2, i1, i0 \in Index :
       LET page == Page(i3, i2, i1, i0)
       IN  /\ Translate(i3, i2, i1, i0) \in {Absent, page}
           /\ "paging" \in enabled => (Translate(i3, i2, i1, i0) = page <=> page < Pages32)

(* The three pieces of a gate are put together to the address of the stub  *)
(* of its vector: interrupt.S aligns the stubs to 32 bytes, in order.      *)
StubAddress(v) == Handler0 + 32 * v
GateTarget(g) == g.baseLow + Half * g.baseMid + Half * Half * g.baseHigh
GatesReachTheirStubs == \A v \in DOMAIN IDT : GateTarget(IDT[v]) = StubAddress(v - 1)

=============================================================================
