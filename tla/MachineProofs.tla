---------------------------- MODULE MachineProofs ----------------------------
(***************************************************************************)
(* Proofs about Boot and InterruptEntry, for tables of every size, every   *)
(* placement of the stubs, every stack depth and every set of vectors.     *)
(***************************************************************************)
EXTENDS InterruptEntry, TLAPS

-----------------------------------------------------------------------------
(* The order of the boot code                                              *)

(* Which registers of the processor are in place at each step of init.S.   *)
OrderInv ==
  \/ pc = "sse" /\ enabled = {}
  \/ pc = "pae" /\ enabled = {"sse"}
  \/ pc = "lme" /\ enabled = {"sse", "pae"}
  \/ pc \in {"tables", "PD", "PT", "addr", "cr3"} /\ enabled = {"sse", "pae", "lme"}
  \/ pc = "paging" /\ enabled = {"sse", "pae", "lme", "cr3"}
  \/ pc = "gdt" /\ enabled = {"sse", "pae", "lme", "cr3", "paging"}
  \/ pc \in {"IDT", "idtr"} /\ enabled = {"sse", "pae", "lme", "cr3", "paging", "gdt"}
  \/ pc = "Realm64" /\ enabled = {"sse", "pae", "lme", "cr3", "paging", "gdt", "idtr"}
  \/ pc \in {"out", "fpu"}
       /\ enabled = {"sse", "pae", "lme", "cr3", "paging", "gdt", "idtr", "Realm64"}
  \/ pc = "main"
       /\ enabled = {"sse", "pae", "lme", "cr3", "paging", "gdt", "idtr", "Realm64", "fpu"}

(* The steps of init.S follow each other in the order of Steps.            *)
LEMMA AfterEach ==
  /\ After("sse") = "pae" /\ After("pae") = "lme" /\ After("lme") = "tables"
  /\ After("tables") = "cr3" /\ After("cr3") = "paging" /\ After("paging") = "gdt"
  /\ After("gdt") = "IDT" /\ After("IDT") = "idtr" /\ After("idtr") = "Realm64"
  /\ After("Realm64") = "out" /\ After("out") = "fpu" /\ After("fpu") = "main"
<1>1. DOMAIN Steps = 1 .. 13
  BY DEF Steps
<1>2. \A j, k \in 1 .. 13 : Steps[j] = Steps[k] => j = k
  BY DEF Steps
<1>3. ASSUME NEW k \in 1 .. 12 PROVE After(Steps[k]) = Steps[k + 1]
  <2> DEFINE place == CHOOSE j \in DOMAIN Steps : Steps[j] = Steps[k]
  <2>0. k \in DOMAIN Steps
    BY <1>1
  <2>1. place \in DOMAIN Steps /\ Steps[place] = Steps[k]
    BY <2>0, Zenon
  <2>2. After(Steps[k]) = Steps[1 + place]
    BY Zenon DEF After
  <2> HIDE DEF place
  <2>3. place = k
    BY <1>1, <1>2, <2>1
  <2> QED
    BY <2>2, <2>3
<1>4. /\ Steps[1] = "sse" /\ Steps[2] = "pae" /\ Steps[3] = "lme" /\ Steps[4] = "tables"
      /\ Steps[5] = "cr3" /\ Steps[6] = "paging" /\ Steps[7] = "gdt" /\ Steps[8] = "IDT"
      /\ Steps[9] = "idtr" /\ Steps[10] = "Realm64" /\ Steps[11] = "out" /\ Steps[12] = "fpu"
      /\ Steps[13] = "main"
  BY Zenon DEF Steps
<1>5. \A k \in 1 .. 12 : After(Steps[k]) = Steps[k + 1]
  BY Zenon, <1>3
<1>6. /\ After(Steps[1]) = Steps[2] /\ After(Steps[2]) = Steps[3] /\ After(Steps[3]) = Steps[4]
      /\ After(Steps[4]) = Steps[5] /\ After(Steps[5]) = Steps[6] /\ After(Steps[6]) = Steps[7]
      /\ After(Steps[7]) = Steps[8] /\ After(Steps[8]) = Steps[9] /\ After(Steps[9]) = Steps[10]
      /\ After(Steps[10]) = Steps[11] /\ After(Steps[11]) = Steps[12]
      /\ After(Steps[12]) = Steps[13]
  BY <1>5
<1> QED
  BY <1>4, <1>6

(* The order holds initially.                                              *)
LEMMA OrderInit == BootInit => OrderInv
BY DEF BootInit, OrderInv, Steps

(* Each step of the boot code leads to the next place of the order.        *)
LEMMA OrderStep == OrderInv /\ BootNext => OrderInv'
<1> SUFFICES ASSUME OrderInv, BootNext PROVE OrderInv'
  BY Zenon
<1>1. CASE Enable
  <2>1. enabled' = enabled \cup {pc} /\ pc' = After(pc)
    BY Zenon, <1>1 DEF Enable
  <2>2. pc \in {"sse", "pae", "lme", "cr3", "paging", "gdt", "idtr", "Realm64", "fpu"}
    BY Zenon, <1>1 DEF Enable
  <2> QED
    BY <2>1, <2>2, AfterEach DEF OrderInv
<1>2. CASE StorePDP \/ StorePD \/ StorePT
  BY Zenon, <1>2 DEF StorePDP, StorePD, StorePT, OrderInv
<1>3. CASE StoreAddr
  BY Zenon, <1>3, AfterEach DEF StoreAddr, OrderInv
<1>4. CASE SetGate \/ Out
  BY <1>4, AfterEach DEF SetGate, Out, OrderInv
<1> QED
  BY Zenon, <1>1, <1>2, <1>3, <1>4 DEF BootNext

-----------------------------------------------------------------------------
(* The gates                                                               *)

BeforeIDT == {"sse", "pae", "lme", "tables", "PD", "PT", "addr", "cr3", "paging", "gdt"}
AfterIDT == {"idtr", "Realm64", "out", "fpu", "main"}

(* The gates that setup_IDT has written are interrupt gates that lead to   *)
(* their stubs, and after its loop they are all written.                   *)
GatesInv ==
  /\ IDT \in Seq([baseLow : Int, baseMid : Int, baseHigh : Int, flags : {142}])
  /\ GatesReachTheirStubs
  /\ pc \in BeforeIDT => Len(IDT) = 0
  /\ pc = "IDT" => Len(IDT) < Gates
  /\ pc \in AfterIDT => Len(IDT) = Gates

(* An address below 2^32 is put together again from its three pieces.      *)
LEMMA GatePieces ==
  ASSUME NEW base \in 0 .. Half * Half - 1
  PROVE  /\ setIDT(base) \in [baseLow : Int, baseMid : Int, baseHigh : Int, flags : {142}]
         /\ GateTarget(setIDT(base)) = base
<1> DEFINE q == base \div Half
           r == base % Half
<1>1. Half \in Nat \ {0}
  BY Zenon, GatesAssumption
<1>2. Half * Half \in Nat \ {0} /\ base \in Nat /\ base < Half * Half
  BY <1>1
<1>3. q \in Nat /\ r \in Nat /\ r < Half /\ base = Half * q + r
  BY <1>1, <1>2
<1>4. base \div (Half * Half) = 0
  <2> DEFINE square == Half * Half
  <2>1. square \in Nat \ {0} /\ base < square
    BY Zenon, <1>2
  <2> HIDE DEF square
  <2>2. base \div square = 0
    BY <1>2, <2>1
  <2> QED
    BY Zenon, <2>2 DEF square
<1> HIDE DEF q, r
<1>5. q < Half
  <2>1. ASSUME q >= Half PROVE FALSE
    <3>1. Half * q >= Half * Half
      BY <1>1, <1>3, <2>1
    <3> QED
      BY <1>1, <1>2, <1>3, <3>1
  <2> QED
    BY <1>1, <1>3, <2>1
<1>6. q % Half = q
  BY <1>1, <1>3, <1>5
<1>7. setIDT(base) = [baseLow |-> r, baseMid |-> q, baseHigh |-> 0, flags |-> 142]
  BY Zenon, <1>4, <1>6 DEF setIDT, InterruptGate, q, r
<1>8. r + Half * q + Half * Half * 0 = base
  BY <1>1, <1>2, <1>3
<1>9. GateTarget(setIDT(base)) = r + Half * q + Half * Half * 0
  BY <1>7 DEF GateTarget
<1>10. GateTarget(setIDT(base)) = base
  BY <1>8, <1>9, Zenon
<1>11. r \in Int /\ q \in Int /\ 0 \in Int
  BY <1>3
<1>12. setIDT(base) \in [baseLow : Int, baseMid : Int, baseHigh : Int, flags : {142}]
  BY <1>7, <1>11
<1> QED
  BY Zenon, <1>10, <1>12

(* Initially no gate is written.                                           *)
LEMMA GatesInit == BootInit => GatesInv
BY DEF BootInit, GatesInv, GatesReachTheirStubs, Steps, BeforeIDT, AfterIDT

(* Each iteration of setup_IDT writes one more gate.                       *)
LEMMA GatesStep == OrderInv /\ GatesInv /\ BootNext => GatesInv'
<1> SUFFICES ASSUME OrderInv, GatesInv, BootNext PROVE GatesInv'
  BY Zenon
<1>1. CASE SetGate
  <2> DEFINE base == (Handler0 + 32 * Len(IDT)) % (Half * Half)
             gate == setIDT(base)
  <2>1. /\ pc = "IDT" /\ Len(IDT) \in Nat /\ Len(IDT) < Gates
        /\ IDT' = Append(IDT, gate)
        /\ pc' = IF Len(IDT) + 1 < Gates THEN "IDT" ELSE "idtr"
    BY <1>1, AfterEach DEF SetGate, GatesInv
  <2>2. /\ Half * Half \in Nat \ {0} /\ Handler0 \in Nat
        /\ Handler0 + 32 * Len(IDT) \in Nat /\ Handler0 + 32 * Len(IDT) < Half * Half
    BY <2>1, GatesAssumption
  <2>3. base = Handler0 + 32 * Len(IDT)
    <3> DEFINE square == Half * Half
    <3>1. square \in Nat \ {0} /\ Handler0 + 32 * Len(IDT) < square
      BY Zenon, <2>2
    <3> HIDE DEF square
    <3>2. (Handler0 + 32 * Len(IDT)) % square = Handler0 + 32 * Len(IDT)
      BY <2>2, <3>1
    <3> QED
      BY Zenon, <3>2 DEF square
  <2> HIDE DEF base
  <2>4. /\ gate \in [baseLow : Int, baseMid : Int, baseHigh : Int, flags : {142}]
        /\ GateTarget(gate) = StubAddress(Len(IDT))
    BY <2>2, <2>3, GatePieces DEF StubAddress
  <2> HIDE DEF gate
  <2>5. /\ IDT' \in Seq([baseLow : Int, baseMid : Int, baseHigh : Int, flags : {142}])
        /\ Len(IDT') = Len(IDT) + 1 /\ DOMAIN IDT' = 1 .. Len(IDT) + 1
        /\ DOMAIN IDT = 1 .. Len(IDT)
        /\ IDT'[Len(IDT) + 1] = gate
        /\ \A v \in DOMAIN IDT : IDT'[v] = IDT[v]
    <3> DEFINE G == [baseLow : Int, baseMid : Int, baseHigh : Int, flags : {142}]
    <3>1. IDT \in Seq(G) /\ gate \in G
      BY <2>4, Zenon DEF GatesInv
    <3> HIDE DEF G
    <3>2. /\ IDT' \in Seq(G) /\ Len(IDT') = Len(IDT) + 1 /\ DOMAIN IDT' = 1 .. Len(IDT) + 1
          /\ DOMAIN IDT = 1 .. Len(IDT) /\ IDT'[Len(IDT) + 1] = gate
          /\ \A v \in DOMAIN IDT : IDT'[v] = IDT[v]
      BY <2>1, <3>1
    <3> QED
      BY <3>2, Zenon DEF G
  <2>6. ASSUME NEW v \in 1 .. Len(IDT) + 1 PROVE GateTarget(IDT'[v]) = StubAddress(v - 1)
    <3>1. CASE v \in DOMAIN IDT
      BY Zenon, <2>5, <3>1 DEF GatesInv, GatesReachTheirStubs
    <3>2. CASE v \notin DOMAIN IDT
      <4>1. v = Len(IDT) + 1 /\ v - 1 = Len(IDT)
        BY <2>1, <2>5, <3>2
      <4> QED
        BY Zenon, <2>4, <2>5, <4>1
    <3> QED
      BY Zenon, <3>1, <3>2
  <2>7. GatesReachTheirStubs'
    BY Zenon, <2>5, <2>6 DEF GatesReachTheirStubs
  <2> QED
    BY <2>1, <2>5, <2>7, GatesAssumption DEF GatesInv, BeforeIDT, AfterIDT
<1>2. CASE ~ SetGate
  <2>1. IDT' = IDT
    BY Zenon, <1>2 DEF BootNext, Enable, StorePDP, StorePD, StorePT, StoreAddr, Out
  <2>2. pc \in AfterIDT <=> pc' \in AfterIDT
    BY <1>2, AfterEach DEF BootNext, Enable, StorePDP, StorePD, StorePT, StoreAddr, Out, AfterIDT
  <2>3. pc' \in BeforeIDT => pc \in BeforeIDT
    BY <1>2, AfterEach DEF BootNext, Enable, StorePDP, StorePD, StorePT, StoreAddr, Out, BeforeIDT
  <2>4. pc' = "IDT" => pc = "gdt"
    BY Zenon, <1>2, AfterEach DEF BootNext, Enable, StorePDP, StorePD, StorePT, StoreAddr, Out
  <2> QED
    BY <2>1, <2>2, <2>3, <2>4, GatesAssumption
       DEF GatesInv, GatesReachTheirStubs, BeforeIDT, AfterIDT
<1> QED
  BY Zenon, <1>1, <1>2

-----------------------------------------------------------------------------
(* The interrupt controllers                                               *)

BeforeOut == BeforeIDT \cup {"IDT", "idtr", "Realm64"}

(* What each controller has been told after n of the out instructions.     *)
FirstPic(m) ==
  [expects |-> IF m < 1 THEN 0 ELSE IF m < 3 THEN 2 ELSE IF m < 5 THEN 3 ELSE IF m < 7 THEN 4 ELSE 0,
   base |-> IF m < 3 THEN 0 ELSE 32,
   cascade |-> IF m < 5 THEN 0 ELSE 4,
   mask |-> IF m < 12 THEN 0 ELSE 248]

SecondPic(m) ==
  [expects |-> IF m < 2 THEN 0 ELSE IF m < 4 THEN 2 ELSE IF m < 6 THEN 3 ELSE IF m < 8 THEN 4 ELSE 0,
   base |-> IF m < 4 THEN 0 ELSE 40,
   cascade |-> IF m < 6 THEN 0 ELSE 2,
   mask |-> IF m < 13 THEN 0 ELSE 239]

DevicesInv ==
  /\ n \in 0 .. 13
  /\ pic = <<FirstPic(n), SecondPic(n)>>
  /\ pc \in BeforeOut => n = 0
  /\ pc = "out" => n < 13
  /\ pc \in {"fpu", "main"} => n = 13

(* Initially the controllers have been told nothing.                       *)
LEMMA DevicesInit == BootInit => DevicesInv
BY DEF BootInit, DevicesInv, FirstPic, SecondPic, Pic0, Steps, BeforeOut, BeforeIDT

(* Each out instruction leaves the controllers as the next state of the    *)
(* sequence says.                                                          *)
LEMMA OutStep ==
  ASSUME NEW m \in 0 .. 12
  PROVE  /\ FirstPic(m + 1) = IF Outs[m + 1][1] = 32 THEN PicCommand(FirstPic(m), Outs[m + 1][2])
                              ELSE IF Outs[m + 1][1] = 33 THEN PicData(FirstPic(m), Outs[m + 1][2])
                              ELSE FirstPic(m)
         /\ SecondPic(m + 1) = IF Outs[m + 1][1] = 160 THEN PicCommand(SecondPic(m), Outs[m + 1][2])
                               ELSE IF Outs[m + 1][1] = 161 THEN PicData(SecondPic(m), Outs[m + 1][2])
                               ELSE SecondPic(m)
<1>1. CASE m = 0
  BY <1>1 DEF FirstPic, SecondPic, Outs, PicCommand, PicData, Pic0
<1>2. CASE m = 1
  BY <1>2 DEF FirstPic, SecondPic, Outs, PicCommand, PicData, Pic0
<1>3. CASE m = 2
  BY <1>3 DEF FirstPic, SecondPic, Outs, PicData
<1>4. CASE m = 3
  BY <1>4 DEF FirstPic, SecondPic, Outs, PicData
<1>5. CASE m = 4
  BY <1>5 DEF FirstPic, SecondPic, Outs, PicData
<1>6. CASE m = 5
  BY <1>6 DEF FirstPic, SecondPic, Outs, PicData
<1>7. CASE m = 6
  BY <1>7 DEF FirstPic, SecondPic, Outs, PicData
<1>8. CASE m = 7
  BY <1>8 DEF FirstPic, SecondPic, Outs, PicData
<1>9. CASE m \in {8, 9, 10}
  BY <1>9 DEF FirstPic, SecondPic, Outs
<1>10. CASE m = 11
  BY <1>10 DEF FirstPic, SecondPic, Outs, PicData
<1>11. CASE m = 12
  BY <1>11 DEF FirstPic, SecondPic, Outs, PicData
<1>12. m \in {0, 1, 2, 3, 4, 5, 6, 7} \/ m \in {8, 9, 10} \/ m = 11 \/ m = 12
  OBVIOUS
<1> QED
  BY <1>1, <1>2, <1>3, <1>4, <1>5, <1>6, <1>7, <1>8, <1>9, <1>10, <1>11, <1>12, Zenon

(* The boot code programs the controllers in order and completely.         *)
LEMMA DevicesStep == OrderInv /\ DevicesInv /\ BootNext => DevicesInv'
<1> SUFFICES ASSUME OrderInv, DevicesInv, BootNext PROVE DevicesInv'
  BY Zenon
<1>1. CASE Out
  <2>1. /\ pc = "out" /\ n \in 0 .. 12 /\ n' = n + 1 /\ Len(Outs) = 13
        /\ pc' = IF n + 1 < 13 THEN "out" ELSE "fpu"
    BY <1>1, AfterEach DEF Out, DevicesInv, Outs
  <2>2. pic' = [k \in 1 .. 2 |->
                  IF Outs[n + 1][1] = Ports[k] THEN PicCommand(pic[k], Outs[n + 1][2])
                  ELSE IF Outs[n + 1][1] = Ports[k] + 1 THEN PicData(pic[k], Outs[n + 1][2])
                  ELSE pic[k]]
    BY Zenon, <1>1 DEF Out
  <2>3. Ports[1] = 32 /\ Ports[2] = 160 /\ pic[1] = FirstPic(n) /\ pic[2] = SecondPic(n)
    BY Zenon DEF DevicesInv, Ports
  <2>4. pic'[1] = FirstPic(n + 1) /\ pic'[2] = SecondPic(n + 1)
    BY <2>1, <2>2, <2>3, OutStep
  <2>5. pic' = <<FirstPic(n'), SecondPic(n')>>
    BY <2>1, <2>2, <2>4
  <2> QED
    BY <2>1, <2>5 DEF DevicesInv, BeforeOut, BeforeIDT
<1>2. CASE ~ Out
  <2>1. n' = n /\ pic' = pic
    BY Zenon, <1>2 DEF BootNext, Enable, StorePDP, StorePD, StorePT, StoreAddr, SetGate, device_vars
  <2>2. /\ pc' \in BeforeOut => pc \in BeforeOut
        /\ pc' = "out" => pc \in BeforeOut
        /\ pc' \in {"fpu", "main"} => pc = "fpu"
    BY Zenon, <1>2, AfterEach DEF BootNext, Enable, StorePDP, StorePD, StorePT, StoreAddr, SetGate,
      BeforeOut, BeforeIDT
  <2> QED
    BY <2>1, <2>2 DEF DevicesInv
<1> QED
  BY Zenon, <1>1, <1>2

(* With both controllers programmed, the vectors that can arrive are those *)
(* of the timer, the keyboard and the mouse.                               *)
LEMMA ProgrammedLines ==
  ASSUME pic = <<FirstPic(13), SecondPic(13)>>
  PROVE  LineVectors = {32, 33, 44} /\ \A k \in 1..2 : pic[k].expects = 0
<1>1. /\ pic[1].base = 32 /\ pic[1].mask = 248 /\ pic[1].expects = 0
      /\ pic[2].base = 40 /\ pic[2].mask = 239 /\ pic[2].expects = 0
  BY DEF FirstPic, SecondPic
<1>2. Unmasked(1) = {0, 1, 2}
  <2>1. \A b \in 0 .. 7 : (248 \div Bits[b + 1]) % 2 = 0 <=> b \in {0, 1, 2}
    BY DEF Bits
  <2> QED
    BY <1>1, <2>1 DEF Unmasked
<1>3. Unmasked(2) = {4}
  <2>1. \A b \in 0 .. 7 : (239 \div Bits[b + 1]) % 2 = 0 <=> b = 4
    BY DEF Bits
  <2> QED
    BY <1>1, <2>1 DEF Unmasked
<1>4. LineVectors = {32, 33, 44}
  BY <1>1, <1>2, <1>3 DEF LineVectors
<1> QED
  BY <1>1, <1>4

-----------------------------------------------------------------------------
(* The stack of an interrupted context, and what an interrupt puts on it   *)

Places == {"boot", "code", "hlt", "behind hlt", "stub", "save", "handler", "restore", "iretq",
           "lost"}
InService == {"stub", "save", "handler", "restore", "iretq"}

RegValues == Regs \X ({"code", "more", "handler"} \cup Nat)
Kinds == Regs \cup {"return", "data", "pad", "ss", "rsp", "rflags", "cs", "rip", "error"}
Values == {"hlt"} \cup Nat \cup BOOLEAN \cup RegValues \cup (Nat \X Places)
Words == Kinds \X Values
Contexts ==
  [stack : Seq(Words), reg : [Regs -> RegValues], ifl : BOOLEAN,
   ip : {"code", "handler", "behind hlt"}, vector : 0..255, stub : 0..255]

(* The words between the stack of context c, the d-th one, and the pushes  *)
(* of the stub, for vector v.                                              *)
Padding(c) == IF Len(c.stack) % 2 = 1 THEN <<Word("pad", 0)>> ELSE <<>>

FrameOf(c, d, v) ==
  <<Word("ss", d - 1), Word("rsp", Len(c.stack)), Word("rflags", c.ifl),
    Word("cs", d - 1), Word("rip", <<d - 1, c.ip>>)>>
  \o IF v \in ErrorCode THEN <<Word("error", v)>> ELSE <<>>

EnteredStack(c, d, v) == c.stack \o Padding(c) \o FrameOf(c, d, v)

RegWords(r) == [k \in DOMAIN Saved |-> Word(Saved[k], r[Saved[k]])]

HandlerStack(c, d, v) ==
  Append(EnteredStack(c, d, v), Word("rdi", c.reg["rdi"])) \o RegWords(c.reg)

(* While the interrupt of vector v is served, the stack and the registers  *)
(* hold all of the context it interrupted.                                 *)
Serving(c, d) ==
  /\ ip = "stub" => stack = EnteredStack(c, d, vector) /\ reg = c.reg
  /\ ip = "save" => /\ stack = Append(EnteredStack(c, d, vector), Word("rdi", c.reg["rdi"]))
                    /\ reg = [c.reg EXCEPT !["rdi"] = <<"rdi", stub>>]
  /\ ip \in {"handler", "restore"} => stack = HandlerStack(c, d, vector)
  /\ ip = "iretq" => stack = EnteredStack(c, d, vector) /\ reg = c.reg

(* Only the outermost context is not a handler that was itself entered     *)
(* through a gate.                                                         *)
ContextOK(d) ==
  LET c == interrupted[d] IN
  /\ c.ip = "code" => Len(c.stack) > 0 /\ c.stack[1] = Word("return", "hlt")
  /\ c.ip = "handler" => c.stub = c.vector /\ c.reg["rdi"] = <<"rdi", c.stub>>
  /\ d = 1 /\ c.ip = "handler" => c.vector = 0
  /\ d > 1 => /\ c.ip = "handler" /\ c.ifl = FALSE
              /\ c.stack = HandlerStack(interrupted[d - 1], d - 1, c.vector)
  /\ d > 2 => c.vector \notin External

CpuTypeOK ==
  /\ stack \in Seq(Words) /\ reg \in [Regs -> RegValues] /\ ifl \in BOOLEAN
  /\ ip \in Places /\ vector \in 0..255 /\ stub \in 0..255 /\ interrupted \in Seq(Contexts)

(* The inductive invariant of the processor.                               *)
CpuInv ==
  /\ ip = "boot" => ifl = FALSE /\ stack = <<>> /\ interrupted = <<>>
  /\ ip # "boot" => pc = "main"
  /\ ip \in {"code", "hlt", "behind hlt"} => depth = 0
  /\ ip = "code" => Len(stack) > 0 /\ stack[1] = Word("return", "hlt")
  /\ ip \in InService => stub = vector
  /\ ip \in InService /\ depth = 0 => vector = 0 /\ ip \notin {"restore", "iretq"}
  /\ ip \in {"save", "handler"} => reg["rdi"] = <<"rdi", stub>>
  /\ ip \in InService /\ depth > 0 => ifl = FALSE /\ Serving(interrupted[depth], depth)
  /\ OneExternalAtATime
  /\ ip # "lost" => \A d \in 1 .. depth : ContextOK(d)

(* What a processor, a stub or main pushes is a word.                      *)
LEMMA WordsAreWords ==
  ASSUME NEW kind \in Kinds
  PROVE  /\ Word(kind, "hlt") \in Words
         /\ \A x \in Nat : Word(kind, x) \in Words
         /\ \A x \in BOOLEAN : Word(kind, x) \in Words
         /\ \A x \in RegValues : Word(kind, x) \in Words
         /\ \A x \in Nat, y \in Places : Word(kind, <<x, y>>) \in Words
<1>1. \A x \in Values : <<kind, x>> \in Words
  BY Zenon DEF Words
<1>2. \A x : \/ x = "hlt" \/ x \in Nat \/ x \in BOOLEAN \/ x \in RegValues \/ x \in Nat \X Places
               => x \in Values
  BY Zenon DEF Values
<1>3. \A x \in Nat, y \in Places : <<x, y>> \in Nat \X Places
  BY Zenon
<1> QED
  BY <1>1, <1>2, <1>3, Zenon DEF Word

(* Sequences that agree at each place are equal.                           *)
LEMMA SeqEqual ==
  ASSUME NEW S, NEW s \in Seq(S), NEW t \in Seq(S), Len(s) = Len(t),
         \A k \in 1 .. Len(s) : s[k] = t[k]
  PROVE  s = t
<1>1. s \in [1 .. Len(s) -> S] /\ t \in [1 .. Len(t) -> S]
  OBVIOUS
<1>2. s = [k \in 1 .. Len(s) |-> s[k]] /\ t = [k \in 1 .. Len(t) |-> t[k]]
  BY <1>1, Zenon
<1> QED
  BY Zenon, <1>2

(* Cutting a concatenation where it was joined.                            *)
LEMMA CutConcat ==
  ASSUME NEW S, NEW s \in Seq(S), NEW t \in Seq(S)
  PROVE  /\ s \o t \in Seq(S) /\ Len(s \o t) = Len(s) + Len(t)
         /\ SubSeq(s \o t, 1, Len(s)) = s
         /\ \A k \in 1 .. Len(s) : (s \o t)[k] = s[k]
         /\ \A k \in 1 .. Len(t) : (s \o t)[Len(s) + k] = t[k]
<1>1. s \o t \in Seq(S) /\ Len(s \o t) = Len(s) + Len(t)
  OBVIOUS
<1>2. \A k \in 1 .. Len(s) : (s \o t)[k] = s[k]
  OBVIOUS
<1>3. \A k \in 1 .. Len(t) : (s \o t)[Len(s) + k] = t[k]
  OBVIOUS
<1>4. SubSeq(s \o t, 1, Len(s)) = s
  <2>1. Len(SubSeq(s \o t, 1, Len(s))) = Len(s) /\ SubSeq(s \o t, 1, Len(s)) \in Seq(S)
    BY <1>1
  <2>2. \A k \in 1 .. Len(s) : SubSeq(s \o t, 1, Len(s))[k] = s[k]
    BY <1>1, <1>2
  <2> QED
    BY Zenon, <2>1, <2>2, SeqEqual
<1> QED
  BY Zenon, <1>1, <1>2, <1>3, <1>4

(* The first words of a stack.                                             *)
LEMMA FirstWords ==
  ASSUME NEW S, NEW s \in Seq(S), NEW m \in Nat, m <= Len(s)
  PROVE  /\ SubSeq(s, 1, m) \in Seq(S) /\ Len(SubSeq(s, 1, m)) = m
         /\ \A k \in 1 .. m : SubSeq(s, 1, m)[k] = s[k]
OBVIOUS

(* The five words that the processor pushes for context c at depth d.      *)
IsFrame(t, c, d) ==
  /\ t[1] = Word("ss", d - 1) /\ t[2] = Word("rsp", Len(c.stack)) /\ t[3] = Word("rflags", c.ifl)
  /\ t[4] = Word("cs", d - 1) /\ t[5] = Word("rip", <<d - 1, c.ip>>)

(* The frame on the stack: five words, and a sixth for an error code.      *)
LEMMA FrameShape ==
  ASSUME NEW c \in Contexts, NEW d \in Nat \ {0}, NEW v \in 0..255
  PROVE  /\ FrameOf(c, d, v) \in Seq(Words)
         /\ IsFrame(FrameOf(c, d, v), c, d)
         /\ v \notin ErrorCode => Len(FrameOf(c, d, v)) = 5
         /\ v \in ErrorCode => /\ Len(FrameOf(c, d, v)) = 6
                               /\ FrameOf(c, d, v)[6] = Word("error", v)
<1> DEFINE five == <<Word("ss", d - 1), Word("rsp", Len(c.stack)), Word("rflags", c.ifl),
                     Word("cs", d - 1), Word("rip", <<d - 1, c.ip>>)>>
           err == IF v \in ErrorCode THEN <<Word("error", v)>> ELSE <<>>
<1>0. c.stack \in Seq(Words)
  BY Zenon DEF Contexts
<1>1. d - 1 \in Nat /\ Len(c.stack) \in Nat /\ v \in Nat
  BY <1>0
<1>2. c.ifl \in BOOLEAN /\ c.ip \in Places
  BY Zenon DEF Contexts, Places
<1>k. {"ss", "rsp", "rflags", "cs", "rip", "error"} \subseteq Kinds
  BY Zenon DEF Kinds
<1>3. /\ Word("ss", d - 1) \in Words /\ Word("rsp", Len(c.stack)) \in Words
      /\ Word("rflags", c.ifl) \in Words /\ Word("cs", d - 1) \in Words
      /\ Word("rip", <<d - 1, c.ip>>) \in Words /\ Word("error", v) \in Words
  BY <1>1, <1>2, <1>k, WordsAreWords, Zenon
<1>4. five \in Seq(Words) /\ Len(five) = 5
  BY <1>3
<1>5. err \in Seq(Words) /\ Len(err) = (IF v \in ErrorCode THEN 1 ELSE 0)
  BY <1>3
<1>6. v \in ErrorCode => err[1] = Word("error", v)
  BY Zenon
<1>7. /\ five[1] = Word("ss", d - 1) /\ five[2] = Word("rsp", Len(c.stack))
      /\ five[3] = Word("rflags", c.ifl) /\ five[4] = Word("cs", d - 1)
      /\ five[5] = Word("rip", <<d - 1, c.ip>>)
  BY Zenon
<1>8. FrameOf(c, d, v) = five \o err
  BY Zenon DEF FrameOf
<1> HIDE DEF five, err
<1>9. /\ five \o err \in Seq(Words) /\ Len(five \o err) = Len(five) + Len(err)
      /\ \A k \in 1 .. Len(five) : (five \o err)[k] = five[k]
      /\ \A k \in 1 .. Len(err) : (five \o err)[Len(five) + k] = err[k]
  <2>1. five \in Seq(Words)
    BY Zenon, <1>4
  <2>2. err \in Seq(Words)
    BY Zenon, <1>5
  <2> QED
    BY <2>1, <2>2, CutConcat
<1>10. \A k \in 1 .. 5 : (five \o err)[k] = five[k]
  BY Zenon, <1>4, <1>9
<1>11. v \in ErrorCode => (five \o err)[6] = err[1]
  BY <1>4, <1>5, <1>9
<1>12. IsFrame(FrameOf(c, d, v), c, d)
  <2>1. 1 \in 1 .. 5 /\ 2 \in 1 .. 5 /\ 3 \in 1 .. 5 /\ 4 \in 1 .. 5 /\ 5 \in 1 .. 5
    OBVIOUS
  <2> QED
    BY <1>7, <1>8, <1>10, <2>1, Zenon DEF IsFrame
<1>13. /\ v \notin ErrorCode => Len(FrameOf(c, d, v)) = 5
       /\ v \in ErrorCode => Len(FrameOf(c, d, v)) = 6
  BY <1>4, <1>5, <1>8, <1>9
<1> QED
  BY <1>6, <1>8, <1>9, <1>11, <1>12, <1>13, Zenon

(* The stack on entry: the interrupted context's words, a pad that makes   *)
(* their number even, and the frame.                                       *)
LEMMA EnteredShape ==
  ASSUME NEW c \in Contexts, NEW d \in Nat \ {0}, NEW v \in 0..255
  PROVE  LET s == EnteredStack(c, d, v)
             f == FrameOf(c, d, v)
             m == Len(c.stack) + Len(Padding(c))
         IN  /\ s \in Seq(Words) /\ Len(s) = m + Len(f) /\ m \in Nat /\ m % 2 = 0
             /\ Len(c.stack) \in Nat /\ SubSeq(s, 1, Len(c.stack)) = c.stack
             /\ \A k \in 1 .. Len(f) : s[m + k] = f[k]
<1> DEFINE p == Padding(c)
           f == FrameOf(c, d, v)
           q == c.stack \o p
           s == q \o f
<1>1. c.stack \in Seq(Words)
  BY Zenon DEF Contexts
<1>2. Len(c.stack) \in Nat
  BY <1>1
<1>3. p \in Seq(Words) /\ Len(p) = (IF Len(c.stack) % 2 = 1 THEN 1 ELSE 0)
  <2>1. "pad" \in Kinds /\ 0 \in Nat
    BY Zenon DEF Kinds
  <2>2. Word("pad", 0) \in Words
    BY Zenon, <2>1, WordsAreWords
  <2>3. <<Word("pad", 0)>> \in Seq(Words) /\ Len(<<Word("pad", 0)>>) = 1
    BY <2>2
  <2>4. <<>> \in Seq(Words) /\ Len(<<>>) = 0
    OBVIOUS
  <2>5. CASE Len(c.stack) % 2 = 1
    <3>1. p = <<Word("pad", 0)>>
      BY Zenon, <2>5 DEF Padding
    <3> QED
      BY Zenon, <2>3, <2>5, <3>1
  <2>6. CASE Len(c.stack) % 2 # 1
    <3>1. p = <<>>
      BY Zenon, <2>6 DEF Padding
    <3> QED
      BY <2>4, <2>6, <3>1
  <2> QED
    BY <2>5, <2>6, Zenon
<1>4. p \in Seq(Words)
  BY Zenon, <1>3
<1>5. Len(p) \in Nat /\ (Len(c.stack) + Len(p)) % 2 = 0
  <2> DEFINE x == Len(c.stack)
             y == Len(p)
  <2>1. x \in Nat /\ y = (IF x % 2 = 1 THEN 1 ELSE 0)
    BY Zenon, <1>2, <1>3
  <2> HIDE DEF x, y
  <2>2. y \in Nat /\ (x + y) % 2 = 0
    BY <2>1
  <2> QED
    BY <2>2, Zenon DEF x, y
<1>6. f \in Seq(Words)
  BY FrameShape, Zenon
<1>7. EnteredStack(c, d, v) = s
  BY Zenon DEF EnteredStack
<1> HIDE DEF p, f
<1>8. /\ q \in Seq(Words) /\ Len(q) = Len(c.stack) + Len(p)
      /\ \A k \in 1 .. Len(c.stack) : q[k] = c.stack[k]
  BY <1>1, <1>4, CutConcat
<1>9. q \in Seq(Words)
  BY Zenon, <1>8
<1> HIDE DEF q
<1>10. /\ s \in Seq(Words) /\ Len(s) = Len(q) + Len(f)
       /\ \A k \in 1 .. Len(q) : s[k] = q[k]
       /\ \A k \in 1 .. Len(f) : s[Len(q) + k] = f[k]
  BY <1>6, <1>9, CutConcat
<1>11. Len(f) \in Nat
  BY <1>6
<1> HIDE DEF s
<1>12. SubSeq(s, 1, Len(c.stack)) = c.stack
  <2>1. /\ SubSeq(s, 1, Len(c.stack)) \in Seq(Words)
        /\ Len(SubSeq(s, 1, Len(c.stack))) = Len(c.stack)
        /\ \A k \in 1 .. Len(c.stack) : SubSeq(s, 1, Len(c.stack))[k] = s[k]
    <3>1. s \in Seq(Words) /\ Len(c.stack) \in Nat /\ Len(c.stack) <= Len(s)
      BY <1>2, <1>5, <1>8, <1>10, <1>11
    <3> QED
      BY <3>1, FirstWords
  <2>2. \A k \in 1 .. Len(c.stack) : s[k] = c.stack[k]
    BY <1>2, <1>5, <1>8, <1>10
  <2> QED
    BY <1>1, <2>1, <2>2, SeqEqual
<1>13. \A k \in 1 .. Len(f) : s[Len(c.stack) + Len(p) + k] = f[k]
  BY Zenon, <1>2, <1>5, <1>8, <1>10, <1>11
<1> QED
  <2>1. Len(s) = Len(c.stack) + Len(p) + Len(f) /\ Len(c.stack) + Len(p) \in Nat
    BY <1>2, <1>5, <1>8, <1>10
  <2> QED
    BY <1>2, <1>5, <1>7, <1>10, <1>12, <1>13, <2>1, Zenon DEF p, f

(* The pushes of handle_interrupt_.                                        *)
LEMMA RegWordsShape ==
  ASSUME NEW r \in [Regs -> RegValues]
  PROVE  /\ RegWords(r) \in Seq(Words) /\ Len(RegWords(r)) = 16
         /\ \A k \in 1 .. 16 : RegWords(r)[k] = Word(Saved[k], r[Saved[k]])
<1>1. DOMAIN Saved = 1 .. 16 /\ \A k \in 1 .. 16 : Saved[k] \in Regs
  BY DEF Saved, Regs
<1>2. ASSUME NEW k \in 1 .. 16 PROVE Word(Saved[k], r[Saved[k]]) \in Words
  <2>1. Saved[k] \in Regs
    BY Zenon, <1>1
  <2>2. Saved[k] \in Kinds /\ r[Saved[k]] \in RegValues
    BY Zenon, <2>1 DEF Kinds
  <2> QED
    BY <2>2, WordsAreWords, Zenon
<1>3. RegWords(r) = [k \in 1 .. 16 |-> Word(Saved[k], r[Saved[k]])]
  BY Zenon, <1>1 DEF RegWords
<1> QED
  BY <1>2, <1>3

(* The stack when handle_interrupt is called, and what is left of it after *)
(* the seventeen pops.                                                     *)
LEMMA HandlerShape ==
  ASSUME NEW c \in Contexts, NEW d \in Nat \ {0}, NEW v \in 0..255
  PROVE  LET s == EnteredStack(c, d, v)
             h == HandlerStack(c, d, v)
         IN  /\ h \in Seq(Words) /\ Len(s) \in Nat /\ Len(h) = Len(s) + 17
             /\ SubSeq(h, 1, Len(s)) = s
             /\ h[Len(s) + 1] = Word("rdi", c.reg["rdi"])
             /\ \A k \in 1 .. 16 : h[Len(s) + 1 + k] = Word(Saved[k], c.reg[Saved[k]])
<1> DEFINE s == EnteredStack(c, d, v)
           w == Word("rdi", c.reg["rdi"])
           a == Append(s, w)
           r == RegWords(c.reg)
           h == a \o r
<1>1. c.reg \in [Regs -> RegValues]
  BY Zenon DEF Contexts
<1>2. w \in Words
  <2>1. "rdi" \in Regs /\ "rdi" \in Kinds
    BY Zenon DEF Regs, Kinds
  <2>2. c.reg["rdi"] \in RegValues
    BY Zenon, <1>1, <2>1
  <2> QED
    BY <2>1, <2>2, WordsAreWords, Zenon
<1>3. s \in Seq(Words)
  BY EnteredShape, Zenon
<1>4. /\ r \in Seq(Words) /\ Len(r) = 16
      /\ \A k \in 1 .. 16 : r[k] = Word(Saved[k], c.reg[Saved[k]])
  BY <1>1, RegWordsShape, Zenon
<1>5. HandlerStack(c, d, v) = h
  BY Zenon DEF HandlerStack
<1>6. r \in Seq(Words)
  BY Zenon, <1>4
<1> HIDE DEF s, w, r
<1>7. /\ a \in Seq(Words) /\ Len(a) = Len(s) + 1 /\ a[Len(s) + 1] = w
      /\ \A k \in 1 .. Len(s) : a[k] = s[k]
  BY <1>2, <1>3
<1>8. a \in Seq(Words) /\ Len(s) \in Nat
  BY <1>3, <1>7
<1> HIDE DEF a
<1>9. /\ h \in Seq(Words) /\ Len(h) = Len(a) + Len(r)
      /\ \A k \in 1 .. Len(a) : h[k] = a[k]
      /\ \A k \in 1 .. Len(r) : h[Len(a) + k] = r[k]
  BY <1>6, <1>8, CutConcat
<1> HIDE DEF h
<1>10. SubSeq(h, 1, Len(s)) = s
  <2>1. /\ SubSeq(h, 1, Len(s)) \in Seq(Words) /\ Len(SubSeq(h, 1, Len(s))) = Len(s)
        /\ \A k \in 1 .. Len(s) : SubSeq(h, 1, Len(s))[k] = h[k]
    <3>1. h \in Seq(Words) /\ Len(s) \in Nat /\ Len(s) <= Len(h)
      BY <1>4, <1>7, <1>8, <1>9
    <3> QED
      BY <3>1, FirstWords
  <2>2. \A k \in 1 .. Len(s) : h[k] = s[k]
    BY <1>7, <1>8, <1>9
  <2> QED
    BY Zenon, <1>3, <2>1, <2>2, SeqEqual
<1>11. h[Len(s) + 1] = w
  BY <1>7, <1>8, <1>9
<1>12. \A k \in 1 .. 16 : h[Len(s) + 1 + k] = Word(Saved[k], c.reg[Saved[k]])
  BY <1>4, <1>7, <1>8, <1>9, Zenon
<1>13. Len(h) = Len(s) + 17
  BY <1>4, <1>7, <1>8, <1>9
<1> QED
  BY <1>5, <1>8, <1>9, <1>10, <1>11, <1>12, <1>13, Zenon DEF s, w

(* The pops of handle_interrupt_ are the mirror of its pushes: each        *)
(* register gets back the value it had in the interrupted context.         *)
LEMMA PopsMirrorPushes ==
  ASSUME NEW c \in Contexts, NEW d \in Nat \ {0}, NEW v \in 0..255
  PROVE  LET h == HandlerStack(c, d, v)
         IN  [r \in Regs |-> LET k == CHOOSE p \in DOMAIN Restored : Restored[p] = r
                             IN  h[Len(h) + 1 - k][2]] = c.reg
<1> DEFINE s == EnteredStack(c, d, v)
           h == HandlerStack(c, d, v)
           at(r) == CHOOSE p \in DOMAIN Restored : Restored[p] = r
           low == Len(s)
           high == Len(h)
<1>1. c.reg \in [Regs -> RegValues]
  BY Zenon DEF Contexts
<1>2. low \in Nat /\ high = low + 17
  BY HandlerShape, Zenon
<1>8. /\ h[low + 1] = Word("rdi", c.reg["rdi"])
      /\ \A k \in 1 .. 16 : h[low + 1 + k] = Word(Saved[k], c.reg[Saved[k]])
  BY HandlerShape, Zenon
<1> HIDE DEF s, h, low, high
<1>3. DOMAIN Restored = 1 .. 17 /\ Restored[17] = "rdi"
  BY DEF Restored
<1>4. \A k \in 1 .. 16 : Restored[k] = Saved[17 - k]
  BY DEF Restored, Saved
<1>5. \A r \in Regs : \E p \in 1 .. 17 : Restored[p] = r
  BY DEF Restored, Regs
<1>6. ASSUME NEW r \in Regs PROVE h[high + 1 - at(r)][2] = c.reg[r]
  <2>1. at(r) \in 1 .. 17 /\ Restored[at(r)] = r
    <3>1. \E p \in DOMAIN Restored : Restored[p] = r
      BY <1>3, <1>5, Zenon
    <3>2. at(r) \in DOMAIN Restored /\ Restored[at(r)] = r
      BY <3>1, Zenon
    <3> QED
      BY Zenon, <1>3, <3>2
  <2> DEFINE k == at(r)
  <2> HIDE DEF at
  <2>2. CASE k = 17
    <3>1. r = "rdi" /\ high + 1 - k = low + 1
      BY <1>2, <1>3, <2>1, <2>2
    <3>2. h[high + 1 - k] = <<"rdi", c.reg[r]>>
      BY <1>8, <3>1, Zenon DEF Word
    <3> QED
      BY <3>2
  <2>3. CASE k \in 1 .. 16
    <3>1. 17 - k \in 1 .. 16 /\ high + 1 - k = low + 1 + (17 - k)
      BY <1>2, <2>3
    <3>2. Saved[17 - k] = r
      BY Zenon, <1>4, <2>1, <2>3
    <3>3. h[high + 1 - k] = <<r, c.reg[r]>>
      BY <1>8, <3>1, <3>2, Zenon DEF Word
    <3> QED
      BY <3>3
  <2>4. k = 17 \/ k \in 1 .. 16
    BY <2>1
  <2> QED
    BY <2>2, <2>3, <2>4, Zenon
<1> HIDE DEF at
<1>7. [r \in Regs |-> h[high + 1 - at(r)][2]] = c.reg
  BY Zenon, <1>1, <1>6
<1> QED
  BY <1>7, Zenon DEF h, at, high

(* What iretq finds on top of the stack.                                   *)
LEMMA TopOfEntered ==
  ASSUME NEW c \in Contexts, NEW d \in Nat \ {0}, NEW v \in 0..255
  PROVE  LET t == Top(EnteredStack(c, d, v), 5)
         IN  /\ v \notin ErrorCode => IsFrame(t, c, d)
             /\ v \in ErrorCode => t[5] = Word("error", v)
<1> DEFINE s == EnteredStack(c, d, v)
           f == FrameOf(c, d, v)
           m == Len(c.stack) + Len(Padding(c))
           t == Top(s, 5)
           high == Len(s)
           size == Len(f)
<1>1. s \in Seq(Words) /\ high = m + size /\ m \in Nat
  BY EnteredShape, Zenon
<1>2. \A k \in 1 .. size : s[m + k] = f[k]
  BY EnteredShape, Zenon
<1>3. (v \notin ErrorCode => size = 5) /\ (v \in ErrorCode => size = 6)
  BY FrameShape, Zenon
<1>4. IsFrame(f, c, d) /\ (v \in ErrorCode => f[6] = Word("error", v))
  BY FrameShape, Zenon
<1>10. Len(s) = high
  BY Zenon
<1> HIDE DEF s, f, m, high, size
<1>5. high >= 5
  <2>1. CASE v \in ErrorCode
    BY <1>1, <1>3, <2>1
  <2>2. CASE v \notin ErrorCode
    BY <1>1, <1>3, <2>2
  <2> QED
    BY Zenon, <2>1, <2>2
<1>6. \A k \in 1 .. 5 : t[k] = s[high - 5 + k]
  <2>1. high \in Nat /\ s \in Seq(Words)
    BY <1>1, <1>3
  <2>2. t = SubSeq(s, high - 5 + 1, high)
    BY <1>10, Zenon DEF Top
  <2> QED
    BY <1>5, <2>1, <2>2
<1> HIDE DEF t
<1>7. ASSUME v \notin ErrorCode
      PROVE  \A k \in 1 .. 5 : t[k] = f[k]
  <2>1. size = 5 /\ high - 5 = m
    BY <1>1, <1>3, <1>7
  <2> QED
    BY <1>2, <1>6, <2>1, Zenon
<1>8. ASSUME v \in ErrorCode
      PROVE  t[5] = f[6]
  <2>1. size = 6 /\ high - 5 + 5 = m + 6
    BY <1>1, <1>3, <1>8
  <2>2. t[5] = s[high - 5 + 5]
    BY <1>6
  <2>3. s[m + 6] = f[6]
    BY <1>2, <2>1
  <2> QED
    BY Zenon, <2>1, <2>2, <2>3
<1>9. v \notin ErrorCode => t[1] = f[1] /\ t[2] = f[2] /\ t[3] = f[3] /\ t[4] = f[4] /\ t[5] = f[5]
  BY <1>7
<1>11. v \notin ErrorCode => IsFrame(t, c, d)
  BY <1>4, <1>9, Zenon DEF IsFrame
<1> QED
  BY <1>4, <1>8, <1>11, Zenon DEF t, s

-----------------------------------------------------------------------------
(* The steps of the processor                                              *)

(* Outside of any interrupt the invariant says where the processor is and  *)
(* what is at the bottom of main's stack.                                  *)
LEMMA OuterInv ==
  ASSUME depth' = 0, pc' = "main", ip' \in {"code", "hlt", "stub"},
         ip' = "code" => Len(stack') > 0 /\ stack'[1] = Word("return", "hlt"),
         ip' = "stub" => vector' = 0 /\ stub' = 0
  PROVE  CpuInv'
<1>1. ip' # "boot" /\ ip' # "behind hlt" /\ ip' # "lost" /\ ip' \notin {"save", "handler"}
  BY Zenon
<1>2. ip' \in InService => ip' = "stub" /\ ip' \notin {"restore", "iretq"}
  BY Zenon DEF InService
<1>3. ~ (depth' > 0) /\ ~ (depth' > 1) /\ 1 .. depth' = {}
  OBVIOUS
<1> QED
  BY <1>1, <1>2, <1>3, Zenon DEF CpuInv, OneExternalAtATime

(* main runs, is interrupted by nothing, returns, and the processor falls  *)
(* into the first stub when the hlt behind the call ends.                  *)
LEMMA OuterStep ==
  ASSUME CpuTypeOK, CpuInv, UNCHANGED boot_vars,
         \/ CallMain \/ CodePush \/ CodePop \/ CodeCompute \/ CodeCliSti \/ MainReturns
         \/ FallThrough
  PROVE  CpuTypeOK' /\ CpuInv'
<1>1. interrupted' = interrupted
  BY Zenon DEF CallMain, CodePush, CodePop, CodeCompute, CodeCliSti, MainReturns, FallThrough
<1>2. ip \in {"boot", "code", "behind hlt"}
  BY Zenon DEF CallMain, CodePush, CodePop, CodeCompute, CodeCliSti, MainReturns, FallThrough
<1>3. depth' = 0
  BY Zenon, <1>1, <1>2 DEF CpuInv, depth
<1>4. pc' = "main"
  BY Zenon, <1>2 DEF CpuInv, boot_vars, CallMain, CodePush, CodePop, CodeCompute, CodeCliSti,
    MainReturns, FallThrough
<1>5. interrupted' \in Seq(Contexts) /\ stack \in Seq(Words)
  BY <1>1, Zenon DEF CpuTypeOK
<1>6. ifl \in BOOLEAN /\ reg \in [Regs -> RegValues] /\ vector \in 0..255 /\ stub \in 0..255
  BY Zenon DEF CpuTypeOK
<1>7. ASSUME ip = "code" PROVE Len(stack) > 0 /\ stack[1] = Word("return", "hlt")
  BY <1>7, Zenon DEF CpuInv
<1>8. CASE CallMain
  <2>1. stack = <<>> /\ stack' = Append(stack, Word("return", "hlt")) /\ ip' = "code"
    BY <1>8, Zenon DEF CallMain, CpuInv
  <2>2. Word("return", "hlt") \in Words
    <3>1. "return" \in Kinds
      BY Zenon DEF Kinds
    <3> QED
      BY <3>1, WordsAreWords, Zenon
  <2>3. stack' \in Seq(Words) /\ Len(stack') > 0 /\ stack'[1] = Word("return", "hlt")
    BY <1>5, <2>1, <2>2
  <2>4. CpuInv'
    BY Zenon, <1>3, <1>4, <2>1, <2>3, OuterInv
  <2>5. ifl' \in BOOLEAN /\ reg' = reg /\ vector' = vector /\ stub' = stub
    BY <1>8, Zenon DEF CallMain
  <2> QED
    BY <1>5, <1>6, <2>1, <2>3, <2>4, <2>5, Zenon DEF CpuTypeOK, Places
<1>9. CASE CodePush
  <2>1. stack' = Append(stack, Word("data", Len(stack))) /\ ip' = "code" /\ ip = "code"
    BY <1>9, Zenon DEF CodePush
  <2>2. Word("data", Len(stack)) \in Words
    <3>1. "data" \in Kinds /\ Len(stack) \in Nat
      BY <1>5 DEF Kinds
    <3> QED
      BY <3>1, WordsAreWords, Zenon
  <2>3. stack' \in Seq(Words) /\ Len(stack') > 0 /\ stack'[1] = Word("return", "hlt")
    BY <1>5, <1>7, <2>1, <2>2
  <2>4. CpuInv'
    BY Zenon, <1>3, <1>4, <2>1, <2>3, OuterInv
  <2>5. ifl' = ifl /\ reg' = reg /\ vector' = vector /\ stub' = stub
    BY <1>9, Zenon DEF CodePush
  <2> QED
    BY <1>5, <1>6, <2>1, <2>3, <2>4, <2>5, Zenon DEF CpuTypeOK, Places
<1>10. CASE CodePop
  <2>1. stack' = SubSeq(stack, 1, Len(stack) - 1) /\ ip' = "code" /\ ip = "code" /\ Len(stack) > 1
    BY <1>10, Zenon DEF CodePop, Drop
  <2>2. stack' \in Seq(Words) /\ Len(stack') > 0 /\ stack'[1] = Word("return", "hlt")
    <3>1. Len(stack) - 1 \in Nat /\ Len(stack) - 1 <= Len(stack) /\ 1 \in 1 .. Len(stack) - 1
      BY <1>5, <2>1
    <3>2. /\ stack' \in Seq(Words) /\ Len(stack') = Len(stack) - 1
          /\ \A k \in 1 .. Len(stack) - 1 : stack'[k] = stack[k]
      BY Zenon, <1>5, <2>1, <3>1, FirstWords
    <3> QED
      BY <1>7, <2>1, <3>1, <3>2
  <2>3. CpuInv'
    BY Zenon, <1>3, <1>4, <2>1, <2>2, OuterInv
  <2>4. ifl' = ifl /\ reg' = reg /\ vector' = vector /\ stub' = stub
    BY <1>10, Zenon DEF CodePop
  <2> QED
    BY <1>5, <1>6, <2>1, <2>2, <2>3, <2>4, Zenon DEF CpuTypeOK, Places
<1>11. CASE CodeCompute
  <2>1. reg' = [r \in Regs |-> <<r, IF reg[r][2] = "code" THEN "more" ELSE "code">>]
    BY Zenon, <1>11 DEF CodeCompute
  <2>2. reg' \in [Regs -> RegValues]
    BY Zenon, <2>1 DEF RegValues
  <2>3. ifl' = ifl /\ stack' = stack /\ vector' = vector /\ stub' = stub /\ ip' = "code" /\ ip = "code"
    BY <1>11, Zenon DEF CodeCompute
  <2>4. CpuInv'
    BY Zenon, <1>3, <1>4, <1>7, <2>3, OuterInv
  <2> QED
    BY <1>5, <1>6, <2>2, <2>3, <2>4, Zenon DEF CpuTypeOK, Places
<1>12. CASE CodeCliSti
  <2>1. /\ ifl' \in BOOLEAN /\ reg' = reg /\ stack' = stack /\ vector' = vector /\ stub' = stub
        /\ ip' = "code" /\ ip = "code"
    BY <1>12, Zenon DEF CodeCliSti
  <2>2. CpuInv'
    BY Zenon, <1>3, <1>4, <1>7, <2>1, OuterInv
  <2> QED
    BY <1>5, <1>6, <2>1, <2>2, Zenon DEF CpuTypeOK, Places
<1>13. CASE MainReturns
  <2>1. ip' = stack[1][2] /\ stack' = <<>> /\ ip = "code"
    BY <1>13, Zenon DEF MainReturns
  <2>2. ip' = "hlt"
    BY <1>7, <2>1 DEF Word
  <2>3. stack' \in Seq(Words)
    BY <2>1
  <2>4. ifl' = ifl /\ reg' = reg /\ vector' = vector /\ stub' = stub
    BY <1>13, Zenon DEF MainReturns
  <2>5. CpuInv'
    BY Zenon, <1>3, <1>4, <2>2, OuterInv
  <2> QED
    BY <1>5, <1>6, <2>2, <2>3, <2>4, <2>5, Zenon DEF CpuTypeOK, Places
<1>14. CASE FallThrough
  <2>1. ip' = "stub" /\ vector' = 0 /\ stub' = 0
    BY <1>14, Zenon DEF FallThrough
  <2>2. stack' = stack /\ ifl' = ifl /\ reg' = reg
    BY <1>14, Zenon DEF FallThrough
  <2>3. CpuInv'
    BY Zenon, <1>3, <1>4, <2>1, OuterInv
  <2>4. 0 \in 0 .. 255
    OBVIOUS
  <2> QED
    BY <1>5, <1>6, <2>1, <2>2, <2>3, <2>4, Zenon DEF CpuTypeOK, Places
<1> QED
  BY Zenon, <1>8, <1>9, <1>10, <1>11, <1>12, <1>13, <1>14

(* A step within the entry and exit code keeps the invariant if it keeps   *)
(* what the stack and the registers hold of the interrupted context.       *)
LEMMA ServiceInv ==
  ASSUME CpuInv, pc' = pc, interrupted' = interrupted, ip \in InService, ip' \in InService,
         ifl' = ifl, vector' = vector, stub' = stub,
         ip' \in {"restore", "iretq"} => depth # 0,
         ip' \in {"save", "handler"} => reg'["rdi"] = <<"rdi", stub>>,
         depth > 0 => Serving(interrupted[depth], depth)'
  PROVE  CpuInv'
<1>1. /\ ip # "boot" /\ ip' # "boot" /\ ip # "lost" /\ ip' # "lost"
      /\ ip' \notin {"code", "hlt", "behind hlt"} /\ ip' # "code"
  BY Zenon DEF InService
<1>2. pc' = "main"
  BY <1>1, Zenon DEF CpuInv
<1>3. depth' = depth
  BY Zenon DEF depth
<1>4. stub' = vector'
  BY Zenon DEF CpuInv
<1>5. depth' = 0 => vector' = 0 /\ ip' \notin {"restore", "iretq"}
  BY <1>3, Zenon DEF CpuInv
<1>6. depth' > 0 => ifl' = FALSE /\ Serving(interrupted[depth], depth)'
  BY <1>3, Zenon DEF CpuInv
<1>7. OneExternalAtATime'
  BY <1>3, Zenon DEF CpuInv, OneExternalAtATime
<1>8. \A d \in 1 .. depth' : ContextOK(d)'
  BY <1>1, <1>3, Zenon DEF CpuInv, ContextOK
<1>9. ip' \in {"save", "handler"} => reg'["rdi"] = <<"rdi", stub'>>
  BY Zenon
<1> QED
  BY <1>1, <1>2, <1>4, <1>5, <1>6, <1>7, <1>8, <1>9, Zenon DEF CpuInv

(* The interrupted context that is being served.                           *)
LEMMA ServedContext ==
  ASSUME CpuTypeOK, CpuInv, depth > 0
  PROVE  /\ depth \in Nat \ {0} /\ depth \in 1 .. depth /\ interrupted[depth] \in Contexts
         /\ ip \in InService => Serving(interrupted[depth], depth)
<1>1. interrupted \in Seq(Contexts)
  BY Zenon DEF CpuTypeOK
<1>2. depth \in Nat \ {0} /\ depth \in 1 .. depth /\ interrupted[depth] \in Contexts
  BY <1>1 DEF depth
<1>3. ip \in InService => Serving(interrupted[depth], depth)
  BY Zenon DEF CpuInv
<1> QED
  BY Zenon, <1>2, <1>3

(* The stub saves rdi and puts its number there.                           *)
LEMMA StubStep ==
  ASSUME CpuTypeOK, CpuInv, Stub, pc' = pc
  PROVE  CpuTypeOK' /\ CpuInv'
<1>1. /\ ip = "stub" /\ stack' = Append(stack, Word("rdi", reg["rdi"]))
      /\ reg' = [reg EXCEPT !["rdi"] = <<"rdi", stub>>] /\ ip' = "save"
  BY Zenon DEF Stub
<1>2. interrupted' = interrupted /\ ifl' = ifl /\ vector' = vector /\ stub' = stub
  BY Zenon DEF Stub
<1>3. stack \in Seq(Words) /\ reg \in [Regs -> RegValues]
  BY Zenon DEF CpuTypeOK
<1>4. "rdi" \in Regs /\ "rdi" \in Kinds
  BY Zenon DEF Regs, Kinds
<1>5. reg' \in [Regs -> RegValues] /\ reg'["rdi"] = <<"rdi", stub>>
  <2>1. stub \in Nat
    BY DEF CpuTypeOK
  <2>2. <<"rdi", stub>> \in RegValues
    BY Zenon, <1>4, <2>1 DEF RegValues
  <2> QED
    BY Zenon, <1>1, <1>3, <1>4, <2>2
<1>6. stack' \in Seq(Words)
  <2>1. reg["rdi"] \in RegValues
    BY Zenon, <1>3, <1>4
  <2>2. Word("rdi", reg["rdi"]) \in Words
    BY <1>4, <2>1, WordsAreWords, Zenon
  <2> QED
    BY <1>1, <1>3, <2>2
<1>7. ASSUME depth > 0 PROVE Serving(interrupted[depth], depth)'
  <2>1. Serving(interrupted[depth], depth)
    BY Zenon, <1>1, <1>7, ServedContext DEF InService
  <2>2. stack = EnteredStack(interrupted[depth], depth, vector) /\ reg = interrupted[depth].reg
    BY <1>1, <2>1, Zenon DEF Serving
  <2>3. depth' = depth
    BY <1>2, Zenon DEF depth
  <2>4. ip' # "stub" /\ ip' \notin {"handler", "restore"} /\ ip' # "iretq"
    BY Zenon, <1>1
  <2> QED
    BY <1>1, <1>2, <2>2, <2>3, <2>4, Zenon DEF Serving
<1>8. ip \in InService /\ ip' \in InService /\ ip' \in Places /\ ip' \notin {"restore", "iretq"}
  BY Zenon, <1>1 DEF InService, Places
<1>9. CpuInv'
  BY Zenon, <1>2, <1>5, <1>7, <1>8, ServiceInv
<1> QED
  BY <1>2, <1>5, <1>6, <1>8, <1>9, Zenon DEF CpuTypeOK

(* handle_interrupt_ saves the other registers; rdi is not among them.     *)
LEMMA SaveStep ==
  ASSUME CpuTypeOK, CpuInv, SaveRegisters, pc' = pc
  PROVE  CpuTypeOK' /\ CpuInv'
<1>1. ip = "save" /\ stack' = stack \o RegWords(reg) /\ ip' = "handler"
  BY Zenon DEF SaveRegisters, RegWords
<1>2. interrupted' = interrupted /\ ifl' = ifl /\ vector' = vector /\ stub' = stub /\ reg' = reg
  BY Zenon DEF SaveRegisters
<1>3. stack \in Seq(Words) /\ reg \in [Regs -> RegValues]
  BY Zenon DEF CpuTypeOK
<1>4. stack' \in Seq(Words)
  <2>1. RegWords(reg) \in Seq(Words)
    BY Zenon, <1>3, RegWordsShape
  <2> QED
    BY <1>1, <1>3, <2>1
<1>5. reg'["rdi"] = <<"rdi", stub>>
  BY <1>1, <1>2, Zenon DEF CpuInv
<1>6. ASSUME depth > 0 PROVE Serving(interrupted[depth], depth)'
  <2> DEFINE c == interrupted[depth]
  <2>1. Serving(c, depth) /\ c \in Contexts
    BY Zenon, <1>1, <1>6, ServedContext DEF InService
  <2>2. /\ stack = Append(EnteredStack(c, depth, vector), Word("rdi", c.reg["rdi"]))
        /\ reg = [c.reg EXCEPT !["rdi"] = <<"rdi", stub>>]
    BY <1>1, <2>1, Zenon DEF Serving
  <2>3. c.reg \in [Regs -> RegValues]
    BY <2>1, Zenon DEF Contexts
  <2> HIDE DEF c
  <2>4. RegWords(reg) = RegWords(c.reg)
    <3>1. DOMAIN Saved = 1 .. 16 /\ \A k \in 1 .. 16 : Saved[k] \in Regs /\ Saved[k] # "rdi"
      BY DEF Saved, Regs
    <3>2. \A k \in 1 .. 16 : reg[Saved[k]] = c.reg[Saved[k]]
      BY Zenon, <2>2, <2>3, <3>1
    <3>3. /\ RegWords(reg) = [k \in 1 .. 16 |-> Word(Saved[k], reg[Saved[k]])]
          /\ RegWords(c.reg) = [k \in 1 .. 16 |-> Word(Saved[k], c.reg[Saved[k]])]
      BY <3>1, Zenon DEF RegWords
    <3> QED
      BY Zenon, <3>2, <3>3
  <2>5. stack' = HandlerStack(c, depth, vector)
    BY <1>1, <2>2, <2>4, Zenon DEF HandlerStack
  <2>6. depth' = depth
    BY <1>2, Zenon DEF depth
  <2>7. ip' # "stub" /\ ip' # "save" /\ ip' # "iretq"
    BY Zenon, <1>1
  <2> QED
    BY <1>2, <2>5, <2>6, <2>7, Zenon DEF Serving, c
<1>7. ip \in InService /\ ip' \in InService /\ ip' \in Places /\ ip' \notin {"restore", "iretq"}
  BY Zenon, <1>1 DEF InService, Places
<1>8. CpuInv'
  BY Zenon, <1>2, <1>5, <1>6, <1>7, ServiceInv
<1> QED
  BY <1>2, <1>4, <1>7, <1>8, Zenon DEF CpuTypeOK

(* The C handler returns, to code that was entered through a gate.         *)
LEMMA HandlerStep ==
  ASSUME CpuTypeOK, CpuInv, HandlerReturns, pc' = pc
  PROVE  CpuTypeOK' /\ CpuInv'
<1>1. ip = "handler" /\ ip' = "restore" /\ stub \in Handled
  BY Zenon DEF HandlerReturns
<1>2. interrupted' = interrupted /\ ifl' = ifl /\ vector' = vector /\ stub' = stub /\ stack' = stack
  BY Zenon DEF HandlerReturns
<1>3. reg' \in [Regs -> RegValues]
  <2>1. reg \in [Regs -> RegValues]
    BY Zenon DEF CpuTypeOK
  <2>2. reg' = [r \in Regs |-> IF r \in CallerSaved THEN <<r, "handler">> ELSE reg[r]]
    BY Zenon DEF HandlerReturns
  <2>3. \A r \in Regs : <<r, "handler">> \in RegValues
    BY Zenon DEF RegValues
  <2> QED
    BY Zenon, <2>1, <2>2, <2>3
<1>4. ip \in InService /\ ip' \in InService /\ ip' \in Places /\ ip' \notin {"save", "handler"}
  BY Zenon, <1>1 DEF InService, Places
<1>5. depth # 0
  <2>1. stub = vector /\ (depth = 0 => vector = 0)
    BY <1>4, Zenon DEF CpuInv
  <2>2. 0 \notin Handled
    BY DEF Handled
  <2> QED
    BY <1>1, <2>1, <2>2, Zenon
<1>6. ASSUME depth > 0 PROVE Serving(interrupted[depth], depth)'
  <2>1. Serving(interrupted[depth], depth)
    BY Zenon, <1>4, <1>6, ServedContext
  <2>2. stack = HandlerStack(interrupted[depth], depth, vector)
    BY <1>1, <2>1, Zenon DEF Serving
  <2>3. depth' = depth
    BY <1>2, Zenon DEF depth
  <2>4. ip' # "stub" /\ ip' # "save" /\ ip' # "iretq"
    BY Zenon, <1>1
  <2> QED
    BY <1>2, <2>2, <2>3, <2>4, Zenon DEF Serving
<1>7. CpuInv'
  BY Zenon, <1>2, <1>4, <1>5, <1>6, ServiceInv
<1> QED
  BY <1>2, <1>3, <1>4, <1>7, Zenon DEF CpuTypeOK

(* The registers are restored, and the stack is the one on entry again.    *)
LEMMA RestoreStep ==
  ASSUME CpuTypeOK, CpuInv, RestoreRegisters, pc' = pc
  PROVE  CpuTypeOK' /\ CpuInv'
<1> DEFINE c == interrupted[depth]
<1>1. ip = "restore" /\ ip' = "iretq"
  BY Zenon DEF RestoreRegisters
<1>2. interrupted' = interrupted /\ ifl' = ifl /\ vector' = vector /\ stub' = stub
  BY Zenon DEF RestoreRegisters
<1>3. ip \in InService /\ ip' \in InService /\ ip' \in Places /\ ip' \notin {"save", "handler"}
  BY Zenon, <1>1 DEF InService, Places
<1>4. depth > 0 /\ depth # 0
  <2>1. depth # 0
    BY <1>1, <1>3, Zenon DEF CpuInv
  <2>2. interrupted \in Seq(Contexts)
    BY Zenon DEF CpuTypeOK
  <2> QED
    BY <2>1, <2>2 DEF depth
<1>5. c \in Contexts /\ depth \in Nat \ {0} /\ Serving(c, depth)
  BY Zenon, <1>3, <1>4, ServedContext
<1>6. vector \in 0..255
  BY Zenon DEF CpuTypeOK
<1>7. stack = HandlerStack(c, depth, vector)
  BY <1>1, <1>5, Zenon DEF Serving
<1> HIDE DEF c
<1>8. c.reg \in [Regs -> RegValues]
  BY <1>5, Zenon DEF Contexts
<1>9. reg' = c.reg
  <2>1. reg' = [r \in Regs |-> LET k == CHOOSE p \in DOMAIN Restored : Restored[p] = r
                               IN  stack[Len(stack) + 1 - k][2]]
    BY Zenon DEF RestoreRegisters
  <2> DEFINE h == HandlerStack(c, depth, vector)
  <2>2. [r \in Regs |-> LET k == CHOOSE p \in DOMAIN Restored : Restored[p] = r
                        IN  h[Len(h) + 1 - k][2]] = c.reg
    BY <1>5, <1>6, PopsMirrorPushes, Zenon
  <2>3. stack = h
    BY Zenon, <1>7
  <2> HIDE DEF h
  <2> QED
    BY <2>1, <2>2, <2>3, Zenon
<1>10. stack' = EnteredStack(c, depth, vector) /\ stack' \in Seq(Words)
  <2> DEFINE s == EnteredStack(c, depth, vector)
             h == HandlerStack(c, depth, vector)
  <2>1. Len(s) \in Nat /\ Len(h) = Len(s) + 17 /\ SubSeq(h, 1, Len(s)) = s
    BY <1>5, <1>6, HandlerShape, Zenon
  <2>2. s \in Seq(Words)
    BY <1>5, <1>6, EnteredShape, Zenon
  <2>3. Len(Restored) = 17
    BY Zenon DEF Restored
  <2>4. stack' = SubSeq(h, 1, Len(h) - 17)
    BY <1>7, <2>3, Zenon DEF RestoreRegisters, Drop
  <2> HIDE DEF s, h
  <2>5. Len(h) - 17 = Len(s)
    BY <2>1
  <2> QED
    BY <2>1, <2>2, <2>4, <2>5, Zenon DEF s
<1>11. ASSUME depth > 0 PROVE Serving(interrupted[depth], depth)'
  <2>1. depth' = depth
    BY <1>2, Zenon DEF depth
  <2>2. ip' # "stub" /\ ip' # "save" /\ ip' \notin {"handler", "restore"}
    BY Zenon, <1>1
  <2> QED
    BY <1>2, <1>9, <1>10, <2>1, <2>2, Zenon DEF Serving, c
<1>12. CpuInv'
  BY Zenon, <1>2, <1>3, <1>4, <1>11, ServiceInv
<1> QED
  BY <1>2, <1>3, <1>8, <1>9, <1>10, <1>12, Zenon DEF CpuTypeOK

(* Every gate is an interrupt gate and leads to the stub of its vector.    *)
LEMMA GateOfVector ==
  ASSUME GatesInv, pc = "main", NEW v \in Vectors
  PROVE  /\ v \in 0 .. 255 /\ IDT[v + 1].flags % 16 = 14
         /\ (GateTarget(IDT[v + 1]) - Handler0) \div 32 = v
<1>1. v \in 0 .. Gates - 1 /\ Gates \in 1 .. 256
  BY Zenon, VectorsAssumption, GatesAssumption
<1>2. Len(IDT) = Gates
  BY Zenon DEF GatesInv, AfterIDT
<1>3. v + 1 \in DOMAIN IDT /\ (v + 1) - 1 = v
  BY <1>1, <1>2 DEF GatesInv
<1>4. IDT[v + 1].flags = 142
  <2> DEFINE G == [baseLow : Int, baseMid : Int, baseHigh : Int, flags : {142}]
  <2>1. IDT \in Seq(G)
    BY Zenon DEF GatesInv
  <2> HIDE DEF G
  <2>2. IDT[v + 1] \in G
    BY <1>3, <2>1
  <2> QED
    BY <2>2, Zenon DEF G
<1>5. GateTarget(IDT[v + 1]) = Handler0 + 32 * v
  BY Zenon, <1>3 DEF GatesInv, GatesReachTheirStubs, StubAddress
<1>6. Handler0 \in Int
  BY GatesAssumption
<1>7. (GateTarget(IDT[v + 1]) - Handler0) \div 32 = v
  <2>1. GateTarget(IDT[v + 1]) - Handler0 = 32 * v
    BY <1>1, <1>5, <1>6
  <2> QED
    BY <1>1, <2>1
<1> QED
  BY <1>1, <1>4, <1>7

(* The context that an interrupt finds is kept whole: its state is the one *)
(* recorded, and the invariant says of it what it said of the processor.   *)
LEMMA DeliverContext ==
  ASSUME CpuTypeOK, CpuInv, ip \in {"code", "handler", "hlt"}
  PROVE  /\ Context \in Contexts /\ depth \in Nat
         /\ Context.stack = stack /\ Context.reg = reg /\ Context.ifl = ifl
         /\ Context.ip = ResumesAt /\ Context.vector = vector /\ Context.stub = stub
         /\ depth > 0 => ip = "handler" /\ ifl = FALSE
                         /\ stack = HandlerStack(interrupted[depth], depth, vector)
<1>1. ResumesAt \in {"code", "handler", "behind hlt"}
  BY Zenon DEF ResumesAt
<1>2. Context \in Contexts
  BY <1>1, Zenon DEF CpuTypeOK, Contexts, Context
<1>3. /\ Context.stack = stack /\ Context.reg = reg /\ Context.ifl = ifl
      /\ Context.ip = ResumesAt /\ Context.vector = vector /\ Context.stub = stub
  BY Zenon DEF Context
<1>4. interrupted \in Seq(Contexts)
  BY Zenon DEF CpuTypeOK
<1>5. depth \in Nat
  BY <1>4 DEF depth
<1>6. ASSUME depth > 0
      PROVE  ip = "handler" /\ ifl = FALSE
             /\ stack = HandlerStack(interrupted[depth], depth, vector)
  <2>1. depth # 0
    BY <1>6
  <2>2. ip \notin {"code", "hlt"}
    BY <2>1, Zenon DEF CpuInv
  <2>3. ip = "handler" /\ ip \in InService
    BY Zenon, <2>2 DEF InService
  <2>4. ifl = FALSE /\ Serving(interrupted[depth], depth)
    BY <1>6, <2>3, Zenon DEF CpuInv
  <2> QED
    BY <2>3, <2>4, Zenon DEF Serving
<1> QED
  BY <1>2, <1>3, <1>5, <1>6, Zenon

(* An interrupt enters its stub with interrupts off, on an aligned stack   *)
(* that holds the frame of the interrupted context.                        *)
LEMMA DeliverStep ==
  ASSUME CpuTypeOK, CpuInv, GatesInv, NEW v \in Vectors, Deliver(v), pc' = pc
  PROVE  CpuTypeOK' /\ CpuInv'
<1>1. ip \in {"code", "handler", "hlt"} /\ ip' = "stub" /\ vector' = v /\ reg' = reg
  BY Zenon DEF Deliver
<1>2. pc = "main" /\ ip # "lost"
  <2>1. ip # "boot" /\ ip # "lost"
    BY Zenon, <1>1
  <2> QED
    BY <2>1, Zenon DEF CpuInv
<1>3. /\ v \in 0 .. 255 /\ IDT[v + 1].flags % 16 = 14
      /\ (GateTarget(IDT[v + 1]) - Handler0) \div 32 = v
  BY Zenon, <1>2, GateOfVector
<1>4. ifl' = FALSE /\ stub' = v
  <2>1. /\ ifl' = (ifl /\ IDT[v + 1].flags % 16 # 14)
        /\ stub' = (GateTarget(IDT[v + 1]) - Handler0) \div 32
    BY Zenon DEF Deliver
  <2> QED
    BY <1>3, <2>1, Zenon
<1>5. /\ Context \in Contexts /\ depth \in Nat
      /\ Context.stack = stack /\ Context.reg = reg /\ Context.ifl = ifl
      /\ Context.ip = ResumesAt /\ Context.vector = vector /\ Context.stub = stub
  BY <1>1, DeliverContext, Zenon
<1>6. interrupted' = Append(interrupted, Context) /\ interrupted \in Seq(Contexts)
  BY Zenon DEF Deliver, CpuTypeOK
<1>7. /\ interrupted' \in Seq(Contexts) /\ depth' = depth + 1
      /\ interrupted'[depth + 1] = Context
      /\ \A d \in 1 .. depth : interrupted'[d] = interrupted[d]
  <2> HIDE DEF Context
  <2> QED
    BY <1>5, <1>6 DEF depth
<1>8. stack' = EnteredStack(Context, depth + 1, v)
  <2>1. (depth + 1) - 1 = depth
    BY <1>5
  <2>2. Padding(Context) = (IF Len(stack) % 2 = 1 THEN <<Word("pad", 0)>> ELSE <<>>)
    BY <1>5, Zenon DEF Padding
  <2>3. Frame(v) = FrameOf(Context, depth + 1, v)
    BY <1>5, <2>1, Zenon DEF Frame, FrameOf
  <2>4. stack' = (stack \o (IF Len(stack) % 2 = 1 THEN <<Word("pad", 0)>> ELSE <<>>)) \o Frame(v)
    BY Zenon DEF Deliver
  <2> QED
    BY <1>5, <2>2, <2>3, <2>4, Zenon DEF EnteredStack
<1>9. stack' \in Seq(Words)
  <2>1. depth + 1 \in Nat \ {0}
    BY <1>5
  <2> QED
    BY <1>3, <1>5, <1>8, <2>1, EnteredShape, Zenon
<1>10. CpuTypeOK'
  BY <1>1, <1>3, <1>4, <1>7, <1>9, Zenon DEF CpuTypeOK, Places
<1>11. Serving(interrupted[depth], depth)'
  <2>1. ip' # "save" /\ ip' \notin {"handler", "restore"} /\ ip' # "iretq"
    BY Zenon, <1>1
  <2>2. interrupted'[depth'] = Context
    BY <1>7, Zenon
  <2> QED
    BY <1>1, <1>5, <1>7, <1>8, <2>1, <2>2, Zenon DEF Serving
<1>12. OneExternalAtATime'
  <2>1. depth' > 1 => depth > 0
    BY <1>5, <1>7
  <2>2. depth > 0 => ifl = FALSE
    BY <1>1, DeliverContext, Zenon
  <2>3. v \in External => ifl
    BY Zenon DEF Deliver
  <2> QED
    BY <1>1, <2>1, <2>2, <2>3, Zenon DEF OneExternalAtATime
<1>13. \A d \in 1 .. depth' : ContextOK(d)'
  <2>1. \A d \in 1 .. depth : ContextOK(d)
    BY <1>2, Zenon DEF CpuInv
  <2>2. ASSUME NEW d \in 1 .. depth PROVE ContextOK(d)'
    <3>1. ContextOK(d) /\ interrupted'[d] = interrupted[d]
      BY Zenon, <1>7, <2>1
    <3>2. d > 1 => d - 1 \in 1 .. depth
      BY <1>5
    <3>3. d > 1 => interrupted'[d - 1] = interrupted[d - 1]
      BY Zenon, <1>7, <3>2
    <3> QED
      BY <3>1, <3>3, Zenon DEF ContextOK
  <2>3. ASSUME NEW m \in Nat, m = depth + 1 PROVE ContextOK(m)'
    <3> DEFINE c == Context
    <3>1. c.ip = "code" => Len(c.stack) > 0 /\ c.stack[1] = Word("return", "hlt")
      <4>1. ResumesAt = "code" => ip = "code"
        BY Zenon, <1>1 DEF ResumesAt
      <4> QED
        BY <1>5, <4>1, Zenon DEF CpuInv
    <3>2. c.ip = "handler" => ip = "handler"
      <4>1. ResumesAt = "handler" => ip = "handler"
        BY Zenon, <1>1 DEF ResumesAt
      <4> QED
        BY <1>5, <4>1, Zenon
    <3>3. c.ip = "handler" => c.stub = c.vector /\ c.reg["rdi"] = <<"rdi", c.stub>>
      <4>1. "handler" \in InService /\ "handler" \in {"save", "handler"}
        BY Zenon DEF InService
      <4> QED
        BY <1>5, <3>2, <4>1, Zenon DEF CpuInv
    <3>4. m = 1 /\ c.ip = "handler" => c.vector = 0
      <4>1. m = 1 => depth = 0
        BY <1>5, <2>3
      <4>2. "handler" \in InService
        BY Zenon DEF InService
      <4> QED
        BY <1>5, <3>2, <4>1, <4>2, Zenon DEF CpuInv
    <3>5. ASSUME m > 1
          PROVE  /\ c.ip = "handler" /\ c.ifl = FALSE
                 /\ c.stack = HandlerStack(interrupted'[m - 1], m - 1, c.vector)
      <4>1. depth > 0 /\ m - 1 = depth /\ depth \in 1 .. depth
        BY <1>5, <2>3, <3>5
      <4>2. /\ ip = "handler" /\ ifl = FALSE
            /\ stack = HandlerStack(interrupted[depth], depth, vector)
        BY <1>1, <4>1, DeliverContext, Zenon
      <4>3. interrupted'[depth] = interrupted[depth]
        BY Zenon, <1>7, <4>1
      <4>4. ResumesAt = "handler"
        BY Zenon, <4>2 DEF ResumesAt
      <4> QED
        BY <1>5, <4>1, <4>2, <4>3, <4>4, Zenon
    <3>6. m > 2 => c.vector \notin External
      <4>1. m > 2 => depth > 1
        BY <1>5, <2>3
      <4> QED
        BY <1>5, <4>1, Zenon DEF CpuInv, OneExternalAtATime
    <3> HIDE DEF c
    <3>7. interrupted'[m] = c
      BY Zenon, <1>7, <2>3 DEF c
    <3> QED
      BY <3>1, <3>3, <3>4, <3>5, <3>6, <3>7, Zenon DEF ContextOK
  <2>4. \A d \in 1 .. depth + 1 : d \in 1 .. depth \/ (d \in Nat /\ d = depth + 1)
    BY <1>5
  <2> QED
    BY <1>7, <2>2, <2>3, <2>4, Zenon
<1>14. /\ ip' # "boot" /\ ip' \notin {"code", "hlt", "behind hlt"} /\ ip' # "code"
       /\ ip' \notin {"save", "handler"}
  BY Zenon, <1>1
<1>15. depth' # 0
  BY <1>5, <1>7
<1> QED
  BY <1>1, <1>2, <1>4, <1>10, <1>11, <1>12, <1>13, <1>14, <1>15, Zenon DEF CpuInv

(* iretq of an interrupt without an error code puts back the interrupted   *)
(* context; with an error code, which nothing has removed, the five words  *)
(* it takes are not a frame.                                               *)
LEMMA IretqRestores ==
  ASSUME CpuTypeOK, CpuInv, Iretq
  PROVE  /\ depth > 0 /\ interrupted[depth] \in Contexts /\ ip = "iretq"
         /\ vector \notin ErrorCode =>
              LET c == interrupted[depth]
              IN  /\ stack' = c.stack /\ reg' = c.reg /\ ifl' = c.ifl /\ ip' = c.ip
                  /\ vector' = c.vector /\ stub' = c.stub
         /\ vector \in ErrorCode =>
              ip' = "lost" /\ stack' = stack /\ reg' = reg /\ ifl' = ifl /\ vector' = vector
                /\ stub' = stub
<1> DEFINE c == interrupted[depth]
           s == EnteredStack(c, depth, vector)
           t == Top(s, 5)
<1>1. ip = "iretq" /\ reg' = reg
  BY Zenon DEF Iretq
<1>2. ip \in InService /\ ip \in {"restore", "iretq"}
  BY Zenon, <1>1 DEF InService
<1>3. depth > 0
  <2>1. depth # 0
    BY <1>2, Zenon DEF CpuInv
  <2>2. interrupted \in Seq(Contexts)
    BY Zenon DEF CpuTypeOK
  <2> QED
    BY <2>1, <2>2 DEF depth
<1>4. c \in Contexts /\ depth \in Nat \ {0} /\ Serving(c, depth)
  BY Zenon, <1>2, <1>3, ServedContext
<1>5. vector \in 0..255
  BY Zenon DEF CpuTypeOK
<1>6. stack = s /\ reg = c.reg
  BY <1>1, <1>4, Zenon DEF Serving
<1>7. Popped = t
  BY <1>6, Zenon DEF Popped
<1>8. ASSUME vector \notin ErrorCode
      PROVE  /\ stack' = c.stack /\ ifl' = c.ifl /\ ip' = c.ip
             /\ vector' = c.vector /\ stub' = c.stub
  <2>1. IsFrame(t, c, depth)
    BY <1>4, <1>5, <1>8, TopOfEntered, Zenon
  <2>2. SubSeq(s, 1, Len(c.stack)) = c.stack
    BY <1>4, <1>5, EnteredShape, Zenon
  <2> HIDE DEF t, s, c
  <2>3. /\ t[1][1] = "ss" /\ t[2][1] = "rsp" /\ t[3][1] = "rflags" /\ t[4][1] = "cs"
        /\ t[5][1] = "rip"
    BY <2>1 DEF Word, IsFrame
  <2>4. t[2][2] = Len(c.stack) /\ t[3][2] = c.ifl /\ t[5][2][2] = c.ip
    BY <2>1 DEF Word, IsFrame
  <2>5. FrameOnTop
    <3>1. [k \in 1..5 |-> t[k][1]] = <<"ss", "rsp", "rflags", "cs", "rip">>
      BY <2>3
    <3> QED
      BY <1>7, <3>1, Zenon DEF FrameOnTop
  <2>6. /\ stack' = SubSeq(stack, 1, t[2][2]) /\ ifl' = t[3][2] /\ ip' = t[5][2][2]
        /\ vector' = c.vector /\ stub' = c.stub
    BY <1>7, <2>5, Zenon DEF Iretq, c
  <2> QED
    BY <1>6, <2>2, <2>4, <2>6, Zenon
<1>9. ASSUME vector \in ErrorCode
      PROVE  ip' = "lost" /\ stack' = stack /\ ifl' = ifl /\ vector' = vector /\ stub' = stub
  <2>1. t[5] = Word("error", vector)
    BY <1>4, <1>5, <1>9, TopOfEntered, Zenon
  <2> HIDE DEF t
  <2>2. [k \in 1..5 |-> t[k][1]] # <<"ss", "rsp", "rflags", "cs", "rip">>
    <3>1. t[5][1] = "error"
      BY <2>1 DEF Word
    <3> QED
      BY <3>1
  <2>3. ~FrameOnTop
    BY <1>7, <2>2, Zenon DEF FrameOnTop
  <2> QED
    BY <2>3, Zenon DEF Iretq
<1> QED
  BY <1>1, <1>3, <1>4, <1>6, <1>8, <1>9, Zenon

(* The return from an interrupt keeps the invariant: what was said of the  *)
(* interrupted context is said of the processor again.                     *)
LEMMA IretqStep ==
  ASSUME CpuTypeOK, CpuInv, Iretq, pc' = pc
  PROVE  CpuTypeOK' /\ CpuInv'
<1> DEFINE c == interrupted[depth]
<1>1. ip = "iretq" /\ c \in Contexts /\ depth > 0
  BY Zenon, IretqRestores
<1>2. ip \in InService /\ ip # "boot" /\ ip # "lost"
  BY Zenon, <1>1 DEF InService
<1>3. pc' = "main"
  BY <1>2, Zenon DEF CpuInv
<1>4. interrupted \in Seq(Contexts) /\ interrupted' = SubSeq(interrupted, 1, depth - 1)
  BY Zenon DEF CpuTypeOK, Iretq, Drop, depth
<1>5. /\ depth \in Nat /\ depth - 1 \in Nat
      /\ interrupted' \in Seq(Contexts) /\ depth' = depth - 1
      /\ \A d \in 1 .. depth - 1 : interrupted'[d] = interrupted[d]
  <2>1. depth \in Nat /\ depth - 1 \in Nat /\ depth - 1 <= Len(interrupted)
    BY <1>1, <1>4 DEF depth
  <2> HIDE DEF depth
  <2>2. /\ SubSeq(interrupted, 1, depth - 1) \in Seq(Contexts)
        /\ Len(SubSeq(interrupted, 1, depth - 1)) = depth - 1
        /\ \A d \in 1 .. depth - 1 : SubSeq(interrupted, 1, depth - 1)[d] = interrupted[d]
    BY Zenon, <1>4, <2>1, FirstWords
  <2>3. depth' = Len(interrupted')
    BY Zenon DEF depth
  <2> QED
    BY <1>4, <2>1, <2>2, <2>3, Zenon
<1>6. \A d \in 1 .. depth : ContextOK(d)
  BY <1>2, Zenon DEF CpuInv
<1>7. CASE vector \in ErrorCode
  <2>1. ip' = "lost" /\ stack' = stack /\ reg' = reg /\ ifl' = ifl /\ vector' = vector /\ stub' = stub
    BY Zenon, <1>7, IretqRestores
  <2>2. CpuTypeOK'
    BY <1>5, <2>1, Zenon DEF CpuTypeOK, Places
  <2>3. OneExternalAtATime'
    <3>1. depth' > 1 => depth > 1
      BY <1>5
    <3> QED
      BY <2>1, <3>1, Zenon DEF CpuInv, OneExternalAtATime
  <2>4. /\ ip' # "boot" /\ ip' \notin {"code", "hlt", "behind hlt"} /\ ip' # "code"
        /\ ip' \notin InService /\ ip' \notin {"save", "handler"}
    BY Zenon, <2>1 DEF InService
  <2> QED
    BY <1>3, <2>1, <2>2, <2>3, <2>4, Zenon DEF CpuInv
<1>8. CASE vector \notin ErrorCode
  <2>1. /\ stack' = c.stack /\ reg' = c.reg /\ ifl' = c.ifl /\ ip' = c.ip
        /\ vector' = c.vector /\ stub' = c.stub
    BY Zenon, <1>8, IretqRestores
  <2>2. ip' \in {"code", "handler", "behind hlt"}
    BY <1>1, <2>1, Zenon DEF Contexts
  <2>3. CpuTypeOK'
    <3>1. /\ c.stack \in Seq(Words) /\ c.reg \in [Regs -> RegValues] /\ c.ifl \in BOOLEAN
          /\ c.vector \in 0..255 /\ c.stub \in 0..255
      BY <1>1, Zenon DEF Contexts
    <3>2. ip' \in Places
      BY Zenon, <2>2 DEF Places
    <3> QED
      BY <1>5, <2>1, <3>1, <3>2, Zenon DEF CpuTypeOK
  <2>4. depth \in 1 .. depth
    BY <1>1, <1>5
  <2>5. ContextOK(depth)
    BY Zenon, <1>6, <2>4
  <2> USE DEF ContextOK
  <2>6. /\ c.ip = "code" => Len(c.stack) > 0 /\ c.stack[1] = Word("return", "hlt")
        /\ c.ip = "handler" => c.stub = c.vector /\ c.reg["rdi"] = <<"rdi", c.stub>>
        /\ depth = 1 /\ c.ip = "handler" => c.vector = 0
    BY <2>5, Zenon
  <2>7. /\ depth > 1 => /\ c.ip = "handler" /\ c.ifl = FALSE
                        /\ c.stack = HandlerStack(interrupted[depth - 1], depth - 1, c.vector)
        /\ depth > 2 => c.vector \notin External
    BY <2>5, Zenon
  <2> HIDE DEF ContextOK
  <2>8. OneExternalAtATime'
    <3>1. depth' > 1 => depth > 2
      BY <1>5
    <3> QED
      BY <2>1, <2>7, <3>1, Zenon DEF OneExternalAtATime
  <2>9. \A d \in 1 .. depth' : ContextOK(d)'
    <3>1. ASSUME NEW d \in 1 .. depth - 1 PROVE ContextOK(d)'
      <4>1. d \in 1 .. depth /\ (d > 1 => d - 1 \in 1 .. depth - 1)
        BY <1>5
      <4>2. interrupted'[d] = interrupted[d] /\ (d > 1 => interrupted'[d - 1] = interrupted[d - 1])
        BY Zenon, <1>5, <4>1
      <4> QED
        BY <1>6, <4>1, <4>2, Zenon DEF ContextOK
    <3> QED
      BY <1>5, <3>1, Zenon
  <2>10. ip' # "boot" /\ ip' # "lost" /\ ip' \notin {"restore", "iretq"}
    BY Zenon, <2>2
  <2>11. ip' \in InService => ip' = "handler"
    BY Zenon, <2>2 DEF InService
  <2>12. ip' \in {"save", "handler"} => ip' = "handler"
    BY Zenon, <2>2
  <2>13. ip' \in {"code", "hlt", "behind hlt"} => depth' = 0
    <3>1. ip' \in {"code", "hlt", "behind hlt"} => ~ (depth > 1)
      BY Zenon, <2>1, <2>7
    <3>2. ~ (depth > 1) => depth' = 0
      BY <1>1, <1>5
    <3> QED
      BY <3>1, <3>2, Zenon
  <2>14. depth' = 0 => depth = 1
    BY <1>5
  <2>15. ASSUME depth' > 0, ip' \in InService
         PROVE  ifl' = FALSE /\ Serving(interrupted[depth], depth)'
    <3>1. depth > 1 /\ depth - 1 \in 1 .. depth - 1
      BY <1>5, <2>15
    <3>2. interrupted'[depth'] = interrupted[depth - 1]
      BY Zenon, <1>5, <3>1
    <3>3. ip' # "stub" /\ ip' # "save" /\ ip' # "iretq"
      BY Zenon, <2>11, <2>15
    <3> QED
      BY <1>5, <2>1, <2>7, <3>1, <3>2, <3>3, Zenon DEF Serving
  <2> HIDE DEF c
  <2> QED
    BY <1>3, <2>1, <2>3, <2>6, <2>8, <2>9, <2>10, <2>11, <2>12, <2>13, <2>14, <2>15, Zenon DEF CpuInv
<1> QED
  BY Zenon, <1>7, <1>8

-----------------------------------------------------------------------------
(* The machine                                                             *)

(* The inductive invariant of the machine: the order of the boot code, the *)
(* gates, the interrupt controllers and the processor.                     *)
MInv == OrderInv /\ GatesInv /\ DevicesInv /\ CpuTypeOK /\ CpuInv

(* The machine as it is switched on.                                       *)
LEMMA InitMInv == Init => MInv
<1> SUFFICES ASSUME Init PROVE MInv
  BY Zenon
<1>1. OrderInv /\ GatesInv /\ DevicesInv
  BY Zenon, OrderInit, GatesInit, DevicesInit DEF Init
<1>2. /\ stack = <<>> /\ reg = [r \in Regs |-> <<r, "code">>] /\ ifl = FALSE /\ ip = "boot"
      /\ vector = 0 /\ stub = 0 /\ interrupted = <<>>
  BY Zenon DEF Init
<1>3. /\ stack \in Seq(Words) /\ interrupted \in Seq(Contexts) /\ depth = 0
      /\ vector \in 0..255 /\ stub \in 0..255
  BY <1>2 DEF depth
<1>4. reg \in [Regs -> RegValues]
  BY Zenon, <1>2 DEF RegValues
<1>5. CpuTypeOK
  BY <1>2, <1>3, <1>4, Zenon DEF CpuTypeOK, Places
<1>6. CpuInv
  <2>1. /\ ip \notin {"code", "hlt", "behind hlt"} /\ ip # "code" /\ ip \notin InService
        /\ ip \notin {"save", "handler"} /\ ~(depth > 1) /\ 1 .. depth = {}
    BY <1>2, <1>3 DEF InService
  <2> QED
    BY <1>2, <2>1, Zenon DEF CpuInv, OneExternalAtATime
<1> QED
  BY Zenon, <1>1, <1>5, <1>6 DEF MInv

(* A step of the boot code or of the processor keeps the invariant.        *)
LEMMA NextMInv == MInv /\ [Next]_vars => MInv'
<1> SUFFICES ASSUME MInv, [Next]_vars PROVE MInv'
  BY Zenon
<1>1. OrderInv /\ GatesInv /\ DevicesInv /\ CpuTypeOK /\ CpuInv
  BY Zenon DEF MInv
<1>2. CASE BootNext /\ UNCHANGED cpu_vars
  <2>1. OrderInv' /\ GatesInv' /\ DevicesInv'
    BY Zenon, <1>1, <1>2, OrderStep, GatesStep, DevicesStep
  <2>2. /\ stack' = stack /\ reg' = reg /\ ifl' = ifl /\ ip' = ip /\ vector' = vector
        /\ stub' = stub /\ interrupted' = interrupted
    BY <1>2, Zenon DEF cpu_vars
  <2>3. CpuTypeOK'
    BY <1>1, <2>2, Zenon DEF CpuTypeOK
  <2>4. pc # "main"
    BY Zenon, <1>2 DEF BootNext, Enable, StorePDP, StorePD, StorePT, StoreAddr, SetGate, Out
  <2>5. ip = "boot"
    BY <1>1, <2>4, Zenon DEF CpuInv
  <2>6. depth' = depth
    BY <2>2, Zenon DEF depth
  <2>7. /\ ip' \notin {"code", "hlt", "behind hlt"} /\ ip' # "code" /\ ip' \notin InService
        /\ ip' \notin {"save", "handler"} /\ ip' = "boot" /\ ip # "lost"
    BY Zenon, <2>2, <2>5 DEF InService
  <2>8. ~(depth' > 1) /\ 1 .. depth' = {}
    <3>1. interrupted' = <<>>
      BY <1>1, <2>2, <2>5, Zenon DEF CpuInv
    <3>2. depth' = 0
      BY Zenon, <3>1 DEF depth
    <3> QED
      BY <3>2
  <2>9. CpuInv'
    BY <1>1, <2>2, <2>5, <2>7, <2>8, Zenon DEF CpuInv, OneExternalAtATime
  <2> QED
    BY Zenon, <2>1, <2>3, <2>9 DEF MInv
<1>3. ASSUME UNCHANGED boot_vars PROVE OrderInv' /\ GatesInv' /\ DevicesInv' /\ pc' = pc
  <2>1. pc' = pc /\ enabled' = enabled /\ IDT' = IDT /\ n' = n /\ pic' = pic
    BY <1>3, Zenon DEF boot_vars, device_vars
  <2>2. OrderInv'
    BY <1>1, <2>1, Zenon DEF OrderInv
  <2>3. GatesInv'
    BY <1>1, <2>1, Zenon DEF GatesInv, GatesReachTheirStubs
  <2>4. DevicesInv'
    BY <1>1, <2>1, Zenon DEF DevicesInv
  <2> QED
    BY Zenon, <2>1, <2>2, <2>3, <2>4
<1>4. ASSUME UNCHANGED cpu_vars, pc' = pc PROVE CpuTypeOK' /\ CpuInv'
  <2>1. /\ stack' = stack /\ reg' = reg /\ ifl' = ifl /\ ip' = ip /\ vector' = vector
        /\ stub' = stub /\ interrupted' = interrupted
    BY <1>4, Zenon DEF cpu_vars
  <2>2. depth' = depth
    BY <2>1, Zenon DEF depth
  <2>3. \A d \in 1 .. depth : ContextOK(d) => ContextOK(d)'
    BY <2>1, Zenon DEF ContextOK
  <2>4. Serving(interrupted[depth], depth) => Serving(interrupted[depth], depth)'
    BY <2>1, <2>2, Zenon DEF Serving
  <2>5. OneExternalAtATime => OneExternalAtATime'
    BY <2>1, <2>2, Zenon DEF OneExternalAtATime
  <2>6. CpuTypeOK'
    BY <1>1, <2>1, Zenon DEF CpuTypeOK
  <2>7. CpuInv'
    BY <1>1, <1>4, <2>1, <2>2, <2>3, <2>4, <2>5, Zenon DEF CpuInv
  <2> QED
    BY Zenon, <2>6, <2>7
<1>5. CASE CpuNext /\ UNCHANGED boot_vars
  <2>1. pc' = pc
    BY Zenon, <1>3, <1>5
  <2>2. CASE \/ CallMain \/ CodePush \/ CodePop \/ CodeCompute \/ CodeCliSti \/ MainReturns
             \/ FallThrough
    BY Zenon, <1>1, <1>3, <1>5, <2>2, OuterStep DEF MInv
  <2>3. CASE \E v \in Vectors : Deliver(v)
    BY Zenon, <1>1, <1>3, <1>5, <2>1, <2>3, DeliverStep DEF MInv
  <2>4. CASE Stub
    BY Zenon, <1>1, <1>3, <1>5, <2>1, <2>4, StubStep DEF MInv
  <2>5. CASE SaveRegisters
    BY Zenon, <1>1, <1>3, <1>5, <2>1, <2>5, SaveStep DEF MInv
  <2>6. CASE HandlerReturns
    BY Zenon, <1>1, <1>3, <1>5, <2>1, <2>6, HandlerStep DEF MInv
  <2>7. CASE Spins \/ Lost
    <3>1. UNCHANGED cpu_vars
      BY <2>7, Zenon DEF Spins, Lost
    <3> QED
      BY Zenon, <1>3, <1>4, <1>5, <2>1, <3>1 DEF MInv
  <2>8. CASE RestoreRegisters
    BY Zenon, <1>1, <1>3, <1>5, <2>1, <2>8, RestoreStep DEF MInv
  <2>9. CASE Iretq
    BY Zenon, <1>1, <1>3, <1>5, <2>1, <2>9, IretqStep DEF MInv
  <2> QED
    BY <1>5, <2>2, <2>3, <2>4, <2>5, <2>6, <2>7, <2>8, <2>9, Zenon DEF CpuNext
<1>6. CASE UNCHANGED vars
  <2>1. UNCHANGED boot_vars /\ UNCHANGED cpu_vars
    BY <1>6, Zenon DEF vars
  <2> QED
    BY Zenon, <1>3, <1>4, <2>1 DEF MInv
<1> QED
  BY <1>2, <1>5, <1>6, Zenon DEF Next

(* The machine keeps its invariant, for every placement of the stubs,      *)
(* every set of vectors, every depth of the stack and of the nesting.      *)
THEOREM MachineInvariance == Spec => []MInv
<1>1. Init => MInv
  BY Zenon, InitMInv
<1>2. MInv /\ [Next]_vars => MInv'
  BY Zenon, NextMInv
<1> QED
  BY <1>1, <1>2, PTL DEF Spec

(* sti is executed when the gates lead to their stubs and are loaded, and  *)
(* the lines that the masks let through are those of the timer, the        *)
(* keyboard and the mouse, with vectors that handle_interrupt knows.       *)
THEOREM EnabledLinesAreHandled == Spec => []LinesHaveHandlers
<1>1. MInv => LinesHaveHandlers
  <2> SUFFICES ASSUME MInv, ifl = TRUE
               PROVE  /\ {"gdt", "idtr", "Realm64", "sse", "fpu"} \subseteq enabled
                      /\ Len(IDT) = Gates /\ GatesReachTheirStubs
                      /\ LineVectors = {32, 33, 44} /\ \A k \in 1..2 : pic[k].expects = 0
    <3>1. MInv => ifl \in BOOLEAN
      BY Zenon DEF MInv, CpuTypeOK
    <3> QED
      BY <3>1, Zenon DEF LinesHaveHandlers
  <2>1. ip # "boot"
    BY Zenon DEF MInv, CpuInv
  <2>2. pc = "main"
    BY <2>1, Zenon DEF MInv, CpuInv
  <2>3. {"gdt", "idtr", "Realm64", "sse", "fpu"} \subseteq enabled
    BY Zenon, <2>2 DEF MInv, OrderInv
  <2>4. Len(IDT) = Gates /\ GatesReachTheirStubs
    BY Zenon, <2>2 DEF MInv, GatesInv, AfterIDT
  <2>5. pic = <<FirstPic(13), SecondPic(13)>>
    BY Zenon, <2>2 DEF MInv, DevicesInv
  <2> QED
    BY Zenon, <2>3, <2>4, <2>5, ProgrammedLines
<1> QED
  BY <1>1, MachineInvariance, PTL

(* handle_interrupt is called with its vector and, without an error code,  *)
(* on a stack that is aligned as compiled code expects.                    *)
THEOREM HandlersAreCalledAsCompiled == Spec => []CalledAsCompiled
<1>1. MInv => CalledAsCompiled
  <2> SUFFICES ASSUME MInv, ip = "handler"
               PROVE  /\ reg["rdi"][2] = vector
                      /\ vector \notin ErrorCode /\ depth > 0 => Len(stack) % 2 = 0
    BY Zenon DEF CalledAsCompiled
  <2>1. ip \in InService /\ ip \in {"save", "handler"} /\ ip \in {"handler", "restore"}
    BY Zenon DEF InService
  <2>2. reg["rdi"] = <<"rdi", stub>> /\ stub = vector
    BY <2>1, Zenon DEF MInv, CpuInv
  <2>3. ASSUME vector \notin ErrorCode, depth > 0 PROVE Len(stack) % 2 = 0
    <3> DEFINE c == interrupted[depth]
               s == EnteredStack(c, depth, vector)
               f == FrameOf(c, depth, vector)
               m == Len(c.stack) + Len(Padding(c))
    <3>1. c \in Contexts /\ depth \in Nat \ {0} /\ Serving(c, depth)
      BY Zenon, <2>1, <2>3, ServedContext DEF MInv
    <3>2. vector \in 0..255
      BY Zenon DEF MInv, CpuTypeOK
    <3>3. stack = HandlerStack(c, depth, vector)
      BY <2>1, <3>1, Zenon DEF Serving
    <3> HIDE DEF c
    <3>4. Len(stack) = Len(s) + 17
      BY <3>1, <3>2, <3>3, HandlerShape, Zenon
    <3>5. Len(s) = m + Len(f) /\ m \in Nat /\ m % 2 = 0
      BY <3>1, <3>2, EnteredShape, Zenon
    <3>6. Len(f) = 5
      BY <2>3, <3>1, <3>2, FrameShape, Zenon
    <3> HIDE DEF m, f, s
    <3>7. Len(stack) = m + 22
      BY <3>4, <3>5, <3>6
    <3> QED
      BY <3>5, <3>7
  <2> QED
    BY <2>2, <2>3
<1> QED
  BY <1>1, MachineInvariance, PTL

(* Handlers of external interrupts do not nest.                            *)
THEOREM ExternalsDoNotNest == Spec => []OneExternalAtATime
<1>1. MInv => OneExternalAtATime
  BY Zenon DEF MInv, CpuInv
<1> QED
  BY <1>1, MachineInvariance, PTL

(* After an interrupt without an error code iretq gives the interrupted    *)
(* code its stack, general registers, flag and instruction pointer back.   *)
THEOREM InterruptedCodeResumes == Spec => ResumesInterrupted
<1>1. MInv /\ [Next]_vars =>
        [Iretq /\ vector \notin ErrorCode =>
           [stack |-> stack', reg |-> reg', ifl |-> ifl', ip |-> ip', vector |-> vector',
            stub |-> stub'] = interrupted[depth]]_vars
  <2> SUFFICES ASSUME MInv, Iretq, vector \notin ErrorCode
               PROVE  [stack |-> stack', reg |-> reg', ifl |-> ifl', ip |-> ip',
                       vector |-> vector', stub |-> stub'] = interrupted[depth]
    BY Zenon
  <2> DEFINE c == interrupted[depth]
  <2>1. /\ c \in Contexts
        /\ stack' = c.stack /\ reg' = c.reg /\ ifl' = c.ifl /\ ip' = c.ip
        /\ vector' = c.vector /\ stub' = c.stub
    BY Zenon, IretqRestores DEF MInv
  <2> HIDE DEF c
  <2>2. c = [stack |-> c.stack, reg |-> c.reg, ifl |-> c.ifl, ip |-> c.ip, vector |-> c.vector,
             stub |-> c.stub]
    BY <2>1, Zenon DEF Contexts
  <2> QED
    BY <2>1, <2>2, Zenon DEF c
<1> QED
  BY <1>1, MachineInvariance, PTL DEF Spec, ResumesInterrupted

-----------------------------------------------------------------------------
(* The page tables                                                         *)

Early == {"sse", "pae", "lme", "tables"}
Filling == {"PD", "PT", "addr"}
InDirectory == {"PT", "addr"}
Dirs == 0 .. NUM_PD - 1

(* What setup_page_table has stored: all of the directories before nPD, of *)
(* that one the tables before nPT, of that one the entries before i.       *)
StoredPD(d) == d < nPD \/ (d = nPD /\ pc \in InDirectory)
StoredPT(d, t) ==
  \/ d < nPD
  \/ d = nPD /\ pc \in InDirectory /\ (t < nPT \/ (t = nPT /\ pc = "addr"))
StoredAddr(d, t, k) ==
  \/ d < nPD
  \/ d = nPD /\ pc \in InDirectory /\ (t < nPT \/ (t = nPT /\ pc = "addr" /\ k < i))

CountersInv ==
  /\ nPD \in 0 .. NUM_PD /\ nPT \in Nat /\ i \in Nat /\ addr \in Nat
  /\ pc \in Early => nPD = 0 /\ addr = 0
  /\ pc \in Filling => nPD < NUM_PD
  /\ pc = "PD" => addr = Page(0, nPD, 0, 0)
  /\ pc = "PT" => nPT < Entries /\ addr = Page(0, nPD, nPT, 0)
  /\ pc = "addr" => nPT < Entries /\ i < Entries /\ addr = Page(0, nPD, nPT, i)
  /\ pc \notin Early \cup Filling => nPD = NUM_PD

(* The contents of the tables, at every moment of the loops.               *)
ContentsInv ==
  /\ mem \in [Tables \X Index -> Int]
  /\ \A k \in Index : mem[<<PML4_, k>>] = IF k = 0 /\ pc \notin Early THEN PDP_ ELSE Absent
  /\ \A d \in Index : mem[<<PDP_, d>>] = IF StoredPD(d) THEN PD_(d) ELSE Absent
  /\ \A d \in Dirs, t \in Index :
       mem[<<PD_(d), t>>] = IF StoredPT(d, t) THEN PT_(d, t) ELSE Absent
  /\ \A d \in Dirs, t, k \in Index :
       mem[<<PT_(d, t), k>>] = IF StoredAddr(d, t, k) THEN Page(0, d, t, k) ELSE Absent

(* Multiples of w lie at least w apart.                                    *)
LEMMA Multiples ==
  ASSUME NEW a \in Nat, NEW b \in Nat, NEW w \in Nat, a < b
  PROVE  a * w \in Nat /\ b * w \in Nat /\ a * w + w <= b * w
<1> DEFINE e == b - a - 1
<1>1. e \in Nat /\ b = a + 1 + e
  OBVIOUS
<1> HIDE DEF e
<1>2. \A x, y \in Nat : x * y \in Nat
  OBVIOUS
<1>3. b * w = a * w + w + e * w
  BY <1>1
<1>4. a * w \in Nat /\ b * w \in Nat /\ e * w \in Nat
  BY Zenon, <1>1, <1>2
<1> QED
  BY <1>3, <1>4

(* The sizes of the structures.                                            *)
LEMMA Sizes ==
  /\ Entries \in Nat \ {0} /\ NUM_PD \in Nat \ {0} /\ NUM_PD <= Entries
  /\ NUM_PT = Entries /\ Base \in Nat \ {0}
  /\ 0 \in Index /\ 0 \in Dirs /\ Dirs \subseteq Index /\ Index \subseteq Nat
BY TablesAssumption DEF Index, Dirs

(* Where the directories are.                                              *)
LEMMA Directories ==
  ASSUME NEW d \in Dirs
  PROVE  /\ PD_(d) \in Nat /\ PDP_ + 1 <= PD_(d)
         /\ PD_(d) + Entries <= Base + 1 + NUM_PD * (1 + Entries)
         /\ \A e \in Dirs : d < e => PD_(d) + Entries < PD_(e)
<1> DEFINE w == 1 + Entries
<1>1. w \in Nat /\ d \in Nat /\ NUM_PD \in Nat /\ d < NUM_PD /\ Base \in Nat /\ Entries \in Nat
  BY Sizes DEF Dirs
<1>2. PD_(d) = Base + 1 + 1 + d * w /\ \A e \in Dirs : PD_(e) = Base + 1 + 1 + e * w
  BY Zenon, Sizes DEF PD_, PDP_
<1>3. PDP_ = Base + 1 /\ w = 1 + Entries
  BY Zenon DEF PDP_
<1> HIDE DEF w
<1>4. d * w \in Nat /\ NUM_PD * w \in Nat /\ d * w + w <= NUM_PD * w
  BY Zenon, <1>1, Multiples
<1>5. ASSUME NEW e \in Dirs, d < e PROVE PD_(d) + Entries < PD_(e)
  <2>1. e \in Nat
    BY Zenon, Sizes
  <2>2. e * w \in Nat /\ d * w + w <= e * w
    BY Zenon, <1>1, <1>5, <2>1, Multiples
  <2> QED
    BY <1>1, <1>2, <1>3, <1>4, <2>2
<1>6. PD_(d) \in Nat /\ PDP_ + 1 <= PD_(d)
  BY <1>1, <1>2, <1>3, <1>4
<1>7. PD_(d) + Entries <= Base + 1 + NUM_PD * w
  BY <1>1, <1>2, <1>3, <1>4
<1> QED
  BY Zenon, <1>3, <1>5, <1>6, <1>7

(* The structures of setup_page_table do not overlap.                      *)
LEMMA TablesDistinct ==
  /\ PML4_ \in Tables /\ PDP_ \in Tables /\ PML4_ # PDP_ /\ Absent \notin Tables
  /\ \A d \in Dirs : PD_(d) \in Tables /\ PD_(d) \notin {PML4_, PDP_}
  /\ \A d \in Dirs, t \in Index : PT_(d, t) \in Tables /\ PT_(d, t) \notin {PML4_, PDP_}
  /\ \A d, e \in Dirs : PD_(d) = PD_(e) => d = e
  /\ \A d, e \in Dirs, t \in Index : PT_(d, t) # PD_(e)
  /\ \A d, e \in Dirs, t, u \in Index : PT_(d, t) = PT_(e, u) => d = e /\ t = u
<1> DEFINE last == Base + 1 + NUM_PD * (1 + Entries)
<1>1. last \in Int /\ Tables = Base .. last /\ Base \in Nat \ {0} /\ Entries \in Nat
  <2>1. NUM_PD * (1 + Entries) \in Int
    BY Sizes
  <2> QED
    BY <2>1, Sizes DEF Tables
<1>2. \A d \in Dirs : /\ PD_(d) \in Nat /\ PDP_ + 1 <= PD_(d) /\ PD_(d) + Entries <= last
                      /\ \A e \in Dirs : d < e => PD_(d) + Entries < PD_(e)
  BY Zenon, Directories
<1> HIDE DEF last
<1>3. PDP_ = Base + 1 /\ PML4_ = Base /\ Absent = -1
  BY Zenon DEF PDP_, PML4_, Absent
<1>4. \A d \in Dirs, t \in Index : PT_(d, t) = PD_(d) + 1 + t /\ t \in Nat /\ t < Entries
  BY <1>1 DEF PT_, Index
<1>5. \A d, e \in Dirs : d < e \/ e < d \/ d = e
  BY DEF Dirs
<1>6. /\ PML4_ \in Tables /\ PDP_ \in Tables /\ PML4_ # PDP_ /\ Absent \notin Tables
      /\ \A d \in Dirs : PD_(d) \in Tables /\ PD_(d) \notin {PML4_, PDP_}
  <2>1. 0 \in Dirs
    BY Zenon, Sizes
  <2>2. Base + 1 <= last
    BY <1>1, <1>2, <1>3, <2>1
  <2> QED
    BY <1>1, <1>2, <1>3, <2>2
<1>7. \A d \in Dirs, t \in Index : PT_(d, t) \in Tables /\ PT_(d, t) \notin {PML4_, PDP_}
  BY <1>1, <1>2, <1>3, <1>4
<1>8. \A d, e \in Dirs : PD_(d) = PD_(e) => d = e
  BY <1>1, <1>2, <1>5
<1>9. ASSUME NEW d \in Dirs, NEW e \in Dirs, NEW t \in Index PROVE PT_(d, t) # PD_(e)
  <2>1. PT_(d, t) = PD_(d) + 1 + t /\ t \in Nat /\ t < Entries /\ PD_(d) \in Nat /\ PD_(e) \in Nat
    BY Zenon, <1>2, <1>4
  <2>2. /\ d < e => PD_(d) + Entries < PD_(e)
        /\ e < d => PD_(e) + Entries < PD_(d)
    BY Zenon, <1>2
  <2>3. d < e \/ e < d \/ d = e
    BY Zenon, <1>5
  <2> QED
    BY <1>1, <2>1, <2>2, <2>3
<1>10. ASSUME NEW d \in Dirs, NEW e \in Dirs, NEW t \in Index, NEW u \in Index, PT_(d, t) = PT_(e, u)
       PROVE  d = e /\ t = u
  <2>1. /\ PT_(d, t) = PD_(d) + 1 + t /\ t \in Nat /\ t < Entries /\ PD_(d) \in Nat
        /\ PT_(e, u) = PD_(e) + 1 + u /\ u \in Nat /\ u < Entries /\ PD_(e) \in Nat
    BY Zenon, <1>2, <1>4
  <2>2. /\ d < e => PD_(d) + Entries < PD_(e)
        /\ e < d => PD_(e) + Entries < PD_(d)
    BY Zenon, <1>2
  <2>3. d < e \/ e < d \/ d = e
    BY Zenon, <1>5
  <2>4. PD_(d) + 1 + t = PD_(e) + 1 + u
    BY <1>10, <2>1, Zenon
  <2>5. d = e
    BY <1>1, <2>1, <2>2, <2>3, <2>4
  <2>6. PD_(d) = PD_(e)
    BY Zenon, <2>5
  <2>7. t = u
    BY <2>1, <2>4, <2>6
  <2> QED
    BY Zenon, <2>5, <2>7
<1> QED
  BY Zenon, <1>6, <1>7, <1>8, <1>9, <1>10

(* The page numbers follow each other through the loops, and all are       *)
(* below four gigabytes.                                                   *)
LEMMA PagesInOrder ==
  ASSUME NEW d \in Dirs, NEW t \in Index, NEW k \in Index
  PROVE  /\ Page(0, d, t, k) \in Nat /\ Page(0, d, t, k) % Pages32 = Page(0, d, t, k)
         /\ Page(0, d, t, k) < Pages32
         /\ Page(0, d, t, k) + 1 = Page(0, d, t, k + 1)
         /\ k + 1 = Entries => Page(0, d, t, k) + 1 = Page(0, d, t + 1, 0)
         /\ t + 1 = Entries => Page(0, d, t + 1, 0) = Page(0, d + 1, 0, 0)
<1>1. /\ d \in Nat /\ t \in Nat /\ k \in Nat /\ Entries \in Nat /\ NUM_PD \in Nat
      /\ d < NUM_PD /\ t < Entries /\ k < Entries
  BY Sizes DEF Dirs, Index
<1> DEFINE x == d * Entries + t
           z == NUM_PD * Entries
<1>2. \A a, b, c \in Nat : Page(0, a, b, c) = (a * Entries + b) * Entries + c
  BY <1>1 DEF Page
<1>3. d * Entries \in Nat /\ z \in Nat /\ d * Entries + Entries <= z
  BY Zenon, <1>1, Multiples
<1>4. x \in Nat /\ x < z
  BY <1>1, <1>3
<1>5. Pages32 = z * Entries
  BY Zenon DEF Pages32
<1>6. Page(0, d, t, k) = x * Entries + k
  BY <1>1, <1>2
<1>7. Page(0, d, t, k + 1) = x * Entries + (k + 1)
  <2>1. k + 1 \in Nat
    BY <1>1
  <2> QED
    BY <1>1, <1>2, <2>1
<1>8. Page(0, d, t + 1, 0) = x * Entries + Entries
  <2>1. t + 1 \in Nat
    BY <1>1
  <2>2. Page(0, d, t + 1, 0) = (d * Entries + (t + 1)) * Entries + 0
    BY <1>1, <1>2, <2>1
  <2>3. d * Entries + (t + 1) = x + 1
    BY <1>1, <1>3
  <2> HIDE DEF x
  <2>4. (x + 1) * Entries + 0 = x * Entries + Entries
    BY <1>1, <1>4
  <2> QED
    BY Zenon, <2>2, <2>3, <2>4
<1>9. ASSUME t + 1 = Entries PROVE Page(0, d, t + 1, 0) = Page(0, d + 1, 0, 0)
  <2>1. d + 1 \in Nat /\ t + 1 \in Nat
    BY <1>1
  <2>2. Page(0, d + 1, 0, 0) = ((d + 1) * Entries + 0) * Entries + 0
    BY <1>2, <2>1
  <2>3. Page(0, d, t + 1, 0) = (d * Entries + Entries) * Entries + 0
    <3>1. Page(0, d, t + 1, 0) = (d * Entries + (t + 1)) * Entries + 0
      BY <1>1, <1>2, <2>1
    <3> QED
      BY <1>9, <3>1, Zenon
  <2>4. (d + 1) * Entries + 0 = d * Entries + Entries
    BY <1>1
  <2> QED
    BY Zenon, <2>2, <2>3, <2>4
<1> HIDE DEF x, z
<1>10. x * Entries \in Nat /\ z * Entries \in Nat /\ x * Entries + Entries <= z * Entries
  BY Zenon, <1>1, <1>3, <1>4, Multiples
<1>11. Page(0, d, t, k) \in Nat /\ Page(0, d, t, k) < Pages32 /\ Pages32 \in Nat
  BY <1>1, <1>5, <1>6, <1>10
<1>12. Page(0, d, t, k) % Pages32 = Page(0, d, t, k)
  <2>1. \A p, q \in Nat : p < q => p % q = p
    OBVIOUS
  <2> QED
    BY Zenon, <1>11, <2>1
<1>13. Page(0, d, t, k) + 1 = Page(0, d, t, k + 1)
  BY <1>1, <1>6, <1>7, <1>10
<1>14. k + 1 = Entries => Page(0, d, t, k) + 1 = Page(0, d, t + 1, 0)
  BY <1>1, <1>6, <1>8, <1>10
<1> QED
  BY Zenon, <1>9, <1>11, <1>12, <1>13, <1>14

(* A store into an entry of a table changes that entry only.               *)
LEMMA Store ==
  ASSUME mem \in [Tables \X Index -> Int], NEW a \in Tables, NEW k \in Index, NEW v \in Int,
         mem' = [mem EXCEPT ![<<a, k>>] = v]
  PROVE  /\ mem' \in [Tables \X Index -> Int]
         /\ \A b \in Tables, j \in Index :
              mem'[<<b, j>>] = IF b = a /\ j = k THEN v ELSE mem[<<b, j>>]
<1>1. <<a, k>> \in Tables \X Index
  BY Zenon
<1>2. mem' \in [Tables \X Index -> Int]
  BY Zenon, <1>1
<1>3. ASSUME NEW b \in Tables, NEW j \in Index
      PROVE  mem'[<<b, j>>] = IF b = a /\ j = k THEN v ELSE mem[<<b, j>>]
  <2>1. <<b, j>> \in Tables \X Index /\ (<<b, j>> = <<a, k>> <=> b = a /\ j = k)
    BY Zenon
  <2> QED
    BY Zenon, <2>1
<1> QED
  BY Zenon, <1>2, <1>3

(* Outside of setup_page_table the tables stay as they are.                *)
LEMMA TablesStay ==
  ASSUME CountersInv, ContentsInv, UNCHANGED table_vars, pc \notin Filling, pc' \notin Filling,
         pc' \in Early <=> pc \in Early
  PROVE  CountersInv' /\ ContentsInv'
<1>1. mem' = mem /\ nPD' = nPD /\ nPT' = nPT /\ i' = i /\ addr' = addr
  BY Zenon DEF table_vars
<1>2. /\ pc \notin InDirectory /\ pc # "PD" /\ pc # "PT" /\ pc # "addr"
      /\ pc' \notin InDirectory /\ pc' # "PD" /\ pc' # "PT" /\ pc' # "addr"
  BY Zenon DEF Filling, InDirectory
<1>3. CountersInv'
  BY <1>1, <1>2, Zenon DEF CountersInv
<1>4. \A d, t, k : /\ StoredPD(d)' <=> StoredPD(d)
                   /\ StoredPT(d, t)' <=> StoredPT(d, t)
                   /\ StoredAddr(d, t, k)' <=> StoredAddr(d, t, k)
  BY <1>1, <1>2, Zenon DEF StoredPD, StoredPT, StoredAddr
<1>5. ContentsInv'
  BY <1>1, <1>4, Zenon DEF ContentsInv
<1> QED
  BY Zenon, <1>3, <1>5

(* The first store makes the first entry of PML4 refer to the PDP.         *)
LEMMA StorePDPStep ==
  ASSUME CountersInv, ContentsInv, StorePDP
  PROVE  CountersInv' /\ ContentsInv'
<1>1. /\ pc = "tables" /\ pc' = "PD" /\ mem' = [mem EXCEPT ![<<PML4_, 0>>] = PDP_]
      /\ nPD' = nPD /\ nPT' = nPT /\ i' = i /\ addr' = addr
  BY Zenon DEF StorePDP
<1>2. /\ pc \in Early /\ pc \notin InDirectory /\ pc' \notin Early /\ pc' \notin InDirectory
      /\ pc' \in Filling
  BY Zenon, <1>1 DEF Early, Filling, InDirectory
<1>3. nPD = 0 /\ addr = 0 /\ mem \in [Tables \X Index -> Int]
  BY <1>2, Zenon DEF CountersInv, ContentsInv
<1>4. CountersInv'
  <2>1. Page(0, 0, 0, 0) = 0
    BY Sizes DEF Page
  <2>2. nPD \in 0 .. NUM_PD /\ nPT \in Nat /\ i \in Nat /\ addr \in Nat /\ 0 < NUM_PD
    BY Sizes DEF CountersInv
  <2>3. pc' # "PT" /\ pc' # "addr"
    BY Zenon, <1>1
  <2> QED
    BY <1>1, <1>2, <1>3, <2>1, <2>2, <2>3, Zenon DEF CountersInv
<1>5. PML4_ \in Tables /\ 0 \in Index /\ PDP_ \in Int
  BY TablesDistinct, Sizes DEF PDP_
<1>6. /\ mem' \in [Tables \X Index -> Int]
      /\ \A b \in Tables, j \in Index :
           mem'[<<b, j>>] = IF b = PML4_ /\ j = 0 THEN PDP_ ELSE mem[<<b, j>>]
  BY Zenon, <1>1, <1>3, <1>5, Store
<1>7. \A d, t, k : /\ StoredPD(d)' <=> StoredPD(d)
                   /\ StoredPT(d, t)' <=> StoredPT(d, t)
                   /\ StoredAddr(d, t, k)' <=> StoredAddr(d, t, k)
  BY <1>1, <1>2, Zenon DEF StoredPD, StoredPT, StoredAddr
<1>8. \A k \in Index : mem'[<<PML4_, k>>] = IF k = 0 /\ pc' \notin Early THEN PDP_ ELSE Absent
  <2>1. \A k \in Index : mem[<<PML4_, k>>] = Absent
    BY <1>2, Zenon DEF ContentsInv
  <2> QED
    BY <1>2, <1>5, <1>6, <2>1, Zenon
<1>9. \A d \in Index : mem'[<<PDP_, d>>] = mem[<<PDP_, d>>]
  BY <1>6, TablesDistinct, Zenon
<1>10. \A d \in Dirs, t \in Index : mem'[<<PD_(d), t>>] = mem[<<PD_(d), t>>]
  <2>1. \A d \in Dirs : PD_(d) \in Tables /\ PD_(d) # PML4_
    BY Zenon, TablesDistinct
  <2> QED
    BY <1>6, <2>1, Zenon
<1>11. \A d \in Dirs, t, k \in Index : mem'[<<PT_(d, t), k>>] = mem[<<PT_(d, t), k>>]
  <2>1. \A d \in Dirs, t \in Index : PT_(d, t) \in Tables /\ PT_(d, t) # PML4_
    BY Zenon, TablesDistinct
  <2> QED
    BY <1>6, <2>1, Zenon
<1>12. ContentsInv'
  <2>1. \A d \in Index : mem'[<<PDP_, d>>] = IF StoredPD(d)' THEN PD_(d) ELSE Absent
    BY <1>7, <1>9, Zenon DEF ContentsInv
  <2>2. ASSUME NEW d \in Dirs, NEW t \in Index
        PROVE  mem'[<<PD_(d), t>>] = IF StoredPT(d, t)' THEN PT_(d, t) ELSE Absent
    <3>1. mem[<<PD_(d), t>>] = IF StoredPT(d, t) THEN PT_(d, t) ELSE Absent
      BY Zenon DEF ContentsInv
    <3> QED
      BY <1>7, <1>10, <3>1, Zenon
  <2>3. ASSUME NEW d \in Dirs, NEW t \in Index, NEW k \in Index
        PROVE  mem'[<<PT_(d, t), k>>] = IF StoredAddr(d, t, k)' THEN Page(0, d, t, k) ELSE Absent
    <3>1. mem[<<PT_(d, t), k>>] = IF StoredAddr(d, t, k) THEN Page(0, d, t, k) ELSE Absent
      BY Zenon DEF ContentsInv
    <3> QED
      BY <1>7, <1>11, <3>1, Zenon
  <2> QED
    BY <1>6, <1>8, <2>1, <2>2, <2>3, Zenon DEF ContentsInv
<1> QED
  BY Zenon, <1>4, <1>12

(* One store of the loops: the entry that is stored becomes one of those   *)
(* that count as stored, and no other does.                                *)
Stores(a, e, v) ==
  /\ mem' = [mem EXCEPT ![<<a, e>>] = v]
  /\ \A d \in Index : IF a = PDP_ /\ d = e THEN StoredPD(d)' /\ v = PD_(d)
                      ELSE StoredPD(d)' <=> StoredPD(d)
  /\ \A d \in Dirs, t \in Index :
       IF a = PD_(d) /\ t = e THEN StoredPT(d, t)' /\ v = PT_(d, t)
       ELSE StoredPT(d, t)' <=> StoredPT(d, t)
  /\ \A d \in Dirs, t, k \in Index :
       IF a = PT_(d, t) /\ k = e THEN StoredAddr(d, t, k)' /\ v = Page(0, d, t, k)
       ELSE StoredAddr(d, t, k)' <=> StoredAddr(d, t, k)

(* Such a store keeps the contents what the counters say.                  *)
LEMMA ContentsAfter ==
  ASSUME NEW a \in Tables, NEW e \in Index, NEW v \in Int, ContentsInv, Stores(a, e, v),
         a # PML4_, pc \notin Early, pc' \notin Early
  PROVE  ContentsInv'
<1>0. mem \in [Tables \X Index -> Int]
  BY Zenon DEF ContentsInv
<1>1. /\ mem' \in [Tables \X Index -> Int]
      /\ \A b \in Tables, j \in Index :
           mem'[<<b, j>>] = IF b = a /\ j = e THEN v ELSE mem[<<b, j>>]
  BY Zenon, <1>0, Store DEF Stores
<1>2. ASSUME NEW k \in Index
      PROVE  mem'[<<PML4_, k>>] = IF k = 0 /\ pc' \notin Early THEN PDP_ ELSE Absent
  <2>1. mem[<<PML4_, k>>] = IF k = 0 /\ pc \notin Early THEN PDP_ ELSE Absent
    BY Zenon DEF ContentsInv
  <2>2. mem'[<<PML4_, k>>] = mem[<<PML4_, k>>]
    BY <1>1, TablesDistinct, Zenon
  <2> QED
    BY <2>1, <2>2, Zenon
<1>3. ASSUME NEW d \in Index
      PROVE  mem'[<<PDP_, d>>] = IF StoredPD(d)' THEN PD_(d) ELSE Absent
  <2>1. mem[<<PDP_, d>>] = IF StoredPD(d) THEN PD_(d) ELSE Absent
    BY Zenon DEF ContentsInv
  <2>2. mem'[<<PDP_, d>>] = IF a = PDP_ /\ d = e THEN v ELSE mem[<<PDP_, d>>]
    BY <1>1, TablesDistinct, Zenon
  <2> QED
    BY <2>1, <2>2, Zenon DEF Stores
<1>4. ASSUME NEW d \in Dirs, NEW t \in Index
      PROVE  mem'[<<PD_(d), t>>] = IF StoredPT(d, t)' THEN PT_(d, t) ELSE Absent
  <2>1. mem[<<PD_(d), t>>] = IF StoredPT(d, t) THEN PT_(d, t) ELSE Absent
    BY Zenon DEF ContentsInv
  <2>2. PD_(d) \in Tables
    BY TablesDistinct, Zenon
  <2>3. mem'[<<PD_(d), t>>] = IF a = PD_(d) /\ t = e THEN v ELSE mem[<<PD_(d), t>>]
    BY <1>1, <2>2, Zenon
  <2> QED
    BY <2>1, <2>3, Zenon DEF Stores
<1>5. ASSUME NEW d \in Dirs, NEW t \in Index, NEW k \in Index
      PROVE  mem'[<<PT_(d, t), k>>] = IF StoredAddr(d, t, k)' THEN Page(0, d, t, k) ELSE Absent
  <2>1. mem[<<PT_(d, t), k>>] = IF StoredAddr(d, t, k) THEN Page(0, d, t, k) ELSE Absent
    BY Zenon DEF ContentsInv
  <2>2. PT_(d, t) \in Tables
    BY TablesDistinct, Zenon
  <2>3. mem'[<<PT_(d, t), k>>] = IF a = PT_(d, t) /\ k = e THEN v ELSE mem[<<PT_(d, t), k>>]
    BY <1>1, <2>2, Zenon
  <2> QED
    BY <2>1, <2>3, Zenon DEF Stores
<1> QED
  BY <1>1, <1>2, <1>3, <1>4, <1>5, Zenon DEF ContentsInv

(* A directory is entered in the PDP.                                      *)
LEMMA StorePDStep ==
  ASSUME CountersInv, ContentsInv, StorePD
  PROVE  CountersInv' /\ ContentsInv'
<1>1. /\ pc = "PD" /\ pc' = "PT" /\ mem' = [mem EXCEPT ![<<PDP_, nPD>>] = PD_(nPD)]
      /\ nPD' = nPD /\ nPT' = 0 /\ i' = i /\ addr' = addr
  BY Zenon DEF StorePD
<1>2. /\ pc \notin Early /\ pc' \notin Early /\ pc \in Filling /\ pc' \in Filling
      /\ pc \notin InDirectory /\ pc' \in InDirectory /\ pc' # "addr" /\ pc' # "PD"
  BY Zenon, <1>1 DEF Early, Filling, InDirectory
<1>3. /\ nPD \in 0 .. NUM_PD /\ nPD < NUM_PD /\ i \in Nat /\ addr \in Nat
      /\ addr = Page(0, nPD, 0, 0)
  BY <1>1, <1>2, Zenon DEF CountersInv
<1>4. nPD \in Dirs /\ nPD \in Index /\ nPD \in Nat /\ 0 < Entries /\ 0 \in Nat
  BY <1>3, Sizes DEF Dirs
<1>5. CountersInv'
  <2>1. pc' \notin Early \cup Filling => FALSE
    BY Zenon, <1>2
  <2> QED
    BY <1>1, <1>2, <1>3, <1>4, <2>1, Zenon DEF CountersInv
<1>6. ASSUME NEW d \in Index
      PROVE  IF PDP_ = PDP_ /\ d = nPD THEN StoredPD(d)' /\ PD_(nPD) = PD_(d)
             ELSE StoredPD(d)' <=> StoredPD(d)
  BY <1>1, <1>2, Zenon DEF StoredPD
<1>7. ASSUME NEW d \in Dirs, NEW t \in Index
      PROVE  IF PDP_ = PD_(d) /\ t = nPD THEN StoredPT(d, t)' /\ PD_(nPD) = PT_(d, t)
             ELSE StoredPT(d, t)' <=> StoredPT(d, t)
  <2>1. PDP_ # PD_(d)
    BY Zenon, TablesDistinct
  <2>2. ~(t < 0)
    BY Sizes
  <2> QED
    BY <1>1, <1>2, <2>1, <2>2, Zenon DEF StoredPT
<1>8. ASSUME NEW d \in Dirs, NEW t \in Index, NEW k \in Index
      PROVE  IF PDP_ = PT_(d, t) /\ k = nPD THEN StoredAddr(d, t, k)' /\ PD_(nPD) = Page(0, d, t, k)
             ELSE StoredAddr(d, t, k)' <=> StoredAddr(d, t, k)
  <2>1. PDP_ # PT_(d, t)
    BY Zenon, TablesDistinct
  <2>2. ~(t < 0)
    BY Sizes
  <2> QED
    BY <1>1, <1>2, <2>1, <2>2, Zenon DEF StoredAddr
<1>9. PDP_ \in Tables /\ PDP_ # PML4_ /\ PD_(nPD) \in Int
  BY <1>4, TablesDistinct, Directories
<1>10. Stores(PDP_, nPD, PD_(nPD))
  BY <1>1, <1>6, <1>7, <1>8, Zenon DEF Stores
<1>11. ContentsInv'
  BY <1>2, <1>4, <1>9, <1>10, ContentsAfter, Zenon
<1> QED
  BY Zenon, <1>5, <1>11

(* A table is entered in its directory.                                    *)
LEMMA StorePTStep ==
  ASSUME CountersInv, ContentsInv, StorePT
  PROVE  CountersInv' /\ ContentsInv'
<1>1. /\ pc = "PT" /\ pc' = "addr" /\ mem' = [mem EXCEPT ![<<PD_(nPD), nPT>>] = PT_(nPD, nPT)]
      /\ nPD' = nPD /\ nPT' = nPT /\ i' = 0 /\ addr' = addr
  BY Zenon DEF StorePT
<1>2. /\ pc \notin Early /\ pc' \notin Early /\ pc \in Filling /\ pc' \in Filling
      /\ pc \in InDirectory /\ pc' \in InDirectory /\ pc # "addr" /\ pc' # "PD" /\ pc' # "PT"
  BY Zenon, <1>1 DEF Early, Filling, InDirectory
<1>3. /\ nPD \in 0 .. NUM_PD /\ nPD < NUM_PD /\ nPT \in Nat /\ nPT < Entries /\ addr \in Nat
      /\ addr = Page(0, nPD, nPT, 0)
  BY <1>1, <1>2, Zenon DEF CountersInv
<1>4. nPD \in Dirs /\ nPD \in Nat /\ nPT \in Index /\ 0 < Entries /\ 0 \in Nat
  BY <1>3, Sizes DEF Dirs, Index
<1>5. CountersInv'
  <2>1. pc' \notin Early \cup Filling => FALSE
    BY Zenon, <1>2
  <2> QED
    BY <1>1, <1>2, <1>3, <1>4, <2>1, Zenon DEF CountersInv
<1>6. ASSUME NEW d \in Index
      PROVE  IF PD_(nPD) = PDP_ /\ d = nPT THEN StoredPD(d)' /\ PT_(nPD, nPT) = PD_(d)
             ELSE StoredPD(d)' <=> StoredPD(d)
  <2>1. PD_(nPD) # PDP_
    BY Zenon, <1>4, TablesDistinct
  <2> QED
    BY <1>1, <1>2, <2>1, Zenon DEF StoredPD
<1>7. ASSUME NEW d \in Dirs, NEW t \in Index
      PROVE  IF PD_(nPD) = PD_(d) /\ t = nPT THEN StoredPT(d, t)' /\ PT_(nPD, nPT) = PT_(d, t)
             ELSE StoredPT(d, t)' <=> StoredPT(d, t)
  <2>1. PD_(nPD) = PD_(d) => d = nPD
    BY Zenon, <1>4, TablesDistinct
  <2> QED
    BY <1>1, <1>2, <2>1, Zenon DEF StoredPT
<1>8. ASSUME NEW d \in Dirs, NEW t \in Index, NEW k \in Index
      PROVE  IF PD_(nPD) = PT_(d, t) /\ k = nPT
             THEN StoredAddr(d, t, k)' /\ PT_(nPD, nPT) = Page(0, d, t, k)
             ELSE StoredAddr(d, t, k)' <=> StoredAddr(d, t, k)
  <2>1. PD_(nPD) # PT_(d, t)
    BY Zenon, <1>4, TablesDistinct
  <2>2. ~(k < 0)
    BY Sizes
  <2> QED
    BY <1>1, <1>2, <2>1, <2>2, Zenon DEF StoredAddr
<1>9. PD_(nPD) \in Tables /\ PD_(nPD) # PML4_ /\ PT_(nPD, nPT) \in Int
  <2>1. PD_(nPD) \in Int /\ nPT \in Int
    BY <1>4, Sizes, Directories
  <2>2. PT_(nPD, nPT) \in Int
    BY <2>1 DEF PT_
  <2> QED
    BY Zenon, <1>4, <2>2, TablesDistinct
<1>10. Stores(PD_(nPD), nPT, PT_(nPD, nPT))
  BY <1>1, <1>6, <1>7, <1>8, Zenon DEF Stores
<1>11. ContentsInv'
  BY <1>2, <1>4, <1>9, <1>10, ContentsAfter, Zenon
<1> QED
  BY Zenon, <1>5, <1>11

(* An address is entered in its table, and the loop heads lead to the next *)
(* entry, to the next table, to the next directory or out of the loops:    *)
(* what counts as stored grows by that entry each time.                    *)
LEMMA StoreAddrStep ==
  ASSUME CountersInv, ContentsInv, StoreAddr
  PROVE  CountersInv' /\ ContentsInv'
<1>1. /\ pc = "addr" /\ mem' = [mem EXCEPT ![<<PT_(nPD, nPT), i>>] = addr % Pages32]
      /\ addr' = addr + 1 /\ i' = i + 1
      /\ IF i + 1 < Entries THEN pc' = "addr" /\ nPT' = nPT /\ nPD' = nPD
         ELSE IF nPT + 1 < NUM_PT THEN pc' = "PT" /\ nPT' = nPT + 1 /\ nPD' = nPD
         ELSE /\ nPD' = nPD + 1 /\ nPT' = nPT
              /\ pc' = IF nPD + 1 < NUM_PD THEN "PD" ELSE After("tables")
  BY Zenon DEF StoreAddr
<1>2. pc \notin Early /\ pc \in Filling /\ pc \in InDirectory
  BY Zenon, <1>1 DEF Early, Filling, InDirectory
<1>3. /\ nPD \in Nat /\ nPD < NUM_PD /\ nPT \in Nat /\ nPT < Entries /\ i \in Nat /\ i < Entries
      /\ addr \in Nat /\ addr = Page(0, nPD, nPT, i)
  BY <1>1, <1>2 DEF CountersInv
<1>4. nPD \in Dirs /\ nPT \in Index /\ i \in Index
  BY <1>3, Sizes DEF Dirs, Index
<1>5. /\ addr % Pages32 = Page(0, nPD, nPT, i) /\ Page(0, nPD, nPT, i) \in Int
      /\ addr + 1 = Page(0, nPD, nPT, i + 1)
      /\ i + 1 = Entries => addr + 1 = Page(0, nPD, nPT + 1, 0)
      /\ nPT + 1 = Entries => Page(0, nPD, nPT + 1, 0) = Page(0, nPD + 1, 0, 0)
  BY <1>3, <1>4, PagesInOrder
<1>6. /\ nPD + 1 \in 0 .. NUM_PD /\ nPD \in 0 .. NUM_PD /\ nPT + 1 \in Nat /\ i + 1 \in Nat
      /\ addr + 1 \in Nat
  BY <1>3, Sizes
<1>7. \A d \in Dirs \cup Index : d < nPD + 1 <=> d < nPD \/ d = nPD
  BY <1>3, Sizes
<1>8. \A t \in Index : /\ t < nPT + 1 <=> t < nPT \/ t = nPT
                       /\ t < i + 1 <=> t < i \/ t = i
  BY <1>3, Sizes
<1>9. \A d \in Dirs : PT_(nPD, nPT) # PD_(d)
  BY Zenon, <1>4, TablesDistinct
<1>10. \A d \in Dirs, t \in Index : PT_(nPD, nPT) = PT_(d, t) <=> d = nPD /\ t = nPT
  BY Zenon, <1>4, TablesDistinct
<1>11. PT_(nPD, nPT) \in Tables /\ PT_(nPD, nPT) # PDP_ /\ PT_(nPD, nPT) # PML4_
  BY Zenon, <1>4, TablesDistinct
<1>12. CASE i + 1 < Entries
  <2>1. pc' = "addr" /\ nPT' = nPT /\ nPD' = nPD
    BY <1>1, <1>12, Zenon
  <2>2. /\ pc' \notin Early /\ pc' \in Filling /\ pc' \in InDirectory /\ pc' # "PD" /\ pc' # "PT"
    BY Zenon, <2>1 DEF Early, Filling, InDirectory
  <2>3. CountersInv'
    <3>1. pc' \notin Early \cup Filling => FALSE
      BY Zenon, <2>2
    <3> QED
      BY <1>1, <1>3, <1>5, <1>6, <1>12, <2>1, <2>2, <3>1, Zenon DEF CountersInv
  <2>4. \A d \in Index : StoredPD(d)' <=> StoredPD(d)
    BY <1>2, <2>1, <2>2, Zenon DEF StoredPD
  <2>5. \A d \in Dirs, t \in Index : StoredPT(d, t)' <=> StoredPT(d, t)
    BY <1>1, <1>2, <2>1, <2>2, Zenon DEF StoredPT
  <2>6. ASSUME NEW d \in Dirs, NEW t \in Index, NEW k \in Index
        PROVE  StoredAddr(d, t, k)' <=> StoredAddr(d, t, k) \/ (d = nPD /\ t = nPT /\ k = i)
    BY <1>1, <1>2, <1>8, <2>1, <2>2, Zenon DEF StoredAddr
  <2>7. Stores(PT_(nPD, nPT), i, Page(0, nPD, nPT, i))
    BY <1>1, <1>5, <1>9, <1>10, <1>11, <2>4, <2>5, <2>6, Zenon DEF Stores
  <2>8. ContentsInv'
    BY <1>2, <1>4, <1>5, <1>11, <2>2, <2>7, ContentsAfter, Zenon
  <2> QED
    BY Zenon, <2>3, <2>8
<1>13. CASE ~(i + 1 < Entries) /\ nPT + 1 < Entries
  <2>1. pc' = "PT" /\ nPT' = nPT + 1 /\ nPD' = nPD /\ i + 1 = Entries
    BY <1>1, <1>3, <1>13, Sizes
  <2>2. /\ pc' \notin Early /\ pc' \in Filling /\ pc' \in InDirectory /\ pc' # "PD" /\ pc' # "addr"
    BY Zenon, <2>1 DEF Early, Filling, InDirectory
  <2>3. CountersInv'
    <3>1. pc' \notin Early \cup Filling => FALSE
      BY Zenon, <2>2
    <3> QED
      BY <1>1, <1>3, <1>5, <1>6, <1>13, <2>1, <2>2, <3>1, Zenon DEF CountersInv
  <2>4. \A d \in Index : StoredPD(d)' <=> StoredPD(d)
    BY <1>2, <2>1, <2>2, Zenon DEF StoredPD
  <2>5. \A d \in Dirs, t \in Index : StoredPT(d, t)' <=> StoredPT(d, t)
    BY <1>1, <1>2, <1>8, <2>1, <2>2, Zenon DEF StoredPT
  <2>6. ASSUME NEW d \in Dirs, NEW t \in Index, NEW k \in Index
        PROVE  StoredAddr(d, t, k)' <=> StoredAddr(d, t, k) \/ (d = nPD /\ t = nPT /\ k = i)
    <3>1. k < i \/ k = i
      BY <1>3, <2>1, Sizes DEF Index
    <3> QED
      BY <1>1, <1>2, <1>8, <2>1, <2>2, <3>1, Zenon DEF StoredAddr
  <2>7. Stores(PT_(nPD, nPT), i, Page(0, nPD, nPT, i))
    BY <1>1, <1>5, <1>9, <1>10, <1>11, <2>4, <2>5, <2>6, Zenon DEF Stores
  <2>8. ContentsInv'
    BY <1>2, <1>4, <1>5, <1>11, <2>2, <2>7, ContentsAfter, Zenon
  <2> QED
    BY Zenon, <2>3, <2>8
<1>14. CASE ~(i + 1 < Entries) /\ ~(nPT + 1 < Entries)
  <2>1. /\ nPD' = nPD + 1 /\ nPT' = nPT /\ i + 1 = Entries /\ nPT + 1 = Entries
        /\ pc' = IF nPD + 1 < NUM_PD THEN "PD" ELSE "cr3"
    BY <1>1, <1>3, <1>14, Sizes, AfterEach
  <2>2. /\ pc' \notin Early /\ pc' \notin InDirectory /\ pc' # "PT" /\ pc' # "addr"
        /\ pc' = "PD" => pc' \in Filling
        /\ pc' = "cr3" => pc' \notin Filling
        /\ pc' \in {"PD", "cr3"} /\ "PD" # "cr3"
    BY Zenon, <2>1 DEF Early, Filling, InDirectory
  <2>3. CountersInv'
    <3>1. pc' \in Filling => nPD + 1 < NUM_PD
      BY <2>1, <2>2, Zenon
    <3>2. pc' \notin Early \cup Filling => nPD + 1 = NUM_PD
      BY <1>3, <2>1, <2>2, Sizes
    <3> QED
      BY <1>1, <1>3, <1>5, <1>6, <2>1, <2>2, <3>1, <3>2, Zenon DEF CountersInv
  <2>4. \A d \in Index : StoredPD(d)' <=> StoredPD(d)
    BY <1>2, <1>7, <2>1, <2>2, Zenon DEF StoredPD
  <2>5. ASSUME NEW d \in Dirs, NEW t \in Index PROVE StoredPT(d, t)' <=> StoredPT(d, t)
    <3>1. t < nPT \/ t = nPT
      BY <1>3, <2>1, Sizes DEF Index
    <3> QED
      BY <1>1, <1>2, <1>7, <2>1, <2>2, <3>1, Zenon DEF StoredPT
  <2>6. ASSUME NEW d \in Dirs, NEW t \in Index, NEW k \in Index
        PROVE  StoredAddr(d, t, k)' <=> StoredAddr(d, t, k) \/ (d = nPD /\ t = nPT /\ k = i)
    <3>1. (k < i \/ k = i) /\ (t < nPT \/ t = nPT)
      BY <1>3, <2>1, Sizes DEF Index
    <3> QED
      BY <1>1, <1>2, <1>7, <2>1, <2>2, <3>1, Zenon DEF StoredAddr
  <2>7. Stores(PT_(nPD, nPT), i, Page(0, nPD, nPT, i))
    BY <1>1, <1>5, <1>9, <1>10, <1>11, <2>4, <2>5, <2>6, Zenon DEF Stores
  <2>8. ContentsInv'
    BY <1>2, <1>4, <1>5, <1>11, <2>2, <2>7, ContentsAfter, Zenon
  <2> QED
    BY Zenon, <2>3, <2>8
<1> QED
  BY <1>12, <1>13, <1>14, Zenon

(* The invariant of setup_page_table, with the order it is called in.      *)
TablesInv == OrderInv /\ CountersInv /\ ContentsInv

(* The memory of the tables as the program is loaded.                      *)
LEMMA TablesInit == BootInit => CountersInv /\ ContentsInv
<1> SUFFICES ASSUME BootInit PROVE CountersInv /\ ContentsInv
  BY Zenon
<1>1. /\ pc = Steps[1] /\ mem = [x \in Tables \X (0..Entries - 1) |-> Absent]
      /\ nPD = 0 /\ nPT = 0 /\ i = 0 /\ addr = 0
  BY Zenon DEF BootInit
<1>2. pc = "sse"
  BY Zenon, <1>1 DEF Steps
<1>3. /\ pc \in Early /\ pc \notin Filling /\ pc \notin InDirectory /\ pc # "PD" /\ pc # "PT"
      /\ pc # "addr"
  BY Zenon, <1>2 DEF Early, Filling, InDirectory
<1>4. 0 \in 0 .. NUM_PD /\ 0 \in Nat
  BY Sizes
<1>5. CountersInv
  <2>1. pc \notin Early \cup Filling => FALSE
    BY Zenon, <1>3
  <2> QED
    BY <1>1, <1>3, <1>4, <2>1, Zenon DEF CountersInv
<1>6. \A a \in Tables, k \in Index : mem[<<a, k>>] = Absent
  BY Zenon, <1>1 DEF Index
<1>7. mem \in [Tables \X Index -> Int]
  BY <1>1 DEF Index, Absent
<1>8. \A d \in Index : ~(d < 0)
  BY Sizes
<1>9. \A d \in Index : ~StoredPD(d)
  BY <1>1, <1>3, <1>8, Zenon DEF StoredPD
<1>10. \A d \in Dirs, t, k \in Index : ~StoredPT(d, t) /\ ~StoredAddr(d, t, k)
  <2>1. \A d \in Dirs : ~(d < 0)
    BY Zenon, <1>8, Sizes
  <2> QED
    BY <1>1, <1>3, <2>1, Zenon DEF StoredPT, StoredAddr
<1>11. ContentsInv
  <2>1. /\ PML4_ \in Tables /\ PDP_ \in Tables /\ \A d \in Dirs : PD_(d) \in Tables
        /\ \A d \in Dirs, t \in Index : PT_(d, t) \in Tables
    BY Zenon, TablesDistinct
  <2> QED
    BY <1>3, <1>6, <1>7, <1>9, <1>10, <2>1, Zenon DEF ContentsInv
<1> QED
  BY Zenon, <1>5, <1>11

(* Every step of the boot code keeps the invariant of the tables.          *)
LEMMA TablesStep ==
  OrderInv /\ CountersInv /\ ContentsInv /\ BootNext => CountersInv' /\ ContentsInv'
<1> SUFFICES ASSUME OrderInv, CountersInv, ContentsInv, BootNext
             PROVE  CountersInv' /\ ContentsInv'
  BY Zenon
<1>1. CASE Enable \/ SetGate \/ Out
  <2>1. UNCHANGED table_vars
    BY <1>1, Zenon DEF Enable, SetGate, Out
  <2>2. /\ pc \notin Filling /\ pc' \notin Filling /\ (pc' \in Early <=> pc \in Early)
    BY <1>1, AfterEach DEF Enable, SetGate, Out, Early, Filling
  <2> QED
    BY Zenon, <2>1, <2>2, TablesStay
<1>2. CASE StorePDP
  BY Zenon, <1>2, StorePDPStep
<1>3. CASE StorePD
  BY Zenon, <1>3, StorePDStep
<1>4. CASE StorePT
  BY Zenon, <1>4, StorePTStep
<1>5. CASE StoreAddr
  BY Zenon, <1>5, StoreAddrStep
<1> QED
  BY <1>1, <1>2, <1>3, <1>4, <1>5, Zenon DEF BootNext

(* What setup_page_table counts and has stored agree at every step.        *)
THEOREM TablesInvariance == Spec => []TablesInv
<1>1. Init => TablesInv
  BY Zenon, OrderInit, TablesInit DEF Init, TablesInv
<1>2. TablesInv /\ [Next]_vars => TablesInv'
  <2> SUFFICES ASSUME TablesInv, [Next]_vars PROVE TablesInv'
    BY Zenon
  <2>1. CASE BootNext
    BY Zenon, <2>1, OrderStep, TablesStep DEF TablesInv
  <2>2. CASE UNCHANGED boot_vars
    <3>1. /\ pc' = pc /\ enabled' = enabled /\ mem' = mem /\ nPD' = nPD /\ nPT' = nPT /\ i' = i
          /\ addr' = addr
      BY <2>2, Zenon DEF boot_vars, table_vars
    <3>2. OrderInv' /\ CountersInv'
      BY <3>1, Zenon DEF TablesInv, OrderInv, CountersInv
    <3>3. \A d, t, k : /\ StoredPD(d)' <=> StoredPD(d)
                       /\ StoredPT(d, t)' <=> StoredPT(d, t)
                       /\ StoredAddr(d, t, k)' <=> StoredAddr(d, t, k)
      BY <3>1, Zenon DEF StoredPD, StoredPT, StoredAddr
    <3>4. ContentsInv'
      BY <3>1, <3>3, Zenon DEF TablesInv, ContentsInv
    <3> QED
      BY Zenon, <3>2, <3>4 DEF TablesInv
  <2> QED
    BY <2>1, <2>2, Zenon DEF Next, vars
<1> QED
  BY <1>1, <1>2, PTL DEF Spec

(* The walk of an address ends at its own page when the entry for it is    *)
(* stored, and nowhere otherwise.                                          *)
LEMMA Walk ==
  ASSUME CountersInv, ContentsInv,
         NEW i3 \in Index, NEW i2 \in Index, NEW i1 \in Index, NEW i0 \in Index
  PROVE  Translate(i3, i2, i1, i0) =
           IF i3 = 0 /\ pc \notin Early /\ i2 \in Dirs /\ StoredAddr(i2, i1, i0)
           THEN Page(0, i2, i1, i0) ELSE Absent
<1> DEFINE a3 == Entry(PML4_, i3)
           a2 == Entry(a3, i2)
           a1 == Entry(a2, i1)
           a0 == Entry(a1, i0)
<1>0. Translate(i3, i2, i1, i0) = a0
  BY Zenon DEF Translate
<1>1. /\ \A k : Entry(Absent, k) = Absent
      /\ \A t \in Tables : \A k : Entry(t, k) = mem[<<t, k>>]
  BY TablesDistinct, Zenon DEF Entry
<1>2. a3 = IF i3 = 0 /\ pc \notin Early THEN PDP_ ELSE Absent
  <2>1. a3 = mem[<<PML4_, i3>>]
    BY <1>1, TablesDistinct, Zenon
  <2> QED
    BY <2>1, Zenon DEF ContentsInv
<1>3. StoredPD(i2) => i2 \in Dirs
  <2>1. pc \in InDirectory => pc \in Filling
    BY Zenon DEF InDirectory, Filling
  <2>2. nPD \in 0 .. NUM_PD /\ (pc \in Filling => nPD < NUM_PD)
    BY Zenon DEF CountersInv
  <2>3. StoredPD(i2) => i2 < NUM_PD
    BY <2>1, <2>2, Sizes DEF StoredPD
  <2> QED
    BY <2>3, Sizes DEF Dirs
<1>4. (StoredAddr(i2, i1, i0) => StoredPT(i2, i1)) /\ (StoredPT(i2, i1) => StoredPD(i2))
  BY Zenon DEF StoredAddr, StoredPT, StoredPD
<1>5. CASE i3 = 0 /\ pc \notin Early
  <2>1. a2 = IF StoredPD(i2) THEN PD_(i2) ELSE Absent
    <3>1. a3 = PDP_ /\ PDP_ \in Tables
      BY <1>2, <1>5, TablesDistinct, Zenon
    <3>2. a2 = mem[<<PDP_, i2>>]
      BY <1>1, <3>1, Zenon
    <3> QED
      BY <3>2, Zenon DEF ContentsInv
  <2>2. CASE ~StoredPD(i2)
    BY <1>0, <1>1, <1>4, <2>1, <2>2, Zenon
  <2>3. CASE StoredPD(i2)
    <3>0. i2 \in Dirs /\ PD_(i2) \in Tables
      BY <1>3, <2>3, TablesDistinct, Zenon
    <3>1. a1 = IF StoredPT(i2, i1) THEN PT_(i2, i1) ELSE Absent
      <4>1. a1 = mem[<<PD_(i2), i1>>]
        BY <1>1, <2>1, <2>3, <3>0, Zenon
      <4> QED
        BY <3>0, <4>1, Zenon DEF ContentsInv
    <3>2. CASE ~StoredPT(i2, i1)
      BY <1>0, <1>1, <1>4, <3>1, <3>2, Zenon
    <3>3. CASE StoredPT(i2, i1)
      <4>1. PT_(i2, i1) \in Tables
        BY <3>0, TablesDistinct, Zenon
      <4>2. a0 = mem[<<PT_(i2, i1), i0>>]
        BY <1>1, <3>1, <3>3, <4>1, Zenon
      <4>3. a0 = IF StoredAddr(i2, i1, i0) THEN Page(0, i2, i1, i0) ELSE Absent
        BY <3>0, <4>2, Zenon DEF ContentsInv
      <4> QED
        BY <1>0, <1>5, <3>0, <4>3, Zenon
    <3> QED
      BY <3>2, <3>3, Zenon
  <2> QED
    BY <2>2, <2>3, Zenon
<1>6. CASE ~(i3 = 0 /\ pc \notin Early)
  BY <1>0, <1>1, <1>2, <1>6, Zenon
<1> QED
  BY <1>5, <1>6, Zenon

(* The pages of the first four gigabytes are those that a walk reaches     *)
(* through the first entry of PML4 and the directories.                    *)
LEMMA PagesBelow ==
  ASSUME NEW i3 \in Index, NEW i2 \in Index, NEW i1 \in Index, NEW i0 \in Index
  PROVE  /\ Page(i3, i2, i1, i0) \in Nat
         /\ Page(i3, i2, i1, i0) < Pages32 <=> i3 = 0 /\ i2 \in Dirs
<1>1. /\ i3 \in Nat /\ i2 \in Nat /\ i1 \in Nat /\ i0 \in Nat /\ Entries \in Nat
      /\ NUM_PD \in Nat /\ NUM_PD <= Entries
  BY Zenon, Sizes
<1>2. \A a, b \in Nat : a * Entries \in Nat /\ (a <= b => a * Entries <= b * Entries)
  <2>1. \A a \in Nat : a * Entries \in Nat
    BY <1>1
  <2>2. ASSUME NEW a \in Nat, NEW b \in Nat, a <= b PROVE a * Entries <= b * Entries
    <3>1. CASE a = b
      BY <1>1, <2>1, <3>1
    <3>2. CASE a < b
      <4>1. a * Entries + Entries <= b * Entries
        BY Zenon, <1>1, <3>2, Multiples
      <4> QED
        BY <1>1, <2>1, <4>1
    <3> QED
      BY <2>2, <3>1, <3>2
  <2> QED
    BY Zenon, <2>1, <2>2
<1> DEFINE x == i3 * Entries + i2
           y == x * Entries + i1
           z == y * Entries + i0
<1>3. Page(i3, i2, i1, i0) = z
  BY Zenon DEF Page
<1>4. x \in Nat
  BY <1>1, <1>2
<1>5. i3 # 0 => Entries <= x
  <2>1. i3 # 0 => 1 * Entries <= i3 * Entries
    BY <1>1, <1>2
  <2>2. i3 * Entries \in Nat
    BY Zenon, <1>1, <1>2
  <2> QED
    BY <1>1, <2>1, <2>2
<1>6. i3 = 0 => x = i2
  BY <1>1
<1> HIDE DEF x
<1>7. y \in Nat /\ x * Entries <= y
  BY <1>1, <1>2, <1>4
<1>8. NUM_PD <= x => NUM_PD * Entries <= x * Entries
  BY Zenon, <1>1, <1>2, <1>4
<1>9. NUM_PD * Entries \in Nat /\ x * Entries \in Nat
  BY Zenon, <1>1, <1>2, <1>4
<1> HIDE DEF y
<1>10. NUM_PD <= x => NUM_PD * Entries <= y
  BY <1>7, <1>8, <1>9
<1>11. z \in Nat /\ y * Entries \in Nat /\ y * Entries <= z
  BY <1>1, <1>2, <1>7
<1>12. NUM_PD * Entries <= y => (NUM_PD * Entries) * Entries <= y * Entries
  BY Zenon, <1>2, <1>7, <1>9
<1>13. Pages32 = (NUM_PD * Entries) * Entries /\ Pages32 \in Nat
  BY Zenon, <1>2, <1>9 DEF Pages32
<1> HIDE DEF z
<1>14. NUM_PD <= x => ~(z < Pages32)
  BY <1>10, <1>11, <1>12, <1>13
<1>15. i3 = 0 /\ i2 \in Dirs => z < Pages32
  BY Zenon, <1>3, PagesInOrder
<1>16. ~(i3 = 0 /\ i2 \in Dirs) => NUM_PD <= x
  BY <1>1, <1>4, <1>5, <1>6 DEF Dirs
<1> QED
  BY <1>3, <1>11, <1>14, <1>15, <1>16, Zenon

(* setup_page_table maps a page to itself or not at all, at every moment   *)
(* of its loops; when paging is enabled exactly the first four gigabytes   *)
(* are mapped, whatever the size of a table and the number of directories. *)
THEOREM PagesMapToThemselves == Spec => []IdentityMap
<1>1. TablesInv => IdentityMap
  <2> SUFFICES ASSUME TablesInv PROVE IdentityMap
    BY Zenon
  <2>1. CountersInv /\ ContentsInv /\ OrderInv
    BY Zenon DEF TablesInv
  <2>2. "paging" \in enabled =>
          /\ {"pae", "lme", "cr3"} \subseteq enabled
          /\ pc \notin Early /\ pc \notin Filling /\ pc \notin InDirectory
    BY <2>1 DEF OrderInv, Early, Filling, InDirectory
  <2>3. "paging" \in enabled => nPD = NUM_PD
    BY Zenon, <2>1, <2>2 DEF CountersInv
  <2>4. ASSUME NEW i3 \in Index, NEW i2 \in Index, NEW i1 \in Index, NEW i0 \in Index
        PROVE  /\ Translate(i3, i2, i1, i0) \in {Absent, Page(i3, i2, i1, i0)}
               /\ "paging" \in enabled =>
                    (Translate(i3, i2, i1, i0) = Page(i3, i2, i1, i0)
                       <=> Page(i3, i2, i1, i0) < Pages32)
    <3>1. Translate(i3, i2, i1, i0) =
            IF i3 = 0 /\ pc \notin Early /\ i2 \in Dirs /\ StoredAddr(i2, i1, i0)
            THEN Page(0, i2, i1, i0) ELSE Absent
      BY Zenon, <2>1, Walk
    <3>2. /\ Page(i3, i2, i1, i0) # Absent
          /\ Page(i3, i2, i1, i0) < Pages32 <=> i3 = 0 /\ i2 \in Dirs
      BY PagesBelow DEF Absent
    <3>3. "paging" \in enabled /\ i2 \in Dirs => StoredAddr(i2, i1, i0)
      <4>1. i2 \in Dirs => i2 < NUM_PD
        BY Sizes DEF Dirs
      <4> QED
        BY <2>3, <4>1, Zenon DEF StoredAddr
    <3> QED
      BY <2>2, <3>1, <3>2, <3>3, Zenon
  <2> QED
    BY <2>2, <2>4, Zenon DEF IdentityMap
<1> QED
  BY <1>1, TablesInvariance, PTL

=============================================================================
