--------------------------- MODULE InterruptEntry ---------------------------
(***************************************************************************)
(* What happens on the machine that Boot has set up: main runs with        *)
(* interrupts enabled; on an interrupt the processor goes through the gate *)
(* of the vector and pushes a frame, the stub handle_interrupt_<n> of      *)
(* interrupt.S and handle_interrupt_ of init.S save the registers, call    *)
(* the C handler, restore the registers and execute iretq.  The stack is a *)
(* sequence of 8-byte words whose first word is at a multiple of 16; a     *)
(* word remembers what it is and whose.  Module Interrupts takes this      *)
(* whole path as its entry and exit steps.                                 *)
(***************************************************************************)
EXTENDS Boot

CONSTANTS
  Vectors,    \* the vectors that occur
  MaxWords,   \* bound: words the interrupted code keeps on the stack
  MaxDepth    \* bound: nested interrupts

ASSUME VectorsAssumption == Vectors \subseteq 0..Gates - 1
ASSUME BoundsAssumption == MaxWords \in Nat /\ MaxDepth \in Nat

\* Exceptions for which the processor pushes an error code.
ErrorCode == {8, 10, 11, 12, 13, 14, 17}

External == 32..47

\* handle_interrupt returns for these, and spins for all others.
Handled == {13, 14, 32, 33, 44}

\* Mutant: gs is not pushed.
SavedNoGs == <<"rax", "rbx", "rbp", "rcx", "rdx", "rsi", "r8", "r9", "r10", "r11",
               "r12", "r13", "r14", "r15", "fs">>

\* The registers in the order of the pushes of handle_interrupt_.
Saved == <<"rax", "rbx", "rbp", "rcx", "rdx", "rsi", "r8", "r9", "r10", "r11",
           "r12", "r13", "r14", "r15", "fs", "gs">>

\* Mutant: the pops are in the order of the pushes.
RestoredInOrder == Saved \o <<"rdi">>

\* The registers in the order of the pops.
Restored == <<"gs", "fs", "r15", "r14", "r13", "r12", "r11", "r10", "r9", "r8", "rsi",
              "rdx", "rcx", "rbp", "rbx", "rax", "rdi">>

Regs == {"rax", "rbx", "rbp", "rcx", "rdx", "rsi", "rdi", "r8", "r9", "r10", "r11",
         "r12", "r13", "r14", "r15", "fs", "gs"}

\* The registers a C function may leave changed.
CallerSaved == {"rax", "rcx", "rdx", "rsi", "rdi", "r8", "r9", "r10", "r11"}

VARIABLES
  stack,       \* words, the top of the stack last
  reg,         \* the value of each register, as <<register, owner>>
  ifl,         \* RFLAGS.IF
  ip,          \* where the processor is
  vector,      \* the vector being delivered
  stub,        \* the number of the stub that was entered
  interrupted  \* history: the states of the interrupted contexts

cpu_vars == <<stack, reg, ifl, ip, vector, stub, interrupted>>
vars == <<boot_vars, cpu_vars>>

depth == Len(interrupted)
Word(kind, value) == <<kind, value>>
Top(s, k) == SubSeq(s, Len(s) - k + 1, Len(s))
Drop(s, k) == SubSeq(s, 1, Len(s) - k)

Init ==
  /\ BootInit
  /\ stack = <<>>
  /\ reg = [r \in Regs |-> <<r, "code">>]
  /\ ifl = FALSE
  /\ ip = "boot"
  /\ vector = 0 /\ stub = 0
  /\ interrupted = <<>>

-----------------------------------------------------------------------------
(* sti; call main.                                                         *)
CallMain ==
  /\ ip = "boot" /\ pc = "main"
  /\ ifl' = TRUE
  /\ stack' = Append(stack, Word("return", "hlt"))
  /\ ip' = "code"
  /\ UNCHANGED <<reg, vector, stub, interrupted>>

(* main and what it calls: they move the stack, change registers, and turn *)
(* interrupts on and off.                                                  *)
CodePush ==
  /\ ip = "code"
  /\ Len(stack) < MaxWords
  /\ stack' = Append(stack, Word("data", Len(stack)))
  /\ UNCHANGED <<reg, ifl, ip, vector, stub, interrupted>>

CodePop ==
  /\ ip = "code"
  /\ Len(stack) > 1
  /\ stack' = Drop(stack, 1)
  /\ UNCHANGED <<reg, ifl, ip, vector, stub, interrupted>>

CodeCompute ==
  /\ ip = "code"
  /\ reg' = [r \in Regs |-> <<r, IF reg[r][2] = "code" THEN "more" ELSE "code">>]
  /\ UNCHANGED <<stack, ifl, ip, vector, stub, interrupted>>

CodeCliSti ==
  /\ ip = "code"
  /\ ifl' = ~ifl
  /\ UNCHANGED <<stack, reg, ip, vector, stub, interrupted>>

(* main returns, after the chunk has ended or failed, to a hlt.            *)
MainReturns ==
  /\ ip = "code"
  /\ Len(stack) = 1
  /\ ip' = stack[1][2]
  /\ stack' = <<>>
  /\ UNCHANGED <<reg, ifl, vector, stub, interrupted>>

(* The code behind that hlt is handle_interrupt_0.                         *)
FallThrough ==
  /\ ip = "behind hlt"
  /\ vector' = 0 /\ stub' = 0
  /\ ip' = "stub"
  /\ UNCHANGED <<stack, reg, ifl, interrupted>>

-----------------------------------------------------------------------------
(* The processor aligns the stack to 16 bytes, pushes the frame and, for   *)
(* some exceptions, an error code, and enters the gate of the vector; an   *)
(* interrupt gate clears IF.                                               *)
ResumesAt == IF ip = "hlt" THEN "behind hlt" ELSE ip

Context == [stack |-> stack, reg |-> reg, ifl |-> ifl, ip |-> ResumesAt, vector |-> vector,
            stub |-> stub]

Frame(v) ==
  <<Word("ss", depth), Word("rsp", Len(stack)), Word("rflags", ifl),
    Word("cs", depth), Word("rip", <<depth, ResumesAt>>)>>
  \o IF v \in ErrorCode THEN <<Word("error", v)>> ELSE <<>>

Deliver(v) ==
  /\ ip \in {"code", "handler", "hlt"}
  /\ ip = "hlt" => v \in External
  /\ depth < MaxDepth
  /\ v \in External => ifl /\ v \in LineVectors
  /\ stack' = stack \o (IF Len(stack) % 2 = 1 THEN <<Word("pad", 0)>> ELSE <<>>) \o Frame(v)
  /\ LET gate == IDT[v + 1]
     IN  /\ ifl' = (ifl /\ gate.flags % 16 # 14)
         /\ stub' = (GateTarget(gate) - Handler0) \div 32
  /\ vector' = v
  /\ interrupted' = Append(interrupted, Context)
  /\ ip' = "stub"
  /\ UNCHANGED reg

(* handle_interrupt_<n>                                                    *)
Stub ==
  /\ ip = "stub"
  /\ stack' = Append(stack, Word("rdi", reg["rdi"]))
  /\ reg' = [reg EXCEPT !["rdi"] = <<"rdi", stub>>]
  /\ ip' = "save"
  /\ UNCHANGED <<ifl, vector, stub, interrupted>>

(* handle_interrupt_ up to the call                                        *)
SaveRegisters ==
  /\ ip = "save"
  /\ stack' = stack \o [k \in DOMAIN Saved |-> Word(Saved[k], reg[Saved[k]])]
  /\ ip' = "handler"
  /\ UNCHANGED <<reg, ifl, vector, stub, interrupted>>

(* handle_interrupt returns, having changed what a C function may change.  *)
HandlerReturns ==
  /\ ip = "handler"
  /\ stub \in Handled
  /\ reg' = [r \in Regs |-> IF r \in CallerSaved THEN <<r, "handler">> ELSE reg[r]]
  /\ ip' = "restore"
  /\ UNCHANGED <<stack, ifl, vector, stub, interrupted>>

(* handle_interrupt: default: trap(); while (1);  and a hlt that no        *)
(* interrupt ends.                                                         *)
Spins ==
  /\ ip \in {"handler", "hlt"}
  /\ ip = "handler" => stub \notin Handled
  /\ UNCHANGED cpu_vars

(* The k-th pop takes the k-th word from the top.                          *)
RestoreRegisters ==
  /\ ip = "restore"
  /\ reg' = [r \in Regs |-> LET k == CHOOSE p \in DOMAIN Restored : Restored[p] = r
                            IN  stack[Len(stack) + 1 - k][2]]
  /\ stack' = Drop(stack, Len(Restored))
  /\ ip' = "iretq"
  /\ UNCHANGED <<ifl, vector, stub, interrupted>>

(* iretq takes the five words on top for RIP, CS, RFLAGS, RSP and SS; when *)
(* they are something else, the processor is lost.                         *)
Popped == Top(stack, 5)
FrameOnTop == [k \in 1..5 |-> Popped[k][1]] = <<"ss", "rsp", "rflags", "cs", "rip">>

Iretq ==
  /\ ip = "iretq"
  /\ IF FrameOnTop
       THEN /\ stack' = SubSeq(stack, 1, Popped[2][2])
            /\ ifl' = Popped[3][2]
            /\ ip' = Popped[5][2][2]
            /\ vector' = interrupted[depth].vector /\ stub' = interrupted[depth].stub
       ELSE ip' = "lost" /\ UNCHANGED <<stack, ifl, vector, stub>>
  /\ interrupted' = Drop(interrupted, 1)
  /\ UNCHANGED reg

Lost == ip = "lost" /\ UNCHANGED cpu_vars

CpuNext ==
  \/ CallMain \/ CodePush \/ CodePop \/ CodeCompute \/ CodeCliSti \/ MainReturns \/ FallThrough
  \/ \E v \in Vectors : Deliver(v)
  \/ Stub \/ SaveRegisters \/ HandlerReturns \/ Spins \/ RestoreRegisters \/ Iretq \/ Lost

Next ==
  \/ BootNext /\ UNCHANGED cpu_vars
  \/ CpuNext /\ UNCHANGED boot_vars

Spec == Init /\ [][Next]_vars

-----------------------------------------------------------------------------
(* Interrupts are enabled only when every gate is written and loaded and   *)
(* leads to the stub of its vector, and every line that the masks let      *)
(* through has a vector outside the processor's exceptions that            *)
(* handle_interrupt knows; the three devices are let through.              *)
LinesHaveHandlers ==
  ifl => /\ {"gdt", "idtr", "Realm64", "sse", "fpu"} \subseteq enabled
         /\ Len(IDT) = Gates /\ GatesReachTheirStubs
         /\ LineVectors = {32, 33, 44} /\ \A k \in 1..2 : pic[k].expects = 0

(* After an interrupt without an error code, iretq gives the interrupted   *)
(* code its stack from RSP up, its general registers, IF and instruction   *)
(* pointer back, even if the stack had to be aligned and if the            *)
(* interrupted code was itself a handler; what lies below RSP and the SSE  *)
(* registers are not modelled.  An iretq that belongs to no interrupt is   *)
(* not reached, though main falls into a stub when it ends.                *)
ResumesInterrupted ==
  [][Iretq /\ vector \notin ErrorCode =>
       [stack |-> stack', reg |-> reg', ifl |-> ifl', ip |-> ip', vector |-> vector',
        stub |-> stub'] = interrupted[depth]]_vars

(* handle_interrupt is called with the vector in rdi and, for a vector     *)
(* without an error code, with the stack aligned as compiled code (movaps) *)
(* expects it, whatever the alignment was when the interrupt arrived.      *)
CalledAsCompiled ==
  ip = "handler" =>
    /\ reg["rdi"][2] = vector
    /\ vector \notin ErrorCode /\ depth > 0 => Len(stack) % 2 = 0

(* While an interrupt is handled, no external one is delivered: the gates  *)
(* that setup_IDT installs keep the handlers of devices from nesting.      *)
OneExternalAtATime ==
  depth > 1 => vector \notin External

(* init.S:183 "configure PIT for 100 Hz": the timer counts 1193182 Hz down *)
(* by the divisor.                                                         *)
TimerRuns100Hz == ifl => 1193182 \div pit.divisor \in 99..101

=============================================================================
