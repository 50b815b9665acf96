------------------------------- MODULE Scheduler -------------------------------
(***************************************************************************)
(* The task scheduler of luakernel.lua: taskadd, wait, the endless loop at *)
(* the end of the file, and the count hook by which lua_hook preempts a    *)
(* task.  The scheduler is the main Lua thread; every task is a coroutine  *)
(* it resumes.  Interrupts only move the tick counter of luakernel.c and   *)
(* wake the CPU from hlt; they may arrive between any two steps.           *)
(*                                                                         *)
(* A task is any Lua program: at each VM instruction it may compute, call  *)
(* wait, yield, add a task, enter a C function that calls Lua back, raise  *)
(* an error or return.                                                     *)
(***************************************************************************)
EXTENDS Integers

CONSTANTS
  InitialTasks,   \* tasks added before the loop starts, 5 in the source
  MaxTasks,       \* bound: tasks in a behaviour
  MaskCount,      \* VM instructions between two count hooks, 1000 in the source
  WaitTicks,      \* the arguments of wait
  MaxTicks,       \* bound: the tick counter stops counting here
  CCalls,         \* do tasks call C functions that call Lua back?
  SyscallErrors   \* may Lua code run for a system call raise an error?

ASSUME TasksAssumption ==
  /\ InitialTasks \in Nat \ {0} /\ MaxTasks \in Nat /\ InitialTasks <= MaxTasks
ASSUME MaskCountAssumption == MaskCount \in Nat \ {0}
ASSUME WaitTicksAssumption == WaitTicks \subseteq Nat
ASSUME MaxTicksAssumption == MaxTicks \in Nat
ASSUME SwitchesAssumption == CCalls \in BOOLEAN /\ SyscallErrors \in BOOLEAN

VARIABLES
  cticks,           \* timer_ticks of luakernel.c
  timer_ticks,      \* timer_ticks of luakernel.lua, read once per pass
  ntasks,           \* #tasks
  costatus,         \* state of task.co
  wait_until,       \* task.wait_until
  hookcount,        \* instructions until the count hook of task.co fires
  nny,              \* is task.co inside a C call it may not yield across?
  stage,            \* where task.co is inside wait
  ticks,            \* the argument of that wait
  until,            \* the value wait is about to assign
  spc,              \* the next statement of the scheduler
  cur,              \* its loop index
  any_tasks_ready,
  due,              \* history: the earliest tick at which wait may return
  overtaken         \* history: resumes of b since a was found waiting its turn

Tasks == 1 .. MaxTasks

clock_vars == <<cticks, timer_ticks>>
wait_vars == <<wait_until, stage, ticks, until, due>>
sched_vars == <<spc, cur, any_tasks_ready>>
vars == <<clock_vars, ntasks, costatus, hookcount, nny, wait_vars, sched_vars,
          overtaken>>

(* A coroutine that returned and one that raised an error are both "dead"  *)
(* to coroutine.status, and nothing but the scheduler resumes a task, so   *)
(* that it never sees one "normal".                                        *)
CoStatus(t) == IF costatus[t] \in {"returned", "error"} THEN "dead" ELSE costatus[t]

Ready(t) == CoStatus(t) \in {"suspended", "normal"} /\ wait_until[t] <= timer_ticks

Init ==
  /\ cticks = 0 /\ timer_ticks = 0
  /\ ntasks = InitialTasks
  /\ costatus = [t \in Tasks |-> IF t <= InitialTasks THEN "suspended" ELSE "absent"]
  /\ wait_until = [t \in Tasks |-> 0]
  /\ hookcount = [t \in Tasks |-> MaskCount - 1]
  /\ nny = [t \in Tasks |-> FALSE]
  /\ stage = [t \in Tasks |-> "run"]
  /\ ticks = [t \in Tasks |-> 0]
  /\ until = [t \in Tasks |-> 0]
  /\ due = [t \in Tasks |-> 0]
  /\ spc = "get_timer_ticks" /\ cur = 1 /\ any_tasks_ready = FALSE
  /\ overtaken = [a \in Tasks |-> [b \in Tasks |-> 0]]

--------------------------------------------------------------------------------
(* Interrupts, at any time.  Behind MaxTicks the timer still interrupts.   *)

Wake == spc' = IF spc = "halted" THEN "get_timer_ticks" ELSE spc

TimerInterrupt ==
  /\ cticks' = IF cticks < MaxTicks THEN cticks + 1 ELSE cticks
  /\ Wake
  /\ UNCHANGED <<timer_ticks, ntasks, costatus, hookcount, nny, wait_vars, cur,
                 any_tasks_ready, overtaken>>

OtherInterrupt ==
  /\ Wake
  /\ UNCHANGED <<clock_vars, ntasks, costatus, hookcount, nny, wait_vars, cur,
                 any_tasks_ready, overtaken>>

--------------------------------------------------------------------------------
(* The scheduler's loop.                                                   *)

StartPass ==
  /\ spc = "get_timer_ticks"
  /\ timer_ticks' = cticks
  /\ any_tasks_ready' = FALSE
  /\ cur' = 1
  /\ spc' = "for"
  /\ UNCHANGED <<cticks, ntasks, costatus, hookcount, nny, wait_vars, overtaken>>

SkipTask ==
  /\ spc = "for" /\ cur <= ntasks
  /\ ~ Ready(cur)
  /\ cur' = cur + 1
  /\ UNCHANGED <<clock_vars, ntasks, costatus, hookcount, nny, wait_vars, spc,
                 any_tasks_ready, overtaken>>

(* any_tasks_ready = true.  Mutant: the assignment is left out.            *)
Unnoticed == any_tasks_ready
Noticed == TRUE

ResumeTask ==
  /\ spc = "for" /\ cur <= ntasks
  /\ Ready(cur)
  /\ any_tasks_ready' = Noticed
  /\ costatus' = [costatus EXCEPT ![cur] = "running"]
  /\ stage' = [stage EXCEPT ![cur] = IF @ = "yielded" THEN "run" ELSE @]
  /\ spc' = "resumed"
  /\ overtaken' = [a \in Tasks |-> [b \in Tasks |->
                     IF a = cur THEN 0
                     ELSE IF b = cur /\ Ready(a) THEN overtaken[a][b] + 1
                     ELSE overtaken[a][b]]]
  /\ UNCHANGED <<clock_vars, ntasks, hookcount, nny, wait_until, ticks, until, due, cur>>

(* Mutant: the loop never executes hlt.                                    *)
AlwaysBusy == "get_timer_ticks"
AfterPass == IF any_tasks_ready THEN "get_timer_ticks" ELSE "hlt"

(* ipairs looks at the next index when the body is done, so that a task    *)
(* added during the pass is part of it.                                    *)
EndPass ==
  /\ spc = "for" /\ cur > ntasks
  /\ spc' = AfterPass
  /\ UNCHANGED <<clock_vars, ntasks, costatus, hookcount, nny, wait_vars, cur,
                 any_tasks_ready, overtaken>>

Hlt ==
  /\ spc = "hlt"
  /\ spc' = "halted"
  /\ UNCHANGED <<clock_vars, ntasks, costatus, hookcount, nny, wait_vars, cur,
                 any_tasks_ready, overtaken>>

--------------------------------------------------------------------------------
(* The running task, one VM instruction per step; t is always cur.         *)

(* coroutine.resume returns: the loop goes on with the next task.  Mutant: *)
(* the search starts again from the first one.                             *)
FirstTask == 1
NextTask == cur + 1

BackToScheduler(t, status) ==
  /\ costatus' = [costatus EXCEPT ![t] = status]
  /\ spc' = "for"
  /\ cur' = NextTask

Instruction(t) ==
  /\ spc = "resumed" /\ t = cur
  /\ hookcount[t] > 0
  /\ hookcount' = [hookcount EXCEPT ![t] = @ - 1]

Compute(t) ==
  /\ Instruction(t)
  /\ stage[t] = "run"
  /\ UNCHANGED <<clock_vars, ntasks, costatus, nny, wait_vars, sched_vars, overtaken>>

(* wait(n): find the task, read timer_ticks, assign, yield.  It is a local *)
(* function of luakernel.lua that its tasks call directly from Lua.        *)
CallWait(t, n) ==
  /\ Instruction(t)
  /\ stage[t] = "run" /\ ~ nny[t]
  /\ stage' = [stage EXCEPT ![t] = "wait"]
  /\ ticks' = [ticks EXCEPT ![t] = n]
  /\ due' = [due EXCEPT ![t] = timer_ticks + n]
  /\ UNCHANGED <<clock_vars, ntasks, costatus, nny, wait_until, until, sched_vars,
                 overtaken>>

ReadTicks(t) ==
  /\ Instruction(t)
  /\ stage[t] = "wait"
  /\ stage' = [stage EXCEPT ![t] = "assign"]
  /\ until' = [until EXCEPT ![t] = timer_ticks + ticks[t]]
  /\ ticks' = [ticks EXCEPT ![t] = 0]
  /\ UNCHANGED <<clock_vars, ntasks, costatus, nny, wait_until, due, sched_vars, overtaken>>

(* Mutant: the assignment is lost.                                         *)
OldWaitUntil(t) == wait_until[t]
NewWaitUntil(t) == until[t]

AssignWaitUntil(t) ==
  /\ Instruction(t)
  /\ stage[t] = "assign"
  /\ stage' = [stage EXCEPT ![t] = "yield"]
  /\ wait_until' = [wait_until EXCEPT ![t] = NewWaitUntil(t)]
  /\ until' = [until EXCEPT ![t] = 0]
  /\ UNCHANGED <<clock_vars, ntasks, costatus, nny, ticks, due, sched_vars, overtaken>>

YieldInWait(t) ==
  /\ Instruction(t)
  /\ stage[t] = "yield"
  /\ stage' = [stage EXCEPT ![t] = "yielded"]
  /\ BackToScheduler(t, "suspended")
  /\ UNCHANGED <<clock_vars, ntasks, nny, wait_until, ticks, until, due, any_tasks_ready,
                 overtaken>>

(* coroutine.yield called by the task itself.                              *)
Yield(t) ==
  /\ Instruction(t)
  /\ stage[t] = "run" /\ ~ nny[t]
  /\ BackToScheduler(t, "suspended")
  /\ UNCHANGED <<clock_vars, ntasks, nny, wait_vars, any_tasks_ready, overtaken>>

Restarted == MaskCount

\* Mutant: the hook does not yield.
HookReturns(t) == UNCHANGED <<costatus, spc, cur>>
HookYields(t) == BackToScheduler(t, "suspended")

(* lua_hook: the count hook yields in the name of the task.  An            *)
(* instruction it interrupted runs first after the resume.                 *)
Preempt(t) ==
  /\ spc = "resumed" /\ t = cur
  /\ hookcount[t] = 0 /\ ~ nny[t]
  /\ hookcount' = [hookcount EXCEPT ![t] = Restarted]
  /\ HookYields(t)
  /\ UNCHANGED <<clock_vars, ntasks, nny, wait_vars, any_tasks_ready, overtaken>>

(* A C function (the module loader, table.sort, gsub ...) calls back into  *)
(* Lua with lua_call or lua_pcall, and returns.                            *)
EnterC(t) ==
  /\ CCalls
  /\ Instruction(t)
  /\ stage[t] = "run" /\ ~ nny[t]
  /\ nny' = [nny EXCEPT ![t] = TRUE]
  /\ UNCHANGED <<clock_vars, ntasks, costatus, wait_vars, sched_vars, overtaken>>

LeaveC(t) ==
  /\ Instruction(t)
  /\ stage[t] = "run" /\ nny[t]
  /\ nny' = [nny EXCEPT ![t] = FALSE]
  /\ UNCHANGED <<clock_vars, ntasks, costatus, wait_vars, sched_vars, overtaken>>

(* An error unwinds to the innermost protected call of the task: one of    *)
(* its own catches it and the task goes on, or coroutine.resume returns    *)
(* false, the scheduler prints the message and leaves the task dead.       *)
RaiseError(t) ==
  /\ nny' = [nny EXCEPT ![t] = FALSE]
  /\ \/ UNCHANGED <<costatus, spc, cur>>
     \/ BackToScheduler(t, "error")
  /\ UNCHANGED <<clock_vars, ntasks, wait_vars, any_tasks_ready, overtaken>>

Error(t) ==
  /\ Instruction(t)
  /\ stage[t] = "run"
  /\ RaiseError(t)

(* The hook's lua_yield across a C-call boundary is an error of the task.  *)
PreemptAcrossC(t) ==
  /\ spc = "resumed" /\ t = cur
  /\ hookcount[t] = 0 /\ nny[t]
  /\ hookcount' = [hookcount EXCEPT ![t] = Restarted]
  /\ RaiseError(t)

Return(t) ==
  /\ Instruction(t)
  /\ stage[t] = "run" /\ ~ nny[t]
  /\ BackToScheduler(t, "returned")
  /\ UNCHANGED <<clock_vars, ntasks, nny, wait_vars, any_tasks_ready, overtaken>>

(* taskadd, called by a task, for example by a line typed at the terminal. *)
(* Its last statement, table.insert, is the only one others can notice.    *)
TaskAdd(t) ==
  /\ Instruction(t)
  /\ stage[t] = "run"
  /\ ntasks < MaxTasks
  /\ ntasks' = ntasks + 1
  /\ costatus' = [costatus EXCEPT ![ntasks + 1] = "suspended"]
  /\ UNCHANGED <<clock_vars, nny, wait_vars, sched_vars, overtaken>>

(* A system call runs its Lua part on the main thread, whose error handler *)
(* is the lua_pcall of main: an error there ends the kernel.               *)
SyscallError(t) ==
  /\ SyscallErrors
  /\ Instruction(t)
  /\ stage[t] = "run"
  /\ spc' = "stopped"
  /\ UNCHANGED <<clock_vars, ntasks, costatus, nny, wait_vars, cur, any_tasks_ready,
                 overtaken>>

--------------------------------------------------------------------------------
Interrupt == TimerInterrupt \/ OtherInterrupt

SchedulerStep == StartPass \/ SkipTask \/ ResumeTask \/ EndPass \/ Hlt

TaskStep(t) ==
  \/ Compute(t)
  \/ \E n \in WaitTicks : CallWait(t, n)
  \/ ReadTicks(t)
  \/ AssignWaitUntil(t)
  \/ YieldInWait(t)
  \/ Yield(t)
  \/ Preempt(t)
  \/ EnterC(t)
  \/ LeaveC(t)
  \/ Error(t)
  \/ PreemptAcrossC(t)
  \/ Return(t)
  \/ TaskAdd(t)
  \/ SyscallError(t)

CpuStep == SchedulerStep \/ \E t \in Tasks : TaskStep(t)

Next == Interrupt \/ CpuStep

(* The CPU executes: exactly one of the scheduler and the running task can *)
(* take the next step.  The PIT runs for ever.                             *)
Fairness == WF_vars(CpuStep) /\ WF_vars(TimerInterrupt)

Safety == Init /\ [][Next]_vars
Spec == Safety /\ Fairness

--------------------------------------------------------------------------------
(* Type invariant; in particular, the hook fires after MaskCount           *)
(* instructions at most, also after a preemption.                          *)
TypeOK ==
  /\ cticks \in 0 .. MaxTicks /\ timer_ticks \in 0 .. MaxTicks
  /\ ntasks \in Tasks
  /\ costatus \in [Tasks -> {"absent", "suspended", "running", "returned", "error"}]
  /\ wait_until \in [Tasks -> Nat]
  /\ hookcount \in [Tasks -> 0 .. MaskCount]
  /\ nny \in [Tasks -> BOOLEAN]
  /\ stage \in [Tasks -> {"run", "wait", "assign", "yield", "yielded"}]
  /\ ticks \in [Tasks -> WaitTicks \cup {0}]
  /\ until \in [Tasks -> Nat]
  /\ due \in [Tasks -> Nat]
  /\ spc \in {"get_timer_ticks", "for", "resumed", "hlt", "halted", "stopped"}
  /\ cur \in 1 .. MaxTasks + 1
  /\ any_tasks_ready \in BOOLEAN
  /\ overtaken \in [Tasks -> [Tasks -> Nat]]

(* The scheduler is fair in every step, not only in the end: while a task  *)
(* that is due waits for its turn, no other task is resumed twice, also    *)
(* when tasks are added, preempted, or die in between.                     *)
RoundRobin == \A a, b \in Tasks : overtaken[a][b] <= 1

(* wait(n) does not return before the clock has advanced by n, wherever    *)
(* the count hook interrupts it.                                           *)
NeverEarly ==
  [][\A t \in Tasks : stage[t] = "yielded" /\ stage'[t] = "run" => timer_ticks >= due[t]]_vars

(* The CPU executes hlt only if no task is due by the clock of this pass;  *)
(* what falls due while it is halted was not due when the clock was read.  *)
HaltedMeansIdle ==
  spc \in {"hlt", "halted"} => \A t \in 1 .. ntasks : ~ Ready(t)

(* A suspended task whose time comes is resumed: no task, however long it  *)
(* computes, and no tick lost between the clock's reading and hlt, keeps   *)
(* it waiting for ever.  The exceptions: an error of a system call stops   *)
(* the kernel, and a task that catches the hook's error in a C call, again *)
(* and again, is never preempted.                                          *)
HookMayYield == \A t \in Tasks : ~(hookcount[t] = 0 /\ nny[t])

NoStarvation ==
  <>[]HookMayYield =>
    \A t \in Tasks : costatus[t] = "suspended" /\ wait_until[t] <= MaxTicks
                      ~> costatus[t] = "running" \/ spc = "stopped"

(* When every task waits for a later tick the CPU is put to sleep.         *)
IdleHalts ==
  (\A t \in 1 .. ntasks : CoStatus(t) = "suspended" => wait_until[t] > MaxTicks)
    /\ spc \notin {"resumed", "stopped"} ~> spc = "halted"

(* pcall contains an error: the kernel survives what a task does.          *)
ErrorsAreContained == spc # "stopped"
================================================================================
