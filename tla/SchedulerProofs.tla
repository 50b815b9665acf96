---------------------------- MODULE SchedulerProofs ----------------------------
(***************************************************************************)
(* Proofs about module Scheduler, for every number of tasks, every hook    *)
(* count, every argument of wait and every bound; then about module        *)
(* Kernel, in which keyboard_task is one of the tasks, and module Loader.  *)
(***************************************************************************)
EXTENDS Kernel, Loader, SequenceTheorems, TLAPS

(* Exactly the tasks up to ntasks exist; one runs exactly when the         *)
(* scheduler is inside coroutine.resume, and it is the one at the index of *)
(* the loop.                                                               *)
Structure ==
  /\ \A t \in Tasks : costatus[t] # "absent" <=> t <= ntasks
  /\ \A t \in Tasks : costatus[t] = "running" <=> spc \in {"resumed", "stopped"} /\ t = cur
  /\ spc \in {"resumed", "stopped"} => cur <= ntasks /\ any_tasks_ready
  /\ cur <= ntasks + 1
  /\ timer_ticks <= cticks

(* The deadline of a wait is respected by each value it is computed from.  *)
Deadlines ==
  \A t \in Tasks :
    /\ stage[t] = "wait" => timer_ticks + ticks[t] >= due[t]
    /\ stage[t] = "assign" => until[t] >= due[t]
    /\ stage[t] \in {"yield", "yielded"} => wait_until[t] >= due[t]

(* A pass that has found nothing to run was right about every task it has  *)
(* looked at.                                                              *)
Idle ==
  /\ spc = "for" /\ ~ any_tasks_ready => \A t \in Tasks : t < cur => ~ Ready(t)
  /\ HaltedMeansIdle

(* The index at which the scheduler looks next, and the order in which it  *)
(* will look at two tasks from there.                                      *)
NextIndex == IF spc = "for" THEN cur
             ELSE IF spc \in {"resumed", "stopped"} THEN cur + 1 ELSE 1
Before(a, b) ==
  \/ a >= NextIndex /\ b < NextIndex
  \/ a < b /\ (a >= NextIndex <=> b >= NextIndex)

(* Whoever was overtaken by b is due, and its turn comes before b's.       *)
Turns ==
  \A a, b \in Tasks : overtaken[a][b] # 0 =>
    overtaken[a][b] = 1 /\ Ready(a) /\ b <= ntasks /\ Before(a, b)

SInv == TypeOK /\ Structure /\ Deadlines /\ Idle /\ Turns

--------------------------------------------------------------------------------
(* The arithmetic of wait stays within the natural numbers.                *)
LEMMA WaitIsNatural ==
  ASSUME TypeOK PROVE timer_ticks \in Nat /\ \A t \in Tasks : ticks[t] \in Nat
<1>1. timer_ticks \in Nat
  BY MaxTicksAssumption DEF TypeOK
<1>2. ASSUME NEW t \in Tasks PROVE ticks[t] \in Nat
  <2>1. ticks[t] \in WaitTicks \cup {0}
    BY Zenon DEF TypeOK
  <2>2. CASE ticks[t] \in WaitTicks
    BY Zenon, <2>2, WaitTicksAssumption
  <2>3. CASE ticks[t] = 0
    BY <2>3
  <2> QED
    BY Zenon, <2>1, <2>2, <2>3
<1> QED
  BY Zenon, <1>1, <1>2

(* Every variable keeps its type.                                          *)
LEMMA TypeStep == TypeOK /\ Structure /\ [Next]_vars => TypeOK'
<1> SUFFICES ASSUME TypeOK, Structure, [Next]_vars PROVE TypeOK'
  BY Zenon
<1> USE DEF TypeOK, clock_vars, wait_vars, sched_vars
<1>1. CASE Interrupt
  <2>1. cticks' \in 0 .. MaxTicks
    BY <1>1, MaxTicksAssumption DEF Interrupt, TimerInterrupt, OtherInterrupt
  <2> QED
    BY Zenon, <1>1, <2>1 DEF Interrupt, TimerInterrupt, OtherInterrupt, Wake
<1>2. CASE StartPass
  <2>1. 1 \in 1 .. MaxTasks + 1
    BY TasksAssumption
  <2> QED
    BY Zenon, <1>2, <2>1 DEF StartPass
<1>3. ASSUME cur <= ntasks PROVE cur + 1 \in 1 .. MaxTasks + 1
  BY <1>3, TasksAssumption DEF Tasks
<1>4. CASE SkipTask
  BY Zenon, <1>3, <1>4 DEF SkipTask
<1>5. CASE ResumeTask
  <2>1. overtaken' \in [Tasks -> [Tasks -> Nat]]
    BY <1>5 DEF ResumeTask, Noticed
  <2>2. /\ costatus' \in [Tasks -> {"absent", "suspended", "running", "returned", "error"}]
        /\ stage' \in [Tasks -> {"run", "wait", "assign", "yield", "yielded"}]
    BY Zenon, <1>5 DEF ResumeTask, Noticed
  <2> QED
    BY Zenon, <1>5, <2>1, <2>2 DEF ResumeTask, Noticed
<1>6. CASE EndPass
  BY Zenon, <1>6 DEF EndPass, AfterPass
<1>7. CASE Hlt
  BY ZenonT(30), <1>7 DEF Hlt
<1>8. ASSUME NEW t \in Tasks, TaskStep(t) PROVE TypeOK'
  <2>1. hookcount' \in [Tasks -> 0 .. MaskCount]
    <3>1. /\ MaskCount \in 0 .. MaskCount
          /\ \A k \in 0 .. MaskCount : k > 0 => k - 1 \in 0 .. MaskCount
      BY MaskCountAssumption
    <3>2. \/ Instruction(t)
          \/ hookcount' = [hookcount EXCEPT ![t] = MaskCount]
      BY Zenon, <1>8 DEF TaskStep, Compute, CallWait, ReadTicks, AssignWaitUntil, YieldInWait,
        Yield, Preempt, EnterC, LeaveC, Error, PreemptAcrossC, Return, TaskAdd, SyscallError,
        NewWaitUntil, Restarted, HookYields
    <3> QED
      BY <3>1, <3>2 DEF Instruction
  <2>2. cur + 1 \in 1 .. MaxTasks + 1
    <3>1. spc = "resumed"
      BY Zenon, <1>8 DEF TaskStep, Compute, CallWait, ReadTicks, AssignWaitUntil, YieldInWait,
        Yield, Preempt, EnterC, LeaveC, Error, PreemptAcrossC, Return, TaskAdd, SyscallError,
        Instruction, NewWaitUntil, Restarted, HookYields
    <3> QED
      BY Zenon, <1>3, <3>1 DEF Structure
  <2> USE <2>1, <2>2 DEF BackToScheduler, NextTask
  <2>3. CASE Compute(t)
    BY Zenon, <2>3 DEF Compute
  <2>4. CASE EnterC(t)
    BY Zenon, <2>4 DEF EnterC
  <2>5. CASE LeaveC(t)
    BY Zenon, <2>5 DEF LeaveC
  <2>6. ASSUME NEW n \in WaitTicks, CallWait(t, n) PROVE TypeOK'
    <3>1. due' \in [Tasks -> Nat]
      BY <2>6, WaitTicksAssumption, MaxTicksAssumption DEF CallWait
    <3> QED
      BY Zenon, <2>6, <3>1 DEF CallWait
  <2>7. CASE ReadTicks(t)
    <3>1. timer_ticks + ticks[t] \in Nat
      BY WaitIsNatural
    <3>2. until' \in [Tasks -> Nat]
      BY Zenon, <2>7, <3>1 DEF ReadTicks
    <3> QED
      BY Zenon, <2>7, <3>2 DEF ReadTicks
  <2>8. CASE AssignWaitUntil(t)
    BY Zenon, <2>8 DEF AssignWaitUntil, NewWaitUntil
  <2>9. CASE YieldInWait(t)
    BY Zenon, <2>9 DEF YieldInWait
  <2>10. CASE Yield(t)
    BY Zenon, <2>10 DEF Yield
  <2>11. CASE Return(t)
    BY Zenon, <2>11 DEF Return
  <2>12. CASE Preempt(t)
    BY Zenon, <2>12 DEF Preempt, Restarted, HookYields
  <2>13. ASSUME RaiseError(t) PROVE TypeOK'
    BY Zenon, <2>13 DEF RaiseError
  <2>14. CASE TaskAdd(t)
    <3>1. ntasks' \in Tasks
      BY <2>14, TasksAssumption DEF TaskAdd, Tasks
    <3> QED
      BY Zenon, <2>14, <3>1 DEF TaskAdd
  <2>15. CASE SyscallError(t)
    BY Zenon, <2>15 DEF SyscallError
  <2> QED
    BY Zenon, <1>8, <2>3, <2>4, <2>5, <2>6, <2>7, <2>8, <2>9, <2>10, <2>11, <2>12, <2>13, <2>14,
       <2>15
    DEF TaskStep, Error, PreemptAcrossC, Restarted
<1>9. CASE UNCHANGED vars
  BY Zenon, <1>9 DEF vars
<1> QED
  BY Zenon, <1>1, <1>2, <1>4, <1>5, <1>6, <1>7, <1>8, <1>9 DEF Next, CpuStep, SchedulerStep

(* One task runs at a time, and the clock of the pass is not ahead.        *)
LEMMA StructureStep == TypeOK /\ Structure /\ [Next]_vars => Structure'
<1> SUFFICES ASSUME TypeOK, Structure, [Next]_vars PROVE Structure'
  BY Zenon
<1>0. /\ ntasks \in Nat /\ cur \in Nat /\ cticks \in Nat /\ timer_ticks \in Nat
      /\ \A t \in Tasks : t \in Nat
      /\ costatus \in [Tasks -> {"absent", "suspended", "running", "returned", "error"}]
      /\ spc \in {"get_timer_ticks", "for", "resumed", "hlt", "halted", "stopped"}
  BY MaxTicksAssumption, TasksAssumption DEF TypeOK, Tasks
<1> USE <1>0 DEF Structure, clock_vars, sched_vars
<1>1. CASE Interrupt
  BY <1>1 DEF Interrupt, TimerInterrupt, OtherInterrupt, Wake
<1>2. CASE StartPass \/ SkipTask \/ EndPass \/ Hlt
  BY <1>2 DEF StartPass, SkipTask, EndPass, Hlt, AfterPass
<1>3. CASE ResumeTask
  BY Zenon, <1>3 DEF ResumeTask, Ready, CoStatus, Noticed
<1>4. ASSUME NEW t \in Tasks, TaskStep(t) PROVE Structure'
  <2> USE DEF Instruction, BackToScheduler, NextTask
  <2>1. CASE Compute(t) \/ EnterC(t) \/ LeaveC(t) \/ ReadTicks(t) \/ AssignWaitUntil(t)
    BY <2>1 DEF Compute, EnterC, LeaveC, ReadTicks, AssignWaitUntil, NewWaitUntil
  <2>2. ASSUME NEW n \in WaitTicks, CallWait(t, n) PROVE Structure'
    BY Zenon, <2>2 DEF CallWait
  <2>3. CASE YieldInWait(t) \/ Yield(t) \/ Return(t) \/ Preempt(t)
    BY <2>3 DEF YieldInWait, Yield, Return, Preempt, Restarted, HookYields
  <2>4. CASE Error(t) \/ PreemptAcrossC(t)
    BY <2>4 DEF Error, PreemptAcrossC, RaiseError, Restarted
  <2>5. CASE TaskAdd(t)
    BY <2>5 DEF TaskAdd
  <2>6. CASE SyscallError(t)
    BY Zenon, <2>6 DEF SyscallError
  <2> QED
    BY Zenon, <1>4, <2>1, <2>2, <2>3, <2>4, <2>5, <2>6 DEF TaskStep
<1>5. CASE UNCHANGED vars
  BY Zenon, <1>5 DEF vars
<1> QED
  BY Zenon, <1>1, <1>2, <1>3, <1>4, <1>5 DEF Next, CpuStep, SchedulerStep

(* The deadlines of the waits in progress stay respected.                  *)
LEMMA DeadlinesStep == TypeOK /\ Structure /\ Deadlines /\ [Next]_vars => Deadlines'
<1> SUFFICES ASSUME TypeOK, Structure, Deadlines, [Next]_vars PROVE Deadlines'
  BY Zenon
<1> USE WaitTicksAssumption DEF TypeOK, Deadlines, clock_vars, wait_vars
<1>1. CASE Interrupt
  BY Zenon, <1>1 DEF Interrupt, TimerInterrupt, OtherInterrupt
<1>2. CASE StartPass
  <2>1. /\ timer_ticks \in Nat /\ cticks \in Nat /\ timer_ticks <= cticks
    BY MaxTicksAssumption DEF Structure
  <2>2. \A t \in Tasks : ticks[t] \in Nat /\ due[t] \in Nat
    BY Zenon, WaitIsNatural
  <2>3. timer_ticks' = cticks /\ UNCHANGED <<stage, ticks, until, wait_until, due>>
    BY Zenon, <1>2 DEF StartPass
  <2>4. \A t \in Tasks : stage[t] = "wait" => cticks + ticks[t] >= due[t]
    BY <2>1, <2>2
  <2> QED
    BY Zenon, <2>3, <2>4
<1>3. CASE SkipTask \/ EndPass \/ Hlt
  BY Zenon, <1>3 DEF SkipTask, EndPass, Hlt, AfterPass
<1>4. CASE ResumeTask
  BY Zenon, <1>4 DEF ResumeTask, Noticed
<1>5. ASSUME NEW t \in Tasks, TaskStep(t) PROVE Deadlines'
  <2>1. CASE Compute(t) \/ EnterC(t) \/ LeaveC(t) \/ Yield(t) \/ Return(t) \/ Preempt(t)
    BY Zenon, <2>1 DEF Compute, EnterC, LeaveC, Yield, Return, Preempt, Restarted, HookYields
  <2>2. ASSUME NEW n \in WaitTicks, CallWait(t, n) PROVE Deadlines'
    BY <2>2 DEF CallWait
  <2>3. CASE ReadTicks(t)
    BY Zenon, <2>3 DEF ReadTicks
  <2>4. CASE AssignWaitUntil(t)
    BY Zenon, <2>4 DEF AssignWaitUntil, NewWaitUntil
  <2>5. CASE YieldInWait(t)
    BY Zenon, <2>5 DEF YieldInWait
  <2>6. CASE Error(t) \/ PreemptAcrossC(t)
    BY Zenon, <2>6 DEF Error, PreemptAcrossC, RaiseError, Restarted
  <2>7. CASE TaskAdd(t) \/ SyscallError(t)
    BY Zenon, <2>7 DEF TaskAdd, SyscallError
  <2> QED
    BY Zenon, <1>5, <2>1, <2>2, <2>3, <2>4, <2>5, <2>6, <2>7 DEF TaskStep
<1>6. CASE UNCHANGED vars
  BY Zenon, <1>6 DEF vars
<1> QED
  BY Zenon, <1>1, <1>2, <1>3, <1>4, <1>5, <1>6 DEF Next, CpuStep, SchedulerStep

(* Only the start of a pass moves the scheduler's clock.                   *)
LEMMA ClockStep == [Next]_vars => UNCHANGED timer_ticks \/ StartPass
<1> SUFFICES ASSUME [Next]_vars, ~ StartPass PROVE UNCHANGED timer_ticks
  BY Zenon
<1> USE DEF clock_vars
<1>1. CASE Interrupt
  BY Zenon, <1>1 DEF Interrupt, TimerInterrupt, OtherInterrupt
<1>2. CASE SchedulerStep
  BY Zenon, <1>2 DEF SchedulerStep, SkipTask, ResumeTask, EndPass, Hlt, Noticed, AfterPass
<1>3. ASSUME NEW t \in Tasks, TaskStep(t) PROVE UNCHANGED timer_ticks
  BY Zenon, <1>3 DEF TaskStep, Compute, CallWait, ReadTicks, AssignWaitUntil, YieldInWait, Yield,
    Preempt, EnterC, LeaveC, Error, PreemptAcrossC, RaiseError, Return, TaskAdd, SyscallError,
    NewWaitUntil, Restarted, HookYields
<1>4. CASE UNCHANGED vars
  BY Zenon, <1>4 DEF vars
<1> QED
  BY Zenon, <1>1, <1>2, <1>3, <1>4 DEF Next, CpuStep

(* A task stays due until it is resumed.                                   *)
LEMMA StaysReady ==
  ASSUME TypeOK, Structure, [Next]_vars, NEW a \in Tasks, Ready(a),
         ~ (spc = "for" /\ a = cur)
  PROVE  Ready(a)'
<1>0. costatus[a] = "suspended" /\ wait_until[a] <= timer_ticks
  BY Zenon DEF Ready, CoStatus, TypeOK
<1>1. a # cur \/ ~ (spc \in {"resumed", "stopped"})
  BY Zenon, <1>0 DEF Structure
<1>2. timer_ticks \in Nat /\ cticks \in Nat /\ timer_ticks <= cticks /\ wait_until[a] \in Nat
      /\ a <= ntasks
  BY <1>0, MaxTicksAssumption DEF TypeOK, Structure
<1>3. timer_ticks' \in Nat /\ timer_ticks <= timer_ticks'
  <2>1. CASE UNCHANGED timer_ticks
    BY <1>2, <2>1
  <2>2. CASE StartPass
    BY Zenon, <1>2, <2>2 DEF StartPass
  <2> QED
    BY Zenon, <2>1, <2>2, ClockStep
<1>4. costatus'[a] = "suspended" /\ wait_until'[a] = wait_until[a]
  <2> USE <1>0, <1>1, <1>2 DEF TypeOK, wait_vars
  <2>1. CASE Interrupt \/ UNCHANGED vars
    BY Zenon, <2>1 DEF Interrupt, TimerInterrupt, OtherInterrupt, vars
  <2>2. CASE SchedulerStep
    BY Zenon, <2>2 DEF SchedulerStep, StartPass, SkipTask, ResumeTask, EndPass, Hlt, Noticed,
      AfterPass
  <2>3. ASSUME NEW t \in Tasks, TaskStep(t) PROVE costatus'[a] = "suspended"
                                                  /\ wait_until'[a] = wait_until[a]
    <3>1. spc = "resumed" /\ t = cur /\ a # t
      BY Zenon, <2>3 DEF TaskStep, Compute, CallWait, ReadTicks, AssignWaitUntil, YieldInWait,
        Yield, Preempt, EnterC, LeaveC, Error, PreemptAcrossC, Return, TaskAdd, SyscallError,
        Instruction, NewWaitUntil, Restarted, HookYields
    <3>2. wait_until'[a] = wait_until[a]
      BY Zenon, <2>3, <3>1 DEF TaskStep, Compute, CallWait, ReadTicks, AssignWaitUntil, YieldInWait,
        Yield, Preempt, EnterC, LeaveC, Error, PreemptAcrossC, RaiseError, Return, TaskAdd,
        SyscallError, NewWaitUntil, Restarted, HookYields
    <3>3. CASE TaskAdd(t)
      BY Zenon, <3>3, TasksAssumption DEF TaskAdd, Tasks
    <3>4. CASE ~ TaskAdd(t)
      <4>1. UNCHANGED costatus \/ \E st \in {"suspended", "returned", "error"} :
                                    costatus' = [costatus EXCEPT ![t] = st]
        BY Zenon, <2>3, <3>4 DEF TaskStep, Compute, CallWait, ReadTicks, AssignWaitUntil,
          YieldInWait, Yield, Preempt, EnterC, LeaveC, Error, PreemptAcrossC, RaiseError, Return,
          SyscallError, BackToScheduler, NextTask, NewWaitUntil, Restarted, HookYields
      <4>2. costatus'[a] = "suspended"
        BY Zenon, <3>1, <4>1
      <4> QED
        BY Zenon, <3>2, <4>2
    <3> QED
      BY Zenon, <3>2, <3>3, <3>4
  <2> QED
    BY Zenon, <2>1, <2>2, <2>3 DEF Next, CpuStep
<1> QED
  BY <1>2, <1>0, <1>3, <1>4 DEF Ready, CoStatus

(* What a pass has established about the tasks behind it stays true until  *)
(* it ends.                                                                *)
LEMMA IdleStep == TypeOK /\ Structure /\ Idle /\ [Next]_vars => Idle'
<1> SUFFICES ASSUME TypeOK, Structure, Idle, [Next]_vars PROVE Idle'
  BY Zenon
<1>0. /\ ntasks \in Nat /\ cur \in Nat /\ \A t \in Tasks : t \in Nat /\ 1 <= t
      /\ 1 .. ntasks \subseteq Tasks
  BY TasksAssumption DEF TypeOK, Tasks
<1>1. ASSUME UNCHANGED <<costatus, wait_until, timer_ticks>>
      PROVE  \A t \in Tasks : Ready(t)' <=> Ready(t)
  BY Zenon, <1>1 DEF Ready, CoStatus
<1>2. CASE Interrupt
  BY Zenon, <1>1, <1>2 DEF Interrupt, TimerInterrupt, OtherInterrupt, Wake, Idle, HaltedMeansIdle,
    Ready, CoStatus, clock_vars, wait_vars
<1>3. CASE StartPass
  BY <1>0, <1>3 DEF StartPass, Idle, HaltedMeansIdle
<1>4. CASE SkipTask
  <2>1. \A t \in Tasks : Ready(t)' <=> Ready(t)
    BY Zenon, <1>1, <1>4 DEF SkipTask, clock_vars, wait_vars
  <2>2. cur' = cur + 1 /\ spc' = "for" /\ spc = "for" /\ UNCHANGED any_tasks_ready
        /\ ~ Ready(cur)
    BY Zenon, <1>4 DEF SkipTask
  <2> QED
    BY <1>0, <2>1, <2>2 DEF Idle, HaltedMeansIdle
<1>5. CASE ResumeTask
  BY Zenon, <1>5 DEF ResumeTask, Idle, HaltedMeansIdle, Noticed
<1>6. CASE EndPass
  <2>1. \A t \in Tasks : Ready(t)' <=> Ready(t)
    BY Zenon, <1>1, <1>6 DEF EndPass, clock_vars, wait_vars, AfterPass
  <2>2. /\ spc = "for" /\ cur > ntasks /\ UNCHANGED ntasks
        /\ spc' = IF any_tasks_ready THEN "get_timer_ticks" ELSE "hlt"
    BY Zenon, <1>6 DEF EndPass, AfterPass
  <2>3. CASE any_tasks_ready
    BY Zenon, <2>2, <2>3 DEF Idle, HaltedMeansIdle
  <2>4. CASE ~ any_tasks_ready
    <3>1. \A t \in Tasks : t < cur => ~ Ready(t)
      BY Zenon, <2>2, <2>4 DEF Idle
    <3>2. \A t \in 1 .. ntasks : t \in Tasks /\ t < cur
      BY <1>0, <2>2
    <3>3. \A t \in 1 .. ntasks : ~ Ready(t)'
      BY Zenon, <2>1, <3>1, <3>2
    <3> QED
      BY Zenon, <2>2, <2>4, <3>3 DEF Idle, HaltedMeansIdle
  <2> QED
    BY Zenon, <2>3, <2>4
<1>7. CASE Hlt
  BY Zenon, <1>7 DEF Hlt, Idle, HaltedMeansIdle, Ready, CoStatus, clock_vars, wait_vars
<1>8. ASSUME NEW t \in Tasks, TaskStep(t) PROVE Idle'
  <2>1. spc = "resumed" /\ spc' \in {"resumed", "for", "stopped"} /\ UNCHANGED any_tasks_ready
    BY Zenon, <1>8 DEF TaskStep, Compute, CallWait, ReadTicks, AssignWaitUntil, YieldInWait, Yield,
      Preempt, EnterC, LeaveC, Error, PreemptAcrossC, RaiseError, Return, TaskAdd, SyscallError,
      Instruction, BackToScheduler, sched_vars, NextTask, NewWaitUntil, Restarted, HookYields
  <2> QED
    BY Zenon, <2>1 DEF Structure, Idle, HaltedMeansIdle
<1>9. CASE UNCHANGED vars
  BY Zenon, <1>9 DEF vars, Idle, HaltedMeansIdle, Ready, CoStatus, clock_vars, wait_vars, sched_vars
<1> QED
  BY Zenon, <1>2, <1>3, <1>4, <1>5, <1>6, <1>7, <1>8, <1>9 DEF Next, CpuStep, SchedulerStep

(* The order of the turns is kept: an overtaken task comes first.          *)
LEMMA TurnsStep == TypeOK /\ Structure /\ Turns /\ [Next]_vars => Turns'
<1> SUFFICES ASSUME TypeOK, Structure, Turns, [Next]_vars, NEW a \in Tasks, NEW b \in Tasks,
                    overtaken'[a][b] # 0
             PROVE  overtaken'[a][b] = 1 /\ Ready(a)' /\ b <= ntasks' /\ Before(a, b)'
  BY Zenon DEF Turns
<1>0. a \in Nat /\ b \in Nat /\ 1 <= a /\ 1 <= b /\ cur \in Nat /\ ntasks \in Nat
  BY DEF TypeOK, Tasks
<1>1. overtaken[a][b] # 0 =>
        overtaken[a][b] = 1 /\ Ready(a) /\ b <= ntasks /\ Before(a, b) /\ a <= ntasks
  BY Zenon DEF Turns, Ready, CoStatus, Structure
<1>2. ASSUME UNCHANGED <<overtaken, NextIndex>>, ntasks' \in Nat, ntasks <= ntasks',
             ~ (spc = "for" /\ a = cur)
      PROVE  overtaken'[a][b] = 1 /\ Ready(a)' /\ b <= ntasks' /\ Before(a, b)'
  BY <1>0, <1>1, <1>2, StaysReady DEF Before
<1>3. CASE Interrupt
  BY Zenon, <1>0, <1>1, <1>3 DEF Interrupt, TimerInterrupt, OtherInterrupt, Wake, NextIndex, Before,
    Ready, CoStatus, clock_vars, wait_vars
<1>4. CASE StartPass
  BY <1>0, <1>2, <1>4 DEF StartPass, NextIndex
<1>5. CASE SkipTask
  <2>1. a # cur /\ overtaken[a][b] # 0
    BY Zenon, <1>1, <1>5 DEF SkipTask
  <2>2. b # cur
    BY <1>0, <1>1, <1>5, <2>1 DEF SkipTask, Before, NextIndex
  <2>3. Before(a, b)'
    BY <1>0, <1>1, <1>5, <2>1, <2>2 DEF SkipTask, Before, NextIndex
  <2> QED
    BY Zenon, <1>1, <1>5, <2>1, <2>3, StaysReady DEF SkipTask
<1>6. CASE ResumeTask
  <2>1. a # cur
    BY Zenon, <1>6 DEF ResumeTask, Noticed
  <2>2. CASE b = cur
    <3>1. ~ Before(a, cur)
      BY <1>0, <1>6, <2>1 DEF ResumeTask, Before, NextIndex, Noticed
    <3>2. overtaken[a][b] = 0
      BY Zenon, <1>1, <2>2, <3>1
    <3>3. overtaken'[a][b] = 1 /\ Ready(a)
      BY <1>6, <2>1, <2>2, <3>2 DEF ResumeTask, Noticed
    <3>4. Before(a, b)'
      <4>1. NextIndex' = cur + 1
        BY Zenon, <1>6 DEF ResumeTask, NextIndex, Noticed
      <4> QED
        BY <1>0, <2>1, <2>2, <4>1 DEF Before
    <3> QED
      BY Zenon, <1>6, <2>1, <2>2, <3>3, <3>4, StaysReady DEF ResumeTask, Noticed
  <2>3. CASE b # cur
    <3>1. overtaken'[a][b] = overtaken[a][b]
      BY Zenon, <1>6, <2>1, <2>3 DEF ResumeTask, Noticed
    <3>2. Before(a, b)'
      BY <1>0, <1>1, <1>6, <2>1, <2>3, <3>1 DEF ResumeTask, Before, NextIndex, Noticed
    <3> QED
      BY Zenon, <1>1, <1>6, <2>1, <3>1, <3>2, StaysReady DEF ResumeTask, Noticed
  <2> QED
    BY Zenon, <2>2, <2>3
<1>7. CASE EndPass
  <2>1. overtaken[a][b] # 0 /\ UNCHANGED <<overtaken, ntasks>>
    BY Zenon, <1>7 DEF EndPass, AfterPass
  <2>2. Before(a, b)'
    BY <1>0, <1>1, <1>7, <2>1 DEF EndPass, Before, NextIndex, AfterPass
  <2>3. a # cur
    BY <1>0, <1>1, <1>7, <2>1 DEF EndPass, AfterPass
  <2> QED
    BY Zenon, <1>1, <2>1, <2>2, <2>3, StaysReady
<1>8. CASE Hlt
  BY <1>0, <1>2, <1>8 DEF Hlt, NextIndex
<1>9. ASSUME NEW t \in Tasks, TaskStep(t)
      PROVE  overtaken'[a][b] = 1 /\ Ready(a)' /\ b <= ntasks' /\ Before(a, b)'
  <2>1. /\ spc = "resumed" /\ UNCHANGED overtaken
        /\ \/ spc' \in {"resumed", "stopped"} /\ UNCHANGED cur
           \/ spc' = "for" /\ cur' = cur + 1
        /\ ntasks' = ntasks \/ ntasks' = ntasks + 1
    BY ZenonT(60), <1>9 DEF TaskStep, Compute, CallWait, ReadTicks, AssignWaitUntil, YieldInWait, Yield,
       Preempt, EnterC, LeaveC, Error, PreemptAcrossC, RaiseError, Return, TaskAdd,
       SyscallError, Instruction, BackToScheduler, sched_vars, NextTask, NewWaitUntil,
       Restarted, HookYields
  <2>2. NextIndex' = NextIndex
    BY Zenon, <2>1 DEF NextIndex
  <2> QED
    BY <1>0, <1>2, <2>1, <2>2
<1>10. CASE UNCHANGED vars
  BY Zenon, <1>0, <1>1, <1>10 DEF vars, NextIndex, Before, Ready, CoStatus, clock_vars, wait_vars,
    sched_vars
<1> QED
  BY Zenon, <1>3, <1>4, <1>5, <1>6, <1>7, <1>8, <1>9, <1>10 DEF Next, CpuStep, SchedulerStep

--------------------------------------------------------------------------------
(* The initial state.                                                      *)
LEMMA InitSInv == Init => SInv
<1> SUFFICES ASSUME Init PROVE SInv
  BY Zenon
<1> USE TasksAssumption, MaskCountAssumption, MaxTicksAssumption
<1>1. TypeOK
  <2>1. /\ ntasks \in Tasks /\ cur \in 1 .. MaxTasks + 1 /\ MaskCount - 1 \in 0 .. MaskCount
        /\ cticks \in 0 .. MaxTicks /\ timer_ticks \in 0 .. MaxTicks
    BY DEF Init, Tasks
  <2> QED
    BY Zenon, <2>1 DEF Init, TypeOK
<1>2. Structure
  BY DEF Init, Structure, Tasks
<1>3. Deadlines /\ Idle /\ Turns
  BY Zenon DEF Init, Deadlines, Idle, HaltedMeansIdle, Turns, Tasks
<1> QED
  BY Zenon, <1>1, <1>2, <1>3 DEF SInv

(* The invariant of the scheduler holds in every reachable state.          *)
THEOREM Invariance == Safety => []SInv
<1>1. SInv /\ [Next]_vars => SInv'
  BY Zenon, TypeStep, StructureStep, DeadlinesStep, IdleStep, TurnsStep DEF SInv
<1> QED
  BY InitSInv, <1>1, PTL DEF Safety

(* Type correctness; in particular the index of the scheduler's loop stays *)
(* on the list of tasks and no count hook is ever overdue.                 *)
THEOREM TypeCorrect == Safety => []TypeOK
<1>1. SInv => TypeOK
  BY Zenon DEF SInv
<1> QED
  BY Invariance, <1>1, PTL

(* The scheduler loop serves the tasks in turn: with any number of tasks,  *)
(* a task that is due sees every other one resumed at most once before it. *)
THEOREM TasksTakeTurns == Safety => []RoundRobin
<1>1. SInv => RoundRobin
  <2> SUFFICES ASSUME SInv, NEW a \in Tasks, NEW b \in Tasks PROVE overtaken[a][b] <= 1
    BY Zenon DEF RoundRobin
  <2>1. overtaken[a][b] = 0 \/ overtaken[a][b] = 1
    BY Zenon DEF SInv, Turns
  <2> QED
    BY <2>1
<1> QED
  BY Invariance, <1>1, PTL

(* The scheduler executes hlt only in a pass that found no task due.       *)
THEOREM HaltsOnlyWhenIdle == Safety => []HaltedMeansIdle
<1>1. SInv => HaltedMeansIdle
  BY Zenon DEF SInv, Idle
<1> QED
  BY Invariance, <1>1, PTL

(* wait never returns before its time, wherever the count hook preempts    *)
(* it and however far the clock moves meanwhile.                           *)
THEOREM WaitIsNeverEarly == Safety => NeverEarly
<1> DEFINE WaitReturns(t) == stage[t] = "yielded" /\ stage'[t] = "run"
<1>1. ASSUME SInv, [Next]_vars, NEW t \in Tasks, WaitReturns(t) PROVE timer_ticks >= due[t]
  <2>1. ResumeTask /\ t = cur
    <3> USE DEF wait_vars
    <3>1. /\ stage[t] = "yielded" /\ stage'[t] = "run"
          /\ stage \in [Tasks -> {"run", "wait", "assign", "yield", "yielded"}]
      BY Zenon, <1>1 DEF SInv, TypeOK
    <3>2. ~ Interrupt /\ ~ UNCHANGED vars
      BY Zenon, <3>1 DEF Interrupt, TimerInterrupt, OtherInterrupt, vars
    <3>3. ASSUME NEW u \in Tasks PROVE ~ TaskStep(u)
      <4>1. ~ Compute(u) /\ ~ Yield(u) /\ ~ Preempt(u) /\ ~ EnterC(u) /\ ~ LeaveC(u)
        BY Zenon, <3>1 DEF Compute, Yield, Preempt, EnterC, LeaveC, Restarted, HookYields
      <4>2. ~ Error(u) /\ ~ PreemptAcrossC(u) /\ ~ Return(u) /\ ~ TaskAdd(u) /\ ~ SyscallError(u)
        BY Zenon, <3>1 DEF Error, PreemptAcrossC, RaiseError, Return, TaskAdd, SyscallError,
          Restarted
      <4>3. ~ ReadTicks(u) /\ ~ AssignWaitUntil(u) /\ ~ YieldInWait(u)
        BY Zenon, <3>1 DEF ReadTicks, AssignWaitUntil, YieldInWait, NewWaitUntil
      <4>4. ASSUME NEW n \in WaitTicks PROVE ~ CallWait(u, n)
        BY Zenon, <3>1 DEF CallWait
      <4> QED
        BY Zenon, <4>1, <4>2, <4>3, <4>4 DEF TaskStep
    <3>4. ~ StartPass /\ ~ SkipTask /\ ~ EndPass /\ ~ Hlt
      BY Zenon, <3>1 DEF StartPass, SkipTask, EndPass, Hlt, AfterPass
    <3>5. ResumeTask
      BY Zenon, <1>1, <3>2, <3>3, <3>4 DEF Next, CpuStep, SchedulerStep
    <3> QED
      BY Zenon, <3>1, <3>5 DEF ResumeTask, Noticed
  <2>2. wait_until[t] <= timer_ticks /\ wait_until[t] >= due[t]
    BY Zenon, <1>1, <2>1 DEF ResumeTask, Ready, SInv, Deadlines, Noticed
  <2>3. wait_until[t] \in Nat /\ due[t] \in Nat /\ timer_ticks \in Nat
    BY <1>1, MaxTicksAssumption DEF SInv, TypeOK
  <2> QED
    BY <2>2, <2>3
<1>2. SInv /\ [Next]_vars =>
        [\A t \in Tasks : WaitReturns(t) => timer_ticks >= due[t]]_vars
  BY Zenon, <1>1
<1> QED
  BY Invariance, <1>2, PTL DEF Safety, NeverEarly

-----------------------------------------------------------------------------
(* The keyboard task's table is empty except inside its loop, and what it  *)
(* has handled, then that table, is what it received.                      *)
KInv ==
  /\ chan \in Seq(Scancodes) /\ received \in Seq(Scancodes)
  /\ scancodes \in Seq(Scancodes) /\ handled \in Seq(Scancodes)
  /\ kpc \in {"get", "for", "key", "wait"}
  /\ kpc \in {"get", "wait"} => scancodes = <<>>
  /\ HandledInOrder

(* Lemma: moving the first element of one sequence to the end of another   *)
(* does not change the two put together.                                   *)
LEMMA MoveHead ==
  ASSUME NEW S, NEW s \in Seq(S), NEW t \in Seq(S), t # <<>>
  PROVE  Append(s, Head(t)) \o Tail(t) = s \o t
<1>1. Head(t) \in S /\ Tail(t) \in Seq(S)
  BY Zenon, HeadTailProperties
<1>2. <<Head(t)>> \in Seq(S)
  BY <1>1
<1>3. Append(s, Head(t)) = s \o <<Head(t)>>
  BY Zenon, <1>1, AppendIsConcat
<1>4. t = <<Head(t)>> \o Tail(t)
  <2>1. Len(t) \in Nat /\ Len(t) >= 1
    BY EmptySeq, LenProperties
  <2>2. SubSeq(t, 1, Len(t)) = <<t[1]>> \o SubSeq(t, 2, Len(t))
    BY <2>1, SubSeqRecursiveFirst
  <2>3. SubSeq(t, 1, Len(t)) = t
    BY Zenon, SubSeqFull
  <2>4. Tail(t) = SubSeq(t, 2, Len(t)) /\ Head(t) = t[1]
    BY TailIsSubSeq
  <2> QED BY Zenon, <2>2, <2>3, <2>4
<1>5. (s \o <<Head(t)>>) \o Tail(t) = s \o (<<Head(t)>> \o Tail(t))
  BY <1>1, <1>2, ConcatAssociative
<1> QED BY Zenon, <1>3, <1>4, <1>5

-----------------------------------------------------------------------------
(* Lemma: to the scheduler, every step of the composition is a step of its *)
(* own; keyboard_task is one of its tasks.                                 *)
LEMMA KernelStepIsSchedulerStep == KernelNext => Next
<1> SUFFICES ASSUME KernelNext PROVE Next
  BY Zenon
<1>1. keyboard \in Tasks
  BY TasksAssumption DEF keyboard, Tasks
<1>2. CASE KeyboardInterrupt
  BY Zenon, <1>2 DEF KeyboardInterrupt, Next, Interrupt
<1>3. CASE Elsewhere(TimerInterrupt)
  BY Zenon, <1>3 DEF Elsewhere, Next, Interrupt
<1>4. CASE Elsewhere(SchedulerStep \/ OtherTask)
  BY Zenon, <1>4 DEF Elsewhere, OtherTask, Next, CpuStep
<1>5. CASE KeyboardTask
  <2>1. TaskStep(keyboard)
    BY Zenon, <1>5 DEF KeyboardTask, GetKeyboardInterrupt, KeyPressed, InsideKeyPressed, KeyReturns,
      CallsWait, InsideWait, Loops, Preempted, TaskStep
  <2> QED BY Zenon, <1>1, <2>1 DEF Next, CpuStep
<1> QED BY Zenon, <1>2, <1>3, <1>4, <1>5 DEF KernelNext

(* The composition behaves like the scheduler with arbitrary tasks: what   *)
(* is proved of the scheduler loop of luakernel.lua holds with             *)
(* keyboard_task and the keyboard's interrupts in it.                      *)
THEOREM KernelImplementsScheduler == KernelSpec => Safety
<1>1. KernelInit => Init
  BY Zenon DEF KernelInit
<1>2. [KernelNext]_kernel_vars => [Next]_vars
  BY Zenon, KernelStepIsSchedulerStep DEF kernel_vars
<1> QED BY <1>1, <1>2, PTL DEF KernelSpec, Safety

-----------------------------------------------------------------------------
(* Lemma: to the queue, every step is an offer, a drain or nothing.        *)
LEMMA KernelStepIsChannelStep == KInv /\ [KernelNext]_kernel_vars => [Queue!Next]_(Queue!vars)
<1> SUFFICES ASSUME KInv, [KernelNext]_kernel_vars PROVE [Queue!Next]_(Queue!vars)
  BY Zenon
<1>1. CASE KeyboardInterrupt
  BY Zenon, <1>1 DEF KeyboardInterrupt, Queue!Next
<1>2. CASE GetKeyboardInterrupt
  BY Zenon, <1>2 DEF GetKeyboardInterrupt, Queue!Next, Queue!vars
<1>3. CASE Elsewhere(TimerInterrupt) \/ Elsewhere(SchedulerStep \/ OtherTask)
  BY Zenon, <1>3 DEF Elsewhere, Queue!vars
<1>4. CASE \/ KeyPressed \/ InsideKeyPressed \/ KeyReturns
           \/ CallsWait \/ InsideWait \/ Loops \/ Preempted
  BY Zenon, <1>4 DEF KeyPressed, InsideKeyPressed, KeyReturns, CallsWait, InsideWait, Loops,
    Preempted, Queue!vars
<1>5. CASE UNCHANGED kernel_vars
  BY Zenon, <1>5 DEF kernel_vars, Queue!vars
<1> QED BY Zenon, <1>1, <1>2, <1>3, <1>4, <1>5 DEF KernelNext, KeyboardTask

(* Lemma: every step keeps the keyboard's invariant.                       *)
LEMMA KInvStep == KInv /\ [KernelNext]_kernel_vars => KInv'
<1> SUFFICES ASSUME KInv, [KernelNext]_kernel_vars PROVE KInv'
  BY Zenon
<1> USE DEF KInv, HandledInOrder
<1>1. CASE KeyboardInterrupt
  <2> PICK s \in Scancodes : Queue!Offer(s)
    BY Zenon, <1>1 DEF KeyboardInterrupt
  <2>1. chan' \in Seq(Scancodes)
    BY Zenon, AppendProperties DEF Queue!Offer
  <2> QED BY Zenon, <1>1, <2>1 DEF KeyboardInterrupt, keyboard_vars, Queue!Offer
<1>2. CASE GetKeyboardInterrupt
  <2>1. /\ scancodes = <<>> /\ scancodes' = chan /\ kpc' = "for" /\ handled' = handled
        /\ handled = received
    BY Zenon, <1>2, ConcatEmptySeq DEF GetKeyboardInterrupt
  <2>2. CASE chan = <<>>
    <3>1. chan' = chan /\ received' = received
      BY Zenon, <1>2, <2>2 DEF GetKeyboardInterrupt
    <3> QED BY Zenon, <2>1, <2>2, <3>1
  <2>3. CASE chan # <<>>
    <3>1. chan' = <<>> /\ received' = received \o chan
      BY Zenon, <1>2, <2>3 DEF GetKeyboardInterrupt, Queue!Drain
    <3>2. received \o chan \in Seq(Scancodes)
      BY Zenon, ConcatProperties
    <3>3. <<>> \in Seq(Scancodes)
      OBVIOUS
    <3> QED BY Zenon, <2>1, <3>1, <3>2, <3>3
  <2> QED BY Zenon, <2>2, <2>3
<1>3. CASE KeyPressed
  <2>1. /\ scancodes # <<>> /\ scancodes' = Tail(scancodes) /\ kpc' = "key"
        /\ handled' = Append(handled, Head(scancodes))
        /\ chan' = chan /\ received' = received
    BY Zenon, <1>3 DEF KeyPressed
  <2>2. Head(scancodes) \in Scancodes /\ Tail(scancodes) \in Seq(Scancodes)
    BY Zenon, <2>1, HeadTailProperties
  <2>3. handled' \in Seq(Scancodes)
    BY Zenon, <2>1, <2>2, AppendProperties
  <2>4. handled' \o scancodes' = handled \o scancodes
    BY Zenon, <2>1, MoveHead
  <2> QED BY Zenon, <2>1, <2>2, <2>3, <2>4
<1>4. CASE CallsWait
  BY Zenon, <1>4 DEF CallsWait
<1>5. CASE InsideWait
  BY Zenon, <1>5 DEF InsideWait, keyboard_vars
<1>6. CASE Loops
  BY Zenon, <1>6 DEF Loops
<1>7. CASE Preempted
  BY Zenon, <1>7 DEF Preempted, keyboard_vars
<1>8. CASE Elsewhere(TimerInterrupt) \/ Elsewhere(SchedulerStep \/ OtherTask)
  BY Zenon, <1>8 DEF Elsewhere, keyboard_vars
<1>9. CASE UNCHANGED kernel_vars
  BY Zenon, <1>9 DEF kernel_vars, keyboard_vars
<1>10. CASE InsideKeyPressed
  BY Zenon, <1>10 DEF InsideKeyPressed, keyboard_vars
<1>11. CASE KeyReturns
  BY Zenon, <1>11 DEF KeyReturns, AfterKey
<1> QED
  BY Zenon, <1>1, <1>2, <1>3, <1>4, <1>5, <1>6, <1>7, <1>8, <1>9, <1>10, <1>11
  DEF KernelNext, KeyboardTask

(* Lemma: the keyboard's invariant holds at the start.                     *)
LEMMA KInvInit == KernelInit => KInv
<1> SUFFICES ASSUME KernelInit PROVE KInv
  BY Zenon
<1>1. /\ chan = <<>> /\ received = <<>> /\ kpc = "get" /\ scancodes = <<>> /\ handled = <<>>
  BY Zenon DEF KernelInit, Queue!Init
<1>2. <<>> \in Seq(Scancodes) /\ <<>> \o <<>> = <<>>
  BY ConcatEmptySeq
<1> QED BY Zenon, <1>1, <1>2 DEF KInv, HandledInOrder

(* The inductive invariant of keyboard_task.                               *)
THEOREM KernelInvariance == KernelSpec => []KInv
BY KInvInit, KInvStep, PTL DEF KernelSpec

(* key_pressed is called for every scancode that get_keyboard_interrupt    *)
(* returned, once and in order, wherever keyboard_task is preempted.       *)
THEOREM KeysHandledInOrder == KernelSpec => []HandledInOrder
<1>1. KInv => HandledInOrder
  BY Zenon DEF KInv
<1> QED BY KernelInvariance, <1>1, PTL

(* keyboard_task uses the queue as the channel allows.                     *)
THEOREM KernelImplementsChannel == KernelSpec => Queue!Safety
<1>1. KernelInit => Queue!Init
  BY Zenon DEF KernelInit
<1> QED BY <1>1, KernelInvariance, KernelStepIsChannelStep, PTL DEF KernelSpec, Queue!Safety

-----------------------------------------------------------------------------
(* Loader: require() finds a module of the bundle by its name, for every   *)
(* bundle and every set of names.                                          *)

(* What require() stores for a name that is not loaded, or has false.      *)
Result(modname) == IF lua_loader(modname) = Nil THEN True ELSE lua_loader(modname)

(* The inductive invariant: package.loaded holds for a name what the       *)
(* loader makes of it, or nothing.                                         *)
LInv ==
  /\ \E k \in 1..MaxBundle : lua_bundle \in [1..k -> [name : Names, outcome : Outcomes]]
  /\ DOMAIN loaded = Names
  /\ \A m \in Names : loaded[m] \in {Nil, Result(m)}

(* A name matches itself: memcmp() over its whole length finds no          *)
(* difference.                                                             *)
LEMMA MatchesItself ==
  ASSUME NEW name \in Names
  PROVE  Matches(name, name)
<1>1. name \in Seq({name[k] : k \in DOMAIN name})
  BY Zenon, NamesAssumption
<1>2. Len(name) \in Nat /\ DOMAIN name = 1 .. Len(name)
  BY <1>1
<1>3. SubSeq(name, 1, Len(name)) = name
  BY <1>1, <1>2
<1> QED
  BY <1>2, <1>3 DEF Matches

(* The loop of lua_loader ends at the last match: a module that matches    *)
(* and has no match behind it is the one that is found.                    *)
LEMMA LastMatchIsFound ==
  ASSUME NEW modname, DOMAIN lua_bundle \subseteq Nat,
         NEW m \in Matching(modname),
         \A j \in Matching(modname) : j <= m
  PROVE  Found(modname) = m
<1>1. Matching(modname) \subseteq Nat
  BY Zenon DEF Matching
<1>2. /\ Found(modname) \in Matching(modname)
      /\ \A j \in Matching(modname) : j <= Found(modname)
  BY Zenon DEF Found
<1> QED
  BY <1>1, <1>2

(* Initially package.loaded has none of the modules.                       *)
LEMMA InitLInv == LoaderInit => LInv
BY DEF LoaderInit, LInv, Bundles

(* require() keeps what it finds in package.loaded, and adds what the      *)
(* loader returns.                                                         *)
LEMMA NextLInv == LInv /\ [LoaderNext]_loader_vars => LInv'
<1> SUFFICES ASSUME LInv, [LoaderNext]_loader_vars PROVE LInv'
  BY Zenon
<1>1. lua_bundle' = lua_bundle
  BY Zenon DEF LoaderNext, Require, loader_vars
<1>2. ASSUME NEW m \in Names PROVE Result(m)' = Result(m)
  BY <1>1 DEF Result, lua_loader, Found, Matching
<1>3. CASE UNCHANGED loader_vars
  BY Zenon, <1>1, <1>2, <1>3 DEF LInv, loader_vars
<1>4. ASSUME NEW modname \in Names, Require(modname) PROVE LInv'
  <2>1. loaded' = IF loaded[modname] \notin {Nil, False} THEN loaded
                  ELSE [loaded EXCEPT ![modname] = Result(modname)]
    BY Zenon, <1>4 DEF Require, Result
  <2>2. DOMAIN loaded' = Names
    BY Zenon, <2>1 DEF LInv
  <2>3. \A m \in Names : loaded'[m] \in {Nil, Result(m)}
    BY Zenon, <2>1 DEF LInv
  <2> QED
    BY Zenon, <1>1, <1>2, <2>2, <2>3 DEF LInv
<1> QED
  BY Zenon, <1>3, <1>4 DEF LoaderNext

(* The inductive invariant holds in every state.                           *)
THEOREM LoaderInvariance == LoaderSpec => []LInv
BY InitLInv, NextLInv, PTL DEF LoaderSpec

(* A module of the bundle that returns a table is what require() returns   *)
(* for its name, for every bundle in which no later name begins with it:   *)
(* the comparison of lua_loader (luakernel.c:491) finds no other one.      *)
THEOREM ModulesAreFound == LoaderSpec => []ModuleFoundByName
<1>1. LInv => ModuleFoundByName
  <2> SUFFICES ASSUME LInv, NEW m \in DOMAIN lua_bundle,
                      lua_bundle[m].outcome = "table",
                      \A j \in m + 1..Len(lua_bundle) :
                        ~ Matches(lua_bundle[m].name, lua_bundle[j].name)
               PROVE  loaded[lua_bundle[m].name] \in {Nil, <<"module", m>>}
    BY Zenon DEF ModuleFoundByName
  <2> DEFINE name == lua_bundle[m].name
  <2>1. PICK k \in 1..MaxBundle : lua_bundle \in [1..k -> [name : Names, outcome : Outcomes]]
    BY Zenon DEF LInv
  <2>2. k \in Nat /\ DOMAIN lua_bundle = 1 .. k /\ Len(lua_bundle) = k /\ name \in Names
    BY <2>1, MaxBundleAssumption
  <2>3. m \in Matching(name)
    BY Zenon, <2>2, MatchesItself DEF Matching
  <2>4. \A j \in Matching(name) : j <= m
    BY <2>2 DEF Matching
  <2>5. Found(name) = m
    BY <2>2, <2>3, <2>4, LastMatchIsFound
  <2>6. lua_loader(name) = <<"module", m>>
    BY Zenon, <2>3, <2>5 DEF lua_loader
  <2>7. Nil # <<"module", m>>
    BY Zenon DEF Nil
  <2>8. Result(name) = <<"module", m>>
    BY Zenon, <2>6, <2>7 DEF Result
  <2> QED
    BY Zenon, <2>2, <2>8 DEF LInv
<1> QED
  BY <1>1, LoaderInvariance, PTL

=============================================================================
