------------------------------ MODULE Scheduler ------------------------------
(***************************************************************************)
(* The preemptive round-robin scheduler of src/proc/scheduler.c, together  *)
(* with the only ways into it: the interrupt stub (asm/interrupt.s), the   *)
(* timer handler (src/drivers/timer.c), sys_exit and sys_read              *)
(* (src/proc/syscall.c) and the calls of the kernel context (kernel_main). *)
(*                                                                         *)
(* The machine has one CPU.  Every gate is an interrupt gate, so what runs *)
(* between an interrupt's entry and its iret is one step, unless the       *)
(* handler itself executes sti (sys_read does).  Code outside a handler is *)
(* interruptible between any two of the steps below.                       *)
(*                                                                         *)
(* A context is named by its pid; the kernel context is 0.  A stack is     *)
(* abstracted to the number of interrupt frames on it: the esp that        *)
(* common_stub passes around is the pair <<context, depth of the frame>>.  *)
(***************************************************************************)
EXTENDS Integers, FiniteSets, FiniteSetsExt

CONSTANTS MaxTasks,   \* MAX_TASKS: slots of the task table
          Quantum,    \* timer ticks between two reschedules (10 in the code)
          TickMod,    \* 2^32: width of the static counter in scheduler_tick
          MaxPid,     \* bound of the model: pids ever handed out
          Codes,      \* exit codes
          ExitCodes,  \* those that the program of each pid passes to sys_exit
          Stacks,     \* stack blocks kmalloc can return
          NoStack,    \* the null pointer returned by a failed kmalloc
          NoCode      \* "no exit code yet"

ASSUME SizesAssumption == /\ MaxTasks \in Nat \ {0}
                          /\ Quantum \in Nat \ {0}
                          /\ TickMod \in Nat \ {0}
                          /\ MaxPid \in Nat \ {0}
ASSUME NullAssumption == NoStack \notin Stacks /\ NoCode \notin Codes

Slots == 0 .. MaxTasks - 1
Kernel == 0
Pids == 1 .. MaxPid
Contexts == {Kernel} \cup Pids

ASSUME CodesAssumption == ExitCodes \in [Pids -> SUBSET Codes]

VARIABLES
    state, pid, exit_code, irq_esp, stack_base,    \* tasks[], field by field
    task_count, current_task, active_tasks,
    scheduling_enabled, need_resched, kernel_esp, next_pid, ticks,
    cpu,          \* the context whose instructions the CPU executes
    depth,        \* interrupt frames on each context's stack
    pc,           \* where each context is, or resumes
    allocated,    \* the stack blocks that kmalloc handed out and kfree did not take back
    exited,       \* history: the code each pid passed to sys_exit
    reaped        \* history: the code scheduler_wait delivered for each pid

tableVars == <<state, pid, exit_code, stack_base, task_count, next_pid>>
switchVars == <<irq_esp, current_task, scheduling_enabled, need_resched,
                kernel_esp, cpu, depth>>
ghostVars == <<allocated, exited, reaped>>
vars == <<tableVars, switchVars, active_tasks, ticks, pc, ghostVars>>

Frame(ctx, d) == <<ctx, d>>
NoFrame == Frame(Kernel, 0)

-----------------------------------------------------------------------------
(* scheduler_init, with the kernel context about to call the scheduler.    *)
Init ==
    /\ state = [s \in Slots |-> "UNUSED"]
    /\ pid = [s \in Slots |-> 0]
    /\ exit_code = [s \in Slots |-> 0]
    /\ irq_esp = [s \in Slots |-> NoFrame]
    /\ stack_base = [s \in Slots |-> NoStack]
    /\ task_count = 0
    /\ current_task = -1
    /\ active_tasks = 0
    /\ scheduling_enabled = FALSE
    /\ need_resched = FALSE
    /\ kernel_esp = NoFrame
    /\ next_pid = 1
    /\ ticks = 0
    /\ cpu = Kernel
    /\ depth = [c \in Contexts |-> 0]
    /\ pc = [c \in Contexts |-> "run"]
    /\ allocated = {}
    /\ exited = [p \in Pids |-> NoCode]
    /\ reaped = [p \in Pids |-> NoCode]

-----------------------------------------------------------------------------
(* scheduler_tick: the counter and the flag it leaves behind.              *)
TickReturns == ~scheduling_enabled \/ task_count < 2
TicksNext == IF TickReturns THEN ticks ELSE (ticks + 1) % TickMod
ReschedAfterTick ==
    need_resched \/ (~TickReturns /\ TicksNext % Quantum = 0)

-----------------------------------------------------------------------------
(* scheduler_switch_from_isr.  The caller's frame is at depth d of the     *)
(* running context's stack; st, act and resched are state, active_tasks    *)
(* and need_resched as they are when the function is entered.              *)

(* Mutant: the interrupted task's esp is not saved.                        *)
MutTaskEspSaved(d) == irq_esp

(* The frame is saved for the context that the scheduler believes runs.    *)
TaskEspSaved(d) ==
    IF current_task >= 0
      THEN [irq_esp EXCEPT ![current_task] = Frame(cpu, d)]
      ELSE irq_esp
KernelEspSaved(d) ==
    IF current_task >= 0 THEN kernel_esp ELSE Frame(cpu, d)

(* Mutant: every scan starts at slot 0 instead of after current_task.      *)
MutSlotAfter(i) == (i - 1) % task_count

(* Round robin: the first runnable slot after current_task, -1 if none.    *)
SlotAfter(i) == (current_task + i) % task_count

(* Mutant: exited tasks are chosen too.                                    *)
MutNextSlot(st) ==
    LET offsets == {i \in 1 .. task_count : st[SlotAfter(i)] # "UNUSED"}
    IN  IF offsets = {} THEN -1 ELSE SlotAfter(Min(offsets))

NextSlot(st) ==
    LET offsets == {i \in 1 .. task_count : st[SlotAfter(i)] = "RUNNABLE"}
    IN  IF offsets = {} THEN -1 ELSE SlotAfter(Min(offsets))

(* Mutants: the kernel is resumed one task too early; current_task is not  *)
(* reset when the last task exits.                                         *)
MutChosenEarly(st, act) == IF act <= 1 THEN -1 ELSE NextSlot(st)
MutChosenKeep(st, act) == IF act = 0 THEN current_task ELSE NextSlot(st)

(* The slot that is current once the switch is decided.                    *)
Chosen(st, act) == IF act = 0 THEN -1 ELSE NextSlot(st)

(* Mutant: the frame is not popped.                                        *)
MutResume(frame, d) ==
    /\ cpu' = frame[1]
    /\ depth' = [depth EXCEPT ![cpu] = d, ![frame[1]] = frame[2]]

(* common_stub loads the returned esp, pops that frame and executes iret.  *)
Resume(frame, d) ==
    /\ cpu' = frame[1]
    /\ depth' = [depth EXCEPT ![cpu] = d, ![frame[1]] = frame[2] - 1]

SwitchReturns == ~scheduling_enabled \/ task_count = 0

NoSwitch(resched, d) ==
    /\ need_resched' = resched
    /\ Resume(Frame(cpu, d), d)
    /\ UNCHANGED <<current_task, scheduling_enabled>>

Switch(st, act, resched, d) ==
    IF SwitchReturns
      THEN NoSwitch(resched, d) /\ UNCHANGED <<irq_esp, kernel_esp>>
      ELSE /\ irq_esp' = TaskEspSaved(d)
           /\ kernel_esp' = KernelEspSaved(d)
           /\ IF ~resched
                THEN NoSwitch(FALSE, d)
                ELSE LET next == Chosen(st, act) IN
                     /\ need_resched' = FALSE
                     /\ current_task' = next
                     /\ scheduling_enabled' = (act > 0)
                     /\ Resume(IF next >= 0 THEN TaskEspSaved(d)[next]
                                            ELSE KernelEspSaved(d), d)

-----------------------------------------------------------------------------
(* Calls of the kernel context, which runs its own code only while         *)
(* scheduling is off: interrupts may come between them but the scheduler   *)
(* functions they enter return at once.                                    *)

InKernel == cpu = Kernel /\ pc[Kernel] = "run"

(* Mutant: a zombie's slot is taken before it was waited for.              *)
MutFirstUnused == Min({s \in Slots : state[s] # "RUNNABLE"})

FirstUnused == Min({s \in Slots : state[s] = "UNUSED"})

(* scheduler_add with task_context_init.  kmalloc may fail: the call then  *)
(* returns -1 and leaves everything as it was.                             *)
Add ==
    /\ InKernel
    /\ next_pid <= MaxPid
    /\ \E s \in Slots : state[s] = "UNUSED"
    /\ \E base \in (Stacks \ allocated) \cup {NoStack} :
         IF base = NoStack
           THEN UNCHANGED vars
           ELSE LET slot == FirstUnused IN
                /\ allocated' = allocated \cup {base}
                /\ irq_esp' = [irq_esp EXCEPT ![slot] = Frame(next_pid, 1)]
                /\ depth' = [depth EXCEPT ![next_pid] = 1]
                /\ stack_base' = [stack_base EXCEPT ![slot] = base]
                /\ pid' = [pid EXCEPT ![slot] = next_pid]
                /\ next_pid' = next_pid + 1
                /\ exit_code' = [exit_code EXCEPT ![slot] = 0]
                /\ state' = [state EXCEPT ![slot] = "RUNNABLE"]
                /\ active_tasks' = active_tasks + 1
                /\ task_count' = IF slot >= task_count THEN slot + 1 ELSE task_count
                /\ UNCHANGED <<current_task, scheduling_enabled, need_resched,
                               kernel_esp, ticks, cpu, pc, exited, reaped>>

(* scheduler_start, one step per store: a timer interrupt may come between *)
(* any two of them, when scheduling is already on and the kernel context   *)
(* has not reached its own int $0x20.                                      *)
StartEnable ==
    /\ InKernel
    /\ active_tasks # 0
    /\ scheduling_enabled' = TRUE
    /\ pc' = [pc EXCEPT ![Kernel] = "start_current"]
    /\ UNCHANGED <<tableVars, irq_esp, current_task, need_resched, kernel_esp,
                   cpu, depth, active_tasks, ticks, ghostVars>>

StartCurrent ==
    /\ cpu = Kernel /\ pc[Kernel] = "start_current"
    /\ current_task' = -1
    /\ pc' = [pc EXCEPT ![Kernel] = "start_resched"]
    /\ UNCHANGED <<tableVars, irq_esp, scheduling_enabled, need_resched,
                   kernel_esp, cpu, depth, active_tasks, ticks, ghostVars>>

StartResched ==
    /\ cpu = Kernel /\ pc[Kernel] = "start_resched"
    /\ need_resched' = TRUE
    /\ pc' = [pc EXCEPT ![Kernel] = "int20"]
    /\ UNCHANGED <<tableVars, irq_esp, current_task, scheduling_enabled,
                   kernel_esp, cpu, depth, active_tasks, ticks, ghostVars>>

(* Mutant: any zombie answers the wait.                                    *)
MutZombieSlots(p) == {i \in 0 .. task_count - 1 : state[i] = "ZOMBIE"}

(* scheduler_wait: deliver the code, free the stack, release the slot.  A  *)
(* call that finds no such zombie returns -1 and changes nothing.          *)
ZombieSlots(p) ==
    {i \in 0 .. task_count - 1 : pid[i] = p /\ state[i] = "ZOMBIE"}

Wait(p) ==
    /\ InKernel
    /\ ZombieSlots(p) # {}
    /\ LET i == Min(ZombieSlots(p)) IN
       /\ reaped' = [reaped EXCEPT ![p] = exit_code[i]]
       /\ allocated' = allocated \ {stack_base[i]}
       /\ stack_base' = [stack_base EXCEPT ![i] = NoStack]
       /\ state' = [state EXCEPT ![i] = "UNUSED"]
    /\ UNCHANGED <<pid, exit_code, task_count, next_pid, switchVars,
                   active_tasks, ticks, pc, exited>>

-----------------------------------------------------------------------------
(* Interrupts.  A new frame goes on top of the running context's stack.    *)

Pushed == depth[cpu] + 1

(* The timer interrupt, in any context: timer_handler, then the switch.    *)
TimerIRQ ==
    /\ ticks' = TicksNext
    /\ Switch(state, active_tasks, ReschedAfterTick, Pushed)
    /\ UNCHANGED <<tableVars, active_tasks, pc, ghostVars>>

(* Any other interrupt whose handler leaves the scheduler alone (keyboard, *)
(* serial, an unhandled IRQ) or a system call that does not wait: the stub *)
(* still calls scheduler_switch_from_isr on the way out.                   *)
OtherInterrupt ==
    /\ Switch(state, active_tasks, need_resched, Pushed)
    /\ UNCHANGED <<tableVars, active_tasks, ticks, pc, ghostVars>>

(* The int $0x20 of scheduler_start and task_yield: IRQ0's handler runs,   *)
(* so the instruction counts as a tick too.                                *)
SoftwareInt ==
    /\ pc[cpu] = "int20"
    /\ pc' = [pc EXCEPT ![cpu] = "run"]
    /\ ticks' = TicksNext
    /\ Switch(state, active_tasks, ReschedAfterTick, Pushed)
    /\ UNCHANGED <<tableVars, active_tasks, ghostVars>>

-----------------------------------------------------------------------------
(* Steps of a running task.                                                *)

InTask == cpu # Kernel /\ pc[cpu] = "run"

(* Mutant: task_yield requests the reschedule but does not trap.           *)
MutYield ==
    /\ InTask
    /\ scheduling_enabled /\ task_count >= 2
    /\ need_resched' = TRUE
    /\ UNCHANGED <<tableVars, irq_esp, current_task, scheduling_enabled,
                   kernel_esp, cpu, depth, active_tasks, ticks, pc, ghostVars>>

(* task_yield up to its int $0x20.                                         *)
Yield ==
    /\ InTask
    /\ scheduling_enabled /\ task_count >= 2
    /\ need_resched' = TRUE
    /\ pc' = [pc EXCEPT ![cpu] = "int20"]
    /\ UNCHANGED <<tableVars, irq_esp, current_task, scheduling_enabled,
                   kernel_esp, cpu, depth, active_tasks, ticks, ghostVars>>

(* sys_read finds no character: sti; hlt inside the system call, whose     *)
(* frame stays on the stack.                                               *)
SysReadWait ==
    /\ InTask
    /\ pc' = [pc EXCEPT ![cpu] = "sys_read"]
    /\ depth' = [depth EXCEPT ![cpu] = Pushed]
    /\ UNCHANGED <<tableVars, irq_esp, current_task, scheduling_enabled,
                   need_resched, kernel_esp, cpu, active_tasks, ticks, ghostVars>>

(* sys_read returns with interrupts enabled, so the stub's call of         *)
(* scheduler_switch_from_isr can itself be interrupted: first the save...  *)
SysReadSave ==
    /\ cpu # Kernel /\ pc[cpu] = "sys_read"
    /\ IF SwitchReturns
         THEN UNCHANGED <<irq_esp, kernel_esp>>
         ELSE /\ irq_esp' = TaskEspSaved(depth[cpu])
              /\ kernel_esp' = KernelEspSaved(depth[cpu])
    /\ pc' = [pc EXCEPT ![cpu] = "sys_read_ret"]
    /\ UNCHANGED <<tableVars, current_task, scheduling_enabled, need_resched,
                   cpu, depth, active_tasks, ticks, ghostVars>>

(* ...then the test of need_resched and the return through the frame.  The *)
(* esp was saved by the step before; Switch saves it once more, for a task *)
(* that has the CPU and whose saved esp is written before it is next used. *)
SysReadReturn ==
    /\ cpu # Kernel /\ pc[cpu] = "sys_read_ret"
    /\ pc' = [pc EXCEPT ![cpu] = "run"]
    /\ Switch(state, active_tasks, need_resched, depth[cpu])
    /\ UNCHANGED <<tableVars, active_tasks, ticks, ghostVars>>

(* Mutant: an exit is not counted.                                         *)
MutActiveAfterExit == active_tasks

(* sys_exit: scheduler_exit marks the current slot and executes int $0x20  *)
(* inside the system call, so the frame it leaves is two deep.             *)
ActiveAfterExit == IF active_tasks > 0 THEN active_tasks - 1 ELSE active_tasks

SysExit(code) ==
    /\ InTask /\ code \in ExitCodes[cpu]
    /\ scheduling_enabled /\ task_count # 0
    /\ LET st == [state EXCEPT ![current_task] = "ZOMBIE"] IN
       /\ state' = st
       /\ exit_code' = [exit_code EXCEPT ![current_task] = code]
       /\ active_tasks' = ActiveAfterExit
       /\ ticks' = TicksNext
       /\ Switch(st, ActiveAfterExit, TRUE, depth[cpu] + 2)
    /\ exited' = [exited EXCEPT ![cpu] = code]
    /\ UNCHANGED <<pid, stack_base, task_count, next_pid, pc, allocated, reaped>>

-----------------------------------------------------------------------------
StartStep == StartCurrent \/ StartResched \/ SoftwareInt

Next ==
    \/ Add
    \/ StartEnable
    \/ StartCurrent
    \/ StartResched
    \/ \E p \in Pids : Wait(p)
    \/ TimerIRQ
    \/ OtherInterrupt
    \/ SoftwareInt
    \/ Yield
    \/ SysReadWait
    \/ SysReadSave
    \/ SysReadReturn
    \/ \E code \in Codes : SysExit(code)

Spec == Init /\ [][Next]_vars

(* The PIT keeps interrupting and the CPU keeps executing the code of      *)
(* scheduler_start; nothing is assumed of what tasks do.                   *)
FairSpec == Spec /\ WF_vars(TimerIRQ) /\ WF_vars(StartStep)

-----------------------------------------------------------------------------
(* Properties.                                                             *)

Runnable(s) == state[s] = "RUNNABLE"
Frames == Contexts \X (0 .. 4)

(* Every variable of scheduler.c keeps to its range; frames never nest     *)
(* deeper than system call plus interrupt.                                 *)
TypeOK ==
    /\ state \in [Slots -> {"UNUSED", "RUNNABLE", "ZOMBIE"}]
    /\ pid \in [Slots -> Contexts]
    /\ exit_code \in [Slots -> Codes \cup {0}]
    /\ irq_esp \in [Slots -> Frames]
    /\ stack_base \in [Slots -> Stacks \cup {NoStack}]
    /\ task_count \in 0 .. MaxTasks
    /\ current_task \in -1 .. MaxTasks - 1
    /\ active_tasks \in 0 .. MaxTasks
    /\ scheduling_enabled \in BOOLEAN
    /\ need_resched \in BOOLEAN
    /\ kernel_esp \in Frames
    /\ next_pid \in 1 .. MaxPid + 1
    /\ ticks \in 0 .. TickMod - 1
    /\ cpu \in Contexts
    /\ depth \in [Contexts -> 0 .. 3]
    /\ pc \in [Contexts -> {"run", "start_current", "start_resched", "int20",
                            "sys_read", "sys_read_ret"}]
    /\ allocated \subseteq Stacks
    /\ exited \in [Pids -> Codes \cup {NoCode}]
    /\ reaped \in [Pids -> Codes \cup {0, NoCode}]

(* current_task names the context whose code really executes, -1 the       *)
(* kernel, as the comment on its declaration says; and that task is        *)
(* runnable: an exited task never gets the CPU back.                       *)
CurrentRuns ==
    IF current_task = -1
      THEN cpu = Kernel
      ELSE Runnable(current_task) /\ cpu = pid[current_task]

(* The esp the scheduler keeps for each context it may resume is the top   *)
(* frame of that context's own stack, so no resume skips or repeats a      *)
(* frame, however interrupts nested when the context lost the CPU.         *)
SavedFramesOnTop ==
    /\ \A s \in Slots : Runnable(s) /\ s # current_task
                          => irq_esp[s] = Frame(pid[s], depth[pid[s]])
    /\ cpu # Kernel => kernel_esp = Frame(Kernel, depth[Kernel])

(* active_tasks counts the runnable slots, across add, exit and reuse: on  *)
(* it depend "no tasks" in scheduler_start and the return to the kernel.   *)
ActiveCountExact == active_tasks = Cardinality({s \in Slots : Runnable(s)})

(* The stack blocks taken from the heap are exactly those of the slots in  *)
(* use, one each: none leaks, none is shared, none is freed while its task *)
(* can still run on it.                                                    *)
StacksAccounted ==
    /\ allocated = {stack_base[s] : s \in {t \in Slots : state[t] # "UNUSED"}}
    /\ \A s, t \in Slots :
         /\ state[s] # "UNUSED" /\ state[t] # "UNUSED" /\ s # t
         => stack_base[s] # stack_base[t]

(* scheduler_wait delivers for a pid the code that this very task passed   *)
(* to sys_exit, although slots are reused and the wait can come much later.*)
ExitCodeDelivered ==
    \A p \in Pids : reaped[p] # NoCode => reaped[p] = exited[p]

(* While a task runs, a reschedule request is pending only between the     *)
(* store in task_yield and the next interrupt.  So the return of sys_read, *)
(* which is interruptible, never finds one, and the half of                *)
(* scheduler_switch_from_isr that must be atomic never runs with           *)
(* interrupts enabled.                                                     *)
OpenReturnNeverSwitches ==
    cpu # Kernel /\ need_resched => pc[cpu] = "int20"

(* "When user-mode tasks exit, we return here" (kernel_main): the kernel   *)
(* context gets the CPU back only when no task is runnable, and then       *)
(* scheduling is off, so that its code is never preempted by a task.       *)
KernelResumesWhenDone ==
    [][cpu # Kernel /\ cpu' = Kernel
         => ~scheduling_enabled' /\ \A s \in Slots : ~Runnable(s)']_vars

(* Every runnable task gets the CPU again and again while scheduling is    *)
(* on, whatever the others do: yield, wait for input or spin.              *)
NoStarvation ==
    \A p \in Pids :
        (scheduling_enabled /\ \E s \in Slots : Runnable(s) /\ pid[s] = p)
            ~> (cpu = p)

(* scheduler_start returns to kernel_main once the tasks have exited, from *)
(* whichever of its instructions the kernel context was preempted at.      *)
StartReturns ==
    (~scheduling_enabled /\ pc[Kernel] # "run") ~> InKernel

=============================================================================
