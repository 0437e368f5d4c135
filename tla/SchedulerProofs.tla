--------------------------- MODULE SchedulerProofs ---------------------------
(***************************************************************************)
(* Proofs about Scheduler, for every number of slots, quantum, counter     *)
(* width and set of exit codes.                                            *)
(***************************************************************************)
EXTENDS Scheduler, FiniteSetTheorems, WellFoundedInduction, TLAPS

InUse(s) == state[s] # "UNUSED"
KernelPlaces == {"run", "start_current", "start_resched", "int20"}
TaskPlaces == {"run", "int20", "sys_read", "sys_read_ret"}

(* Frames that a context's own code has on its stack: one while it is      *)
(* inside sys_read.                                                        *)
Base(c) == IF pc[c] \in {"sys_read", "sys_read_ret"} THEN 1 ELSE 0

(* The slots in use lie below task_count and hold distinct pids that have  *)
(* been handed out.                                                        *)
TableOK ==
    /\ \A s \in Slots : InUse(s) => s < task_count /\ pid[s] \in 1 .. next_pid - 1
    /\ \A s, t \in Slots : InUse(s) /\ InUse(t) /\ s # t => pid[s] # pid[t]

(* A suspended context has one frame more than its own code put there.     *)
DepthOK ==
    /\ \A s \in Slots : Runnable(s) =>
         depth[pid[s]] = Base(pid[s]) + (IF s = current_task THEN 0 ELSE 1)
    /\ depth[Kernel] = IF cpu = Kernel THEN 0 ELSE 1

(* Where contexts can be, and what scheduling_enabled says of them.        *)
ModeOK ==
    /\ pc[Kernel] \in KernelPlaces
    /\ \A p \in Pids : pc[p] \in TaskPlaces
    /\ \A p \in Pids : p >= next_pid => pc[p] = "run"
    /\ scheduling_enabled => active_tasks > 0
    /\ ~scheduling_enabled => current_task = -1
    /\ InKernel => ~scheduling_enabled
    /\ cpu = Kernel /\ pc[Kernel] = "int20" /\ scheduling_enabled => need_resched

IndInv == /\ TypeOK
          /\ TableOK
          /\ CurrentRuns
          /\ SavedFramesOnTop
          /\ ActiveCountExact
          /\ DepthOK
          /\ ModeOK
          /\ OpenReturnNeverSwitches

------------------------------------------------------------------------------
(* Min of a set of numbers is one of them.                                 *)
LEMMA MinIsMember ==
    ASSUME NEW S, S \subseteq Nat, S # {}
    PROVE  Min(S) \in S /\ \A y \in S : Min(S) <= y
<1> DEFINE R == {ss \in Nat \X Nat : ss[1] < ss[2]}
<1>0. IsWellFoundedOn(R, Nat)
  BY NatLessThanWellFounded DEF OpToRel
<1>1. PICK x \in S : \A y \in S : <<y, x>> \notin R
  <2> HIDE DEF R
  <2> QED BY <1>0, WFMin
<1>2. ASSUME NEW y \in S
      PROVE  x <= y
  <2>1. x \in Nat /\ y \in Nat
    OBVIOUS
  <2>2. <<y, x>> \in Nat \X Nat /\ <<y, x>>[1] = y /\ <<y, x>>[2] = x
    BY <2>1
  <2>3. ~(<<y, x>>[1] < <<y, x>>[2])
    BY <1>1, <2>2, Zenon
  <2> QED BY <2>1, <2>2, <2>3
<1> QED BY <1>2 DEF Min

(* Counting on from current_task modulo task_count reaches every slot.     *)
LEMMA ModReaches ==
    ASSUME NEW n \in Nat \ {0}, NEW cur \in -1 .. n - 1, NEW s \in 0 .. n - 1
    PROVE  \E i \in 1 .. n : (cur + i) % n = s
<1>1. s % n = s /\ (s + n) % n = s
  OBVIOUS
<1>2. CASE s > cur
  <2>1. s - cur \in 1 .. n /\ cur + (s - cur) = s
    BY <1>2
  <2> QED BY <1>1, <2>1
<1>3. CASE s <= cur
  <2>1. s - cur + n \in 1 .. n /\ cur + (s - cur + n) = s + n
    BY <1>3
  <2> QED BY <1>1, <2>1
<1> QED BY <1>2, <1>3

(* If some slot below task_count is runnable, the round robin finds one.   *)
LEMMA NextSlotRunnable ==
    ASSUME task_count \in Nat \ {0}, current_task \in -1 .. task_count - 1,
           NEW st, NEW s \in 0 .. task_count - 1, st[s] = "RUNNABLE"
    PROVE  NextSlot(st) \in 0 .. task_count - 1 /\ st[NextSlot(st)] = "RUNNABLE"
<1> DEFINE offsets == {i \in 1 .. task_count : st[SlotAfter(i)] = "RUNNABLE"}
<1>1. offsets # {}
  <2>1. PICK i \in 1 .. task_count : (current_task + i) % task_count = s
    BY ModReaches
  <2> QED BY <2>1 DEF SlotAfter
<1>2. offsets \subseteq Nat
  OBVIOUS
<1>3. Min(offsets) \in offsets
  BY <1>1, <1>2, MinIsMember
<1>4. \A i \in 1 .. task_count : SlotAfter(i) \in 0 .. task_count - 1
  BY DEF SlotAfter
<1>5. NextSlot(st) = SlotAfter(Min(offsets))
  BY <1>1 DEF NextSlot
<1> HIDE DEF offsets
<1>6. Min(offsets) \in 1 .. task_count /\ st[SlotAfter(Min(offsets))] = "RUNNABLE"
  BY <1>3 DEF offsets
<1> QED BY <1>4, <1>5, <1>6

------------------------------------------------------------------------------
States == {"UNUSED", "RUNNABLE", "ZOMBIE"}
RunnableIn(st) == {s \in Slots : st[s] = "RUNNABLE"}
Places == {"run", "start_current", "start_resched", "int20", "sys_read",
           "sys_read_ret"}

(* The part of TypeOK about what scheduler_switch_from_isr assigns.        *)
SwitchTyped ==
    /\ irq_esp \in [Slots -> Frames]
    /\ current_task \in -1 .. MaxTasks - 1
    /\ scheduling_enabled \in BOOLEAN
    /\ need_resched \in BOOLEAN
    /\ kernel_esp \in Frames
    /\ cpu \in Contexts
    /\ depth \in [Contexts -> 0 .. 3]

(* Counting runnable slots: the set is finite, and empty iff the count is  *)
(* zero.                                                                   *)
LEMMA RunnableFinite ==
    ASSUME NEW st
    PROVE  /\ IsFiniteSet(RunnableIn(st))
           /\ Cardinality(RunnableIn(st)) \in 0 .. MaxTasks
           /\ Cardinality(RunnableIn(st)) = 0 <=> RunnableIn(st) = {}
<1>1. IsFiniteSet(Slots) /\ Cardinality(Slots) = MaxTasks
  BY FS_Interval, SizesAssumption DEF Slots
<1>2. RunnableIn(st) \in SUBSET Slots
  BY DEF RunnableIn
<1>3. IsFiniteSet(RunnableIn(st)) /\ Cardinality(RunnableIn(st)) <= MaxTasks
  BY <1>1, <1>2, FS_Subset
<1>4. Cardinality(RunnableIn(st)) \in Nat
  BY <1>3, FS_CardinalityType
<1> QED BY <1>3, <1>4, FS_EmptySet, SizesAssumption

(* What the invariant says of the running context.                         *)
LEMMA RunningContext ==
    ASSUME IndInv
    PROVE  /\ current_task = -1 => cpu = Kernel
           /\ current_task # -1 =>
                /\ current_task \in 0 .. task_count - 1
                /\ current_task \in Slots
                /\ state[current_task] = "RUNNABLE"
                /\ cpu = pid[current_task]
                /\ cpu \in Pids /\ cpu # Kernel /\ cpu < next_pid
           /\ scheduling_enabled => task_count \in 1 .. MaxTasks
<1>1. current_task # -1 => current_task \in Slots
  BY SizesAssumption DEF IndInv, TypeOK, Slots
<1>2. current_task # -1 => current_task < task_count /\ pid[current_task] \in 1 .. next_pid - 1
  BY <1>1 DEF IndInv, CurrentRuns, TableOK, InUse, Runnable
<1>3. scheduling_enabled => task_count \in 1 .. MaxTasks
  <2>1. SUFFICES ASSUME scheduling_enabled PROVE task_count # 0
    BY SizesAssumption DEF IndInv, TypeOK
  <2>2a. Cardinality(RunnableIn(state)) = active_tasks
    BY DEF IndInv, ActiveCountExact, RunnableIn, Runnable
  <2>2b. active_tasks # 0
    BY <2>1 DEF IndInv, ModeOK, TypeOK
  <2>2. RunnableIn(state) # {}
    BY <2>2a, <2>2b, RunnableFinite
  <2>3. PICK s \in Slots : state[s] = "RUNNABLE"
    BY <2>2 DEF RunnableIn
  <2> QED BY <2>3, SizesAssumption DEF IndInv, TypeOK, TableOK, InUse, Slots
<1> QED
  BY <1>1, <1>2, <1>3, SizesAssumption
     DEF IndInv, TypeOK, CurrentRuns, Runnable, Slots, Kernel, Pids, Contexts

------------------------------------------------------------------------------
(* The circumstances in which scheduler_switch_from_isr is entered: either *)
(* the table is as it was and the frame at depth d lies just above what    *)
(* the context's own code will have on its stack, or the running task has  *)
(* just been marked a zombie and a reschedule is requested.                *)
SwitchEntered(st, act, resched, d) ==
    /\ st \in [Slots -> States]
    /\ act = Cardinality(RunnableIn(st))
    /\ resched \in BOOLEAN
    /\ d \in 1 .. 3
    /\ state' = st /\ active_tasks' = act
    /\ pid' = pid /\ task_count' = task_count /\ next_pid' = next_pid
    /\ pc' \in [Contexts -> Places]
    /\ \A c \in Contexts : c # cpu => pc'[c] = pc[c]
    /\ pc'[cpu] \in IF cpu = Kernel THEN KernelPlaces ELSE TaskPlaces
    /\ \A s \in Slots : s # current_task => st[s] = state[s]
    /\ \/ /\ st = state /\ act = active_tasks
          /\ d = 1 + IF pc'[cpu] \in {"sys_read", "sys_read_ret"} THEN 1 ELSE 0
       \/ /\ scheduling_enabled /\ resched /\ current_task # -1
          /\ st[current_task] = "ZOMBIE"
    /\ cpu = Kernel /\ scheduling_enabled /\ pc'[Kernel] \in {"run", "int20"}
         => resched

(* What a switch must establish.                                           *)
SwitchGoal ==
    /\ SwitchTyped
    /\ TableOK
    /\ CurrentRuns
    /\ SavedFramesOnTop
    /\ DepthOK
    /\ ModeOK
    /\ OpenReturnNeverSwitches

(* Contexts stay at places they can be in.                                 *)
LEMMA PlacesKept ==
    ASSUME IndInv, NEW st, NEW act, NEW resched, NEW d,
           SwitchEntered(st, act, resched, d)
    PROVE  /\ pc'[Kernel] \in KernelPlaces
           /\ \A p \in Pids : pc'[p] \in TaskPlaces
           /\ \A p \in Pids : p >= next_pid' => pc'[p] = "run"
<1>1. Kernel \in Contexts /\ Pids \subseteq Contexts /\ \A p \in Pids : p # Kernel
  BY DEF Contexts, Pids, Kernel
<1>2. \A p \in Pids : p >= next_pid => p # cpu
  BY RunningContext, <1>1 DEF IndInv, TypeOK, Pids
<1>3. /\ pc[Kernel] \in KernelPlaces
      /\ \A p \in Pids : pc[p] \in TaskPlaces
      /\ \A p \in Pids : p >= next_pid => pc[p] = "run"
  BY DEF IndInv, ModeOK
<1>4. /\ next_pid' = next_pid
      /\ \A c \in Contexts : c # cpu => pc'[c] = pc[c]
      /\ pc'[cpu] \in IF cpu = Kernel THEN KernelPlaces ELSE TaskPlaces
  BY DEF SwitchEntered
<1> HIDE DEF KernelPlaces, TaskPlaces, Kernel
<1>5. pc'[Kernel] \in KernelPlaces
  BY <1>1, <1>3, <1>4
<1>6. \A p \in Pids : pc'[p] \in TaskPlaces
  BY <1>1, <1>3, <1>4
<1>7. \A p \in Pids : p >= next_pid' => pc'[p] = "run"
  BY <1>1, <1>2, <1>3, <1>4
<1> QED BY <1>5, <1>6, <1>7

(* A frame the stub can push is one the scheduler can store.               *)
LEMMA FrameTyped ==
    ASSUME NEW c \in Contexts, NEW d \in 1 .. 3
    PROVE  <<c, d>> \in Frames
BY DEF Frames

(* Scheduling is off: the function returns its argument.                   *)
LEMMA SwitchOff ==
    ASSUME IndInv, NEW st, NEW act, NEW resched, NEW d,
           SwitchEntered(st, act, resched, d), Switch(st, act, resched, d),
           ~scheduling_enabled
    PROVE  SwitchGoal'
<1>1. current_task = -1 /\ cpu = Kernel
  BY RunningContext DEF IndInv, ModeOK
<1>2. /\ need_resched' = resched
      /\ cpu' = cpu /\ depth' = [depth EXCEPT ![cpu] = d - 1]
      /\ current_task' = current_task /\ scheduling_enabled' = scheduling_enabled
      /\ irq_esp' = irq_esp /\ kernel_esp' = kernel_esp
  BY SizesAssumption DEF Switch, SwitchReturns, NoSwitch, Resume, Frame, SwitchEntered, IndInv, TypeOK
<1>3. /\ st = state /\ act = active_tasks
      /\ pc'[Kernel] \in KernelPlaces
      /\ d = 1
  BY <1>1 DEF SwitchEntered, KernelPlaces
<1>4. depth' = depth
  BY <1>1, <1>2, <1>3 DEF IndInv, TypeOK, DepthOK
<1>5. SwitchTyped'
  BY <1>2, <1>4 DEF SwitchTyped, SwitchEntered, IndInv, TypeOK
<1>6. TableOK'
  BY <1>3 DEF TableOK, InUse, SwitchEntered, IndInv
<1>7. CurrentRuns'
  BY <1>1, <1>2 DEF CurrentRuns
<1>8. SavedFramesOnTop'
  BY <1>1, <1>2, <1>3, <1>4 DEF SavedFramesOnTop, SwitchEntered, IndInv, Runnable
<1>9. DepthOK'
  <2>1. \A s \in Slots : Runnable(s) => pid[s] \in Contexts /\ pid[s] # cpu
    BY <1>1 DEF IndInv, TypeOK, TableOK, Runnable, InUse, Kernel
  <2> QED
    BY <2>1, <1>1, <1>2, <1>3, <1>4 DEF DepthOK, SwitchEntered, IndInv, Runnable, Base
<1>10. ModeOK'
  BY <1>1, <1>2, <1>3 DEF ModeOK, InKernel, SwitchEntered, IndInv, Kernel, Pids, Contexts
<1>11. OpenReturnNeverSwitches'
  BY <1>1, <1>2 DEF OpenReturnNeverSwitches
<1> QED
  BY <1>5, <1>6, <1>7, <1>8, <1>9, <1>10, <1>11 DEF SwitchGoal

(* Scheduling is on and no reschedule is requested: the frame is saved and *)
(* the same context goes on.                                               *)
LEMMA SwitchStays ==
    ASSUME IndInv, NEW st, NEW act, NEW resched, NEW d,
           SwitchEntered(st, act, resched, d), Switch(st, act, resched, d),
           scheduling_enabled, ~resched
    PROVE  SwitchGoal'
<1>1. task_count # 0 /\ cpu \in Contexts /\ d \in 1 .. 3
  BY RunningContext, SizesAssumption DEF IndInv, TypeOK, SwitchEntered
<1>2. /\ irq_esp' = TaskEspSaved(d) /\ kernel_esp' = KernelEspSaved(d)
      /\ need_resched' = FALSE
      /\ cpu' = cpu /\ depth' = [depth EXCEPT ![cpu] = d - 1]
      /\ current_task' = current_task /\ scheduling_enabled' = scheduling_enabled
  BY <1>1 DEF Switch, SwitchReturns, NoSwitch, Resume, Frame, IndInv, TypeOK
<1>3. /\ st = state /\ act = active_tasks
      /\ d = 1 + IF pc'[cpu] \in {"sys_read", "sys_read_ret"} THEN 1 ELSE 0
  BY DEF SwitchEntered
<1>4. SwitchTyped'
  <2>1. <<cpu, d>> \in Frames
    BY <1>1, FrameTyped
  <2>2. irq_esp' \in [Slots -> Frames] /\ kernel_esp' \in Frames
    BY <1>2, <2>1 DEF IndInv, TypeOK, TaskEspSaved, KernelEspSaved, Frame
  <2>3. depth' \in [Contexts -> 0 .. 3]
    BY <1>1, <1>2 DEF IndInv, TypeOK
  <2> QED
    BY <2>2, <2>3, <1>1, <1>2 DEF SwitchTyped, IndInv, TypeOK
<1>5. TableOK'
  BY <1>3 DEF TableOK, InUse, SwitchEntered, IndInv
<1>6. CurrentRuns'
  BY <1>2, <1>3 DEF CurrentRuns, SwitchEntered, IndInv, Runnable
<1>7. \A s \in Slots : Runnable(s) /\ s # current_task
        => pid[s] \in Contexts /\ pid[s] # cpu /\ pid[s] # Kernel
  BY RunningContext DEF IndInv, TypeOK, TableOK, Runnable, InUse, Kernel
<1>8. SavedFramesOnTop'
  <2>1. \A s \in Slots : s # current_task => irq_esp'[s] = irq_esp[s]
    BY <1>2 DEF TaskEspSaved, IndInv, TypeOK
  <2>2. cpu # Kernel => kernel_esp' = kernel_esp /\ depth'[Kernel] = depth[Kernel]
    BY <1>1, <1>2, RunningContext DEF KernelEspSaved, IndInv, TypeOK, CurrentRuns, Slots, Contexts
  <2>3. \A s \in Slots : Runnable(s) /\ s # current_task
          => depth'[pid[s]] = depth[pid[s]]
    BY <1>1, <1>2, <1>7 DEF IndInv, TypeOK
  <2> QED
    BY <2>1, <2>2, <2>3, <1>2, <1>3 DEF SavedFramesOnTop, SwitchEntered, IndInv, Runnable
<1>9. DepthOK'
  <2>1. \A s \in Slots : Runnable(s) /\ s # current_task
          => depth'[pid[s]] = depth[pid[s]] /\ Base(pid[s])' = Base(pid[s])
    BY <1>1, <1>2, <1>7 DEF IndInv, TypeOK, SwitchEntered, Base
  <2>2. depth'[cpu] = d - 1 /\ d - 1 = IF pc'[cpu] \in {"sys_read", "sys_read_ret"} THEN 1 ELSE 0
    BY <1>1, <1>2, <1>3 DEF IndInv, TypeOK
  <2>3. ASSUME NEW s \in Slots, Runnable(s)
        PROVE  depth'[pid[s]] = Base(pid[s])' + (IF s = current_task THEN 0 ELSE 1)
    <3>1. CASE s = current_task
      <4>1. pid[s] = cpu /\ pid' = pid
        BY <3>1, RunningContext DEF IndInv, TypeOK, Slots, SwitchEntered
      <4> QED BY <4>1, <3>1, <2>2 DEF Base
    <3>2. CASE s # current_task
      BY <3>2, <2>1, <2>3 DEF IndInv, DepthOK
    <3> QED BY <3>1, <3>2
  <2>4. depth'[Kernel] = IF cpu = Kernel THEN 0 ELSE 1
    <3>1. CASE cpu = Kernel
      BY <3>1, <2>2 DEF SwitchEntered, KernelPlaces
    <3>2. CASE cpu # Kernel
      BY <3>2, <1>1, <1>2 DEF IndInv, TypeOK, DepthOK, Contexts
    <3> QED BY <3>1, <3>2
  <2> QED
    BY <2>3, <2>4, <1>2, <1>3 DEF DepthOK, Runnable, SwitchEntered, Base
<1>10. ModeOK'
  <2>1. active_tasks' > 0
    BY <1>3 DEF SwitchEntered, IndInv, ModeOK
  <2>2. cpu = Kernel => pc'[Kernel] \notin {"run", "int20"}
    BY DEF SwitchEntered
  <2> QED
    BY <2>1, <2>2, <1>2, PlacesKept DEF ModeOK, InKernel
<1>11. OpenReturnNeverSwitches'
  BY <1>2 DEF OpenReturnNeverSwitches
<1> QED
  BY <1>4, <1>5, <1>6, <1>8, <1>9, <1>10, <1>11 DEF SwitchGoal

(* The last task has exited: the kernel context goes on where it was.      *)
LEMMA SwitchToKernel ==
    ASSUME IndInv, NEW st, NEW act, NEW resched, NEW d,
           SwitchEntered(st, act, resched, d), Switch(st, act, resched, d),
           scheduling_enabled, resched, act = 0
    PROVE  /\ SwitchGoal'
           /\ cpu' = Kernel /\ ~scheduling_enabled'
           /\ \A s \in Slots : st[s] # "RUNNABLE"
<1>1. active_tasks # 0
  BY DEF IndInv, ModeOK, TypeOK
<1>2. current_task # -1 /\ st[current_task] = "ZOMBIE"
  BY <1>1 DEF SwitchEntered
<1>3. /\ current_task \in Slots /\ cpu = pid[current_task]
      /\ cpu \in Pids /\ cpu # Kernel /\ cpu \in Contexts /\ Kernel \in Contexts
      /\ task_count # 0 /\ current_task >= 0
  BY <1>2, RunningContext, SizesAssumption DEF Contexts, IndInv, TypeOK, Slots
<1>4. kernel_esp = <<Kernel, 1>> /\ depth[Kernel] = 1
  BY <1>3 DEF IndInv, SavedFramesOnTop, DepthOK, Frame
<1>5. /\ irq_esp' = [irq_esp EXCEPT ![current_task] = <<cpu, d>>]
      /\ kernel_esp' = kernel_esp
      /\ need_resched' = FALSE /\ current_task' = -1
      /\ scheduling_enabled' = FALSE
      /\ cpu' = Kernel
      /\ depth' = [depth EXCEPT ![cpu] = d, ![Kernel] = 0]
  <2>1. ~SwitchReturns /\ Chosen(st, act) = -1
    BY <1>3 DEF SwitchReturns, Chosen
  <2>2. KernelEspSaved(d) = kernel_esp /\ TaskEspSaved(d) = [irq_esp EXCEPT ![current_task] = <<cpu, d>>]
    BY <1>3 DEF KernelEspSaved, TaskEspSaved, Frame
  <2>3. /\ irq_esp' = TaskEspSaved(d) /\ kernel_esp' = KernelEspSaved(d)
        /\ need_resched' = FALSE /\ current_task' = -1
        /\ scheduling_enabled' = (act > 0)
        /\ Resume(KernelEspSaved(d), d)
    BY <2>1 DEF Switch
  <2>4. (act > 0) = FALSE
    OBVIOUS
  <2>5. scheduling_enabled' = FALSE
    BY <2>3, <2>4, Zenon
  <2> QED BY <2>2, <2>3, <2>5, <1>4 DEF Resume
<1>6. \A s \in Slots : st[s] # "RUNNABLE"
  <2>1. RunnableIn(st) = {}
    BY RunnableFinite DEF SwitchEntered
  <2> QED BY <2>1 DEF RunnableIn
<1>7. SwitchTyped'
  <2>1. d \in 1 .. 3 /\ <<cpu, d>> \in Frames
    BY <1>3, FrameTyped DEF SwitchEntered
  <2>2. irq_esp' \in [Slots -> Frames] /\ kernel_esp' \in Frames
    BY <1>5, <2>1 DEF IndInv, TypeOK
  <2>3. depth' \in [Contexts -> 0 .. 3]
    BY <1>3, <1>5, <2>1 DEF IndInv, TypeOK
  <2>4. current_task' \in -1 .. MaxTasks - 1 /\ cpu' \in Contexts
    BY <1>3, <1>5, SizesAssumption
  <2>5. scheduling_enabled' \in BOOLEAN /\ need_resched' \in BOOLEAN
    BY <1>5
  <2> QED
    BY <2>2, <2>3, <2>4, <2>5 DEF SwitchTyped
<1>8. TableOK'
  BY <1>3 DEF TableOK, InUse, SwitchEntered, IndInv, CurrentRuns, Runnable
<1>9. CurrentRuns' /\ SavedFramesOnTop' /\ OpenReturnNeverSwitches'
  BY <1>5, <1>6 DEF CurrentRuns, SavedFramesOnTop, OpenReturnNeverSwitches, Runnable, SwitchEntered
<1>10. DepthOK'
  BY <1>3, <1>5, <1>6 DEF DepthOK, Runnable, SwitchEntered, IndInv, TypeOK
<1>11. ModeOK'
  BY <1>5, PlacesKept DEF ModeOK, InKernel
<1> QED
  BY <1>5, <1>6, <1>7, <1>8, <1>9, <1>10, <1>11 DEF SwitchGoal

(* A reschedule with a runnable task: the next one of the round robin runs *)
(* on, from the top of its stack.                                          *)
LEMMA SwitchToTask ==
    ASSUME IndInv, NEW st, NEW act, NEW resched, NEW d,
           SwitchEntered(st, act, resched, d), Switch(st, act, resched, d),
           scheduling_enabled, resched, act # 0
    PROVE  SwitchGoal' /\ cpu' # Kernel
<1> DEFINE n == NextSlot(st)
<1>1. /\ task_count \in 1 .. MaxTasks /\ current_task \in -1 .. task_count - 1
      /\ cpu \in Contexts /\ d \in 1 .. 3 /\ act \in Nat /\ act > 0
  BY RunningContext, RunnableFinite, SizesAssumption DEF IndInv, TypeOK, SwitchEntered
<1>2. \A s \in Slots : st[s] = "RUNNABLE" => state[s] = "RUNNABLE" /\ s \in 0 .. task_count - 1
  BY RunningContext, SizesAssumption DEF SwitchEntered, IndInv, TypeOK, TableOK, InUse, Slots
<1>3. n \in Slots /\ n >= 0 /\ st[n] = "RUNNABLE"
  <2>1. RunnableIn(st) # {}
    BY <1>1, RunnableFinite DEF SwitchEntered
  <2>2. PICK s \in Slots : st[s] = "RUNNABLE"
    BY <2>1 DEF RunnableIn
  <2>3. NextSlot(st) \in 0 .. task_count - 1 /\ st[NextSlot(st)] = "RUNNABLE"
    BY <2>2, <1>1, <1>2, NextSlotRunnable
  <2> QED BY <2>3, <1>1, SizesAssumption DEF Slots
<1> HIDE DEF n
<1>4. /\ Runnable(n) /\ pid[n] \in Pids /\ pid[n] \in Contexts /\ pid[n] # Kernel
      /\ depth[pid[n]] \in 0 .. 3
  BY <1>2, <1>3 DEF Runnable, IndInv, TypeOK, TableOK, InUse, Pids, Contexts, Kernel
<1>5. \A s \in Slots : Runnable(s) /\ s # current_task
        => pid[s] \in Contexts /\ pid[s] # cpu /\ pid[s] # Kernel
  BY RunningContext DEF IndInv, TypeOK, TableOK, Runnable, InUse, Kernel
<1>6. \A s \in Slots : Runnable(s) /\ s # n => pid[s] # pid[n]
  BY <1>3, <1>4 DEF IndInv, TableOK, Runnable, InUse
<1>7. n = current_task => /\ pid[n] = cpu /\ st = state
                          /\ d = 1 + IF pc'[cpu] \in {"sys_read", "sys_read_ret"} THEN 1 ELSE 0
  BY <1>3, RunningContext DEF SwitchEntered
<1> DEFINE fd == IF n = current_task THEN d ELSE depth[pid[n]]
<1>8. TaskEspSaved(d)[n] = <<pid[n], fd>>
  <2>1. CASE n = current_task
    BY <2>1, <1>3, <1>7 DEF TaskEspSaved, Frame, IndInv, TypeOK
  <2>2. CASE n # current_task
    BY <2>2, <1>3, <1>4 DEF TaskEspSaved, Frame, IndInv, TypeOK, SavedFramesOnTop
  <2> QED BY <2>1, <2>2
<1>9. fd \in 1 .. 3 /\ (n # current_task => fd = Base(pid[n]) + 1)
  BY <1>1, <1>3, <1>4 DEF IndInv, DepthOK, Base
<1> HIDE DEF fd
<1>10. /\ irq_esp' = TaskEspSaved(d) /\ kernel_esp' = KernelEspSaved(d)
       /\ need_resched' = FALSE /\ current_task' = n
       /\ scheduling_enabled' = TRUE
       /\ cpu' = pid[n]
       /\ depth' = [depth EXCEPT ![cpu] = d, ![pid[n]] = fd - 1]
  <2>1. ~SwitchReturns /\ Chosen(st, act) = n
    BY <1>1 DEF SwitchReturns, Chosen, n
  <2>2. /\ irq_esp' = TaskEspSaved(d) /\ kernel_esp' = KernelEspSaved(d)
        /\ need_resched' = FALSE /\ current_task' = n
        /\ scheduling_enabled' = (act > 0)
        /\ Resume(<<pid[n], fd>>, d)
    BY <2>1, <1>3, <1>8 DEF Switch
  <2>3. (act > 0) = TRUE
    BY <1>1
  <2>4. scheduling_enabled' = TRUE
    BY <2>2, <2>3, Zenon
  <2> QED BY <2>2, <2>4 DEF Resume
<1>11. SwitchTyped'
  <2>1. <<cpu, d>> \in Frames
    BY <1>1, FrameTyped
  <2>2. irq_esp' \in [Slots -> Frames] /\ kernel_esp' \in Frames
    BY <1>10, <2>1 DEF IndInv, TypeOK, TaskEspSaved, KernelEspSaved, Frame
  <2>3. depth' \in [Contexts -> 0 .. 3]
    BY <1>1, <1>4, <1>9, <1>10 DEF IndInv, TypeOK
  <2>4. current_task' \in -1 .. MaxTasks - 1 /\ cpu' \in Contexts
    BY <1>3, <1>4, <1>10, SizesAssumption DEF Slots
  <2>5. scheduling_enabled' \in BOOLEAN /\ need_resched' \in BOOLEAN
    BY <1>10
  <2> QED
    BY <2>2, <2>3, <2>4, <2>5 DEF SwitchTyped
<1>12. TableOK'
  BY <1>1, <1>2, RunningContext DEF TableOK, InUse, SwitchEntered, IndInv
<1>13. CurrentRuns'
  BY <1>3, <1>10 DEF CurrentRuns, Runnable, SwitchEntered
(* The stacks that neither lose nor gain a frame.                          *)
<1>14. ASSUME NEW s \in Slots, Runnable(s), s # current_task, s # n
       PROVE  depth'[pid[s]] = depth[pid[s]] /\ Base(pid[s])' = Base(pid[s])
  BY <1>5, <1>6, <1>10, <1>14 DEF IndInv, TypeOK, SwitchEntered, Base
<1>15. ASSUME current_task # -1, current_task # n
       PROVE  depth'[cpu] = d
  BY <1>1, <1>6, <1>10, <1>15, RunningContext DEF IndInv, TypeOK, Runnable
<1>16. depth'[pid[n]] = fd - 1
  BY <1>4, <1>10 DEF IndInv, TypeOK
<1>17. /\ cpu # Kernel => depth'[Kernel] = depth[Kernel] /\ kernel_esp' = kernel_esp
       /\ cpu = Kernel => depth'[Kernel] = d /\ kernel_esp' = <<Kernel, d>>
  <2>1. Kernel \in Contexts
    BY DEF Contexts
  <2>2. cpu = Kernel <=> ~(current_task >= 0)
    BY <1>1, RunningContext
  <2> QED
    BY <2>1, <2>2, <1>4, <1>10 DEF KernelEspSaved, Frame, IndInv, TypeOK
<1>18. SavedFramesOnTop'
  <2>1. ASSUME NEW s \in Slots, st[s] = "RUNNABLE", s # n
        PROVE  irq_esp'[s] = <<pid[s], depth'[pid[s]]>>
    <3>1. CASE s = current_task
      BY <3>1, <2>1, <1>10, <1>15, RunningContext
         DEF TaskEspSaved, Frame, IndInv, TypeOK, Slots
    <3>2. CASE s # current_task
      <4>1. Runnable(s)
        BY <2>1, <1>2 DEF Runnable
      <4>2. irq_esp'[s] = irq_esp[s]
        BY <3>2, <1>10 DEF TaskEspSaved, IndInv, TypeOK
      <4> QED BY <4>1, <4>2, <3>2, <2>1, <1>14 DEF IndInv, SavedFramesOnTop, Frame
    <3> QED BY <3>1, <3>2
  <2>2. kernel_esp' = <<Kernel, depth'[Kernel]>>
    BY <1>17 DEF IndInv, SavedFramesOnTop, Frame
  <2> QED
    BY <2>1, <2>2, <1>10 DEF SavedFramesOnTop, Runnable, SwitchEntered, Frame
<1>19. DepthOK'
  <2>1. ASSUME NEW s \in Slots, st[s] = "RUNNABLE"
        PROVE  depth'[pid[s]] = Base(pid[s])' + (IF s = n THEN 0 ELSE 1)
    <3> pid' = pid
      BY DEF SwitchEntered
    <3>1. CASE s = n /\ n = current_task
      BY <3>1, <1>1, <1>7, <1>16 DEF Base, fd
    <3>2. CASE s = n /\ n # current_task
      <4>1. pid[s] \in Contexts /\ pid[s] # cpu
        BY <3>2, <1>4, <1>5
      <4>2. Base(pid[s])' = Base(pid[s]) /\ Base(pid[s]) \in {0, 1}
        BY <4>1 DEF Base, SwitchEntered
      <4> QED BY <3>2, <4>2, <1>9, <1>16
    <3>3. CASE s # n /\ s = current_task
      <4>1. d = 1 + IF pc'[cpu] \in {"sys_read", "sys_read_ret"} THEN 1 ELSE 0
        BY <3>3, <2>1 DEF SwitchEntered
      <4>2. pid[s] = cpu /\ depth'[cpu] = d
        BY <3>3, <1>15, RunningContext DEF Slots
      <4> QED BY <3>3, <4>1, <4>2, <1>1 DEF Base
    <3>4. CASE s # n /\ s # current_task
      <4>1. Runnable(s)
        BY <2>1, <1>2 DEF Runnable
      <4> QED BY <3>4, <4>1, <1>14 DEF IndInv, DepthOK
    <3> QED BY <3>1, <3>2, <3>3, <3>4
  <2>2. depth'[Kernel] = 1
    <3>1. CASE cpu = Kernel
      <4>1. d = 1
        BY <3>1, RunningContext DEF SwitchEntered, KernelPlaces, IndInv
      <4> QED BY <4>1, <3>1, <1>17
    <3>2. CASE cpu # Kernel
      BY <3>2, <1>17 DEF IndInv, DepthOK
    <3> QED BY <3>1, <3>2
  <2> QED
    BY <2>1, <2>2, <1>4, <1>10 DEF DepthOK, Runnable, SwitchEntered
<1>20. ModeOK'
  <2>1. active_tasks' > 0
    BY <1>1 DEF SwitchEntered
  <2> QED BY <2>1, <1>4, <1>10, PlacesKept DEF ModeOK, InKernel
<1>21. OpenReturnNeverSwitches'
  BY <1>10 DEF OpenReturnNeverSwitches
<1> QED
  BY <1>4, <1>10, <1>11, <1>12, <1>13, <1>18, <1>19, <1>20, <1>21 DEF SwitchGoal

(* One pass through the tail of common_stub, whatever the interrupt.       *)
LEMMA SwitchStep ==
    ASSUME IndInv, NEW st, NEW act, NEW resched, NEW d,
           SwitchEntered(st, act, resched, d), Switch(st, act, resched, d)
    PROVE  /\ SwitchGoal'
           /\ cpu # Kernel /\ cpu' = Kernel
                => ~scheduling_enabled' /\ \A s \in Slots : ~Runnable(s)'
<1>1. CASE ~scheduling_enabled
  <2>1. cpu = Kernel
    BY <1>1, RunningContext DEF IndInv, ModeOK
  <2> QED BY <1>1, <2>1, SwitchOff
<1>2. CASE scheduling_enabled /\ ~resched
  <2>1. cpu' = cpu
    BY <1>2, RunningContext DEF Switch, SwitchReturns, NoSwitch, Resume, Frame, IndInv, TypeOK
  <2> QED BY <1>2, <2>1, SwitchStays
<1>3. CASE scheduling_enabled /\ resched /\ act = 0
  BY <1>3, SwitchToKernel DEF SwitchEntered, Runnable
<1>4. CASE scheduling_enabled /\ resched /\ act # 0
  BY <1>4, SwitchToTask
<1> QED BY <1>1, <1>2, <1>3, <1>4

------------------------------------------------------------------------------
(* The running context has on its stack what its own code put there.       *)
LEMMA RunningDepth ==
    ASSUME IndInv
    PROVE  /\ cpu \in Contexts
           /\ depth[cpu] = IF pc[cpu] \in {"sys_read", "sys_read_ret"} THEN 1 ELSE 0
           /\ pc[cpu] \in IF cpu = Kernel THEN KernelPlaces ELSE TaskPlaces
           /\ cpu = Kernel <=> current_task = -1
<1>1. cpu \in Contexts /\ (cpu = Kernel <=> current_task = -1)
  BY RunningContext DEF IndInv, TypeOK
<1>2. pc[cpu] \in IF cpu = Kernel THEN KernelPlaces ELSE TaskPlaces
  BY <1>1 DEF IndInv, ModeOK, Contexts
<1>3. CASE cpu = Kernel
  BY <1>1, <1>2, <1>3 DEF IndInv, DepthOK, KernelPlaces
<1>4. CASE cpu # Kernel
  BY <1>1, <1>2, <1>4, RunningContext DEF IndInv, DepthOK, Base, Runnable
<1> QED BY <1>1, <1>2, <1>3, <1>4

(* A handler that leaves the task table alone, and where the stub finds    *)
(* the frame just above what the interrupted code will have on its stack.  *)
LEMMA EnteredUnchanged ==
    ASSUME IndInv, UNCHANGED <<tableVars, active_tasks>>,
           NEW resched \in BOOLEAN, NEW d \in 1 .. 3,
           pc' \in [Contexts -> Places],
           \A c \in Contexts : c # cpu => pc'[c] = pc[c],
           pc'[cpu] \in IF cpu = Kernel THEN KernelPlaces ELSE TaskPlaces,
           d = 1 + IF pc'[cpu] \in {"sys_read", "sys_read_ret"} THEN 1 ELSE 0,
           cpu = Kernel /\ scheduling_enabled /\ pc'[Kernel] \in {"run", "int20"}
             => resched
    PROVE  SwitchEntered(state, active_tasks, resched, d)
<1>1. state \in [Slots -> States] /\ active_tasks = Cardinality(RunnableIn(state))
  BY DEF IndInv, TypeOK, States, ActiveCountExact, RunnableIn, Runnable
<1> QED BY <1>1 DEF SwitchEntered, tableVars

(* The invariant after a pass through the switch, given that the handler   *)
(* kept the types of what the switch does not assign.                      *)
LEMMA InvAfterSwitch ==
    ASSUME IndInv, NEW st, NEW act, NEW resched, NEW d,
           SwitchEntered(st, act, resched, d), Switch(st, act, resched, d),
           exit_code' \in [Slots -> Codes \cup {0}],
           stack_base' \in [Slots -> Stacks \cup {NoStack}],
           ticks' \in 0 .. TickMod - 1,
           allocated' \subseteq Stacks,
           exited' \in [Pids -> Codes \cup {NoCode}],
           reaped' \in [Pids -> Codes \cup {0, NoCode}]
    PROVE  IndInv'
<1>1. SwitchGoal'
  BY SwitchStep
<1>2. /\ state' = st /\ active_tasks' = act
      /\ act = Cardinality(RunnableIn(st)) /\ act \in 0 .. MaxTasks
      /\ st \in [Slots -> States]
      /\ pid' = pid /\ task_count' = task_count /\ next_pid' = next_pid
      /\ pc' \in [Contexts -> Places]
  BY RunnableFinite DEF SwitchEntered
<1>3. TypeOK'
  BY <1>1, <1>2 DEF TypeOK, SwitchGoal, SwitchTyped, IndInv, States, Places
<1>4. ActiveCountExact'
  BY <1>2 DEF ActiveCountExact, RunnableIn, Runnable
<1> QED BY <1>1, <1>3, <1>4 DEF IndInv, SwitchGoal

(* The tick counter stays in its width, and the request is a flag.         *)
LEMMA TickTyped ==
    ASSUME IndInv
    PROVE  /\ TicksNext \in 0 .. TickMod - 1
           /\ ReschedAfterTick \in BOOLEAN
           /\ need_resched => ReschedAfterTick
<1>1. TicksNext \in 0 .. TickMod - 1
  <2>1. ticks \in 0 .. TickMod - 1 /\ TickMod \in Nat \ {0}
    BY SizesAssumption DEF IndInv, TypeOK
  <2>2. (ticks + 1) % TickMod \in 0 .. TickMod - 1
    BY <2>1
  <2> QED BY <2>1, <2>2 DEF TicksNext
<1>2. ReschedAfterTick \in BOOLEAN
  BY Zenon DEF ReschedAfterTick
<1>3. need_resched => ReschedAfterTick
  BY Zenon DEF ReschedAfterTick
<1> QED BY <1>1, <1>2, <1>3

LEMMA TimerIRQEnters ==
    ASSUME IndInv, TimerIRQ
    PROVE  /\ SwitchEntered(state, active_tasks, ReschedAfterTick, Pushed)
           /\ Switch(state, active_tasks, ReschedAfterTick, Pushed)
<1>1. /\ ReschedAfterTick \in BOOLEAN /\ Pushed \in 1 .. 3
      /\ Pushed = 1 + IF pc[cpu] \in {"sys_read", "sys_read_ret"} THEN 1 ELSE 0
  BY TickTyped, RunningDepth DEF Pushed
<1>2. cpu = Kernel /\ scheduling_enabled /\ pc[Kernel] \in {"run", "int20"}
        => ReschedAfterTick
  BY TickTyped DEF IndInv, ModeOK, InKernel
<1>3. pc \in [Contexts -> Places] /\ pc' = pc /\ UNCHANGED <<tableVars, active_tasks, ghostVars>>
  BY DEF TimerIRQ, IndInv, TypeOK, Places
<1>4. SwitchEntered(state, active_tasks, ReschedAfterTick, Pushed)
  BY <1>1, <1>2, <1>3, RunningDepth, EnteredUnchanged
<1>5. Switch(state, active_tasks, ReschedAfterTick, Pushed)
  BY DEF TimerIRQ
<1> QED BY <1>4, <1>5

LEMMA TimerIRQKeeps ==
    ASSUME IndInv, TimerIRQ
    PROVE  IndInv'
<1>1. ticks' \in 0 .. TickMod - 1
  BY TickTyped DEF TimerIRQ
<1>2. UNCHANGED <<tableVars, ghostVars>>
  BY DEF TimerIRQ
<1> QED
  BY <1>1, <1>2, TimerIRQEnters, InvAfterSwitch DEF tableVars, ghostVars, IndInv, TypeOK

LEMMA OtherInterruptEnters ==
    ASSUME IndInv, OtherInterrupt
    PROVE  /\ SwitchEntered(state, active_tasks, need_resched, Pushed)
           /\ Switch(state, active_tasks, need_resched, Pushed)
<1>1. /\ need_resched \in BOOLEAN /\ Pushed \in 1 .. 3
      /\ Pushed = 1 + IF pc[cpu] \in {"sys_read", "sys_read_ret"} THEN 1 ELSE 0
  BY RunningDepth DEF Pushed, IndInv, TypeOK
<1>2. cpu = Kernel /\ scheduling_enabled /\ pc[Kernel] \in {"run", "int20"}
        => need_resched
  BY DEF IndInv, ModeOK, InKernel
<1>3. pc \in [Contexts -> Places] /\ pc' = pc /\ UNCHANGED <<tableVars, active_tasks, ghostVars>>
  BY DEF OtherInterrupt, IndInv, TypeOK, Places
<1>4. SwitchEntered(state, active_tasks, need_resched, Pushed)
  BY <1>1, <1>2, <1>3, RunningDepth, EnteredUnchanged
<1>5. Switch(state, active_tasks, need_resched, Pushed)
  BY DEF OtherInterrupt
<1> QED BY <1>4, <1>5

LEMMA OtherInterruptKeeps ==
    ASSUME IndInv, OtherInterrupt
    PROVE  IndInv'
<1>1. ticks' = ticks
  BY DEF OtherInterrupt
<1>2. UNCHANGED <<tableVars, ghostVars>>
  BY DEF OtherInterrupt
<1> QED
  BY <1>1, <1>2, OtherInterruptEnters, InvAfterSwitch DEF tableVars, ghostVars, IndInv, TypeOK

LEMMA SoftwareIntEnters ==
    ASSUME IndInv, SoftwareInt
    PROVE  /\ SwitchEntered(state, active_tasks, ReschedAfterTick, Pushed)
           /\ Switch(state, active_tasks, ReschedAfterTick, Pushed)
<1>1. /\ ReschedAfterTick \in BOOLEAN /\ Pushed \in 1 .. 3 /\ Pushed = 1
      /\ pc[cpu] = "int20" /\ cpu \in Contexts
  BY TickTyped, RunningDepth DEF Pushed, SoftwareInt
<1>2. /\ pc' \in [Contexts -> Places] /\ pc'[cpu] = "run"
      /\ \A c \in Contexts : c # cpu => pc'[c] = pc[c]
      /\ UNCHANGED <<tableVars, active_tasks, ghostVars>>
  BY <1>1 DEF SoftwareInt, IndInv, TypeOK, Places
<1>3. cpu = Kernel /\ scheduling_enabled => ReschedAfterTick
  BY <1>1, TickTyped DEF IndInv, ModeOK
<1>4. SwitchEntered(state, active_tasks, ReschedAfterTick, Pushed)
  BY <1>1, <1>2, <1>3, EnteredUnchanged DEF KernelPlaces, TaskPlaces
<1>5. Switch(state, active_tasks, ReschedAfterTick, Pushed)
  BY DEF SoftwareInt
<1> QED BY <1>4, <1>5

LEMMA SoftwareIntKeeps ==
    ASSUME IndInv, SoftwareInt
    PROVE  IndInv'
<1>1. ticks' \in 0 .. TickMod - 1
  BY TickTyped DEF SoftwareInt
<1>2. UNCHANGED <<tableVars, ghostVars>>
  BY DEF SoftwareInt
<1> QED
  BY <1>1, <1>2, SoftwareIntEnters, InvAfterSwitch DEF tableVars, ghostVars, IndInv, TypeOK

LEMMA SysReadReturnEnters ==
    ASSUME IndInv, SysReadReturn
    PROVE  /\ SwitchEntered(state, active_tasks, need_resched, depth[cpu])
           /\ Switch(state, active_tasks, need_resched, depth[cpu])
<1>1. /\ need_resched \in BOOLEAN /\ depth[cpu] \in 1 .. 3 /\ depth[cpu] = 1
      /\ pc[cpu] = "sys_read_ret" /\ cpu \in Contexts /\ cpu # Kernel
  BY RunningDepth DEF SysReadReturn, IndInv, TypeOK
<1>2. /\ pc' \in [Contexts -> Places] /\ pc'[cpu] = "run"
      /\ \A c \in Contexts : c # cpu => pc'[c] = pc[c]
      /\ UNCHANGED <<tableVars, active_tasks, ghostVars>>
  BY <1>1 DEF SysReadReturn, IndInv, TypeOK, Places
<1>3. SwitchEntered(state, active_tasks, need_resched, depth[cpu])
  BY <1>1, <1>2, EnteredUnchanged DEF TaskPlaces
<1>4. Switch(state, active_tasks, need_resched, depth[cpu])
  BY DEF SysReadReturn
<1> QED BY <1>3, <1>4

LEMMA SysReadReturnKeeps ==
    ASSUME IndInv, SysReadReturn
    PROVE  IndInv'
<1>1. ticks' = ticks
  BY DEF SysReadReturn
<1>2. UNCHANGED <<tableVars, ghostVars>>
  BY DEF SysReadReturn
<1> QED
  BY <1>1, <1>2, SysReadReturnEnters, InvAfterSwitch DEF tableVars, ghostVars, IndInv, TypeOK

(* The exit takes one slot off the runnable ones.                          *)
LEMMA SysExitEnters ==
    ASSUME IndInv, NEW code \in Codes, SysExit(code)
    PROVE  LET st == [state EXCEPT ![current_task] = "ZOMBIE"] IN
           /\ current_task \in Slots /\ Runnable(current_task)
           /\ cpu \in Pids /\ cpu = pid[current_task]
           /\ SwitchEntered(st, ActiveAfterExit, TRUE, depth[cpu] + 2)
           /\ Switch(st, ActiveAfterExit, TRUE, depth[cpu] + 2)
<1> DEFINE st == [state EXCEPT ![current_task] = "ZOMBIE"]
<1>1. /\ current_task # -1 /\ current_task \in Slots /\ state[current_task] = "RUNNABLE"
      /\ depth[cpu] + 2 \in 1 .. 3 /\ pc[cpu] = "run" /\ cpu \in Contexts
      /\ cpu \in Pids /\ cpu = pid[current_task]
      /\ cpu # Kernel
  BY RunningDepth, RunningContext DEF SysExit, InTask, Runnable
<1>2. st \in [Slots -> States] /\ st[current_task] = "ZOMBIE"
  BY <1>1 DEF States, IndInv, TypeOK
<1>3. \A s \in Slots : s # current_task => st[s] = state[s]
  BY <1>1 DEF IndInv, TypeOK
<1>4. RunnableIn(st) = RunnableIn(state) \ {current_task} /\ current_task \in RunnableIn(state)
  BY <1>1, <1>2, <1>3 DEF RunnableIn
<1>5. active_tasks = Cardinality(RunnableIn(state))
  BY DEF IndInv, ActiveCountExact, RunnableIn, Runnable
<1>6. Cardinality(RunnableIn(st)) = active_tasks - 1
  BY <1>4, <1>5, RunnableFinite, FS_RemoveElement
<1>7. ActiveAfterExit = Cardinality(RunnableIn(st))
  <2>1. active_tasks > 0
    BY DEF SysExit, IndInv, ModeOK
  <2> QED BY <1>6, <2>1 DEF ActiveAfterExit
<1>8. /\ state' = st /\ active_tasks' = ActiveAfterExit
      /\ pid' = pid /\ task_count' = task_count /\ next_pid' = next_pid /\ pc' = pc
      /\ scheduling_enabled
  BY DEF SysExit
<1>9. pc \in [Contexts -> Places] /\ pc[cpu] \in TaskPlaces
  BY <1>1 DEF IndInv, TypeOK, Places, TaskPlaces
<1> HIDE DEF st
<1>10. SwitchEntered(st, ActiveAfterExit, TRUE, depth[cpu] + 2)
  BY <1>1, <1>2, <1>3, <1>7, <1>8, <1>9 DEF SwitchEntered
<1>11. Switch(st, ActiveAfterExit, TRUE, depth[cpu] + 2)
  BY DEF SysExit, st
<1> QED BY <1>1, <1>10, <1>11 DEF st, Runnable

LEMMA SysExitKeeps ==
    ASSUME IndInv, NEW code \in Codes, SysExit(code)
    PROVE  IndInv'
<1> DEFINE st == [state EXCEPT ![current_task] = "ZOMBIE"]
<1>1. SwitchEntered(st, ActiveAfterExit, TRUE, depth[cpu] + 2)
      /\ Switch(st, ActiveAfterExit, TRUE, depth[cpu] + 2)
  BY SysExitEnters
<1> HIDE DEF st
<1>2. exit_code' \in [Slots -> Codes \cup {0}] /\ exited' \in [Pids -> Codes \cup {NoCode}]
  BY DEF SysExit, IndInv, TypeOK
<1>3. ticks' \in 0 .. TickMod - 1
  BY TickTyped DEF SysExit
<1>4. stack_base' = stack_base /\ allocated' = allocated /\ reaped' = reaped
  BY DEF SysExit
<1>5. /\ stack_base' \in [Slots -> Stacks \cup {NoStack}] /\ allocated' \subseteq Stacks
      /\ reaped' \in [Pids -> Codes \cup {0, NoCode}]
  BY <1>4 DEF IndInv, TypeOK
<1> QED BY <1>1, <1>2, <1>3, <1>5, InvAfterSwitch

------------------------------------------------------------------------------
(* Steps that do not pass through the switch.                              *)

(* While the kernel context runs its own code no task is current.          *)
LEMMA KernelRunning ==
    ASSUME IndInv, cpu = Kernel
    PROVE  /\ current_task = -1 /\ depth[Kernel] = 0 /\ Kernel \in Contexts
           /\ InKernel => ~scheduling_enabled
           /\ \A s \in Slots : Runnable(s) => pid[s] # Kernel /\ pid[s] \in Contexts
<1>1. current_task = -1 /\ depth[Kernel] = 0 /\ Kernel \in Contexts
  BY RunningDepth DEF IndInv, DepthOK, Contexts
<1>2. InKernel => ~scheduling_enabled
  BY DEF IndInv, ModeOK
<1>3. \A s \in Slots : Runnable(s) => pid[s] # Kernel /\ pid[s] \in Contexts
  BY DEF IndInv, TypeOK, TableOK, Runnable, InUse, Kernel
<1> QED BY <1>1, <1>2, <1>3

(* The stores of scheduler_start.                                          *)
LEMMA StartKeeps ==
    ASSUME IndInv, StartEnable \/ StartCurrent \/ StartResched
    PROVE  IndInv'
<1>1. /\ cpu = Kernel /\ cpu' = cpu /\ current_task = -1 /\ current_task' = -1
      /\ UNCHANGED <<tableVars, irq_esp, kernel_esp, depth, active_tasks, ticks, ghostVars>>
  BY KernelRunning DEF StartEnable, StartCurrent, StartResched, InKernel
<1>2. /\ pc' \in [Contexts -> Places]
      /\ pc'[Kernel] \in {"start_current", "start_resched", "int20"}
      /\ \A c \in Contexts : c # Kernel => pc'[c] = pc[c]
  BY <1>1, KernelRunning
     DEF StartEnable, StartCurrent, StartResched, IndInv, TypeOK, Places
<1>3. /\ scheduling_enabled' \in BOOLEAN /\ need_resched' \in BOOLEAN
      /\ scheduling_enabled' => active_tasks > 0
      /\ pc'[Kernel] = "int20" => need_resched'
  <2>1. CASE StartEnable
    <3>1. scheduling_enabled' = TRUE /\ need_resched' = need_resched /\ active_tasks # 0
          /\ pc'[Kernel] = "start_current"
      BY <2>1, KernelRunning DEF StartEnable, InKernel, IndInv, TypeOK
    <3> QED BY <3>1 DEF IndInv, TypeOK
  <2>2. CASE StartCurrent
    <3>1. /\ scheduling_enabled' = scheduling_enabled /\ need_resched' = need_resched
          /\ pc'[Kernel] = "start_resched"
      BY <2>2, KernelRunning DEF StartCurrent, IndInv, TypeOK
    <3> QED BY <3>1 DEF IndInv, TypeOK, ModeOK
  <2>3. CASE StartResched
    <3>1. scheduling_enabled' = scheduling_enabled /\ need_resched' = TRUE
      BY <2>3 DEF StartResched
    <3> QED BY <3>1 DEF IndInv, TypeOK, ModeOK
  <2> QED BY <2>1, <2>2, <2>3
<1>4. TypeOK'
  BY <1>1, <1>2, <1>3 DEF IndInv, TypeOK, tableVars, ghostVars, Places
<1>5. TableOK' /\ CurrentRuns' /\ ActiveCountExact' /\ OpenReturnNeverSwitches'
  BY <1>1 DEF IndInv, TableOK, CurrentRuns, ActiveCountExact, OpenReturnNeverSwitches,
              InUse, Runnable, tableVars
<1>6. SavedFramesOnTop'
  BY <1>1 DEF IndInv, SavedFramesOnTop, Runnable, tableVars
<1>7. DepthOK'
  BY <1>1, <1>2, KernelRunning DEF IndInv, DepthOK, Runnable, Base, tableVars
<1>8. ModeOK'
  <2>1. \A p \in Pids : pc'[p] = pc[p]
    BY <1>2 DEF Pids, Contexts, Kernel
  <2> QED
    BY <2>1, <1>1, <1>2, <1>3 DEF IndInv, ModeOK, KernelPlaces, InKernel, tableVars
<1> QED BY <1>4, <1>5, <1>6, <1>7, <1>8 DEF IndInv

(* Minimum of a set of slots.                                              *)
LEMMA MinSlot ==
    ASSUME NEW S, S \subseteq Slots, S # {}
    PROVE  Min(S) \in S
<1>1. S \subseteq Nat
  BY DEF Slots
<1> QED BY <1>1, MinIsMember

LEMMA WaitKeeps ==
    ASSUME IndInv, NEW p \in Pids, Wait(p)
    PROVE  IndInv'
<1> DEFINE i == Min(ZombieSlots(p))
<1>1. /\ cpu = Kernel /\ current_task = -1
      /\ \A s \in Slots : Runnable(s) => pid[s] # Kernel /\ pid[s] \in Contexts
  BY KernelRunning DEF Wait, InKernel
<1>2. i \in Slots /\ state[i] = "ZOMBIE"
  <2>1. ZombieSlots(p) \subseteq Slots
    BY SizesAssumption DEF ZombieSlots, Slots, IndInv, TypeOK
  <2>2. i \in ZombieSlots(p)
    BY <2>1, MinSlot DEF Wait
  <2> QED BY <2>1, <2>2 DEF ZombieSlots
<1>3. /\ state' = [state EXCEPT ![i] = "UNUSED"]
      /\ stack_base' = [stack_base EXCEPT ![i] = NoStack]
      /\ reaped' = [reaped EXCEPT ![p] = exit_code[i]]
      /\ allocated' = allocated \ {stack_base[i]}
      /\ UNCHANGED <<pid, exit_code, task_count, next_pid, switchVars,
                     active_tasks, ticks, pc, exited>>
  BY DEF Wait
<1> HIDE DEF i
<1>4. \A s \in Slots : Runnable(s)' <=> Runnable(s)
  BY <1>2, <1>3 DEF Runnable, IndInv, TypeOK
<1>5. \A s \in Slots : InUse(s)' => InUse(s)
  BY <1>2, <1>3 DEF InUse, IndInv, TypeOK
<1>6. TypeOK'
  <2>1. exit_code[i] \in Codes \cup {0}
    BY <1>2 DEF IndInv, TypeOK
  <2>2. reaped' \in [Pids -> Codes \cup {0, NoCode}]
    BY <1>3, <2>1 DEF IndInv, TypeOK
  <2>3. /\ state' \in [Slots -> States] /\ stack_base' \in [Slots -> Stacks \cup {NoStack}]
        /\ allocated' \subseteq Stacks
    BY <1>3 DEF IndInv, TypeOK, States
  <2> QED BY <2>2, <2>3, <1>3 DEF IndInv, TypeOK, switchVars, States
<1>7. TableOK'
  BY <1>3, <1>5 DEF IndInv, TableOK
<1>8. CurrentRuns'
  BY <1>1, <1>3 DEF CurrentRuns, switchVars
<1>9. SavedFramesOnTop'
  BY <1>1, <1>3, <1>4 DEF IndInv, SavedFramesOnTop, switchVars
<1>10. ActiveCountExact'
  <2>1. {s \in Slots : Runnable(s)'} = {s \in Slots : Runnable(s)}
    BY <1>4
  <2> QED BY <2>1, <1>3 DEF IndInv, ActiveCountExact
<1>11. DepthOK'
  BY <1>1, <1>3, <1>4 DEF IndInv, DepthOK, Base, switchVars
<1>12. ModeOK'
  BY <1>3 DEF IndInv, ModeOK, InKernel, switchVars
<1>13. OpenReturnNeverSwitches'
  BY <1>1, <1>3 DEF OpenReturnNeverSwitches, switchVars
<1> QED
  BY <1>6, <1>7, <1>8, <1>9, <1>10, <1>11, <1>12, <1>13 DEF IndInv

(* The slot scheduler_add takes.                                           *)
LEMMA FirstUnusedFree ==
    ASSUME \E s \in Slots : state[s] = "UNUSED"
    PROVE  FirstUnused \in Slots /\ state[FirstUnused] = "UNUSED"
<1> DEFINE S == {s \in Slots : state[s] = "UNUSED"}
<1>1. S # {} /\ S \subseteq Slots
  OBVIOUS
<1>2. Min(S) \in S
  BY <1>1, MinSlot
<1>3. FirstUnused = Min(S)
  BY DEF FirstUnused
<1> HIDE DEF S
<1>4. FirstUnused \in S
  BY <1>2, <1>3
<1> QED BY <1>4 DEF S

LEMMA AddKeeps ==
    ASSUME IndInv, Add
    PROVE  IndInv'
<1>1. /\ cpu = Kernel /\ current_task = -1 /\ ~scheduling_enabled
      /\ \A s \in Slots : Runnable(s) => pid[s] # Kernel /\ pid[s] \in Contexts
      /\ depth[Kernel] = 0 /\ Kernel \in Contexts
  BY KernelRunning DEF Add, InKernel
<1>2. CASE UNCHANGED vars
  BY <1>2 DEF vars, tableVars, switchVars, ghostVars, IndInv, TypeOK, TableOK, CurrentRuns,
              SavedFramesOnTop, ActiveCountExact, DepthOK, ModeOK, OpenReturnNeverSwitches,
              InUse, Runnable, Base, InKernel
<1>3. CASE ~UNCHANGED vars
  <2>1. PICK base \in Stacks :
          /\ allocated' = allocated \cup {base}
          /\ irq_esp' = [irq_esp EXCEPT ![FirstUnused] = Frame(next_pid, 1)]
          /\ depth' = [depth EXCEPT ![next_pid] = 1]
          /\ stack_base' = [stack_base EXCEPT ![FirstUnused] = base]
          /\ pid' = [pid EXCEPT ![FirstUnused] = next_pid]
          /\ next_pid' = next_pid + 1
          /\ exit_code' = [exit_code EXCEPT ![FirstUnused] = 0]
          /\ state' = [state EXCEPT ![FirstUnused] = "RUNNABLE"]
          /\ active_tasks' = active_tasks + 1
          /\ task_count' = IF FirstUnused >= task_count THEN FirstUnused + 1 ELSE task_count
          /\ UNCHANGED <<current_task, scheduling_enabled, need_resched,
                         kernel_esp, ticks, cpu, pc, exited, reaped>>
    BY <1>3 DEF Add
  <2> DEFINE f == FirstUnused
  <2>2. f \in Slots /\ state[f] = "UNUSED"
    BY FirstUnusedFree DEF Add
  <2> HIDE DEF f
  <2>3. next_pid \in Pids /\ next_pid \in Contexts /\ next_pid # Kernel
    BY SizesAssumption DEF Add, IndInv, TypeOK, Pids, Contexts, Kernel
  <2>4. /\ state'[f] = "RUNNABLE" /\ pid'[f] = next_pid /\ irq_esp'[f] = <<next_pid, 1>>
        /\ depth'[next_pid] = 1
    BY <2>1, <2>2, <2>3 DEF f, IndInv, TypeOK, Frame
  <2>5. \A s \in Slots : s # f => /\ state'[s] = state[s] /\ pid'[s] = pid[s]
                                 /\ irq_esp'[s] = irq_esp[s]
    BY <2>1, <2>2 DEF f, IndInv, TypeOK
  <2>6. \A c \in Contexts : c # next_pid => depth'[c] = depth[c]
    BY <2>1 DEF IndInv, TypeOK
  <2>7. \A s \in Slots : InUse(s) => pid[s] # next_pid /\ pid[s] \in Contexts
    BY DEF IndInv, TableOK, TypeOK
  <2>8. active_tasks' \in 0 .. MaxTasks /\ ActiveCountExact'
    <3>1. RunnableIn(state') = RunnableIn(state) \cup {f} /\ f \notin RunnableIn(state)
      BY <2>2, <2>4, <2>5 DEF RunnableIn
    <3>2. active_tasks = Cardinality(RunnableIn(state))
      BY DEF IndInv, ActiveCountExact, RunnableIn, Runnable
    <3>3. Cardinality(RunnableIn(state')) = active_tasks + 1
      BY <3>1, <3>2, RunnableFinite, FS_AddElement
    <3>4. active_tasks' = Cardinality(RunnableIn(state'))
      BY <3>3, <2>1
    <3>5. Cardinality(RunnableIn(state')) \in 0 .. MaxTasks
      BY RunnableFinite
    <3> QED BY <3>4, <3>5 DEF ActiveCountExact, RunnableIn, Runnable
  <2>9. TypeOK'
    <3>1. <<next_pid, 1>> \in Frames
      <4>1. 1 \in 1 .. 3
        OBVIOUS
      <4> QED BY <2>3, <4>1, FrameTyped, Zenon
    <3>2. /\ irq_esp' \in [Slots -> Frames] /\ depth' \in [Contexts -> 0 .. 3]
          /\ stack_base' \in [Slots -> Stacks \cup {NoStack}]
          /\ pid' \in [Slots -> Contexts]
          /\ exit_code' \in [Slots -> Codes \cup {0}]
          /\ state' \in [Slots -> States]
      <4>1. f \in Slots /\ Frame(next_pid, 1) \in Frames
        BY <2>2, <3>1 DEF Frame
      <4>2. irq_esp' \in [Slots -> Frames]
        BY <2>1, <4>1 DEF IndInv, TypeOK, f
      <4>3. depth' \in [Contexts -> 0 .. 3]
        BY <2>1, <2>3 DEF IndInv, TypeOK
      <4> QED BY <2>1, <2>3, <4>1, <4>2, <4>3 DEF IndInv, TypeOK, States, f
    <3>3. task_count' \in 0 .. MaxTasks
      BY <2>1, <2>2, SizesAssumption DEF f, IndInv, TypeOK, Slots
    <3>4. next_pid' \in 1 .. MaxPid + 1
      BY <2>1, SizesAssumption DEF Add, IndInv, TypeOK
    <3>5. allocated' \subseteq Stacks
      BY <2>1 DEF IndInv, TypeOK
    <3> QED BY <3>2, <3>3, <3>4, <3>5, <2>1, <2>8 DEF IndInv, TypeOK, States
  <2>10. TableOK'
    <3>1. \A s \in Slots : InUse(s)' => s = f \/ InUse(s)
      BY <2>5 DEF InUse
    <3>2. f < task_count' /\ task_count' >= task_count
      BY <2>1, <2>2 DEF f, IndInv, TypeOK, Slots
    <3>3. next_pid \in 1 .. next_pid' - 1 /\ next_pid' - 1 >= next_pid - 1 /\ next_pid \in Nat
      BY <2>1 DEF IndInv, TypeOK
    <3>4. \A s \in Slots : InUse(s)' => s < task_count' /\ pid'[s] \in 1 .. next_pid' - 1
      BY <3>1, <3>2, <3>3, <2>1, <2>2, <2>4, <2>5 DEF IndInv, TypeOK, TableOK, Slots
    <3>5. \A s, t \in Slots : InUse(s)' /\ InUse(t)' /\ s # t => pid'[s] # pid'[t]
      BY <3>1, <2>4, <2>5, <2>7 DEF IndInv, TableOK
    <3> QED BY <3>4, <3>5 DEF TableOK
  <2>11. CurrentRuns' /\ OpenReturnNeverSwitches'
    BY <2>1, <1>1 DEF CurrentRuns, OpenReturnNeverSwitches
  <2>12. \A s \in Slots : s # f /\ Runnable(s)' =>
           /\ Runnable(s) /\ pid'[s] = pid[s] /\ pid[s] \in Contexts
           /\ depth'[pid[s]] = depth[pid[s]]
    BY <2>5, <2>6, <2>7 DEF Runnable, InUse
  <2>13. SavedFramesOnTop'
    BY <2>1, <2>4, <2>5, <2>12, <1>1 DEF SavedFramesOnTop, IndInv, Frame
  <2>14. DepthOK'
    <3>1. pc[next_pid] = "run"
      BY <2>3 DEF IndInv, ModeOK, TypeOK
    <3>2. depth'[Kernel] = 0
      BY <2>3, <2>6, <1>1
    <3>3. ASSUME NEW s \in Slots, Runnable(s)'
          PROVE  depth'[pid'[s]] = Base(pid[s])' + 1
      <4>1. CASE s = f
        BY <4>1, <3>1, <2>1, <2>4 DEF Base
      <4>2. CASE s # f
        BY <4>2, <3>3, <2>1, <2>12, <1>1 DEF Base, IndInv, DepthOK, TypeOK, Slots
      <4> QED BY <4>1, <4>2
    <3>4. \A s \in Slots : s # current_task'
      BY <2>1, <1>1 DEF Slots
    <3> QED BY <3>2, <3>3, <3>4, <2>1, <1>1 DEF DepthOK
  <2>15. ModeOK'
    BY <2>1, <1>1 DEF IndInv, ModeOK, InKernel, TypeOK, Pids
  <2> QED
    BY <2>8, <2>9, <2>10, <2>11, <2>13, <2>14, <2>15 DEF IndInv
<1> QED BY <1>2, <1>3

(* A step of the running task on its own stack: the table, the scheduler   *)
(* and the other contexts stay as they are.                                *)
LEMMA TaskStepKeeps ==
    ASSUME IndInv, cpu # Kernel,
           UNCHANGED <<tableVars, current_task, scheduling_enabled, kernel_esp,
                       cpu, active_tasks, ticks, ghostVars>>,
           irq_esp' \in [Slots -> Frames],
           \A s \in Slots : s # current_task => irq_esp'[s] = irq_esp[s],
           pc' \in [Contexts -> Places], pc'[cpu] \in TaskPlaces,
           \A c \in Contexts : c # cpu => pc'[c] = pc[c],
           depth' \in [Contexts -> 0 .. 3],
           \A c \in Contexts : c # cpu => depth'[c] = depth[c],
           depth'[cpu] = IF pc'[cpu] \in {"sys_read", "sys_read_ret"} THEN 1 ELSE 0,
           need_resched' \in BOOLEAN, need_resched' => pc'[cpu] = "int20"
    PROVE  IndInv'
<1>1. /\ current_task # -1 /\ current_task \in Slots /\ state[current_task] = "RUNNABLE"
      /\ cpu = pid[current_task] /\ cpu \in Pids /\ cpu < next_pid
  BY RunningContext, RunningDepth
<1>2. \A s \in Slots : Runnable(s) /\ s # current_task
        => pid[s] \in Contexts /\ pid[s] # cpu
  BY <1>1 DEF IndInv, TypeOK, TableOK, Runnable, InUse
<1>3. Kernel \in Contexts /\ depth'[Kernel] = depth[Kernel] /\ pc'[Kernel] = pc[Kernel]
  BY DEF Contexts
<1>4. TypeOK'
  BY DEF IndInv, TypeOK, tableVars, ghostVars, Places
<1>5. TableOK' /\ CurrentRuns' /\ ActiveCountExact' /\ OpenReturnNeverSwitches'
  BY DEF IndInv, TableOK, CurrentRuns, ActiveCountExact, OpenReturnNeverSwitches,
         InUse, Runnable, tableVars
<1>6. SavedFramesOnTop'
  BY <1>2, <1>3 DEF IndInv, SavedFramesOnTop, Runnable, Frame, tableVars
<1>7. DepthOK'
  <2>1. ASSUME NEW s \in Slots, Runnable(s)
        PROVE  depth'[pid[s]] = Base(pid[s])' + (IF s = current_task THEN 0 ELSE 1)
    <3> pid' = pid
      BY DEF tableVars
    <3>1. CASE s = current_task
      BY <3>1, <1>1 DEF Base
    <3>2. CASE s # current_task
      <4>1. pid[s] \in Contexts /\ pid[s] # cpu
        BY <3>2, <2>1, <1>2
      <4>2. depth'[pid[s]] = depth[pid[s]] /\ Base(pid[s])' = Base(pid[s])
        BY <4>1 DEF Base
      <4> QED BY <3>2, <2>1, <4>2 DEF IndInv, DepthOK
    <3> QED BY <3>1, <3>2
  <2> QED BY <2>1, <1>3 DEF IndInv, DepthOK, Runnable, tableVars
<1>8. ModeOK'
  <2>1. \A p \in Pids : p \in Contexts
    BY DEF Contexts
  <2>2. \A p \in Pids : p >= next_pid => p # cpu
    BY <1>1 DEF IndInv, TypeOK, Pids
  <2> HIDE DEF TaskPlaces, KernelPlaces
  <2>3. \A p \in Pids : pc'[p] \in TaskPlaces
    BY <2>1 DEF IndInv, ModeOK
  <2>4. \A p \in Pids : p >= next_pid => pc'[p] = "run"
    BY <2>1, <2>2 DEF IndInv, ModeOK
  <2> QED BY <2>3, <2>4, <1>3 DEF IndInv, ModeOK, InKernel, tableVars
<1> QED BY <1>4, <1>5, <1>6, <1>7, <1>8 DEF IndInv

LEMMA YieldKeeps ==
    ASSUME IndInv, Yield
    PROVE  IndInv'
<1>1. cpu # Kernel /\ cpu \in Contexts /\ pc[cpu] = "run" /\ depth[cpu] = 0
  BY RunningDepth DEF Yield, InTask
<1>2. /\ pc' \in [Contexts -> Places] /\ pc'[cpu] = "int20"
      /\ \A c \in Contexts : c # cpu => pc'[c] = pc[c]
  BY <1>1 DEF Yield, IndInv, TypeOK, Places
<1>3. /\ UNCHANGED <<tableVars, current_task, scheduling_enabled, kernel_esp,
                     cpu, active_tasks, ticks, ghostVars, irq_esp, depth>>
      /\ need_resched' = TRUE
  BY DEF Yield
<1>4. irq_esp \in [Slots -> Frames] /\ depth \in [Contexts -> 0 .. 3]
  BY DEF IndInv, TypeOK
<1> QED BY <1>1, <1>2, <1>3, <1>4, TaskStepKeeps DEF TaskPlaces

LEMMA SysReadWaitKeeps ==
    ASSUME IndInv, SysReadWait
    PROVE  IndInv'
<1>1. cpu # Kernel /\ cpu \in Contexts /\ pc[cpu] = "run" /\ depth[cpu] = 0
  BY RunningDepth DEF SysReadWait, InTask
<1>2. /\ pc' \in [Contexts -> Places] /\ pc'[cpu] = "sys_read"
      /\ \A c \in Contexts : c # cpu => pc'[c] = pc[c]
  BY <1>1 DEF SysReadWait, IndInv, TypeOK, Places
<1>3. /\ depth' \in [Contexts -> 0 .. 3] /\ depth'[cpu] = 1
      /\ \A c \in Contexts : c # cpu => depth'[c] = depth[c]
  BY <1>1 DEF SysReadWait, Pushed, IndInv, TypeOK
<1>4. UNCHANGED <<tableVars, current_task, scheduling_enabled, kernel_esp,
                  cpu, active_tasks, ticks, ghostVars, irq_esp, need_resched>>
  BY DEF SysReadWait
<1>5. irq_esp \in [Slots -> Frames] /\ need_resched \in BOOLEAN /\ ~need_resched
  BY <1>1 DEF IndInv, TypeOK, OpenReturnNeverSwitches
<1> QED BY <1>1, <1>2, <1>3, <1>4, <1>5, TaskStepKeeps DEF TaskPlaces

LEMMA SysReadSaveKeeps ==
    ASSUME IndInv, SysReadSave
    PROVE  IndInv'
<1>1. cpu # Kernel /\ cpu \in Contexts /\ pc[cpu] = "sys_read" /\ depth[cpu] = 1
      /\ current_task \in Slots
  BY RunningDepth, RunningContext DEF SysReadSave
<1>2. /\ pc' \in [Contexts -> Places] /\ pc'[cpu] = "sys_read_ret"
      /\ \A c \in Contexts : c # cpu => pc'[c] = pc[c]
  BY <1>1 DEF SysReadSave, IndInv, TypeOK, Places
<1>3. /\ irq_esp' \in [Slots -> Frames] /\ kernel_esp' = kernel_esp
      /\ \A s \in Slots : s # current_task => irq_esp'[s] = irq_esp[s]
  <2>1. 1 \in 1 .. 3
    OBVIOUS
  <2>2. <<cpu, 1>> \in Frames
    BY <1>1, <2>1, FrameTyped, Zenon
  <2>3. KernelEspSaved(depth[cpu]) = kernel_esp
    BY <1>1 DEF KernelEspSaved, Slots
  <2>4. TaskEspSaved(depth[cpu]) = [irq_esp EXCEPT ![current_task] = <<cpu, 1>>]
    BY <1>1 DEF TaskEspSaved, Slots, Frame
  <2>5. irq_esp \in [Slots -> Frames]
    BY DEF IndInv, TypeOK
  <2> QED BY <2>2, <2>3, <2>4, <2>5, <1>1 DEF SysReadSave
<1>4. UNCHANGED <<tableVars, current_task, scheduling_enabled, need_resched,
                  cpu, depth, active_tasks, ticks, ghostVars>>
  BY DEF SysReadSave
<1>5. /\ depth \in [Contexts -> 0 .. 3] /\ need_resched \in BOOLEAN /\ ~need_resched
  BY <1>1 DEF IndInv, TypeOK, OpenReturnNeverSwitches
<1> QED BY <1>1, <1>2, <1>3, <1>4, <1>5, TaskStepKeeps DEF TaskPlaces

------------------------------------------------------------------------------
LEMMA InitInv == Init => IndInv
<1> SUFFICES ASSUME Init PROVE IndInv
  OBVIOUS
<1>1. <<0, 0>> \in Frames
  BY DEF Frames, Contexts, Kernel
<1>2. TypeOK
  <2>1. 0 \in Contexts /\ NoFrame \in Frames
    BY <1>1 DEF Contexts, Kernel, NoFrame, Frame
  <2>2. /\ state \in [Slots -> States] /\ pid \in [Slots -> Contexts]
        /\ exit_code \in [Slots -> Codes \cup {0}] /\ irq_esp \in [Slots -> Frames]
        /\ stack_base \in [Slots -> Stacks \cup {NoStack}]
    BY <2>1 DEF Init, States
  <2>3. /\ depth \in [Contexts -> 0 .. 3] /\ pc \in [Contexts -> Places]
        /\ exited \in [Pids -> Codes \cup {NoCode}]
        /\ reaped \in [Pids -> Codes \cup {0, NoCode}]
    BY DEF Init, Places
  <2>4. /\ task_count \in 0 .. MaxTasks /\ current_task \in -1 .. MaxTasks - 1
        /\ active_tasks \in 0 .. MaxTasks /\ next_pid \in 1 .. MaxPid + 1
        /\ ticks \in 0 .. TickMod - 1
    BY SizesAssumption DEF Init
  <2>5. /\ scheduling_enabled \in BOOLEAN /\ need_resched \in BOOLEAN
        /\ kernel_esp \in Frames /\ cpu \in Contexts /\ allocated \subseteq Stacks
    BY <2>1 DEF Init, Kernel
  <2> QED BY <2>2, <2>3, <2>4, <2>5 DEF TypeOK, States, Places
<1>3. TableOK /\ CurrentRuns /\ SavedFramesOnTop /\ OpenReturnNeverSwitches
  BY DEF Init, TableOK, CurrentRuns, SavedFramesOnTop, OpenReturnNeverSwitches, InUse, Runnable
<1>4. ActiveCountExact
  <2>1. {s \in Slots : Runnable(s)} = {}
    BY DEF Init, Runnable
  <2> QED BY <2>1, FS_EmptySet DEF ActiveCountExact, Init
<1>5. DepthOK /\ ModeOK
  BY DEF Init, DepthOK, ModeOK, Runnable, KernelPlaces, TaskPlaces, InKernel, Contexts, Pids,
         Kernel
<1> QED BY <1>2, <1>3, <1>4, <1>5 DEF IndInv

LEMMA NextInv == IndInv /\ [Next]_vars => IndInv'
<1> SUFFICES ASSUME IndInv, [Next]_vars PROVE IndInv'
  OBVIOUS
<1>1. CASE Add
  BY <1>1, AddKeeps
<1>2. CASE StartEnable \/ StartCurrent \/ StartResched
  BY <1>2, StartKeeps
<1>3. CASE \E p \in Pids : Wait(p)
  BY <1>3, WaitKeeps
<1>4. CASE TimerIRQ
  BY <1>4, TimerIRQKeeps
<1>5. CASE OtherInterrupt
  BY <1>5, OtherInterruptKeeps
<1>6. CASE SoftwareInt
  BY <1>6, SoftwareIntKeeps
<1>7. CASE Yield
  BY <1>7, YieldKeeps
<1>8. CASE SysReadWait
  BY <1>8, SysReadWaitKeeps
<1>9. CASE SysReadSave
  BY <1>9, SysReadSaveKeeps
<1>10. CASE SysReadReturn
  BY <1>10, SysReadReturnKeeps
<1>11. CASE \E code \in Codes : SysExit(code)
  BY <1>11, SysExitKeeps
<1>12. CASE UNCHANGED vars
  BY <1>12 DEF vars, tableVars, switchVars, ghostVars, IndInv, TypeOK, TableOK, CurrentRuns,
               SavedFramesOnTop, ActiveCountExact, DepthOK, ModeOK, OpenReturnNeverSwitches,
               InUse, Runnable, Base, InKernel
<1> QED
  BY <1>1, <1>2, <1>3, <1>4, <1>5, <1>6, <1>7, <1>8, <1>9, <1>10, <1>11, <1>12 DEF Next

(* The inductive invariant holds in every state the scheduler reaches.     *)
THEOREM Invariant == Spec => []IndInv
BY InitInv, NextInv, PTL DEF Spec

(* Every variable of scheduler.c keeps to its range, whatever the number   *)
(* of tasks, and no stack holds more than three interrupt frames.          *)
THEOREM TypeCorrect == Spec => []TypeOK
<1>1. IndInv => TypeOK
  BY DEF IndInv
<1> QED BY <1>1, Invariant, PTL

(* current_task always names the context that executes, and a task that    *)
(* executes is runnable.                                                   *)
THEOREM CurrentCorrect == Spec => []CurrentRuns
<1>1. IndInv => CurrentRuns
  BY DEF IndInv
<1> QED BY <1>1, Invariant, PTL

(* The esp kept for a suspended context is the top frame of its own stack. *)
THEOREM FramesCorrect == Spec => []SavedFramesOnTop
<1>1. IndInv => SavedFramesOnTop
  BY DEF IndInv
<1> QED BY <1>1, Invariant, PTL

(* active_tasks is the number of runnable slots.                           *)
THEOREM CountCorrect == Spec => []ActiveCountExact
<1>1. IndInv => ActiveCountExact
  BY DEF IndInv
<1> QED BY <1>1, Invariant, PTL

(* The interruptible return path of sys_read never finds a request.        *)
THEOREM OpenReturnSafe == Spec => []OpenReturnNeverSwitches
<1>1. IndInv => OpenReturnNeverSwitches
  BY DEF IndInv
<1> QED BY <1>1, Invariant, PTL

(* The only step that hands the CPU to the kernel context is the switch    *)
(* after the last runnable task exited, and it turns scheduling off.       *)
THEOREM KernelReturn == Spec => KernelResumesWhenDone
<1> DEFINE Done == cpu # Kernel /\ cpu' = Kernel
                     => ~scheduling_enabled' /\ \A s \in Slots : ~Runnable(s)'
<1>1. ASSUME IndInv, [Next]_vars PROVE Done
  <2>1. CASE TimerIRQ
    <3>1. SwitchEntered(state, active_tasks, ReschedAfterTick, Pushed)
          /\ Switch(state, active_tasks, ReschedAfterTick, Pushed)
      BY <1>1, <2>1, TimerIRQEnters
    <3> QED BY <1>1, <3>1, SwitchStep
  <2>2. CASE OtherInterrupt
    <3>1. SwitchEntered(state, active_tasks, need_resched, Pushed)
          /\ Switch(state, active_tasks, need_resched, Pushed)
      BY <1>1, <2>2, OtherInterruptEnters
    <3> QED BY <1>1, <3>1, SwitchStep
  <2>3. CASE SoftwareInt
    <3>1. SwitchEntered(state, active_tasks, ReschedAfterTick, Pushed)
          /\ Switch(state, active_tasks, ReschedAfterTick, Pushed)
      BY <1>1, <2>3, SoftwareIntEnters
    <3> QED BY <1>1, <3>1, SwitchStep
  <2>4. CASE SysReadReturn
    <3>1. SwitchEntered(state, active_tasks, need_resched, depth[cpu])
          /\ Switch(state, active_tasks, need_resched, depth[cpu])
      BY <1>1, <2>4, SysReadReturnEnters
    <3> QED BY <1>1, <3>1, SwitchStep
  <2>5. CASE \E code \in Codes : SysExit(code)
    <3>1. PICK code \in Codes : SysExit(code)
      BY <2>5
    <3> DEFINE st == [state EXCEPT ![current_task] = "ZOMBIE"]
    <3>2. SwitchEntered(st, ActiveAfterExit, TRUE, depth[cpu] + 2)
          /\ Switch(st, ActiveAfterExit, TRUE, depth[cpu] + 2)
      BY <1>1, <3>1, SysExitEnters
    <3> HIDE DEF st
    <3> QED BY <1>1, <3>2, SwitchStep
  <2>6. CASE cpu' = cpu
    BY <2>6
  <2> QED
    BY <1>1, <2>1, <2>2, <2>3, <2>4, <2>5, <2>6
       DEF Next, Add, StartEnable, StartCurrent, StartResched, Wait, Yield, SysReadWait,
           SysReadSave, vars, switchVars
<1>2. IndInv /\ [Next]_vars => [Done]_vars
  BY <1>1
<1> QED BY <1>2, Invariant, PTL DEF Spec, KernelResumesWhenDone

------------------------------------------------------------------------------
(* Stacks and exit codes: what a slot holds for its task.                  *)

(* A zombie's slot holds the code its task exited with; a pid that was     *)
(* waited for is old and in no slot any more.                              *)
CodesOK ==
    /\ \A s \in Slots : state[s] = "ZOMBIE" => exit_code[s] = exited[pid[s]]
    /\ \A p \in Pids : reaped[p] # NoCode =>
         /\ reaped[p] = exited[p]
         /\ p < next_pid
         /\ \A s \in Slots : InUse(s) => pid[s] # p

LifeInv == StacksAccounted /\ CodesOK

(* Every step but add, wait and exit leaves what LifeInv mentions alone.   *)
LEMMA OnlyLifeSteps ==
    ASSUME [Next]_vars
    PROVE  \/ Add \/ (\E p \in Pids : Wait(p)) \/ (\E code \in Codes : SysExit(code))
           \/ UNCHANGED <<tableVars, ghostVars>>
BY DEF Next, StartEnable, StartCurrent, StartResched, TimerIRQ, OtherInterrupt, SoftwareInt,
       Yield, SysReadWait, SysReadSave, SysReadReturn, vars

LEMMA WaitLife ==
    ASSUME IndInv, LifeInv, NEW p \in Pids, Wait(p)
    PROVE  LifeInv'
<1> DEFINE i == Min(ZombieSlots(p))
<1>1. i \in Slots /\ state[i] = "ZOMBIE" /\ pid[i] = p
  <2>1. ZombieSlots(p) \subseteq Slots
    BY SizesAssumption DEF ZombieSlots, Slots, IndInv, TypeOK
  <2>2. i \in ZombieSlots(p)
    BY <2>1, MinSlot DEF Wait
  <2> QED BY <2>1, <2>2 DEF ZombieSlots
<1>2. /\ state' = [state EXCEPT ![i] = "UNUSED"]
      /\ stack_base' = [stack_base EXCEPT ![i] = NoStack]
      /\ reaped' = [reaped EXCEPT ![p] = exit_code[i]]
      /\ allocated' = allocated \ {stack_base[i]}
      /\ UNCHANGED <<pid, exit_code, next_pid, exited>>
  BY DEF Wait
<1> HIDE DEF i
<1>3. \A s \in Slots : InUse(s)' <=> InUse(s) /\ s # i
  BY <1>1, <1>2 DEF InUse, IndInv, TypeOK
<1>4. \A s \in Slots : s # i => stack_base'[s] = stack_base[s] /\ state'[s] = state[s]
  BY <1>2 DEF IndInv, TypeOK
<1>5. StacksAccounted'
  <2>1. /\ allocated = {stack_base[s] : s \in {t \in Slots : InUse(t)}}
        /\ \A s, t \in Slots : InUse(s) /\ InUse(t) /\ s # t => stack_base[s] # stack_base[t]
    BY DEF LifeInv, StacksAccounted, InUse
  <2>2. InUse(i)
    BY <1>1 DEF InUse
  <2>3. allocated' = {stack_base'[s] : s \in {t \in Slots : InUse(t)'}}
    BY <2>1, <2>2, <1>1, <1>2, <1>3, <1>4
  <2>4. \A s, t \in Slots : InUse(s)' /\ InUse(t)' /\ s # t => stack_base'[s] # stack_base'[t]
    BY <2>1, <1>3, <1>4
  <2> QED BY <2>3, <2>4 DEF StacksAccounted, InUse
<1>6. CodesOK'
  <2>1. \A s \in Slots : state'[s] = "ZOMBIE" => exit_code'[s] = exited'[pid'[s]]
    BY <1>1, <1>2, <1>4 DEF LifeInv, CodesOK, IndInv, TypeOK
  <2>2. exit_code[i] = exited[p] /\ InUse(i)
    BY <1>1 DEF LifeInv, CodesOK, InUse
  <2>3. p < next_pid /\ \A s \in Slots : InUse(s)' => pid[s] # p
    BY <1>1, <1>3, <2>2 DEF IndInv, TableOK, TypeOK
  <2>4. ASSUME NEW q \in Pids, reaped'[q] # NoCode
        PROVE  /\ reaped'[q] = exited'[q] /\ q < next_pid'
               /\ \A s \in Slots : InUse(s)' => pid'[s] # q
    <3>1. CASE q = p
      BY <3>1, <2>2, <2>3, <1>2 DEF IndInv, TypeOK
    <3>2. CASE q # p
      BY <3>2, <2>4, <1>2, <1>3 DEF IndInv, TypeOK, LifeInv, CodesOK
    <3> QED BY <3>1, <3>2
  <2> QED BY <2>1, <2>4 DEF CodesOK
<1> QED BY <1>5, <1>6 DEF LifeInv

LEMMA SysExitLife ==
    ASSUME IndInv, LifeInv, NEW code \in Codes, SysExit(code)
    PROVE  LifeInv'
<1>1. /\ current_task \in Slots /\ state[current_task] = "RUNNABLE"
      /\ cpu \in Pids /\ cpu = pid[current_task]
  BY SysExitEnters DEF Runnable
<1>2. /\ state' = [state EXCEPT ![current_task] = "ZOMBIE"]
      /\ exit_code' = [exit_code EXCEPT ![current_task] = code]
      /\ exited' = [exited EXCEPT ![cpu] = code]
      /\ UNCHANGED <<pid, stack_base, next_pid, allocated, reaped>>
  BY DEF SysExit
<1>3. \A s \in Slots : InUse(s)' <=> InUse(s)
  BY <1>1, <1>2 DEF InUse, IndInv, TypeOK
<1>4. StacksAccounted'
  <2>1. /\ allocated = {stack_base[s] : s \in {t \in Slots : InUse(t)}}
        /\ \A s, t \in Slots : InUse(s) /\ InUse(t) /\ s # t => stack_base[s] # stack_base[t]
    BY DEF LifeInv, StacksAccounted, InUse
  <2>2. allocated' = {stack_base'[s] : s \in {t \in Slots : InUse(t)'}}
    BY <2>1, <1>2, <1>3
  <2> QED BY <2>1, <2>2, <1>2, <1>3 DEF StacksAccounted, InUse
<1>5. CodesOK'
  <2>1. InUse(current_task) /\ \A s \in Slots : InUse(s) /\ s # current_task => pid[s] # cpu
    BY <1>1 DEF IndInv, TableOK, InUse
  <2>2. reaped[cpu] = NoCode
    BY <2>1, <1>1 DEF LifeInv, CodesOK
  <2>3. ASSUME NEW s \in Slots, state'[s] = "ZOMBIE"
        PROVE  exit_code'[s] = exited'[pid'[s]]
    <3>1. CASE s = current_task
      BY <3>1, <1>1, <1>2 DEF IndInv, TypeOK
    <3>2. CASE s # current_task
      <4>1. state[s] = "ZOMBIE" /\ exit_code'[s] = exit_code[s]
        BY <3>2, <2>3, <1>2 DEF IndInv, TypeOK
      <4>2. pid[s] # cpu /\ pid[s] \in Pids
        BY <3>2, <4>1, <2>1 DEF InUse, IndInv, TableOK, TypeOK, Contexts, Pids, Kernel
      <4>3. exited'[pid[s]] = exited[pid[s]]
        BY <4>2, <1>2 DEF IndInv, TypeOK
      <4> QED BY <4>1, <4>3, <1>2 DEF LifeInv, CodesOK
    <3> QED BY <3>1, <3>2
  <2>4. ASSUME NEW q \in Pids, reaped'[q] # NoCode
        PROVE  /\ reaped'[q] = exited'[q] /\ q < next_pid'
               /\ \A s \in Slots : InUse(s)' => pid'[s] # q
    BY <2>2, <2>4, <1>2, <1>3 DEF IndInv, TypeOK, LifeInv, CodesOK
  <2> QED BY <2>3, <2>4 DEF CodesOK
<1> QED BY <1>4, <1>5 DEF LifeInv

LEMMA AddLife ==
    ASSUME IndInv, LifeInv, Add
    PROVE  LifeInv'
<1>1. CASE UNCHANGED vars
  BY <1>1 DEF vars, tableVars, ghostVars, LifeInv, StacksAccounted, CodesOK, InUse
<1>2. CASE ~UNCHANGED vars
  <2>1. PICK base \in Stacks \ allocated :
          /\ allocated' = allocated \cup {base}
          /\ stack_base' = [stack_base EXCEPT ![FirstUnused] = base]
          /\ pid' = [pid EXCEPT ![FirstUnused] = next_pid]
          /\ next_pid' = next_pid + 1
          /\ exit_code' = [exit_code EXCEPT ![FirstUnused] = 0]
          /\ state' = [state EXCEPT ![FirstUnused] = "RUNNABLE"]
          /\ UNCHANGED <<exited, reaped>>
    BY <1>2 DEF Add
  <2> DEFINE f == FirstUnused
  <2>2. f \in Slots /\ state[f] = "UNUSED"
    BY FirstUnusedFree DEF Add
  <2> HIDE DEF f
  <2>3. /\ state'[f] = "RUNNABLE" /\ pid'[f] = next_pid /\ stack_base'[f] = base
        /\ \A s \in Slots : s # f => /\ state'[s] = state[s] /\ pid'[s] = pid[s]
                                    /\ stack_base'[s] = stack_base[s]
                                    /\ exit_code'[s] = exit_code[s]
    BY <2>1, <2>2 DEF f, IndInv, TypeOK
  <2>4. \A s \in Slots : InUse(s)' <=> InUse(s) \/ s = f
    BY <2>2, <2>3 DEF InUse
  <2>5. ~InUse(f)
    BY <2>2 DEF InUse
  <2>6. StacksAccounted'
    <3>1. /\ allocated = {stack_base[s] : s \in {t \in Slots : InUse(t)}}
          /\ \A s, t \in Slots : InUse(s) /\ InUse(t) /\ s # t => stack_base[s] # stack_base[t]
      BY DEF LifeInv, StacksAccounted, InUse
    <3>2. \A s \in Slots : InUse(s) => stack_base[s] # base
      BY <3>1
    <3>3. allocated' = {stack_base'[s] : s \in {t \in Slots : InUse(t)'}}
      BY <3>1, <2>1, <2>2, <2>3, <2>4, <2>5
    <3>4. \A s, t \in Slots : InUse(s)' /\ InUse(t)' /\ s # t => stack_base'[s] # stack_base'[t]
      BY <3>1, <3>2, <2>3, <2>4
    <3> QED BY <3>3, <3>4 DEF StacksAccounted, InUse
  <2>7. CodesOK'
    <3>1. \A s \in Slots : state'[s] = "ZOMBIE" => exit_code'[s] = exited'[pid'[s]]
      BY <2>1, <2>3 DEF LifeInv, CodesOK
    <3>2. ASSUME NEW q \in Pids, reaped'[q] # NoCode
          PROVE  /\ reaped'[q] = exited'[q] /\ q < next_pid'
                 /\ \A s \in Slots : InUse(s)' => pid'[s] # q
      <4>1. /\ reaped[q] = exited[q] /\ q < next_pid /\ q # next_pid
            /\ \A s \in Slots : InUse(s) => pid[s] # q
        BY <3>2, <2>1 DEF LifeInv, CodesOK, IndInv, TypeOK, Pids
      <4> QED BY <4>1, <2>1, <2>3, <2>4, <2>5 DEF IndInv, TypeOK, Pids
    <3> QED BY <3>1, <3>2 DEF CodesOK
  <2> QED BY <2>6, <2>7 DEF LifeInv
<1> QED BY <1>1, <1>2

(* The stacks and exit codes of the table are right in every state.        *)
THEOREM LifeInvariant == Spec => []LifeInv
<1>1. Init => LifeInv
  BY DEF Init, LifeInv, StacksAccounted, CodesOK
<1>2. IndInv /\ LifeInv /\ [Next]_vars => LifeInv'
  <2> SUFFICES ASSUME IndInv, LifeInv, [Next]_vars PROVE LifeInv'
    OBVIOUS
  <2>1. CASE Add
    BY <2>1, AddLife
  <2>2. CASE \E p \in Pids : Wait(p)
    BY <2>2, WaitLife
  <2>3. CASE \E code \in Codes : SysExit(code)
    BY <2>3, SysExitLife
  <2>4. CASE UNCHANGED <<tableVars, ghostVars>>
    BY <2>4 DEF tableVars, ghostVars, LifeInv, StacksAccounted, CodesOK, InUse
  <2> QED BY <2>1, <2>2, <2>3, <2>4, OnlyLifeSteps
<1> QED BY <1>1, <1>2, Invariant, PTL DEF Spec

(* No task stack leaks, is shared or is freed under its task.              *)
THEOREM StacksCorrect == Spec => []StacksAccounted
<1>1. LifeInv => StacksAccounted
  BY DEF LifeInv
<1> QED BY <1>1, LifeInvariant, PTL

(* scheduler_wait delivers the code the task exited with.                  *)
THEOREM CodesCorrect == Spec => []ExitCodeDelivered
<1>1. LifeInv => ExitCodeDelivered
  BY DEF LifeInv, CodesOK, ExitCodeDelivered
<1> QED BY <1>1, LifeInvariant, PTL

==============================================================================
