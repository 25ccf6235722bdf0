-------------------------- MODULE SchedulerProofs --------------------------
(***************************************************************************)
(* Proofs about Scheduler, for every size of the task table, every quantum *)
(* and every set of stacks, and about Timer, which extends it.             *)
(***************************************************************************)
EXTENDS Timer, DivMod, WellFoundedInduction

-----------------------------------------------------------------------------
(* The inductive invariant.                                                *)

\* RUNNING means current, and task 0, which nobody can kill, always has a
\* state pick_next accepts.
StatesInv ==
  /\ \A i \in Tasks : state[i] = "RUNNING" => i = current
  /\ state[current] \in {"RUNNING", "DEAD"}
  /\ state[0] \in {"RUNNING", "READY"}

\* A slot that is neither unused nor dead has a stack, and an unused slot
\* has none, except between the last two writes of task_create that matter.
BasesInv ==
  /\ stack_base[0] = NoStack
  /\ \A i \in Tasks \ {0} :
       state[i] \in {"READY", "RUNNING"} => stack_base[i] # NoStack
  /\ \A i \in Tasks \ {0} :
       state[i] = "UNUSED" /\ ~(pc = "state" /\ slot = i) => stack_base[i] = NoStack

\* A context pick_next may choose resumes with interrupts enabled.
ContextsInv ==
  \A i \in Tasks \ {current} :
    state[i] = "READY" =>
      /\ esp[i].stack = StackOf(i)
      /\ esp[i].at \in {"entry", "irq"}
      /\ esp[i].ints \/ esp[i].at = "irq"

\* What task 0 knows at each write of task_create and task_kill.
LocalsInv ==
  /\ pc = "scan" => slot \in 1..MAX_TASKS
  /\ pc \in {"kmalloc", "esp", "stack_base", "state"} =>
       slot \in Tasks \ {0} /\ state[slot] = "UNUSED"
  /\ pc \in {"slices", "kill"} => slot \in Tasks \ {0}
  /\ pc \in {"esp", "stack_base", "state"} => stack \in Stacks
  /\ pc \in {"stack_base", "state"} => esp[slot] = CraftedFrame(stack)
  /\ pc = "state" => stack_base[slot] = stack

\* The ticks the current task has had and those it still has make a quantum.
QuantumInv == ran + quantum_left >= TASK_QUANTUM

IInv ==
  /\ TypeOK
  /\ StatesInv
  /\ BasesInv
  /\ ContextsInv
  /\ LocalsInv
  /\ QuantumInv
  /\ RunsOnLiveStack
  /\ StacksOwnedOnce
  /\ TicksKeepComing

-----------------------------------------------------------------------------
(* Lemmas.                                                                 *)

\* Slot 0 exists.
LEMMA ZeroIsTask == 0 \in Tasks
BY MaxTasksAssumption DEF Tasks

\* Task 0 has the processor exactly when it is the current task: no heap
\* block is the boot stack.
LEMMA OnCpu0IsCurrent ==
  ASSUME IInv
  PROVE  OnCpu0 <=> current = 0
BY StacksAssumption DEF IInv, TypeOK, RunsOnLiveStack, StackOf, OnCpu0

\* The initial state satisfies the invariant.
LEMMA InitIInv == Init => IInv
<1> SUFFICES ASSUME Init PROVE IInv
  OBVIOUS
<1> USE MaxTasksAssumption, QuantumAssumption, CounterAssumption, StacksAssumption, ZeroIsTask
<1>1. TypeOK
  <2>1. 1 % CounterMod \in 0..(CounterMod - 1) /\ 0 \in 0..(CounterMod - 1)
    OBVIOUS
  <2>2. esp \in [Tasks -> Frames]
    BY DEF Init, Frames, NoContext
  <2>3. slices \in [Tasks -> 0..(CounterMod - 1)]
    BY <2>1 DEF Init
  <2>4. quantum_left \in 1..TASK_QUANTUM /\ ran \in 0..TASK_QUANTUM /\ slot \in 0..MAX_TASKS
    BY DEF Init
  <2> QED
    BY <2>2, <2>3, <2>4 DEF Init, TypeOK, Labels
<1>2. StatesInv /\ BasesInv /\ ContextsInv /\ LocalsInv /\ QuantumInv
  BY DEF Init, StatesInv, BasesInv, ContextsInv, LocalsInv, QuantumInv
<1>3. RunsOnLiveStack /\ TicksKeepComing
  BY DEF Init, RunsOnLiveStack, TicksKeepComing, StackOf
<1>4. StacksOwnedOnce
  BY DEF Init, StacksOwnedOnce, Pending
<1> QED
  BY <1>1, <1>2, <1>3, <1>4 DEF IInv

-----------------------------------------------------------------------------
(* The steps of task 0. Each is stated with the conjuncts it can disturb.  *)

\* Entering task_create preserves the invariant.
LEMMA TaskCreateStep == IInv /\ task_create => IInv'
<1> SUFFICES ASSUME IInv, task_create PROVE IInv'
  OBVIOUS
<1> USE MaxTasksAssumption, StacksAssumption, CounterAssumption, ZeroIsTask, OnCpu0IsCurrent
         DEF task_create, Goto, Return, KernelStep, table
<1>1. TypeOK'
  BY DEF IInv, TypeOK, Labels, LocalsInv
<1>2. StatesInv' /\ QuantumInv' /\ RunsOnLiveStack' /\ TicksKeepComing'
  BY DEF IInv, TypeOK, StatesInv, QuantumInv, RunsOnLiveStack, StackOf, TicksKeepComing, LocalsInv
<1>3. BasesInv'
  BY DEF IInv, TypeOK, BasesInv, LocalsInv
<1>4. ContextsInv'
  BY DEF IInv, TypeOK, ContextsInv, StackOf, LocalsInv, BasesInv, CraftedFrame
<1>5. LocalsInv'
  BY DEF IInv, TypeOK, LocalsInv, BasesInv, Tasks
<1>6. StacksOwnedOnce'
  BY DEF IInv, TypeOK, StacksOwnedOnce, Pending, LocalsInv, BasesInv
<1> QED
  BY <1>1, <1>2, <1>3, <1>4, <1>5, <1>6 DEF IInv

\* The scan ends outside the table or at an unused slot above 0.
LEMMA CreateScanStep == IInv /\ create_scan => IInv'
<1> SUFFICES ASSUME IInv, create_scan PROVE IInv'
  OBVIOUS
<1> USE MaxTasksAssumption, StacksAssumption, CounterAssumption, ZeroIsTask, OnCpu0IsCurrent
         DEF create_scan, Goto, Return, KernelStep, table
<1>1. TypeOK'
  <2>1. slot' \in 0..MAX_TASKS /\ stack' \in Stacks \cup {NoStack} /\ pc' \in Labels
    <3>1. slot \in 1..MAX_TASKS
      BY DEF IInv, LocalsInv
    <3> QED
      BY <3>1 DEF IInv, TypeOK, Labels
  <2> QED
    BY <2>1 DEF IInv, TypeOK
<1>2. StatesInv' /\ QuantumInv' /\ RunsOnLiveStack' /\ TicksKeepComing'
  BY DEF IInv, TypeOK, StatesInv, QuantumInv, RunsOnLiveStack, StackOf, TicksKeepComing, LocalsInv
<1>3. BasesInv'
  BY DEF IInv, TypeOK, BasesInv, LocalsInv
<1>4. ContextsInv'
  BY DEF IInv, TypeOK, ContextsInv, StackOf, LocalsInv, BasesInv, CraftedFrame
<1>5. LocalsInv'
  <2>1. slot \in 1..MAX_TASKS
    BY DEF IInv, LocalsInv
  <2>2. CASE slot >= MAX_TASKS /\ Return
    BY <2>2 DEF LocalsInv
  <2>3. CASE slot < MAX_TASKS /\ state[slot] = "UNUSED" /\ pc' = "kmalloc" /\ UNCHANGED <<slot, stack>>
    BY <2>1, <2>3 DEF LocalsInv, Tasks
  <2>4. CASE slot < MAX_TASKS /\ slot' = slot + 1 /\ UNCHANGED <<pc, stack>>
    BY <2>1, <2>4 DEF LocalsInv
  <2> QED
    BY <2>2, <2>3, <2>4
<1>6. StacksOwnedOnce'
  BY DEF IInv, TypeOK, StacksOwnedOnce, Pending, LocalsInv, BasesInv
<1> QED
  BY <1>1, <1>2, <1>3, <1>4, <1>5, <1>6 DEF IInv

\* The block kmalloc returns was in nobody's hands; it becomes Pending.
LEMMA CreateKmallocStep == IInv /\ create_kmalloc => IInv'
<1> SUFFICES ASSUME IInv, create_kmalloc PROVE IInv'
  OBVIOUS
<1> USE MaxTasksAssumption, StacksAssumption, CounterAssumption, ZeroIsTask, OnCpu0IsCurrent
         DEF create_kmalloc, Goto, Return, KernelStep, table
<1>1. TypeOK'
  BY DEF IInv, TypeOK, Labels, LocalsInv
<1>2. StatesInv' /\ QuantumInv' /\ RunsOnLiveStack' /\ TicksKeepComing'
  BY DEF IInv, TypeOK, StatesInv, QuantumInv, RunsOnLiveStack, StackOf, TicksKeepComing, LocalsInv
<1>3. BasesInv'
  BY DEF IInv, TypeOK, BasesInv, LocalsInv
<1>4. ContextsInv'
  BY DEF IInv, TypeOK, ContextsInv, StackOf, LocalsInv, BasesInv, CraftedFrame
<1>5. LocalsInv'
  BY DEF IInv, TypeOK, LocalsInv, BasesInv, Tasks
<1>6. StacksOwnedOnce'
  BY DEF IInv, TypeOK, StacksOwnedOnce, Pending, LocalsInv, BasesInv
<1> QED
  BY <1>1, <1>2, <1>3, <1>4, <1>5, <1>6 DEF IInv

\* The crafted context is written into a slot nobody can pick.
LEMMA CreateEspStep == IInv /\ create_esp => IInv'
<1> SUFFICES ASSUME IInv, create_esp PROVE IInv'
  OBVIOUS
<1> USE MaxTasksAssumption, StacksAssumption, CounterAssumption, ZeroIsTask, OnCpu0IsCurrent
         DEF create_esp, Goto, Return, KernelStep, table
<1>1. TypeOK'
  BY DEF IInv, TypeOK, Labels, LocalsInv, CraftedFrame, Frames, Tasks
<1>2. StatesInv' /\ QuantumInv' /\ RunsOnLiveStack' /\ TicksKeepComing'
  BY DEF IInv, TypeOK, StatesInv, QuantumInv, RunsOnLiveStack, StackOf, TicksKeepComing, LocalsInv
<1>3. BasesInv'
  BY DEF IInv, TypeOK, BasesInv, LocalsInv
<1>4. ContextsInv'
  BY DEF IInv, TypeOK, ContextsInv, StackOf, LocalsInv, BasesInv, CraftedFrame
<1>5. LocalsInv'
  BY DEF IInv, TypeOK, LocalsInv, BasesInv, Tasks
<1>6. StacksOwnedOnce'
  BY DEF IInv, TypeOK, StacksOwnedOnce, Pending, LocalsInv, BasesInv
<1> QED
  BY <1>1, <1>2, <1>3, <1>4, <1>5, <1>6 DEF IInv

\* Ownership passes from task_create to the slot.
LEMMA CreateStackBaseStep == IInv /\ create_stack_base => IInv'
<1> SUFFICES ASSUME IInv, create_stack_base PROVE IInv'
  OBVIOUS
<1> USE MaxTasksAssumption, StacksAssumption, CounterAssumption, ZeroIsTask, OnCpu0IsCurrent
         DEF create_stack_base, Goto, Return, KernelStep, table
<1>1. TypeOK'
  BY DEF IInv, TypeOK, Labels, LocalsInv
<1>2. StatesInv' /\ QuantumInv' /\ RunsOnLiveStack' /\ TicksKeepComing'
  BY DEF IInv, TypeOK, StatesInv, QuantumInv, RunsOnLiveStack, StackOf, TicksKeepComing, LocalsInv
<1>3. BasesInv'
  BY DEF IInv, TypeOK, BasesInv, LocalsInv
<1>4. ContextsInv'
  BY DEF IInv, TypeOK, ContextsInv, StackOf, LocalsInv, BasesInv, CraftedFrame
<1>5. LocalsInv'
  BY DEF IInv, TypeOK, LocalsInv, BasesInv, Tasks
<1>6. StacksOwnedOnce'
  BY DEF IInv, TypeOK, StacksOwnedOnce, Pending, LocalsInv, BasesInv
<1> QED
  BY <1>1, <1>2, <1>3, <1>4, <1>5, <1>6 DEF IInv

\* Publishing the slot: its context and its stack are complete.
LEMMA CreateStateStep == IInv /\ create_state => IInv'
<1> SUFFICES ASSUME IInv, create_state PROVE IInv'
  OBVIOUS
<1> USE MaxTasksAssumption, StacksAssumption, CounterAssumption, ZeroIsTask, OnCpu0IsCurrent
         DEF create_state, Goto, Return, KernelStep, table
<1>1. TypeOK'
  BY DEF IInv, TypeOK, Labels
<1>2. StatesInv' /\ QuantumInv' /\ RunsOnLiveStack' /\ TicksKeepComing'
  BY DEF IInv, TypeOK, StatesInv, QuantumInv, RunsOnLiveStack, StackOf, TicksKeepComing, LocalsInv
<1>3. BasesInv'
  BY DEF IInv, TypeOK, BasesInv, LocalsInv
<1>4. ContextsInv'
  BY DEF IInv, TypeOK, ContextsInv, StackOf, LocalsInv, BasesInv, CraftedFrame
<1>5. LocalsInv'
  BY DEF IInv, TypeOK, LocalsInv, BasesInv, Tasks
<1>6. StacksOwnedOnce'
  BY DEF IInv, TypeOK, StacksOwnedOnce, Pending, LocalsInv, BasesInv
<1> QED
  BY <1>1, <1>2, <1>3, <1>4, <1>5, <1>6 DEF IInv

\* The statistics are reset after the slot is published.
LEMMA CreateSlicesStep == IInv /\ create_slices => IInv'
<1> SUFFICES ASSUME IInv, create_slices PROVE IInv'
  OBVIOUS
<1> USE MaxTasksAssumption, StacksAssumption, CounterAssumption, ZeroIsTask, OnCpu0IsCurrent
         DEF create_slices, Goto, Return, KernelStep, table
<1>1. TypeOK'
  <2>1. slices' \in [Tasks -> 0..(CounterMod - 1)]
    <3>1. 0 \in 0..(CounterMod - 1)
      OBVIOUS
    <3> QED
      BY <3>1 DEF IInv, TypeOK
  <2> QED
    BY <2>1 DEF IInv, TypeOK, Labels
<1>2. StatesInv' /\ QuantumInv' /\ RunsOnLiveStack' /\ TicksKeepComing'
  BY DEF IInv, TypeOK, StatesInv, QuantumInv, RunsOnLiveStack, StackOf, TicksKeepComing, LocalsInv
<1>3. BasesInv'
  BY DEF IInv, TypeOK, BasesInv, LocalsInv
<1>4. ContextsInv'
  BY DEF IInv, TypeOK, ContextsInv, StackOf, LocalsInv, BasesInv, CraftedFrame
<1>5. LocalsInv'
  BY DEF IInv, TypeOK, LocalsInv, BasesInv, Tasks
<1>6. StacksOwnedOnce'
  BY DEF IInv, TypeOK, StacksOwnedOnce, Pending, LocalsInv, BasesInv
<1> QED
  BY <1>1, <1>2, <1>3, <1>4, <1>5, <1>6 DEF IInv

\* The checks of task_kill change nothing but its locals.
LEMMA TaskKillStep == IInv /\ task_kill => IInv'
<1> SUFFICES ASSUME IInv, task_kill PROVE IInv'
  OBVIOUS
<1> USE MaxTasksAssumption, StacksAssumption, CounterAssumption, ZeroIsTask, OnCpu0IsCurrent
         DEF task_kill, Goto, Return, KernelStep, table
<1>1. TypeOK'
  <2>1. slot' \in 0..MAX_TASKS
    BY DEF Tasks
  <2> QED
    BY <2>1 DEF IInv, TypeOK, Labels
<1>2. StatesInv' /\ QuantumInv' /\ RunsOnLiveStack' /\ TicksKeepComing'
  BY DEF IInv, TypeOK, StatesInv, QuantumInv, RunsOnLiveStack, StackOf, TicksKeepComing, LocalsInv
<1>3. BasesInv'
  BY DEF IInv, TypeOK, BasesInv, LocalsInv
<1>4. ContextsInv'
  BY DEF IInv, TypeOK, ContextsInv, StackOf, LocalsInv, BasesInv, CraftedFrame
<1>5. LocalsInv'
  BY DEF IInv, TypeOK, LocalsInv, BasesInv, Tasks
<1>6. StacksOwnedOnce'
  BY DEF IInv, TypeOK, StacksOwnedOnce, Pending, LocalsInv, BasesInv
<1> QED
  BY <1>1, <1>2, <1>3, <1>4, <1>5, <1>6 DEF IInv

\* Marking a slot dead, also one a tick has emptied meanwhile, leaves its stack with it.
LEMMA KillMarkStep == IInv /\ kill_mark => IInv'
<1> SUFFICES ASSUME IInv, kill_mark PROVE IInv'
  OBVIOUS
<1> USE MaxTasksAssumption, StacksAssumption, CounterAssumption, ZeroIsTask, OnCpu0IsCurrent
         DEF kill_mark, Goto, Return, KernelStep, table
<1>1. TypeOK'
  BY DEF IInv, TypeOK, Labels, LocalsInv
<1>2. StatesInv' /\ QuantumInv' /\ RunsOnLiveStack' /\ TicksKeepComing'
  BY DEF IInv, TypeOK, StatesInv, QuantumInv, RunsOnLiveStack, StackOf, TicksKeepComing, LocalsInv
<1>3. BasesInv'
  BY DEF IInv, TypeOK, BasesInv, LocalsInv
<1>4. ContextsInv'
  BY DEF IInv, TypeOK, ContextsInv, StackOf, LocalsInv, BasesInv, CraftedFrame
<1>5. LocalsInv'
  BY DEF IInv, TypeOK, LocalsInv, BasesInv, Tasks
<1>6. StacksOwnedOnce'
  BY DEF IInv, TypeOK, StacksOwnedOnce, Pending, LocalsInv, BasesInv
<1> QED
  BY <1>1, <1>2, <1>3, <1>4, <1>5, <1>6 DEF IInv

\* A task that exits stays current, on its own stack, until a tick.
LEMMA TaskExitStep == IInv /\ task_exit => IInv'
<1> SUFFICES ASSUME IInv, task_exit PROVE IInv'
  OBVIOUS
<1> USE MaxTasksAssumption, StacksAssumption, CounterAssumption, ZeroIsTask, OnCpu0IsCurrent
         DEF task_exit, locals
<1>1. TypeOK'
  BY DEF IInv, TypeOK, Labels, LocalsInv
<1>2. StatesInv' /\ QuantumInv' /\ RunsOnLiveStack' /\ TicksKeepComing'
  BY DEF IInv, TypeOK, StatesInv, QuantumInv, RunsOnLiveStack, StackOf, TicksKeepComing, LocalsInv
<1>3. BasesInv'
  BY DEF IInv, TypeOK, BasesInv, LocalsInv
<1>4. ContextsInv'
  BY DEF IInv, TypeOK, ContextsInv, StackOf, LocalsInv, BasesInv, CraftedFrame
<1>5. LocalsInv'
  BY DEF IInv, TypeOK, LocalsInv, BasesInv, Tasks
<1>6. StacksOwnedOnce'
  BY DEF IInv, TypeOK, StacksOwnedOnce, Pending, LocalsInv, BasesInv
<1> QED
  BY <1>1, <1>2, <1>3, <1>4, <1>5, <1>6 DEF IInv


-----------------------------------------------------------------------------
(* The timer interrupt.                                                    *)

\* reap() takes from the heap exactly the stacks of the slots it empties:
\* whoever keeps a stack keeps it allocated, and nobody shares one.
LEMMA ReapFacts ==
  ASSUME IInv, reap, UNCHANGED locals
  PROVE  /\ heap' \in SUBSET Stacks
         /\ stack_base' \in [Tasks -> Stacks \cup {NoStack}]
         /\ \A i \in Tasks \ Reapable : stack_base'[i] = stack_base[i]
         /\ \A i \in Reapable : stack_base'[i] = NoStack
         /\ StacksOwnedOnce'
         /\ ReapedState \in [Tasks -> {"UNUSED", "READY", "RUNNING", "DEAD"}]
         /\ \A i \in Tasks \ Reapable : ReapedState[i] = state[i]
         /\ \A i \in Reapable : ReapedState[i] = "UNUSED"
<1> USE StacksAssumption
<1>1. Reapable \subseteq Tasks
  BY DEF Reapable
<1>2. /\ heap' \in SUBSET Stacks
      /\ stack_base' \in [Tasks -> Stacks \cup {NoStack}]
      /\ \A i \in Tasks \ Reapable : stack_base'[i] = stack_base[i]
      /\ \A i \in Reapable : stack_base'[i] = NoStack
  BY <1>1 DEF IInv, TypeOK, reap
<1>3. /\ ReapedState \in [Tasks -> {"UNUSED", "READY", "RUNNING", "DEAD"}]
      /\ \A i \in Tasks \ Reapable : ReapedState[i] = state[i]
      /\ \A i \in Reapable : ReapedState[i] = "UNUSED"
  BY <1>1 DEF IInv, TypeOK, ReapedState
<1>4. StacksOwnedOnce'
  <2>1. Pending' = Pending
    BY DEF Pending, locals
  <2>2. \A i, j \in Tasks : stack_base[i] = stack_base[j] /\ stack_base[i] # NoStack => i = j
    BY DEF IInv, StacksOwnedOnce
  <2>3. heap' = Pending' \cup ({stack_base'[i] : i \in Tasks} \ {NoStack})
    <3>1. ASSUME NEW x \in heap'
          PROVE  x \in Pending' \cup ({stack_base'[i] : i \in Tasks} \ {NoStack})
      <4>1. x \in heap /\ x # NoStack /\ \A i \in Reapable : x # stack_base[i]
        BY <3>1 DEF reap, IInv, TypeOK
      <4> QED
        BY <4>1, <2>1, <1>2 DEF IInv, StacksOwnedOnce
    <3>2. ASSUME NEW x \in Pending'
          PROVE  x \in heap'
      BY <3>2, <2>1, <1>1 DEF IInv, StacksOwnedOnce, reap, Pending, LocalsInv
    <3>3. ASSUME NEW i \in Tasks, stack_base'[i] # NoStack
          PROVE  stack_base'[i] \in heap'
      <4>1. i \notin Reapable /\ stack_base'[i] = stack_base[i]
        BY <3>3, <1>2
      <4>2. stack_base[i] \in heap
        BY <3>3, <4>1 DEF IInv, StacksOwnedOnce
      <4>3. \A k \in Reapable : stack_base[k] # stack_base[i]
        BY <3>3, <4>1, <2>2, <1>1
      <4> QED
        BY <4>1, <4>2, <4>3 DEF reap
    <3> QED
      BY <3>1, <3>2, <3>3
  <2>4. \A i \in Tasks : stack_base'[i] # NoStack => stack_base'[i] \notin Pending'
    BY <2>1, <1>2 DEF IInv, StacksOwnedOnce
  <2>5. \A i, j \in Tasks :
          stack_base'[i] = stack_base'[j] /\ stack_base'[i] # NoStack => i = j
    BY <2>2, <1>2
  <2> QED
    BY <2>3, <2>4, <2>5 DEF StacksOwnedOnce
<1> QED
  BY <1>2, <1>3, <1>4

\* The invariant survives a tick, with or without a switch.
LEMMA TickStep == IInv /\ irq_handler => IInv'
<1> SUFFICES ASSUME IInv, irq_handler PROVE IInv'
  OBVIOUS
<1> DEFINE st == ReapedState
<1> USE MaxTasksAssumption, QuantumAssumption, CounterAssumption, StacksAssumption, ZeroIsTask
<1>1. reap /\ UNCHANGED locals /\ inService' = FALSE
  BY DEF irq_handler, scheduler_tick
<1>2. /\ heap' \in SUBSET Stacks
      /\ stack_base' \in [Tasks -> Stacks \cup {NoStack}]
      /\ \A i \in Tasks \ Reapable : stack_base'[i] = stack_base[i]
      /\ \A i \in Reapable : stack_base'[i] = NoStack
      /\ StacksOwnedOnce'
      /\ st \in [Tasks -> {"UNUSED", "READY", "RUNNING", "DEAD"}]
      /\ \A i \in Tasks \ Reapable : st[i] = state[i]
      /\ \A i \in Reapable : st[i] = "UNUSED"
  BY <1>1, ReapFacts
<1>3. \A i \in Reapable : i \in Tasks /\ i # 0 /\ i # current /\ state[i] = "DEAD"
  BY DEF Reapable
<1>4. current \in Tasks \ Reapable /\ 0 \in Tasks \ Reapable
  BY <1>3 DEF IInv, TypeOK
<1>5. pc' = pc /\ slot' = slot /\ stack' = stack
  BY <1>1 DEF locals
<1> HIDE DEF st
<1>6. CASE /\ carry_on(st)
           /\ \/ QuantumLasts /\ quantum_left' = quantum_left - 1
              \/ ~QuantumLasts /\ UNCHANGED quantum_left
  <2> USE <1>6 DEF carry_on
  <2>1. TypeOK'
    <3>1. quantum_left' \in 1..TASK_QUANTUM /\ ran' \in 0..TASK_QUANTUM
      BY DEF IInv, TypeOK, QuantumLasts
    <3>2. waited' \in [Tasks -> Nat]
      BY DEF IInv, TypeOK
    <3> QED
      BY <3>1, <3>2, <1>1, <1>2, <1>5 DEF IInv, TypeOK
  <2>2. StatesInv'
    BY <1>2, <1>3, <1>4 DEF IInv, TypeOK, StatesInv
  <2>3. BasesInv'
    BY <1>2, <1>3, <1>4, <1>5 DEF IInv, BasesInv
  <2>4. ContextsInv'
    BY <1>2, <1>3, <1>4 DEF IInv, ContextsInv, StackOf
  <2>5. LocalsInv'
    BY <1>2, <1>3, <1>5 DEF IInv, LocalsInv, CraftedFrame
  <2>6. QuantumInv'
    BY DEF IInv, TypeOK, QuantumInv, QuantumLasts
  <2>7. RunsOnLiveStack'
    <3>1. StackOf(current)' = cpuStack
      BY <1>2, <1>4 DEF IInv, RunsOnLiveStack, StackOf
    <3>2. current # 0 => stack_base'[current] # NoStack
      BY <1>2, <1>4 DEF IInv, TypeOK, RunsOnLiveStack, StackOf
    <3> QED
      BY <3>1, <3>2, <1>2, <1>4 DEF RunsOnLiveStack, StackOf, StacksOwnedOnce
  <2>8. TicksKeepComing'
    BY <1>1 DEF IInv, TicksKeepComing
  <2> QED
    BY <1>2, <2>1, <2>2, <2>3, <2>4, <2>5, <2>6, <2>7, <2>8 DEF IInv
<1>7. ASSUME NEW next \in pick_next(st) \ {current}, switch_to(st, next), ~QuantumLasts
      PROVE  IInv'
  <2> USE <1>7 DEF switch_to
  <2>1. next \in Tasks /\ next # current /\ next \notin Reapable /\ state[next] = "READY"
    BY <1>2, <1>3 DEF pick_next, Runnable, IInv, TypeOK, StatesInv
  <2>2. /\ esp[next].stack = StackOf(next)
        /\ esp[next].at \in {"entry", "irq"}
        /\ esp[next].ints \/ esp[next].at = "irq"
    BY <2>1 DEF IInv, ContextsInv
  <2>3. cpuStack' = StackOf(next) /\ intFlag' = TRUE /\ current' = next
    BY <2>1, <2>2 DEF resume, iret, IInv, TypeOK, Frames
  <2>4. /\ state' \in [Tasks -> {"UNUSED", "READY", "RUNNING", "DEAD"}]
        /\ state'[next] = "RUNNING"
        /\ state'[current] = IF state[current] = "RUNNING" THEN "READY" ELSE state[current]
        /\ \A i \in Tasks \ {current, next} : state'[i] = st[i]
    BY <1>2, <1>4, <2>1 DEF Parked
  <2>5. /\ esp' \in [Tasks -> Frames]
        /\ esp'[current] = InterruptFrame(cpuStack)
        /\ \A i \in Tasks \ {current} : esp'[i] = esp[i]
    BY <1>4 DEF IInv, TypeOK, InterruptFrame, Frames
  <2>6. StackOf(next)' = StackOf(next) /\ StackOf(current) = cpuStack
        /\ (current # 0 => stack_base'[current] = cpuStack)
        /\ (current = 0 => cpuStack = BootStack)
    BY <1>2, <1>4, <2>1 DEF StackOf, IInv, RunsOnLiveStack
  <2>7. TypeOK'
    <3>1. slices' \in [Tasks -> 0..(CounterMod - 1)]
      BY <2>1 DEF IInv, TypeOK
    <3>2. waited' \in [Tasks -> Nat]
      BY DEF IInv, TypeOK
    <3>3. cpuStack' \in Stacks \cup {BootStack}
      BY <2>1, <2>3 DEF IInv, TypeOK, StackOf, BasesInv
    <3>4. quantum_left' \in 1..TASK_QUANTUM /\ ran' \in 0..TASK_QUANTUM
      BY DEF quantum_Reset
    <3> QED
      BY <3>1, <3>2, <3>3, <3>4, <1>1, <1>2, <1>5, <2>1, <2>3, <2>4, <2>5 DEF IInv, TypeOK
  <2>8. StatesInv'
    BY <1>2, <1>3, <1>4, <2>1, <2>3, <2>4 DEF IInv, TypeOK, StatesInv
  <2>9. BasesInv'
    BY <1>2, <1>3, <1>4, <1>5, <2>1, <2>4 DEF IInv, BasesInv, StatesInv
  <2>10. ContextsInv'
    <3>1. ASSUME NEW i \in Tasks \ {next}, state'[i] = "READY"
          PROVE  /\ esp'[i].stack = StackOf(i)'
                 /\ esp'[i].at \in {"entry", "irq"}
                 /\ esp'[i].ints \/ esp'[i].at = "irq"
      <4>1. CASE i = current
        BY <4>1, <2>5, <2>6 DEF InterruptFrame, StackOf
      <4>2. CASE i # current
        BY <3>1, <4>2, <1>2, <1>3, <2>4, <2>5 DEF StackOf, IInv, ContextsInv
      <4> QED
        BY <4>1, <4>2
    <3> QED
      BY <3>1, <2>3 DEF ContextsInv
  <2>11. LocalsInv'
    BY <1>2, <1>3, <1>5, <2>1, <2>4, <2>5 DEF IInv, LocalsInv, StatesInv, CraftedFrame
  <2>12. QuantumInv'
    BY DEF QuantumInv, quantum_Reset
  <2>13. RunsOnLiveStack'
    <3>1. next # 0 => stack_base'[next] # NoStack
      BY <1>2, <2>1 DEF IInv, BasesInv
    <3> QED
      BY <3>1, <1>2, <2>1, <2>3, <2>6 DEF RunsOnLiveStack, StackOf, StacksOwnedOnce
  <2>14. TicksKeepComing'
    BY <1>1, <2>3 DEF TicksKeepComing
  <2> QED
    BY <1>2, <2>7, <2>8, <2>9, <2>10, <2>11, <2>12, <2>13, <2>14 DEF IInv
<1> QED
  BY <1>6, <1>7 DEF irq_handler, scheduler_tick, st

-----------------------------------------------------------------------------
(* The theorems.                                                           *)

\* Every step of the system preserves the invariant.
LEMMA NextIInv == IInv /\ [Next]_vars => IInv'
<1> SUFFICES ASSUME IInv, [Next]_vars PROVE IInv'
  OBVIOUS
<1>1. CASE UNCHANGED vars
  BY <1>1 DEF vars, table, locals, IInv, TypeOK, StatesInv, BasesInv, ContextsInv, LocalsInv,
              QuantumInv, RunsOnLiveStack, StackOf, StacksOwnedOnce, Pending, TicksKeepComing
<1> QED
  BY <1>1, TickStep, TaskCreateStep, CreateScanStep, CreateKmallocStep, CreateEspStep,
     CreateStackBaseStep, CreateStateStep, CreateSlicesStep, TaskKillStep, KillMarkStep,
     TaskExitStep DEF Next

\* The invariant holds in every reachable state.
THEOREM Invariance == Spec => []IInv
BY InitIInv, NextIInv, PTL DEF Spec

\* The task table, the scheduler's variables and the machine keep their
\* types: slot indices stay inside the table, quantum_left inside 1..TASK_QUANTUM.
THEOREM TypeCorrect == Spec => []TypeOK
<1>1. IInv => TypeOK
  BY DEF IInv
<1> QED
  BY <1>1, Invariance, PTL

\* The processor never runs on a stack the heap has taken back.
THEOREM RunsOnLiveStackThm == Spec => []RunsOnLiveStack
<1>1. IInv => RunsOnLiveStack
  BY DEF IInv
<1> QED
  BY <1>1, Invariance, PTL

\* Stacks are neither leaked, nor shared, nor dangling, however kill, exit
\* and the ticks interleave.
THEOREM StacksOwnedOnceThm == Spec => []StacksOwnedOnce
<1>1. IInv => StacksOwnedOnce
  BY DEF IInv
<1> QED
  BY <1>1, Invariance, PTL

\* Whatever pick_next may choose has a complete context on its own,
\* allocated stack.
THEOREM ReadyIsResumableThm == Spec => []ReadyIsResumable
<1>1. IInv => ReadyIsResumable
  <2> SUFFICES ASSUME IInv, NEW i \in Tasks \ {current}, state[i] = "READY"
               PROVE  /\ esp[i].stack = StackOf(i)
                      /\ esp[i].at # "none"
                      /\ i # 0 => esp[i].stack \in heap
    BY DEF ReadyIsResumable
  <2>1. esp[i].stack = StackOf(i) /\ esp[i].at # "none"
    BY DEF IInv, ContextsInv
  <2>2. i # 0 => stack_base[i] \in heap
    BY DEF IInv, BasesInv, StacksOwnedOnce
  <2> QED
    BY <2>1, <2>2 DEF StackOf
<1> QED
  BY <1>1, Invariance, PTL

\* No switch leaves the machine deaf to the timer.
THEOREM TicksKeepComingThm == Spec => []TicksKeepComing
<1>1. IInv => TicksKeepComing
  BY DEF IInv
<1> QED
  BY <1>1, Invariance, PTL

\* No switch away from a task that is alive comes before it has had
\* TASK_QUANTUM ticks.
THEOREM FullQuantumThm == Spec => FullQuantum
<1>1. IInv /\ [Next]_vars =>
        [current' # current /\ state[current] # "DEAD" => ran + 1 >= TASK_QUANTUM]_vars
  <2> SUFFICES ASSUME IInv, Next, current' # current
               PROVE  ran + 1 >= TASK_QUANTUM
    OBVIOUS
  <2>1. irq_handler
    BY DEF Next, task_create, create_scan, create_kmalloc, create_esp, create_stack_base,
           create_state, create_slices, task_kill, kill_mark, task_exit, KernelStep
  <2>2. ~QuantumLasts
    BY <2>1 DEF irq_handler, scheduler_tick, carry_on
  <2> QED
    BY <2>2, QuantumAssumption DEF IInv, TypeOK, QuantumInv, QuantumLasts
<1> QED
  BY <1>1, Invariance, PTL DEF Spec, FullQuantum

\* A dead task is never scheduled again, nor its slot republished before
\* reap() has emptied it.
THEOREM DeadStaysDeadThm == Spec => DeadStaysDead
<1> DEFINE Stays == \A i \in Tasks : state[i] = "DEAD" => state'[i] \in {"DEAD", "UNUSED"}
<1>1. IInv /\ [Next]_vars => [Stays]_vars
  <2> SUFFICES ASSUME IInv, Next PROVE Stays
    OBVIOUS
  <2>1. CASE irq_handler
    <3>1. \A i \in Tasks : state[i] = "DEAD" => ReapedState[i] \in {"DEAD", "UNUSED"}
      BY DEF ReapedState
    <3>2. CASE carry_on(ReapedState)
      BY <3>1, <3>2 DEF carry_on
    <3>3. ASSUME NEW next \in pick_next(ReapedState) \ {current}, switch_to(ReapedState, next)
          PROVE  Stays
      <4>1. Runnable(ReapedState, next) /\ next \in Tasks
        BY DEF pick_next
      <4>2. ReapedState \in [Tasks -> {"UNUSED", "READY", "RUNNING", "DEAD"}]
        BY DEF ReapedState, IInv, TypeOK
      <4> QED
        BY <3>1, <3>3, <4>1, <4>2 DEF switch_to, Parked, Runnable, IInv, TypeOK
    <3> QED
      BY <2>1, <3>2, <3>3 DEF irq_handler, scheduler_tick
  <2>2. CASE create_state
    BY <2>2 DEF create_state, IInv, TypeOK, LocalsInv
  <2>3. CASE kill_mark \/ task_exit
    BY <2>3 DEF kill_mark, task_exit, IInv, TypeOK
  <2>4. CASE task_create \/ create_scan \/ create_kmalloc \/ create_esp \/ create_stack_base
             \/ create_slices \/ task_kill
    BY <2>4 DEF task_create, create_scan, create_kmalloc, create_esp, create_stack_base,
                create_slices, task_kill, table, IInv, TypeOK
  <2> QED
    BY <2>1, <2>2, <2>3, <2>4 DEF Next
<1> QED
  BY <1>1, Invariance, PTL DEF Spec, DeadStaysDead

-----------------------------------------------------------------------------
(* Round robin.                                                            *)

\* How many slots pick_next looks at until it comes to slot i.
Distance(i) == IF i > current THEN i - current ELSE i + MAX_TASKS - current

\* The switches a ready task has waited through have each brought current
\* nearer to it.
WaitInv ==
  \A i \in Tasks :
    IF state[i] = "READY" THEN waited[i] + Distance(i) <= MAX_TASKS - 1 ELSE waited[i] = 0

\* The slot that pick_next's scan reaches after s steps.
LEMMA ScanSlot ==
  ASSUME NEW c \in Tasks, NEW s \in 1..MAX_TASKS
  PROVE  (c + s) % MAX_TASKS = IF c + s < MAX_TASKS THEN c + s ELSE c + s - MAX_TASKS
<1> USE MaxTasksAssumption DEF Tasks
<1>1. CASE c + s < MAX_TASKS
  BY <1>1, SmallMod
<1>2. CASE ~(c + s < MAX_TASKS)
  <2> DEFINE r == c + s - MAX_TASKS
  <2>1. r \in 0..(MAX_TASKS - 1) /\ 1 \in Nat /\ MAX_TASKS \in Nat \ {0} /\ c + s = 1 * MAX_TASKS + r
    BY <1>2
  <2>2. (1 * MAX_TASKS + r) % MAX_TASKS = r
    BY ONLY <2>1, DivModUnique
  <2> QED
    BY <1>2, <2>1, <2>2
<1> QED
  BY <1>1, <1>2

\* A switch never passes a task that is ready: it comes nearer to everyone
\* it does not choose.
LEMMA ComesNearer ==
  ASSUME NEW st, current \in Tasks, NEW next \in pick_next(st) \ {current},
         NEW i \in Tasks, i # current, i # next, Runnable(st, i)
  PROVE  LET ahead(c) == IF i > c THEN i - c ELSE i + MAX_TASKS - c
         IN  ahead(next) + 1 <= ahead(current) /\ next \in Tasks
<1> USE MaxTasksAssumption
<1> DEFINE ahead(c) == IF i > c THEN i - c ELSE i + MAX_TASKS - c
           d == ahead(current)
<1>1. PICK step \in 1..MAX_TASKS :
        /\ next = (current + step) % MAX_TASKS
        /\ \A s \in 1..(step - 1) : ~Runnable(st, (current + s) % MAX_TASKS)
  BY DEF pick_next
<1>2. next \in Tasks
  BY DEF pick_next
<1>3. d \in 1..(MAX_TASKS - 1) /\ i = IF current + d < MAX_TASKS THEN current + d ELSE current + d - MAX_TASKS
  BY DEF Tasks
<1>4. (current + d) % MAX_TASKS = i
  <2>1. d \in 1..MAX_TASKS
    BY <1>3
  <2> HIDE DEF d
  <2> QED
    BY <1>3, <2>1, ScanSlot
<1>5. step <= d
  <2>1. ASSUME step > d PROVE FALSE
    <3>1. d \in 1..(step - 1)
      BY <1>3, <2>1
    <3> HIDE DEF d
    <3> QED
      BY <1>1, <1>4, <3>1
  <2> HIDE DEF d
  <2> QED
    BY <1>3, <2>1
<1>6. next = IF current + step < MAX_TASKS THEN current + step ELSE current + step - MAX_TASKS
  BY <1>1, ScanSlot
<1>7. ahead(next) + 1 <= ahead(current)
  BY <1>2, <1>3, <1>5, <1>6 DEF Tasks
<1> QED
  BY <1>2, <1>7

\* Every step keeps WaitInv.
LEMMA WaitStep == IInv /\ WaitInv /\ [Next]_vars => WaitInv'
<1> SUFFICES ASSUME IInv, WaitInv, [Next]_vars PROVE WaitInv'
  OBVIOUS
<1> USE MaxTasksAssumption, ZeroIsTask
<1> DEFINE Ahead(i, c) == IF i > c THEN i - c ELSE i + MAX_TASKS - c
<1>0. /\ current \in Tasks /\ waited \in [Tasks -> Nat] /\ state[current] # "READY"
      /\ state \in [Tasks -> {"UNUSED", "READY", "RUNNING", "DEAD"}]
  BY DEF IInv, TypeOK, StatesInv
<1>1. \A i \in Tasks : IF state[i] = "READY" THEN waited[i] + Ahead(i, current) <= MAX_TASKS - 1
                                             ELSE waited[i] = 0
  BY DEF WaitInv, Distance
<1>2. ASSUME \A i \in Tasks : IF state'[i] = "READY" THEN waited'[i] + Ahead(i, current') <= MAX_TASKS - 1
                                                     ELSE waited'[i] = 0
      PROVE  WaitInv'
  BY <1>2 DEF WaitInv, Distance
<1>3. \A i, c \in Tasks : i # c => Ahead(i, c) \in 1..(MAX_TASKS - 1)
  BY DEF Tasks
<1> HIDE DEF Ahead
<1>4. CASE irq_handler
  <2> DEFINE st == ReapedState
  <2>1. \A i \in Tasks : st[i] = "READY" <=> state[i] = "READY"
    BY DEF ReapedState, Reapable
  <2>2. st \in [Tasks -> {"UNUSED", "READY", "RUNNING", "DEAD"}] /\ st[current] = state[current]
    BY <1>0 DEF ReapedState, Reapable
  <2>3. CASE carry_on(ReapedState)
    <3>1. /\ state' = st /\ current' = current
          /\ \A i \in Tasks : waited'[i] = IF st[i] = "READY" THEN waited[i] ELSE 0
      BY <2>3 DEF carry_on
    <3> HIDE DEF st
    <3> QED
      BY <1>1, <1>2, <2>1, <3>1
  <2>4. ASSUME NEW next \in pick_next(ReapedState) \ {current}, switch_to(ReapedState, next)
        PROVE  WaitInv'
    <3>1. next \in Tasks /\ next # current
      BY DEF pick_next
    <3>2. /\ state' = [st EXCEPT ![current] = Parked(st), ![next] = "RUNNING"]
          /\ current' = next
          /\ \A i \in Tasks : waited'[i] = IF i \in {current, next} \/ st[i] # "READY"
                                           THEN 0 ELSE waited[i] + 1
      BY <2>4 DEF switch_to
    <3>3. ASSUME NEW i \in Tasks, i # current, i # next, st[i] = "READY"
          PROVE  Ahead(i, next) + 1 <= Ahead(i, current)
      BY <1>0, <2>4, <3>3, ComesNearer DEF Ahead, Runnable
    <3> HIDE DEF st
    <3>4. ASSUME NEW i \in Tasks
          PROVE  IF state'[i] = "READY" THEN waited'[i] + Ahead(i, current') <= MAX_TASKS - 1
                                        ELSE waited'[i] = 0
      <4>1. CASE i = next
        <5>1. state'[i] = "RUNNING" /\ waited'[i] = 0
          BY <1>0, <2>2, <3>1, <3>2, <4>1
        <5> QED
          BY <5>1
      <4>2. CASE i = current
        <5>1. waited'[i] = 0 /\ Ahead(i, current') \in 1..(MAX_TASKS - 1)
          BY <1>0, <1>3, <3>1, <3>2, <4>2
        <5> QED
          BY <5>1
      <4>3. CASE i # current /\ i # next
        <5>1. state'[i] = st[i]
          BY <1>0, <2>2, <3>1, <3>2, <4>3
        <5>2. CASE st[i] = "READY"
          <6>1. waited'[i] = waited[i] + 1 /\ waited[i] + Ahead(i, current) <= MAX_TASKS - 1
            BY <1>1, <2>1, <3>2, <4>3, <5>2
          <6>2. /\ Ahead(i, next) + 1 <= Ahead(i, current) /\ waited[i] \in Nat
                /\ Ahead(i, next) \in Int /\ Ahead(i, current) \in Int
            BY <1>0, <1>3, <3>1, <3>3, <4>3, <5>2
          <6> QED
            BY <3>2, <5>1, <5>2, <6>1, <6>2
        <5>3. CASE st[i] # "READY"
          BY <3>2, <5>1, <5>3
        <5> QED
          BY <5>2, <5>3
      <4> QED
        BY <4>1, <4>2, <4>3
    <3> QED
      BY <1>2, <3>4
  <2> QED
    BY <1>4, <2>3, <2>4 DEF irq_handler, scheduler_tick
<1>5. CASE create_state
  <2>1. slot \in Tasks /\ slot # current /\ current' = current
    BY <1>0, <1>5 DEF create_state, KernelStep, IInv, LocalsInv, StatesInv
  <2>2. state' = [state EXCEPT ![slot] = "READY"] /\ waited' = [waited EXCEPT ![slot] = 0]
    BY <1>5 DEF create_state
  <2>3. Ahead(slot, current) \in 1..(MAX_TASKS - 1)
    BY <1>0, <1>3, <2>1
  <2> QED
    BY <1>0, <1>1, <1>2, <2>1, <2>2, <2>3
<1>6. CASE kill_mark
  <2>1. slot \in Tasks /\ current' = current
    BY <1>6 DEF kill_mark, KernelStep, IInv, LocalsInv
  <2>2. state' = [state EXCEPT ![slot] = "DEAD"] /\ waited' = [waited EXCEPT ![slot] = 0]
    BY <1>6 DEF kill_mark
  <2> QED
    BY <1>0, <1>1, <1>2, <2>1, <2>2
<1>7. CASE task_exit
  BY <1>0, <1>1, <1>2, <1>7 DEF task_exit
<1>8. CASE \/ task_create \/ create_scan \/ create_kmalloc \/ create_esp \/ create_stack_base
           \/ create_slices \/ task_kill \/ UNCHANGED vars
  <2>1. state' = state /\ current' = current /\ waited' = waited
    BY <1>8 DEF task_create, create_scan, create_kmalloc, create_esp, create_stack_base,
                create_slices, task_kill, table, KernelStep, vars
  <2> QED
    BY <1>1, <1>2, <2>1
<1> QED
  BY <1>4, <1>5, <1>6, <1>7, <1>8 DEF Next

\* Round robin: a ready task waits through at most MAX_TASKS - 2 switches.
THEOREM BoundedWaitThm == Spec => []BoundedWait
<1> USE MaxTasksAssumption, ZeroIsTask
<1>1. Init => WaitInv
  BY DEF Init, WaitInv
<1>2. IInv /\ WaitInv => BoundedWait
  <2> SUFFICES ASSUME IInv, WaitInv, NEW i \in Tasks
               PROVE  waited[i] <= IF MAX_TASKS >= 2 THEN MAX_TASKS - 2 ELSE 0
    BY DEF BoundedWait
  <2>1. CASE state[i] # "READY"
    BY <2>1 DEF WaitInv
  <2>2. CASE state[i] = "READY"
    <3>1. i # current /\ current \in Tasks /\ waited[i] \in Nat
      BY <2>2 DEF IInv, TypeOK, StatesInv
    <3>2. waited[i] + Distance(i) <= MAX_TASKS - 1
      BY <2>2 DEF WaitInv
    <3>3. Distance(i) \in Nat \ {0} /\ MAX_TASKS >= 2
      BY <3>1 DEF Distance, Tasks
    <3> QED
      BY <3>1, <3>2, <3>3
  <2> QED
    BY <2>1, <2>2
<1> QED
  BY <1>1, <1>2, WaitStep, Invariance, PTL DEF Spec

-----------------------------------------------------------------------------
(* Timer: the scheduler with the tick counter and a command that sleeps,   *)
(* for every quantum of at least two ticks, every width of a word and      *)
(* every set of durations. What is added to the invariant.                 *)

\* The types of the variables that Timer adds.
TimerTypeOK ==
  /\ ticks \in 0..(WORD - 1) /\ target \in 0..(WORD - 1)
  /\ sleeping \in {"awake", "test", "hlt", "halted"}
  /\ due \in BOOLEAN /\ fits \in BOOLEAN
  /\ asked \in Nat /\ slept \in Nat

\* The counter has not wrapped since the call, nor will it before the sleep
\* must be over.
ClockInv ==
  fits => /\ sleeping # "awake"
          /\ ticks - slept = target - asked
          /\ slept <= ticks /\ target + Late < WORD

\* Ticks that the tasks behind slot i can take from now on.
Round(i) == (MAX_TASKS - 1 - i) * TASK_QUANTUM

\* Ticks until task 0 has the processor, at most.
Away == IF current = 0 THEN 0 ELSE Round(current) + quantum_left

\* Ticks that the next tick may cost task 0 by switching away from it.
Risk == IF quantum_left = 1 THEN Round(0) ELSE 0

\* How late the sleep can still become, from wherever timer_sleep and the
\* scheduler are.
LateInv ==
  /\ sleeping = "halted" => current = 0
  /\ fits =>
       LET over == slept - asked
       IN  /\ current # 0 /\ sleeping = "test" => over + Away <= Late
           /\ current # 0 /\ sleeping = "hlt"  => over + Away + 1 <= Late
           /\ current = 0 /\ sleeping = "test" =>
                IF due THEN over <= Late ELSE over + 1 + Risk <= Late
           /\ current = 0 /\ sleeping = "hlt" =>
                over < 0 \/ (due /\ over + 1 + Risk <= Late)
           /\ current = 0 /\ sleeping = "halted" => over + 1 + Risk <= Late

TimerInv ==
  /\ IInv
  /\ TimerTypeOK
  /\ ClockInv
  /\ LateInv

-----------------------------------------------------------------------------
(* The scheduler's clock.                                                  *)

\* A set of numbers that is not empty has a least element.
LEMMA LeastNumber ==
  ASSUME NEW S \in SUBSET Nat, S # {}
  PROVE  \E f \in S : \A g \in S : f <= g
<1> DEFINE R == {ss \in Nat \X Nat : ss[1] < ss[2]}
<1>1. IsWellFoundedOn(R, Nat)
  BY NatLessThanWellFounded, Zenon DEF OpToRel
<1>2. \A x, y \in Nat : x < y => <<x, y>> \in R
  OBVIOUS
<1> HIDE DEF R
<1>3. PICK f \in S : \A g \in S : ~(<<g, f>> \in R)
  BY <1>1, WFMin
<1>4. ASSUME NEW g \in S PROVE f <= g
  <2>1. g \in Nat /\ f \in Nat /\ ~(g < f)
    BY <1>2, <1>3
  <2> QED
    BY <2>1
<1> QED
  BY <1>3, <1>4

\* pick_next finds another task when there is one that can run.
LEMMA FindsAnother ==
  ASSUME NEW st, current \in Tasks, NEW j \in Tasks, j # current, Runnable(st, j)
  PROVE  \E next \in pick_next(st) : next # current
<1> USE MaxTasksAssumption
<1> DEFINE d == IF j > current THEN j - current ELSE j + MAX_TASKS - current
           S == {s \in 1..MAX_TASKS : Runnable(st, (current + s) % MAX_TASKS)}
<1>1. d \in 1..(MAX_TASKS - 1) /\ j = IF current + d < MAX_TASKS THEN current + d ELSE current + d - MAX_TASKS
  BY DEF Tasks
<1> HIDE DEF d
<1>2. d \in 1..MAX_TASKS /\ (current + d) % MAX_TASKS = j
  <2>1. d \in 1..MAX_TASKS
    BY <1>1
  <2> QED
    BY <1>1, <2>1, ScanSlot
<1>3. d \in S /\ S \in SUBSET Nat
  BY <1>2
<1>4. PICK step \in S : \A s \in S : step <= s
  BY <1>3, LeastNumber
<1>5. step \in 1..MAX_TASKS /\ step <= d
  BY <1>3, <1>4
<1> DEFINE next == (current + step) % MAX_TASKS
<1>6. next = IF current + step < MAX_TASKS THEN current + step ELSE current + step - MAX_TASKS
  BY <1>5, ScanSlot
<1>7. Runnable(st, next)
  BY <1>4
<1>8. \A s \in 1..(step - 1) : ~Runnable(st, (current + s) % MAX_TASKS)
  <2> SUFFICES ASSUME NEW s \in 1..(step - 1) PROVE s \notin S
    BY <1>5
  <2> QED
    BY <1>4, <1>5
<1> HIDE DEF S
<1>9. next \in Tasks /\ next # current
  <2>1. current \in 0..(MAX_TASKS - 1)
    BY DEF Tasks
  <2> HIDE DEF next
  <2> QED
    BY <1>1, <1>5, <1>6, <2>1 DEF Tasks
<1>10. next \in pick_next(st)
  BY <1>5, <1>7, <1>8, <1>9 DEF pick_next
<1> QED
  BY <1>9, <1>10

\* The rounds of the tasks behind a slot.
LEMMA RoundFacts ==
  /\ \A i \in Tasks : Round(i) \in Nat
  /\ Late = Round(0) + 1
  /\ \A i, j \in Tasks : i < j => Round(j) + TASK_QUANTUM <= Round(i)
<1> USE MaxTasksAssumption, QuantumAssumption
<1>1. ASSUME NEW i \in Tasks PROVE Round(i) \in Nat
  <2>1. MAX_TASKS - 1 - i \in Nat
    BY DEF Tasks
  <2> QED
    BY <2>1 DEF Round
<1>2. Late = Round(0) + 1
  BY DEF Late, Round
<1>3. ASSUME NEW i \in Tasks, NEW j \in Tasks, i < j PROVE Round(j) + TASK_QUANTUM <= Round(i)
  <2> DEFINE p == MAX_TASKS - 1 - j
             q == MAX_TASKS - 1 - i
  <2>1. p \in Int /\ q \in Int /\ p + 1 \in Int /\ p + 1 <= q
    BY <1>3 DEF Tasks
  <2>2. Round(j) = p * TASK_QUANTUM /\ Round(i) = q * TASK_QUANTUM
    BY DEF Round
  <2> HIDE DEF p, q
  <2>3. (p + 1) * TASK_QUANTUM <= q * TASK_QUANTUM
    BY <2>1, MultipleOrder
  <2>4. (p + 1) * TASK_QUANTUM = p * TASK_QUANTUM + TASK_QUANTUM
    BY <2>1
  <2> QED
    BY <2>2, <2>3, <2>4
<1> QED
  BY <1>1, <1>2, <1>3

\* What a tick does to the slot and to the quantum: while another task has
\* the processor, task 0 is ready, so that the quantum never lasts for ever
\* and a switch moves on towards it.
LEMMA TickFacts ==
  ASSUME IInv, irq_handler
  PROVE  /\ current \in Tasks /\ quantum_left \in 1..TASK_QUANTUM
         /\ current' \in Tasks /\ quantum_left' \in 1..TASK_QUANTUM
         /\ current' = current => quantum_left' \in {quantum_left, quantum_left - 1}
         /\ current' = current /\ current # 0 => quantum_left' = quantum_left - 1
         /\ current' # current => quantum_left = 1 /\ quantum_left' = TASK_QUANTUM
         /\ current' # current /\ current # 0 /\ current' # 0 => current < current'
<1> USE MaxTasksAssumption, QuantumAssumption, ZeroIsTask
<1> DEFINE st == ReapedState
<1>1. /\ current \in Tasks /\ quantum_left \in 1..TASK_QUANTUM
      /\ state[0] \in {"RUNNING", "READY"}
  BY DEF IInv, TypeOK, StatesInv
<1>2. Runnable(st, 0)
  BY <1>1 DEF Runnable, ReapedState, Reapable
<1> HIDE DEF st
<1>3. CASE QuantumLasts /\ quantum_left' = quantum_left - 1 /\ carry_on(st)
  <2>1. current' = current /\ quantum_left > 1
    BY <1>3 DEF carry_on, QuantumLasts
  <2> QED
    BY <1>1, <1>3, <2>1
<1>4. CASE pick_next(st) \subseteq {current} /\ carry_on(st) /\ UNCHANGED quantum_left
  <2>1. current' = current
    BY <1>4 DEF carry_on
  <2>2. current = 0
    BY <1>1, <1>2, <1>4, FindsAnother
  <2> QED
    BY <1>1, <1>4, <2>1, <2>2
<1>5. ASSUME ~QuantumLasts, NEW next \in pick_next(st) \ {current}, switch_to(st, next)
      PROVE  /\ current' \in Tasks /\ quantum_left' = TASK_QUANTUM /\ current' # current /\ quantum_left = 1
             /\ current # 0 /\ current' # 0 => current < current'
  <2>1. current' = next /\ quantum_left' = TASK_QUANTUM /\ next \in Tasks /\ next # current
    BY <1>5 DEF switch_to, quantum_Reset, pick_next
  <2>2. quantum_left = 1
    BY <1>1, <1>5 DEF QuantumLasts
  <2>3. ASSUME current # 0, next # 0 PROVE current < next
    <3> DEFINE ahead(c) == IF 0 > c THEN 0 - c ELSE 0 + MAX_TASKS - c
    <3>1. ahead(next) + 1 <= ahead(current)
      BY <1>1, <1>2, <1>5, <2>3, ComesNearer
    <3> QED
      BY <1>1, <2>1, <2>3, <3>1 DEF Tasks
  <2> QED
    BY <2>1, <2>2, <2>3
<1> QED
  BY <1>1, <1>3, <1>4, <1>5 DEF irq_handler, scheduler_tick, st

\* Every tick that another task has brings task 0 nearer to the processor,
\* and a switch away from task 0 costs a round at most. Back on the
\* processor it has a quantum before it.
LEMMA AwayTick ==
  ASSUME IInv, irq_handler
  PROVE  /\ Away \in Nat /\ Away' \in Nat /\ Risk \in Nat /\ Risk' \in Nat /\ Risk' + 1 <= Late
         /\ current # 0 => Away >= 1
         /\ current # 0 /\ current' # 0 => Away' + 1 <= Away
         /\ current # 0 /\ current' = 0 => Risk' = 0
         /\ current = 0 /\ current' # 0 => Away' <= Risk
<1> USE ZeroIsTask
<1>1. /\ current \in Tasks /\ quantum_left \in 1..TASK_QUANTUM
      /\ current' \in Tasks /\ quantum_left' \in 1..TASK_QUANTUM
      /\ current' = current /\ current # 0 => quantum_left' = quantum_left - 1
      /\ current' # current => quantum_left = 1 /\ quantum_left' = TASK_QUANTUM
      /\ current' # current /\ current # 0 /\ current' # 0 => current < current'
  BY TickFacts
<1>2. TASK_QUANTUM \in Nat /\ TASK_QUANTUM >= 2
  BY QuantumAssumption, SliceAssumption
<1>3. /\ Round(current) \in Nat /\ Round(current') \in Nat /\ Round(0) \in Nat /\ Late = Round(0) + 1
      /\ current < current' => Round(current') + TASK_QUANTUM <= Round(current)
      /\ 0 < current' => Round(current') + TASK_QUANTUM <= Round(0)
  BY <1>1, RoundFacts
<1>4. current' # 0 => 0 < current'
  BY <1>1 DEF Tasks
<1>5. /\ Away = IF current = 0 THEN 0 ELSE Round(current) + quantum_left
      /\ Away' = IF current' = 0 THEN 0 ELSE Round(current') + quantum_left'
      /\ Risk = IF quantum_left = 1 THEN Round(0) ELSE 0
      /\ Risk' = IF quantum_left' = 1 THEN Round(0) ELSE 0
  BY DEF Away, Risk, Round
<1> DEFINE A == Away'
           K == Risk'
           C == current'
           Q == quantum_left'
           rc == Round(current)
           rC == Round(C)
<1>6. current \in Int /\ C \in Int
  BY <1>1 DEF Tasks
<1>7. /\ rc \in Nat /\ rC \in Nat /\ Round(0) \in Nat /\ Late = Round(0) + 1
      /\ current < C => rC + TASK_QUANTUM <= rc
      /\ 0 < C => rC + TASK_QUANTUM <= Round(0)
      /\ C # 0 => 0 < C
      /\ quantum_left \in 1..TASK_QUANTUM /\ Q \in 1..TASK_QUANTUM
      /\ C = current /\ current # 0 => Q = quantum_left - 1
      /\ C # current => quantum_left = 1 /\ Q = TASK_QUANTUM
      /\ C # current /\ current # 0 /\ C # 0 => current < C
      /\ C = current => rC = rc
      /\ Away = IF current = 0 THEN 0 ELSE rc + quantum_left
      /\ A = IF C = 0 THEN 0 ELSE rC + Q
      /\ Risk = IF quantum_left = 1 THEN Round(0) ELSE 0
      /\ K = IF Q = 1 THEN Round(0) ELSE 0
  BY <1>1, <1>3, <1>4, <1>5
<1> HIDE DEF A, K, C, Q, rc, rC
<1>8. /\ Away \in Nat /\ A \in Nat /\ Risk \in Nat /\ K \in Nat /\ K + 1 <= Late
      /\ current # 0 => Away >= 1
      /\ current # 0 /\ C # 0 => A + 1 <= Away
      /\ current # 0 /\ C = 0 => K = 0
      /\ current = 0 /\ C # 0 => A <= Risk
  BY ONLY <1>2, <1>6, <1>7
<1> QED
  BY <1>8 DEF A, K, C

-----------------------------------------------------------------------------
(* The invariant is inductive.                                             *)

\* A tick while a sleep that fits is in progress: the counter does not wrap,
\* and the sleep has a tick to spare.
LEMMA TickClock ==
  ASSUME TimerInv, timer_tick, fits
  PROVE  /\ ticks' = ticks + 1 /\ slept' = slept + 1 /\ slept + 1 <= asked + Late
         /\ ClockInv'
<1>1. /\ ticks \in 0..(WORD - 1) /\ target \in 0..(WORD - 1) /\ asked \in Nat /\ slept \in Nat
      /\ sleeping \in {"test", "hlt", "halted"} /\ ticks - slept = target - asked
      /\ slept <= ticks /\ target + Late < WORD
  BY DEF TimerInv, TimerTypeOK, ClockInv
<1>2. IInv /\ irq_handler /\ ~due
  BY DEF TimerInv, timer_tick
<1>3. /\ Away \in Nat /\ Risk \in Nat /\ (current # 0 => Away >= 1)
      /\ Late \in Nat \ {0} /\ WORD \in Nat
  BY <1>2, AwayTick, RoundFacts, ZeroIsTask, WordAssumption
<1>4. slept + 1 <= asked + Late
  <2>1. \/ slept - asked + Away <= Late /\ current # 0
        \/ slept - asked + 1 + Risk <= Late
        \/ slept - asked < 0
    <3>1. \/ current # 0 /\ sleeping \in {"test", "hlt"}
          \/ current = 0 /\ sleeping \in {"test", "hlt", "halted"}
      BY <1>1 DEF TimerInv, LateInv
    <3>2. CASE current # 0 /\ sleeping = "hlt"
      <4>1. slept - asked + Away + 1 <= Late
        BY <3>2 DEF TimerInv, LateInv
      <4> QED
        BY <1>1, <1>3, <3>2, <4>1
    <3>3. CASE current # 0 /\ sleeping = "test"
      BY <3>3 DEF TimerInv, LateInv
    <3>4. CASE current = 0
      BY <1>2, <3>1, <3>4 DEF TimerInv, LateInv
    <3> QED
      BY <3>1, <3>2, <3>3, <3>4
  <2> HIDE DEF Late, Away, Risk
  <2> QED
    BY ONLY <1>1, <1>3, <2>1
<1>5. ticks + 1 < WORD /\ slept < WORD /\ ticks + 1 \in Nat /\ WORD \in Nat \ {0}
  BY ONLY <1>1, <1>3, <1>4
<1>6. (ticks + 1) % WORD = ticks + 1
  BY ONLY <1>5, SmallMod
<1>7. ticks' = ticks + 1 /\ slept' = slept + 1 /\ UNCHANGED <<target, fits, asked>>
  BY <1>5, <1>6 DEF timer_tick
<1>8. sleeping' # "awake"
  BY <1>1 DEF timer_tick, Woken
<1>9. ticks + 1 - (slept + 1) = target - asked /\ slept + 1 <= ticks + 1
  BY ONLY <1>1
<1> QED
  BY <1>1, <1>4, <1>7, <1>8, <1>9 DEF ClockInv, Late

\* A tick preserves the invariant.
LEMMA TimerTickStep ==
  ASSUME TimerInv, timer_tick
  PROVE  TimerInv'
<1>1. IInv /\ irq_handler /\ ~due /\ UNCHANGED <<target, fits, asked>>
  BY DEF TimerInv, timer_tick
<1>2. IInv'
  BY <1>1, TickStep
<1>3. /\ sleeping \in {"awake", "test", "hlt", "halted"} /\ fits \in BOOLEAN
      /\ asked \in Nat /\ slept \in Nat /\ ticks \in Nat /\ WORD \in Nat \ {0}
  BY WordAssumption DEF TimerInv, TimerTypeOK
<1>4. OnCpu0 <=> current = 0
  BY <1>1, OnCpu0IsCurrent
<1>5. OnCpu0' <=> current' = 0
  <2>1. StacksAssumption /\ cpuStack' \in Stacks \cup {BootStack} /\ cpuStack' = StackOf(current)'
        /\ (current' # 0 => cpuStack' \in heap') /\ heap' \subseteq Stacks
    BY <1>2, StacksAssumption DEF IInv, TypeOK, RunsOnLiveStack
  <2> QED
    BY <2>1, StacksAssumption DEF StackOf, OnCpu0
<1>6. /\ sleeping' = (IF current = 0 /\ sleeping = "halted" THEN "test" ELSE sleeping)
      /\ due' = (sleeping' \in {"test", "hlt"} /\ current' = 0)
  BY <1>4, <1>5 DEF timer_tick, Woken
<1>7. TimerTypeOK'
  <2>1. ticks' \in 0..(WORD - 1)
    <3>1. ticks + 1 \in Int
      BY <1>3
    <3>2. (ticks + 1) % WORD \in 0..(WORD - 1)
      BY <1>3, <3>1, DivModFacts
    <3> QED
      BY <3>2 DEF timer_tick
  <2>2. slept' \in Nat
    BY <1>3 DEF timer_tick
  <2>3. sleeping' \in {"awake", "test", "hlt", "halted"} /\ due' \in BOOLEAN
    BY <1>3, <1>6
  <2> QED
    BY <1>1, <2>1, <2>2, <2>3 DEF TimerInv, TimerTypeOK
<1>8. ClockInv'
  <2>1. CASE fits
    BY <2>1, TickClock
  <2>2. CASE ~fits
    BY <1>1, <2>2 DEF ClockInv
  <2> QED
    BY <2>1, <2>2
<1>9. LateInv'
  <2>1. sleeping' # "halted"
    BY <1>6 DEF TimerInv, LateInv
  <2>2. CASE ~fits
    BY <1>1, <2>1, <2>2 DEF LateInv
  <2>3. CASE fits
    <3> DEFINE over == slept - asked
               A == Away'
               K == Risk'
               C == current'
    <3>1. /\ slept' = slept + 1 /\ asked' = asked /\ over + 1 <= Late
          /\ sleeping \in {"test", "hlt", "halted"}
      <4>1. slept' = slept + 1 /\ slept + 1 <= asked + Late
        BY <2>3, TickClock
      <4>2. Late \in Nat
        BY RoundFacts, ZeroIsTask
      <4> QED
        BY <1>1, <1>3, <2>3, <4>1, <4>2 DEF TimerInv, ClockInv
    <3>2. /\ Away \in Nat /\ A \in Nat /\ Risk \in Nat /\ K \in Nat /\ K + 1 <= Late
          /\ current # 0 => Away >= 1
          /\ current # 0 /\ C # 0 => A + 1 <= Away
          /\ current # 0 /\ C = 0 => K = 0
          /\ current = 0 /\ C # 0 => A <= Risk
      BY <1>1, AwayTick
    <3>3. /\ current # 0 /\ sleeping = "test" => over + Away <= Late
          /\ current # 0 /\ sleeping = "hlt"  => over + Away + 1 <= Late
          /\ current = 0 /\ sleeping \in {"test", "halted"} => over + 1 + Risk <= Late
          /\ current = 0 /\ sleeping = "hlt" => over < 0
          /\ sleeping = "halted" => current = 0
      BY <1>1, <2>3 DEF TimerInv, LateInv
    <3>4. /\ C # 0 /\ sleeping' = "test" => over + 1 + A <= Late
          /\ C # 0 /\ sleeping' = "hlt"  => over + 1 + A + 1 <= Late
          /\ C = 0 /\ sleeping' = "hlt" => over + 1 < 0 \/ over + 1 + 1 + K <= Late
      <4>0. over \in Int /\ Late \in Nat
        BY <1>3, RoundFacts, ZeroIsTask
      <4>1. \/ current = 0 /\ sleeping \in {"test", "halted"} /\ sleeping' = "test"
            \/ current # 0 /\ sleeping = "test" /\ sleeping' = "test"
            \/ sleeping = "hlt" /\ sleeping' = "hlt"
        BY <1>6, <3>1, <3>3
      <4>2. Risk + 1 <= Late
        BY <1>1, RoundFacts, ZeroIsTask DEF Risk
      <4> HIDE DEF over, A, K, C, Late, Away, Risk
      <4>3. CASE current = 0 /\ sleeping \in {"test", "halted"} /\ sleeping' = "test"
        BY ONLY <3>2, <3>3, <4>0, <4>2, <4>3
      <4>4. CASE current # 0 /\ sleeping = "test" /\ sleeping' = "test"
        BY ONLY <3>2, <3>3, <4>0, <4>2, <4>4
      <4>5. CASE sleeping = "hlt" /\ sleeping' = "hlt"
        BY ONLY <3>2, <3>3, <4>0, <4>2, <4>5
      <4> QED
        BY <4>1, <4>3, <4>4, <4>5
    <3>5. slept' - asked' = over + 1
      BY <1>3, <3>1
    <3> HIDE DEF over
    <3> QED
      BY <1>6, <2>1, <3>1, <3>4, <3>5 DEF LateInv, A, K, C, Late
  <2> QED
    BY <1>3, <2>2, <2>3
<1> QED
  BY <1>2, <1>7, <1>8, <1>9 DEF TimerInv

\* A call of sleep whose ticks fit into a word: what is asked for is what the
\* words hold.
LEMMA SleepFits ==
  ASSUME TimerInv, NEW ms \in Durations, ms * TIMER_HZ < WORD,
         ticks + (ms * TIMER_HZ) \div SECOND + Late < WORD
  PROVE  /\ (ms * TIMER_HZ) \div SECOND \in Nat
         /\ (ticks + TicksFor(ms)) % WORD = ticks + (ms * TIMER_HZ) \div SECOND
<1> DEFINE x == ms * TIMER_HZ
           n == x \div SECOND
<1>1. /\ WORD \in Nat \ {0} /\ SECOND \in Nat \ {0} /\ TIMER_HZ \in Nat /\ ms \in Nat
      /\ ticks \in Nat /\ Late \in Nat
  BY WordAssumption, RoundFacts, ZeroIsTask DEF TimerInv, TimerTypeOK
<1>2. x \in Nat /\ x < WORD
  BY <1>1
<1> HIDE DEF x
<1>3. x % WORD = x /\ n \in Nat
  BY <1>1, <1>2, SmallMod, DivNat
<1>4. TicksFor(ms) = n
  BY <1>3 DEF TicksFor, x
<1>5. ticks + n + Late < WORD
  BY DEF x
<1> HIDE DEF n
<1>6. ticks + n \in Nat /\ ticks + n < WORD
  BY ONLY <1>1, <1>3, <1>5
<1>7. (ticks + n) % WORD = ticks + n
  BY <1>1, <1>6, SmallMod
<1> QED
  BY <1>3, <1>4, <1>7 DEF n, x

\* The steps of sleep and the interrupts that end its hlt preserve the
\* invariant.
LEMMA SleepSteps ==
  ASSUME TimerInv, other_irq \/ cmd_sleep \/ sleepStep
  PROVE  TimerInv'
<1>1. UNCHANGED vars
  BY DEF other_irq, cmd_sleep, sleepStep, sleep_test, sleep_hlt
<1>2. UNCHANGED <<current, quantum_left, Away, Risk>>
  BY <1>1 DEF vars, Away, Risk
<1>3. IInv'
  BY <1>1, NextIInv DEF TimerInv
<1>4. current = 0
  BY OnCpu0IsCurrent DEF TimerInv, other_irq, cmd_sleep, sleepStep, sleep_test, sleep_hlt
<1>5. /\ ticks \in 0..(WORD - 1) /\ target \in 0..(WORD - 1) /\ WORD \in Nat \ {0}
      /\ asked \in Nat /\ slept \in Nat /\ due \in BOOLEAN /\ fits \in BOOLEAN
      /\ Late \in Nat /\ Risk \in Nat /\ Risk + 1 <= Late
  <2>1. Risk \in Nat /\ Risk + 1 <= Late /\ Late \in Nat
    BY RoundFacts, ZeroIsTask DEF Risk
  <2> QED
    BY <2>1, WordAssumption DEF TimerInv, TimerTypeOK
<1>6. CASE other_irq
  <2>1. UNCHANGED <<ticks, target, due, fits, asked, slept>> /\ sleeping = "halted" /\ sleeping' = "test"
    BY <1>6 DEF other_irq, Woken
  <2>2. TimerTypeOK' /\ ClockInv'
    BY <2>1 DEF TimerInv, TimerTypeOK, ClockInv
  <2>3. fits => slept - asked + 1 + Risk <= Late
    BY <1>4, <2>1 DEF TimerInv, LateInv
  <2>4. fits => slept - asked <= Late
    <3> HIDE DEF Late, Risk
    <3> QED
      BY ONLY <1>5, <2>3
  <2>5. LateInv'
    BY <1>2, <1>4, <2>1, <2>3, <2>4 DEF LateInv, Late
  <2> QED
    BY <1>3, <2>2, <2>5 DEF TimerInv
<1>7. CASE cmd_sleep
  <2>1. PICK ms \in Durations :
          /\ target' = (ticks + TicksFor(ms)) % WORD
          /\ fits' = (ms * TIMER_HZ < WORD /\ ticks + (ms * TIMER_HZ) \div SECOND + Late < WORD)
          /\ asked' = IF fits' THEN (ms * TIMER_HZ) \div SECOND ELSE 0
    BY <1>7 DEF cmd_sleep
  <2>2. sleeping' = "test" /\ slept' = 0 /\ UNCHANGED <<ticks, due>>
    BY <1>7 DEF cmd_sleep
  <2>3. fits' => asked' \in Nat /\ target' = ticks + asked' /\ ticks + asked' + Late < WORD
    BY <2>1, SleepFits
  <2>4. fits' \in BOOLEAN /\ asked' \in Nat
    BY <2>1, <2>3
  <2>5. target' \in 0..(WORD - 1)
    <3>1. ticks + TicksFor(ms) \in Int
      <4>1. /\ ms * TIMER_HZ \in Int /\ SECOND \in Nat \ {0}
        BY WordAssumption
      <4>2. (ms * TIMER_HZ) % WORD \in Int
        BY <1>5, <4>1, DivModFacts
      <4>3. TicksFor(ms) \in Int
        BY <4>1, <4>2, DivModFacts DEF TicksFor
      <4> QED
        BY <1>5, <4>3
    <3> QED
      BY <1>5, <2>1, <3>1, DivModFacts
  <2>6. TimerTypeOK'
    BY <1>5, <2>2, <2>4, <2>5 DEF TimerTypeOK
  <2> DEFINE a == asked'
             t == target'
  <2>7. fits' => ticks - 0 = t - a /\ 0 <= ticks /\ t + Late < WORD
    <3>1. fits' => a \in Nat /\ t = ticks + a /\ ticks + a + Late < WORD
      BY <2>3
    <3> HIDE DEF a, t, Late
    <3> QED
      BY <1>5, <3>1
  <2>8. 0 - a <= Late /\ 0 - a + 1 + Risk <= Late
    <3>1. a \in Nat
      BY <2>4
    <3> HIDE DEF a, Late, Risk
    <3> QED
      BY ONLY <1>5, <3>1
  <2>9. ClockInv'
    BY <2>2, <2>7 DEF ClockInv, Late
  <2>10. LateInv'
    BY <1>2, <1>4, <2>2, <2>8 DEF LateInv, Late
  <2> QED
    BY <1>3, <2>6, <2>9, <2>10 DEF TimerInv
<1>8. CASE sleep_test
  <2>1. UNCHANGED ticks /\ due' = FALSE /\ sleeping = "test"
    BY <1>8 DEF sleep_test
  <2>2. CASE ~Waiting
    <3>1. sleeping' = "awake" /\ target' = 0 /\ fits' = FALSE /\ asked' = 0 /\ slept' = 0
      BY <1>8, <2>2 DEF sleep_test
    <3>2. 0 \in 0..(WORD - 1)
      BY <1>5
    <3>3. TimerTypeOK'
      BY <1>5, <2>1, <3>1, <3>2 DEF TimerTypeOK
    <3>4. ClockInv' /\ LateInv'
      BY <3>1 DEF ClockInv, LateInv
    <3> QED
      BY <1>3, <3>3, <3>4 DEF TimerInv
  <2>3. CASE Waiting
    <3>1. sleeping' = "hlt" /\ UNCHANGED <<target, fits, asked, slept>>
      BY <1>8, <2>3 DEF sleep_test
    <3>2. TimerTypeOK' /\ ClockInv'
      BY <2>1, <3>1 DEF TimerInv, TimerTypeOK, ClockInv
    <3>3. fits => slept - asked < 0
      BY <1>5, <2>3 DEF TimerInv, ClockInv, Waiting
    <3>4. LateInv'
      BY <1>2, <1>4, <3>1, <3>3 DEF LateInv
    <3> QED
      BY <1>3, <3>2, <3>4 DEF TimerInv
  <2> QED
    BY <2>2, <2>3
<1>9. CASE sleep_hlt
  <2>1. /\ UNCHANGED <<ticks, target, fits, asked, slept>> /\ due' = FALSE
        /\ sleeping = "hlt" /\ sleeping' = "halted"
    BY <1>9 DEF sleep_hlt
  <2>2. TimerTypeOK' /\ ClockInv'
    BY <2>1 DEF TimerInv, TimerTypeOK, ClockInv
  <2>3. fits => slept - asked + 1 + Risk <= Late
    <3>1. fits => slept - asked < 0 \/ slept - asked + 1 + Risk <= Late
      BY <1>4, <2>1 DEF TimerInv, LateInv
    <3> HIDE DEF Late, Risk
    <3> QED
      BY ONLY <1>5, <3>1
  <2>4. LateInv'
    BY <1>2, <1>4, <2>1, <2>3 DEF LateInv, Late
  <2> QED
    BY <1>3, <2>2, <2>4 DEF TimerInv
<1> QED
  BY <1>6, <1>7, <1>8, <1>9 DEF sleepStep

\* The rest of the kernel moves the scheduler and leaves sleep alone; while
\* task 0 sleeps, only another task's exit is left.
LEMMA OthersStep ==
  ASSUME TimerInv, others
  PROVE  TimerInv'
<1>1. UNCHANGED timerVars /\ Next
  BY DEF others, Next
<1>2. IInv'
  BY <1>1, NextIInv DEF TimerInv
<1>3. TimerTypeOK' /\ ClockInv'
  BY <1>1 DEF timerVars, TimerInv, TimerTypeOK, ClockInv
<1>4. UNCHANGED <<current, quantum_left>>
  BY DEF others, task_create, create_scan, create_kmalloc, create_esp, create_stack_base,
         create_state, create_slices, task_kill, kill_mark, task_exit, KernelStep
<1>5. UNCHANGED <<Away, Risk>>
  BY <1>4 DEF Away, Risk
<1>6. LateInv'
  BY <1>1, <1>4, <1>5 DEF timerVars, TimerInv, LateInv
<1> QED
  BY <1>2, <1>3, <1>6 DEF TimerInv

\* Every step preserves the invariant.
LEMMA NextTimerInv == TimerInv /\ [NextTimer]_allVars => TimerInv'
<1> SUFFICES ASSUME TimerInv, [NextTimer]_allVars PROVE TimerInv'
  OBVIOUS
<1>1. CASE UNCHANGED allVars
  <2>1. UNCHANGED vars /\ UNCHANGED timerVars
    BY <1>1 DEF allVars
  <2>2. IInv'
    BY <2>1, NextIInv DEF TimerInv
  <2>3. UNCHANGED <<current, Away, Risk>>
    BY <2>1 DEF vars, Away, Risk
  <2> QED
    BY <2>1, <2>2, <2>3 DEF timerVars, TimerInv, TimerTypeOK, ClockInv, LateInv
<1> QED
  BY <1>1, TimerTickStep, SleepSteps, OthersStep DEF NextTimer

\* The inductive invariant holds in every state of the kernel with its timer.
THEOREM TimerInvariance == SpecTimer => []TimerInv
<1>1. InitTimer => TimerInv
  <2> SUFFICES ASSUME InitTimer PROVE TimerInv
    OBVIOUS
  <2>1. 0 \in 0..(WORD - 1)
    BY WordAssumption
  <2>2. TimerTypeOK
    BY <2>1 DEF InitTimer, TimerTypeOK
  <2>3. ClockInv /\ LateInv
    BY DEF InitTimer, ClockInv, LateInv
  <2> QED
    BY <2>2, <2>3, InitIInv DEF InitTimer, TimerInv
<1> QED
  BY <1>1, NextTimerInv, PTL DEF SpecTimer

\* The kernel with its timer is a behaviour of Scheduler: what is proved of
\* Scheduler holds here too.
THEOREM TimerSchedules == SpecTimer => Spec
<1>1. InitTimer => Init
  BY DEF InitTimer
<1>2. [NextTimer]_allVars => [Next]_vars
  <2>1. NextTimer => Next \/ UNCHANGED vars
    BY DEF NextTimer, timer_tick, other_irq, cmd_sleep, sleepStep, sleep_test, sleep_hlt, others, Next
  <2>2. UNCHANGED allVars => UNCHANGED vars
    BY DEF allVars
  <2> QED
    BY <2>1, <2>2
<1> QED
  BY <1>1, <1>2, PTL DEF SpecTimer, Spec

\* sleep never returns early, whatever interrupts end its hlt, and at most a
\* round of the other tasks and one tick late, wherever the ticks fall
\* between its test and its hlt.
THEOREM SleepOnTimeThm == SpecTimer => SleepOnTime
<1> DEFINE OnTime == sleeping # "awake" /\ sleeping' = "awake" /\ fits
                       => slept \in asked..(asked + Late)
<1>1. TimerInv /\ [NextTimer]_allVars => [OnTime]_allVars
  <2> SUFFICES ASSUME TimerInv, NextTimer, sleeping # "awake", sleeping' = "awake", fits
               PROVE  slept \in asked..(asked + Late)
    OBVIOUS
  <2>1. sleep_test /\ ~Waiting /\ sleeping = "test"
    BY DEF NextTimer, timer_tick, Woken, other_irq, cmd_sleep, sleepStep, sleep_test, sleep_hlt,
           others, timerVars
  <2>2. current = 0 /\ Risk \in Nat /\ Late \in Nat
    BY <2>1, OnCpu0IsCurrent, RoundFacts, ZeroIsTask DEF TimerInv, sleep_test, Risk
  <2>3. /\ asked \in Nat /\ slept \in Nat /\ ticks \in Nat /\ target \in Nat
        /\ ticks - slept = target - asked /\ ~(ticks < target)
    BY <2>1, WordAssumption DEF TimerInv, TimerTypeOK, ClockInv, Waiting
  <2>4. slept - asked <= Late \/ slept - asked + 1 + Risk <= Late
    BY <2>1, <2>2 DEF TimerInv, LateInv
  <2> HIDE DEF Late, Risk
  <2> QED
    BY ONLY <2>2, <2>3, <2>4
<1> QED
  BY <1>1, TimerInvariance, PTL DEF SpecTimer, SleepOnTime
=============================================================================
