----------------------------- MODULE Scheduler -----------------------------
(***************************************************************************)
(* The preemptive round-robin scheduler of task.c, entered from the timer  *)
(* interrupt (isr.c, timer.c) and leaving through context_switch           *)
(* (switch.asm).                                                           *)
(*                                                                         *)
(* Two kinds of code run here.  The interrupt path runs with the interrupt *)
(* flag clear, so one interrupt is one step.  Task 0, the shell, runs with *)
(* interrupts enabled: task_create and task_kill are split at every write  *)
(* to the task table, and a tick may fall between any two of them.         *)
(*                                                                         *)
(* The kernel heap appears only as the set of stacks it has handed out;    *)
(* kmalloc and kfree are single steps here (module Heap opens them up).    *)
(* scheduler_enable and task_yield have no caller in the kernel: the       *)
(* scheduler is enabled from scheduler_init on, and every switch is a      *)
(* preemption.                                                             *)
(***************************************************************************)
EXTENDS Integers, FiniteSets

CONSTANTS
  MAX_TASKS,     \* slots of the task table
  TASK_QUANTUM,  \* ticks a task runs before it is preempted
  Stacks,        \* heap blocks of TASK_STACK_SIZE bytes kmalloc can return
  BootStack,     \* the stack boot.asm set up, on which task 0 runs
  NoStack,       \* the null pointer
  CounterMod     \* the statistics counters wrap modulo this (2^32)

ASSUME MaxTasksAssumption == MAX_TASKS \in Nat \ {0}
ASSUME QuantumAssumption  == TASK_QUANTUM \in Nat \ {0}
ASSUME CounterAssumption  == CounterMod \in Nat \ {0}
ASSUME StacksAssumption   == /\ BootStack \notin Stacks
                             /\ NoStack \notin Stacks
                             /\ BootStack # NoStack

Tasks == 0..(MAX_TASKS - 1)

VARIABLES
  \* --- the task table, one function per field of task_t
  state,         \* "UNUSED", "READY", "RUNNING" or "DEAD"
  esp,           \* the saved context: which stack it is on, how it resumes
  stack_base,    \* the heap block backing the stack
  slices,        \* how many times the task has been scheduled
  \* --- the scheduler's own variables
  current,
  quantum_left,
  \* --- the machine
  heap,          \* stacks kmalloc has handed out and kfree has not taken back
  cpuStack,      \* the stack the processor is executing on
  intFlag,       \* EFLAGS.IF
  inService,     \* the PIC's in-service bit for IRQ0
  \* --- task 0's locals inside task_create and task_kill
  pc,            \* the write task 0 performs next
  slot,          \* slot (task_create) or id (task_kill)
  stack,         \* the result of kmalloc
  \* --- history variables, read by no action
  ran,           \* ticks since the last switch, at most TASK_QUANTUM
  waited         \* switches since the task last became ready

table  == <<state, esp, stack_base, slices>>
locals == <<pc, slot, stack>>
vars   == <<table, current, quantum_left, heap, cpuStack, intFlag, inService,
            locals, ran, waited>>

-----------------------------------------------------------------------------
(* Contexts. A context is saved either by the crafted stack of task_create *)
(* or by context_switch from inside the timer interrupt.                   *)

NoContext == [stack |-> NoStack, at |-> "none", ints |-> FALSE]

\* Mutant: the crafted eflags word has IF clear.
CraftedFrame_NoIF(s) == [stack |-> s, at |-> "entry", ints |-> FALSE]

\* The stack task_create builds: entry() below eight zero registers below
\* eflags = 0x202.
CraftedFrame(s) == [stack |-> s, at |-> "entry", ints |-> TRUE]

\* What pusha / pushfd leave on the outgoing stack: IF is clear, because
\* the stub executed cli.
InterruptFrame(s) == [stack |-> s, at |-> "irq", ints |-> FALSE]

\* A context saved inside the interrupt returns through irq_common_stub to
\* iret, which restores the interrupted code's IF: it was set, or the
\* interrupt would not have been taken.
iret(frame) == frame.at = "irq"

\* popfd, popa and ret on the incoming stack.
resume(frame) ==
  /\ cpuStack' = frame.stack
  /\ intFlag'  = (frame.ints \/ iret(frame))

-----------------------------------------------------------------------------
(* scheduler_init, after which kernel_main executes sti.                   *)

Init ==
  /\ state        = [i \in Tasks |-> IF i = 0 THEN "RUNNING" ELSE "UNUSED"]
  /\ esp          = [i \in Tasks |-> NoContext]
  /\ stack_base   = [i \in Tasks |-> NoStack]
  /\ slices       = [i \in Tasks |-> IF i = 0 THEN 1 % CounterMod ELSE 0]
  /\ current      = 0
  /\ quantum_left = TASK_QUANTUM
  /\ heap         = {}
  /\ cpuStack     = BootStack
  /\ intFlag      = TRUE
  /\ inService    = FALSE
  /\ pc           = "idle"
  /\ slot         = 0
  /\ stack        = NoStack
  /\ ran          = 0
  /\ waited       = [i \in Tasks |-> 0]

-----------------------------------------------------------------------------
(* The interrupt path.                                                     *)

\* Mutant: the test i != current is missing.
Reapable_Current == {i \in Tasks \ {0} : state[i] = "DEAD"}

\* The slots reap() empties.
Reapable == {i \in Tasks \ {0} : state[i] = "DEAD" /\ i # current}

\* Mutant: reap() leaves the freed stack's address in the slot.
reap_KeepBase ==
  /\ heap' = heap \ {stack_base[i] : i \in Reapable}
  /\ UNCHANGED stack_base

\* reap(): kfree rejects the null pointer, so a slot killed twice frees
\* its stack once.
reap ==
  /\ heap'       = heap \ {stack_base[i] : i \in Reapable}
  /\ stack_base' = [i \in Tasks |-> IF i \in Reapable THEN NoStack ELSE stack_base[i]]

\* tasks[].state once reap() has run.
ReapedState == [i \in Tasks |-> IF i \in Reapable THEN "UNUSED" ELSE state[i]]

Runnable(st, i) == st[i] \in {"READY", "RUNNING"}

\* Mutant: the scan starts at slot 0 every time.
pick_next_FromZero(st) ==
  {i \in Tasks : Runnable(st, i) /\ i # current
                   /\ \A j \in 0..(i - 1) : ~Runnable(st, j) \/ j = current}

\* pick_next(): the first runnable slot after current, cyclically, current
\* itself last. A set with one element, or none where the code returns -1.
pick_next(st) ==
  {i \in Tasks :
     \E step \in 1..MAX_TASKS :
       /\ i = (current + step) % MAX_TASKS
       /\ Runnable(st, i)
       /\ \A s \in 1..(step - 1) : ~Runnable(st, (current + s) % MAX_TASKS)}

\* Mutant: the outgoing task becomes READY even when it is DEAD.
Parked_Always(st) == "READY"

\* What switch_to leaves in the outgoing task's state.
Parked(st) == IF st[current] = "RUNNING" THEN "READY" ELSE st[current]

\* Mutant: quantum_left is not reset.
quantum_NoReset == quantum_left

\* quantum_left after a switch.
quantum_Reset == TASK_QUANTUM

\* switch_to(next): st is the table's state when it is called.
switch_to(st, next) ==
  /\ state'        = [st EXCEPT ![current] = Parked(st), ![next] = "RUNNING"]
  /\ current'      = next
  /\ slices'       = [slices EXCEPT ![next] = (@ + 1) % CounterMod]
  /\ quantum_left' = quantum_Reset
  /\ esp'          = [esp EXCEPT ![current] = InterruptFrame(cpuStack)]
  /\ resume(esp[next])
  /\ ran'          = 0
  /\ waited'       = [i \in Tasks |-> IF i \in {current, next} \/ st[i] # "READY"
                                      THEN 0 ELSE waited[i] + 1]

\* The interrupted code goes on: no switch.
carry_on(st) ==
  /\ state'  = st
  /\ ran'    = IF ran < TASK_QUANTUM THEN ran + 1 ELSE ran
  /\ waited' = [i \in Tasks |-> IF st[i] = "READY" THEN waited[i] ELSE 0]
  /\ UNCHANGED <<esp, slices, current, cpuStack, intFlag>>

\* Mutant: the quantum is counted down to zero.
QuantumLasts_ToZero == quantum_left > 0

QuantumLasts == quantum_left > 1

\* scheduler_tick(): reap, count the quantum down, else switch. switch_to
\* returns at once, with quantum_left as it is, when there is no other
\* runnable task.
scheduler_tick ==
  /\ reap
  /\ \/ /\ QuantumLasts
        /\ quantum_left' = quantum_left - 1
        /\ carry_on(ReapedState)
     \/ /\ ~QuantumLasts
        /\ pick_next(ReapedState) \subseteq {current}
        /\ carry_on(ReapedState)
        /\ UNCHANGED quantum_left
     \/ /\ ~QuantumLasts
        /\ \E next \in pick_next(ReapedState) \ {current} :
             switch_to(ReapedState, next)

\* Mutant: the PIC is acknowledged after timer_tick() returns, which it
\* does not do when the switch enters a fresh task.
irq_handler_EoiLast ==
  /\ intFlag /\ ~inService
  /\ scheduler_tick
  /\ inService' = (current' # current /\ esp[current'].at = "entry")
  /\ UNCHANGED locals

\* IRQ0. The processor takes it when IF is set and the PIC does not hold
\* IRQ0 in service. Delivery sets the in-service bit and the handler's
\* first act, the end-of-interrupt, clears it again before timer_tick()
\* can leave for another stack.
irq_handler ==
  /\ intFlag /\ ~inService
  /\ inService' = FALSE
  /\ scheduler_tick
  /\ UNCHANGED locals

-----------------------------------------------------------------------------
(* Task 0: the shell's spawn and kill, one table write per step.           *)

\* Task 0 executes while the processor is on the boot stack.
OnCpu0 == cpuStack = BootStack

Goto(label) == pc' = label

\* Return to the shell: the locals are gone.
Return == pc' = "idle" /\ slot' = 0 /\ stack' = NoStack

\* Everything the interrupt path alone writes.
KernelStep == UNCHANGED <<current, quantum_left, cpuStack, intFlag, inService, ran>>

\* cmd_spawn -> task_create: begin the scan at slot 1.
task_create ==
  /\ OnCpu0 /\ pc = "idle"
  /\ Goto("scan") /\ slot' = 1
  /\ KernelStep
  /\ UNCHANGED <<table, heap, stack, waited>>

\* One iteration of the search for an unused slot.
create_scan ==
  /\ OnCpu0 /\ pc = "scan"
  /\ \/ slot >= MAX_TASKS /\ Return
     \/ /\ slot < MAX_TASKS /\ state[slot] = "UNUSED"
        /\ Goto("kmalloc") /\ UNCHANGED <<slot, stack>>
     \/ /\ slot < MAX_TASKS /\ state[slot] # "UNUSED"
        /\ slot' = slot + 1 /\ UNCHANGED <<pc, stack>>
  /\ KernelStep
  /\ UNCHANGED <<table, heap, waited>>

\* Mutant: the crafted context is published before it is written.
create_kmalloc_StateFirst ==
  /\ OnCpu0 /\ pc = "kmalloc"
  /\ \/ \E s \in Stacks \ heap :
          /\ heap' = heap \cup {s} /\ stack' = s /\ Goto("esp")
          /\ state' = [state EXCEPT ![slot] = "READY"] /\ UNCHANGED slot
     \/ Return /\ UNCHANGED <<heap, state>>
  /\ KernelStep
  /\ UNCHANGED <<esp, stack_base, slices, waited>>

\* kmalloc(TASK_STACK_SIZE): some block, or none when the heap is exhausted.
create_kmalloc ==
  /\ OnCpu0 /\ pc = "kmalloc"
  /\ \/ \E s \in Stacks \ heap :
          heap' = heap \cup {s} /\ stack' = s /\ Goto("esp") /\ UNCHANGED slot
     \/ Return /\ UNCHANGED heap
  /\ KernelStep
  /\ UNCHANGED <<table, waited>>

\* tasks[slot].esp = sp, the frame built at the top of the new stack.
create_esp ==
  /\ OnCpu0 /\ pc = "esp"
  /\ esp' = [esp EXCEPT ![slot] = CraftedFrame(stack)]
  /\ Goto("stack_base")
  /\ KernelStep
  /\ UNCHANGED <<state, stack_base, slices, heap, slot, stack, waited>>

\* tasks[slot].stack_base = stack (and id, which equals the slot).
create_stack_base ==
  /\ OnCpu0 /\ pc = "stack_base"
  /\ stack_base' = [stack_base EXCEPT ![slot] = stack]
  /\ Goto("state")
  /\ KernelStep
  /\ UNCHANGED <<state, esp, slices, heap, slot, stack, waited>>

\* tasks[slot].state = TASK_READY: from here on a tick may run the task.
create_state ==
  /\ OnCpu0 /\ pc = "state"
  /\ state'     = [state EXCEPT ![slot] = "READY"]
  /\ waited'    = [waited EXCEPT ![slot] = 0]
  /\ Goto("slices")
  /\ KernelStep
  /\ UNCHANGED <<esp, stack_base, slices, heap, slot, stack>>

\* tasks[slot].slices = 0 (and counter and name), and return the slot.
create_slices ==
  /\ OnCpu0 /\ pc = "slices"
  /\ slices' = [slices EXCEPT ![slot] = 0]
  /\ Return
  /\ KernelStep
  /\ UNCHANGED <<state, esp, stack_base, heap, waited>>

\* cmd_kill -> task_kill(id): the checks. Task 0, an id outside the table
\* and an unused slot are refused, which changes nothing.
task_kill ==
  /\ OnCpu0 /\ pc = "idle"
  /\ \E id \in Tasks \ {0} :
       /\ state[id] # "UNUSED"
       /\ slot' = id
  /\ Goto("kill")
  /\ KernelStep
  /\ UNCHANGED <<table, heap, stack, waited>>

\* tasks[id].state = TASK_DEAD: a tick may have emptied the slot meanwhile.
kill_mark ==
  /\ OnCpu0 /\ pc = "kill"
  /\ state'  = [state EXCEPT ![slot] = "DEAD"]
  /\ waited' = [waited EXCEPT ![slot] = 0]
  /\ Return
  /\ KernelStep
  /\ UNCHANGED <<esp, stack_base, slices, heap>>

-----------------------------------------------------------------------------
(* The other tasks. Their work touches nothing the scheduler reads; an     *)
(* entry() that returns lands in task_exit, which marks the task dead and  *)
(* halts on its own stack until a tick moves the processor off it.         *)

task_exit ==
  /\ ~OnCpu0
  /\ state[current] = "RUNNING"
  /\ state'   = [state EXCEPT ![current] = "DEAD"]
  /\ intFlag' = TRUE
  /\ UNCHANGED <<esp, stack_base, slices, current, quantum_left, heap, cpuStack,
                 inService, locals, ran, waited>>

Next ==
  \/ irq_handler
  \/ task_create \/ create_scan \/ create_kmalloc \/ create_esp
  \/ create_stack_base \/ create_state \/ create_slices
  \/ task_kill \/ kill_mark
  \/ task_exit

Spec == Init /\ [][Next]_vars

-----------------------------------------------------------------------------
(* Properties.                                                             *)

Frames == [stack : Stacks \cup {BootStack, NoStack},
           at    : {"entry", "irq", "none"},
           ints  : BOOLEAN]

Labels == {"idle", "scan", "kmalloc", "esp", "stack_base", "state", "slices", "kill"}

\* The types of the task table, the scheduler's variables and the machine.
TypeOK ==
  /\ state \in [Tasks -> {"UNUSED", "READY", "RUNNING", "DEAD"}]
  /\ esp \in [Tasks -> Frames]
  /\ stack_base \in [Tasks -> Stacks \cup {NoStack}]
  /\ slices \in [Tasks -> 0..(CounterMod - 1)]
  /\ current \in Tasks
  /\ quantum_left \in 1..TASK_QUANTUM
  /\ heap \in SUBSET Stacks
  /\ cpuStack \in Stacks \cup {BootStack}
  /\ intFlag \in BOOLEAN
  /\ inService \in BOOLEAN
  /\ pc \in Labels
  /\ slot \in 0..MAX_TASKS
  /\ stack \in Stacks \cup {NoStack}
  /\ ran \in 0..TASK_QUANTUM
  /\ waited \in [Tasks -> Nat]

\* The stack a task owns.
StackOf(i) == IF i = 0 THEN BootStack ELSE stack_base[i]

\* The processor is always on the stack of the task the scheduler calls
\* current, and unless that is the boot stack the heap has not taken it
\* back: reap() never frees the stack it is running on, whatever order
\* kill, exit and the ticks come in.
RunsOnLiveStack ==
  /\ cpuStack = StackOf(current)
  /\ current # 0 => cpuStack \in heap

\* Whatever pick_next may choose can be resumed: a READY task other than
\* the current one has a complete saved context, on its own stack, which
\* is still allocated.
ReadyIsResumable ==
  \A i \in Tasks \ {current} :
    state[i] = "READY" =>
      /\ esp[i].stack = StackOf(i)
      /\ esp[i].at # "none"
      /\ i # 0 => esp[i].stack \in heap

\* The stack task_create has obtained and not yet recorded.
Pending == IF pc \in {"esp", "stack_base"} THEN {stack} ELSE {}

\* Every allocated stack has exactly one owner, a slot or the task_create
\* in progress, and every owner's stack is allocated: no leak, no sharing,
\* no dangling stack_base, also when a kill and a tick race.
StacksOwnedOnce ==
  /\ heap = Pending \cup ({stack_base[i] : i \in Tasks} \ {NoStack})
  /\ \A i \in Tasks : stack_base[i] # NoStack => stack_base[i] \notin Pending
  /\ \A i, j \in Tasks : stack_base[i] = stack_base[j] /\ stack_base[i] # NoStack => i = j

\* The next tick can always be taken: whichever context the last switch
\* entered, interrupts are enabled there and the PIC is not waiting for an
\* end-of-interrupt that will never come.
TicksKeepComing == intFlag /\ ~inService

\* A dead task never runs again: its slot stays DEAD until reap() empties
\* it (switch_to must not park a dead task as READY).
DeadStaysDead ==
  [][\A i \in Tasks : state[i] = "DEAD" => state'[i] \in {"DEAD", "UNUSED"}]_vars

\* A task that was switched to and is alive is not switched away from before
\* TASK_QUANTUM ticks have passed (task.h: ticks a task runs before it is
\* preempted).
FullQuantum ==
  [][current' # current /\ state[current] # "DEAD" => ran + 1 >= TASK_QUANTUM]_vars

\* Round robin: once a task is ready at most MAX_TASKS - 2 switches choose
\* somebody else before it runs.
BoundedWait == \A i \in Tasks : waited[i] <= IF MAX_TASKS >= 2 THEN MAX_TASKS - 2 ELSE 0

\* With the timer running every ready task is eventually switched to (or
\* killed): the acknowledgement of the PIC and the crafted eflags keep the
\* ticks coming whichever context a switch enters.
ReadyTaskRuns == \A i \in Tasks : state[i] = "READY" ~> state[i] # "READY"

\* A dead task's slot is eventually emptied, also when the task died by
\* task_exit and is itself the current one.
DeadTaskReaped == \A i \in Tasks : state[i] = "DEAD" ~> state[i] # "DEAD"
=============================================================================
