# A TLA+ model of jarvisOS

jarvisOS is a small 32-bit x86 kernel: one address space, one processor, a
preemptive round-robin scheduler, a frame allocator, paging, a heap, and a
shell that is driven from the keyboard and from a serial line (on which a host
program, the agent, types commands). This directory holds TLA+ modules that
model it, TLC configurations that check them on small instances, and proofs
that TLAPS checks for every value of the constants. `PROJECT.json` lists the
runs, the mutants, the source lines behind every definition, the hazards and
the theorems.

## The system

| Component | State | Operations | Interacts with |
|---|---|---|---|
| scheduler (`task.c`, `switch.asm`) | `tasks[]`, `current`, `quantum_left` | `task_create`, `task_kill`, `task_exit`, `scheduler_tick` (`reap`, `pick_next`, `switch_to`) | heap (stacks), timer interrupt, shell |
| interrupts (`isr.c`, `isr.asm`, `idt.c`) | gates, PIC in-service bits, IF | `irq_handler`: acknowledge, then timer / keyboard / serial handler | everything that runs in interrupt context |
| heap (`heap.c`) | block headers in memory, `head`, `brk` | `kmalloc`, `kfree`, `coalesce`, `extend_heap` | paging (growth), scheduler (stacks), shell |
| frames (`pmm.c`) | `bitmap`, `used_frames`, `total_frames` | `pmm_init`, `pmm_alloc_frame`, `pmm_free_frame` | paging, shell |
| paging (`paging.c`) | directory, tables, counters, the TLB | `paging_map`, `paging_unmap`, `paging_translate` | frames, heap, shell |
| memory map (`memory.c`) | usable regions | reads the boot loader's map | frames |
| input and shell (`shell.c`) | ring, line buffer | `shell_push_char`, `shell_poll`, `shell_input_char`, the commands | keyboard, serial, everything |
| keyboard (`keyboard.c`) | `shift_down` | `keyboard_handler` | shell ring |
| serial (`serial.c`) | UART FIFO, transmitter | `serial_handler`, `serial_write`, `tx` | shell ring, screen, agent |
| timer (`timer.c`) | `ticks` | `timer_tick`, `timer_sleep` | scheduler, shell |
| numbers (`util.c`, `vga.c`, `cmd_calc`) | none | `atoi`, `atoi_hex`, `print_int`, `print_hex` | shell |
| screen (`vga.c`) | cursor, cells | `putchar`, `backspace`, scrolling | line editor |
| agent (`agent/jarvis_agent.py`) | received bytes, timeouts | `send`, `read until quiet` | serial line |

What is hard here is that the shell's commands run with interrupts enabled,
while the timer interrupt changes the task table, frees stacks and moves the
processor to another stack, and the device interrupts fill the ring the shell
drains. Nothing is locked: correctness rests on the order of single writes.
Beyond that there are the usual boundaries: full tables and rings, a heap at its
ceiling, frames running out half-way through an operation, headers trusted where
they are found in memory, cached translations. The hazards in `PROJECT.json`
name each of them at its line.

## Modules

### Scheduler

State: the fields of `task_t` as functions over the slots (`state`, `esp`,
`stack_base`, `slices`), `current`, `quantum_left`, and of the machine the stack
the processor is on (`cpuStack`), EFLAGS.IF (`intFlag`) and the PIC's in-service
bit. A saved context is abstracted to the stack it lies on, where it resumes
("entry" for the stack crafted by `task_create`, "irq" for one saved by
`context_switch` inside the interrupt) and the IF it restores.

The interrupt path runs with IF clear, so `irq_handler` (acknowledge, `reap`,
quantum, `pick_next`, `switch_to`, `context_switch`) is one step. `task_create`
and `task_kill` run in task 0 with interrupts enabled and are split at every
write to the table (`create_scan` ... `create_slices`, `kill_mark`), so that a tick may
fall between any two. `task_exit` is an action of the other tasks. The history
variables `ran` and `waited` are read by no action.

`scheduler_enable` and `task_yield` have no caller and are not modelled.

### Timer

`Timer` extends `Scheduler`: it adds the tick counter to the interrupt (`timer_tick` is
`irq_handler` and the counter in one step, as in the code, where both run with IF clear) and
the shell's `sleep` to task 0: the computation of the target, the test and the `hlt` of
`timer_sleep` are separate steps, so that a tick, or a switch to other tasks for several ticks,
may fall between them. Counter, product and target are words modulo `WORD`. `other_irq` is a
keyboard or serial interrupt that ends the `hlt` early. `due` states the one assumption on
speed: a tick lasts thousands of instructions, so that while task 0 has the processor at most
one tick finds it at the same instruction.

`fits` marks the sleeps whose product and target, and the lateness allowed, stay within a
word; `SleepReturns` and `SleepOnTime` are about those. The condition is needed: if the counter
wraps while task 0 is preempted just when the target is reached, the test `ticks < target` is true
again and the sleep goes on for another period of the counter (497 days at 100 Hz). The bound on the lateness, a round of the
other tasks and one tick, holds for a quantum of at least two ticks.

### Allocator, Heap, HeapRace and DoubleFree

`Allocator` is the abstract specification: aligned pieces of memory that never overlap, handed out
and taken back one at a time between a start and a break that only moves up.

`Heap` keeps memory as the header that a read at each address would return, so
that headers left behind by a merge are still there for `kfree` to stumble over.
Every loop iteration of the first-fit search and of `coalesce` is a step.
The model also keeps the set of allocations that were handed out (`owned`) to say
what the allocator promises: `ImplementsAllocator` is the refinement in which `owned` is the
abstract set of allocations; searching, splitting and merging are stuttering steps.

What the owners write into their memory is part of the model, because it may hit such a header. `cmd_kmalloc` overwrites
all it allocated (`memset`). `task_create` builds the first context at the top of the stack (`craft`): a header that
lies where this frame begins loses its last words and keeps its magic word. Afterwards the task and the
interrupts that hit it may change any header left on the stack in any way (`task_runs`). The words of a stale header are followed
as far as `kfree` reads them, which is `magic` and `free`. So `kfree` does not accept exactly the live
allocations: a stale header on a stack may look like a block in use. `KfreeSafe` says what is left of that, that every allocation can
be freed and that a pointer accepted by mistake never leads to a header of the list or to bytes the shell
owns. The operator is assumed not to free the stack of a living task by hand; the command would do it.

`HeapRace` extends `Heap` with the tick that reaps a killed task's stack at any
step of task 0. `DoubleFree` extends `Heap` with the set of pointers that were freed and not handed out again, for the claim that
the magic word catches double frees.

### Memory

Frames, the page directory and tables (each frame read as a table, with whatever
it held before it was cleared), the counters, the TLB, the growth of the heap's
mapping, and the commands `alloc`, `free`, `map`, `unmap`.
Mapping a page is the same sequence for the heap and for `map`, and each part of it is a step: the frame is taken
(`grow_page`, `cmd_map`), a second one for a new table (`get_table`), which is cleared and entered (`new_table`), and
the entry is written (`paging_map`). When there is no frame for the table, or only one outside the identity window, `map_fails` is
the error path: `get_table` returns its frame and the caller returns its own (paging.c:59, heap.c:42, shell.c:278). `frame` and
`table` are the frames in hand, so that `NoFrameShared` accounts for every used frame at every step: it has one user, or it is one of
`lost`, the frames whose page a growth has mapped over because an earlier one failed half-way and left it mapped above the break.
Addresses are counted in pages, modulo `NPages` where the code adds words: a request may
wrap past the end of the address space and so pass the test against the heap's ceiling.
`grow_mapping` then maps one page after the other until it fails. It always does: a page table needs
a frame below `IDENTITY_BYTES` (16 MB), frames are handed out lowest first, so after at
most 16 MB of pages the next table is refused, long before the loop could come round to the identity map.
The operator is assumed to free only what `alloc`
returned, a frame that is free, or one that does not exist: the command obeys any
other request, and the resulting damage is the operator's choice.

### Console and ConsoleInput

`Console` is the abstract specification: a bounded queue of characters, handled in
order, lost only when the queue is full, and a line that Enter turns into a command.
`ConsoleInput` is the code: scan codes and serial bytes, the two interrupt
handlers, the ring with its indices, `shell_poll` (each access to the ring a step),
the line buffer with its terminator, the command reading the line in place, and
`hlt`. `ImplementsConsole` is the refinement `Abstract!Spec`, in which the queue is
the part of the ring between the indices and a running command is the C string that
starts at `line_buf`.

### BootMemory

`memory_init` and `pmm_init`, one loop iteration per step, over every map in a bounded
set. Addresses and lengths of the map are wider than the kernel's words, and every
`uint32_t` is reduced modulo `WORD`. The reference definition the result is compared with
(`AvailableIsExact`) is stated over the bytes of the 64-bit map. `Representable` is the
condition under which the code is exact: usable entries aligned, below 4 GB, and no more
entries than `regions[]` holds. Other maps are explored too, for what must hold regardless.

### Serial and Screen

`Serial` is the output side of the port: `serial_write_char` (a line feed becomes CR LF), `tx` with
its bounded wait (each poll a step), a transmitter that may stall for any time or for good, and
the terminal on the host, which sees only the bytes that arrive. Of a row in which a byte was dropped
only `garbled` and whether the cursor is in column 0 is kept.

`Screen` extends it with the cells, the cursor, and the calls the line editor and the commands
make. Each call sends its bytes first and then changes the screen, as `putchar` and
`backspace` do. A command is a sequence of characters (and perhaps a `clear_screen`) printed one at a
time. `swallowed` records that a character was erased at column 0, where `backspace()` leaves the
screen alone although the line editor drops the character; the terminal has no such defect, which is
why `EchoOnHost` holds without that exception.

### Numbers

The only module in which a line is a sequence of characters, because conversion is its subject:
`atoi`, `atoi_hex`, `print_int`, `print_hex` and `cmd_calc` in words of `HEX^HexDigits` values, with two's
complement overflow and the divide error, which stops the machine. The loops are recursive functions: the value
accumulated after `k` digits, the digits that are left of `n`. The operator types expressions with any spacing and
signs, and addresses as `virt` takes them: with or without `0x`, with few digits or with leading zeros, in capital and small letters
mixed, between spaces. The intent is kept beside the line as exact integers. `NumbersExact` compares the two.

### Agent

The host's `_read_until_prompt` and `run`, with the clock in tenths of a second and the
constants of the script, against a shell that prints its pieces of text promptly, except
that `sleep` is silent for any length of time. A timeout of `recv` is possible only when
nothing is on the way.

## Interactions

`BootMemory` ends in the state from which `Memory` starts (a set of free frames above the
reserved ones; `Memory` takes the case of one contiguous free range: `HandsOverThm` proves that `pmm_init` leaves
exactly the frames `0..LastReserved` in use when one range of memory reaches from the kernel to the end of
memory, so that `Memory`'s `Reserved` is `LastReserved + 1` and its `NFrames` is `total_frames`). `Memory`'s heap growth
is the `grow_mapping` that `Heap` sees as an extension that succeeds or fails. `Heap` is
the allocator behind the set of stacks in `Scheduler`, and `HeapRace` puts the two
together where they collide. `Timer` composes the scheduler with the tick and with a command that waits for ticks.
`ConsoleInput` and `Screen` assume that task 0 is scheduled, which `ReadyTaskRuns` shows.
`Screen` is the output side of the editor in `ConsoleInput`, composed with the transmitter in
`Serial`; `Numbers` is what the commands do with the text; `Agent` drives the whole from outside.

## Runs

| Run | Shows |
|---|---|
| scheduler | stacks owned once and alive while used, published contexts complete, round robin bounded, interrupts stay on, the dead stay dead, a full quantum for the living; every ready task runs, every dead one is reaped, `sleep` returns, never early and at most a round of the other tasks and one tick late |
| heap | the list tiles the heap, the code refines `Allocator` (aligned, disjoint, taken back whole), `kfree` accepts every live one and does no harm beyond stacks when it is wrong, neighbours are merged, extending suffices, failure only when nothing fits, calls return |
| heap_race (violation) | a tick inside `kmalloc` takes the chosen block out of the list |
| double_free (violation) | a second `kfree` of the same pointer is accepted after a task's first context has been built over the old header |
| console_input | the code refines `Console`; indices stay in range; input is handled |
| memory | one user per used frame at every step of a mapping and after every failure, counters agree, identity map and tables reachable, TLB coherent, one page mapped at a time |
| memory_break (violation) | a request that wraps passes the ceiling's test; pages above the break and the ceiling stay mapped when it fails |
| boot_memory | the counter agrees with the bitmap, the kernel is never handed out, a representable map gives exactly its usable frames |
| boot_memory_usable (violation) | an unaligned usable region frees a frame it only partly covers |
| screen | cursor on the screen, nothing ahead of it, the echo spells the line here and on the host's terminal, rows move together, printing ends whatever the UART does |
| numbers | what the console shows is what was meant: calculations and addresses against exact integers |
| agent (violation) | after half a second of silence a reply is cut and the rest is given to the next command |

Bounds. The scheduler run has three slots, so that two tasks compete with the
shell and a third spawn finds the table full, and two stacks, with `kmalloc`
also failing at any time; a quantum of two distinguishes a tick inside it from its last
one. The theorems hold for any number of slots and any quantum. The statistics counter `slices` is reduced modulo 1 (no property
reads it). Words have 12 values: a second has 4
milliseconds and 3 ticks, so that the division truncates, one duration stands for no tick at all and one
overflows the product, and the counter wraps; the bound on the lateness is tight there. The heap run scales the sizes down (a header is 4, a page 16, alignment 2) and keeps
their relations: requests that need rounding, that fit exactly, that split and that do not, one that fits only after
the heap is extended, an extension that reaches the ceiling, and one that cannot. A stack is 14 and its first context 5 words of size 1
(a frame is larger than a header, as in the code), so that the frame can begin inside a stale header. double_free starts with a larger heap, in which
such a header arises in a few calls.
The memory run grows the heap by one page, by two, and by so many (13 of 21 pages)
that the sum wraps; the address space is large enough for the frames to run out before a growth
comes round to page 0. memory_break asks only for the growth that wraps. It has 11 frames, of which two lie outside the identity window, so that
a page table can be offered a frame it must refuse, and tables of 3 entries, so that
the heap crosses a table boundary. The console run has a ring of three slots and a
line of one character, so that both overflow, and a UART of one byte: the loop of
`serial_handler` then reads one byte per interrupt.
The boot memory run takes all maps of up to three entries, one more than the table holds,
with aligned and unaligned bases, one address above the word size and one length above it,
in an address space of eight frames. The screen is 2 by 3 and the line up to six
characters, so that with the prompt it wraps three times and scrolls while it is edited; one poll of the
transmitter is allowed before a byte is dropped. Numbers are up to two digits of base 9 with a sign, in words of two base-12
digits (-72..71), so that operands and results overflow. Two of the digits of base 12 are letters, which are typed as capitals and as
small letters, and an address of one digit is a short one. Addresses that do not fit a word need more digits than that; what the console makes
of them is no part of the property.

Fairness. Only what the hardware and the scheduler give: the PIT keeps ticking
(`WF(timer_tick)`) and task 0 executes its next instruction in `timer_sleep` while it has the
processor (`WF(sleepStep)`); a heap operation or a print in progress goes on because task 0 is
scheduled again and again (`ReadyTaskRuns`); in `ConsoleInput` pending interrupts are taken,
and task 0 is strongly fair because interrupts that disable it briefly do not keep it
from running for ever. Nobody is assumed to type, tasks may spin, and the UART need never transmit.

Deadlock is checked in every run except the two of `BootMemory`, which ends, that of `Numbers`, where
a command is one step and nothing follows it, and that of `Agent`, whose commands are bounded.

## Findings

* `heap_race`: `kmalloc` is not protected against the `kfree` in `reap`; heap.c:7-8
  says the headers form one list.
* `double_free`: `kfree` trusts `magic` and `free` of a header that is in no list any more (heap.c:146-152), and the context built by
  `task_create` (task.c:54-59) can clear its `free` word without touching its magic word; the comment at heap.c:15 says the magic word
  catches double frees. With the kernel's sizes: `kmalloc 8144`, `kmalloc 8`, `kfree` of both, `spawn`, and `kfree 0xC0001FF0` is accepted
  again and changes a saved register of the new task.
* `memory_break`: `brk + bytes` wraps for a request of about 1 GB or more and passes the test
  against the ceiling (heap.c:35), and `grow_mapping` leaves the pages it mapped when it fails (heap.c:39-44);
  heap.h:10 calls HEAP_MAX a ceiling and heap.h:21 the break the first unmapped address.
* `boot_memory_usable`: `pmm_init` rounds an unaligned base down (pmm.c:61); the comment
  at pmm.c:55 says only usable regions are freed.
* `agent`: a reply ends at the first half second of silence (jarvis_agent.py:114); the
  docstring at jarvis_agent.py:200 promises exactly what the command printed.

What the modules say besides, without a run of its own: `task_create` makes the slot READY before
it clears `slices` (task.c:64-65), so a tick in between is not counted; a task that has ended by `task_exit` keeps the
processor, halted, for the rest of its quantum (`scheduler_tick` returns at task.c:115 before it looks for another task), although the comment at
task.c:128-129 says it "is left behind on the next tick" (`FullQuantum` is about living tasks only); `calc` skips leading spaces when it looks for the
operator but `atoi` does not, so the first number then reads as 0; `print_int` shows the least int as a bare
sign; the least int divided by -1 raises the divide error and stops the machine; an erasure at column 0
leaves its character on the screen; a sleep whose target is close to the end of the counter may
not return for a long time.

## Proofs

Eight modules hold theorems, all checked by TLAPS for every value of the constants that the named
`ASSUME`s admit. `DivMod` has the facts about division and remainders that the others share; each of the
others follows one plan: an inductive invariant `IInv` made of named parts, one lemma per action (or per group of
actions that touch the same variables), `Invariance == Spec => []IInv`, and the properties as
consequences. Every `IInv` was checked with TLC on a small instance before it was proved.

| Module | Theorems (property) |
|---|---|
| `SchedulerProofs` | `Invariance`, `TypeCorrect`, `RunsOnLiveStackThm`, `ReadyIsResumableThm`, `StacksOwnedOnceThm`, `BoundedWaitThm`, `TicksKeepComingThm`, `FullQuantumThm`, `DeadStaysDeadThm`; about `Timer`: `TimerInvariance`, `TimerSchedules` (`SpecTimer => Spec`: the theorems about the scheduler hold with timer and sleep), `SleepOnTimeThm` |
| `HeapProofs` | `Invariance`, `TypeCorrect`, `ListTilesTheHeap` (`Tiling`), `KfreeIsSafe` (`KfreeSafe`), `NoFreeNeighbours` (`FullyCoalesced`), `SecondSearchSucceeds` (`ExtendSuffices`), `FailureIsJustified` (`FailsOnlyWhenFull`), `KeepsItsPromise` (`ImplementsAllocator`), `OperationsShrink` |
| `MemoryProofs` | `Invariance`, `TypeCorrect`, `NoFrameSharedThm`, `CountersAgreeThm`, `IdentityIntactThm`, `TlbCoherentThm`, `MapsOnePageThm` |
| `BootMemoryProofs` | `Invariance`, `TypeCorrect`, `UsedFramesAgreeThm`, `KernelReservedThm`, `AvailableIsExactThm`, `HandsOverThm` |
| `ConsoleInputProofs` | `Invariance`, `TypeCorrect`, `KeepsItsPromise` (`ImplementsConsole`), `InputComesNearer` |
| `ScreenProofs` | `Invariance`, `TypeCorrect`, `NothingAheadThm`, `EchoShownThm`, `EchoOnHostThm`, `TextMovesTogetherThm`, `PrintingEnds` |
| `NumbersProofs` | `Invariance`, `NumbersExactThm` |

### The scheduler

The assumptions are positive sizes, and a boot stack and a null pointer that the heap never returns.
None of the safety properties is inductive. `IInv` adds what links them:

* what task 0's program counter says of its local slot: that the slot is still UNUSED
  up to the write of READY and that its context is already on the new stack after
  the write of `esp`; without it, publishing the slot could expose an old context;
* that an UNUSED slot owns no stack, so that writing `stack_base` leaks none, and
  that a READY or RUNNING slot does own one, so that the switch goes somewhere;
* that exactly the current slot may be RUNNING (`pick_next` accepts RUNNING slots too,
  and such a slot has no saved context) and that slot 0 never dies;
* that task 0 executes only when it is current, so that the slots it kills or fills
  are not the one the processor is on;
* that the quantum counted down and the ticks counted by `ran` complement each other.

`BoundedWait` needs `WaitInv`: the switches a ready task has waited through plus its cyclic
distance from `current` never exceed `MAX_TASKS - 1`. The lemma behind it, `ComesNearer`, says that
`pick_next` never jumps over a task that can run.

### Sleep

`TimerInv` adds to the scheduler's invariant that the counter has advanced by `slept` since the call without
wrapping (`ClockInv`) and a bound on how late the sleep can still become (`LateInv`): ticks overdue, plus
the ticks until task 0 has the processor again (`Away`, which every tick of another task makes smaller,
because task 0 is always ready and so `pick_next` always finds somebody), plus one tick if
`timer_sleep` is already past its test, plus a whole round if that tick may end task 0's quantum (`Risk`).
The proof showed an assumption that the bound rests on: a quantum of at least two ticks
(`SliceAssumption`; `TASK_QUANTUM` is 5). With a quantum of one, the tick that ends the `hlt` takes the processor away a second time, and
TLC finds a sleep that is late by two rounds.

### The heap

`IInv` is `TypeOK`, `Tiling` and seven more parts. `LocalsInv`: the block the search, the split or the merge stands on is in
the list, and what the loop has established of it. `BlocksInv`: blocks lie below the break on aligned
addresses and carry the magic word. `OwnersInv`: the blocks in use are exactly what the
callers hold. `StacksInv`: the stacks are among them. `RemainsInv`: no magic word lies inside a header of the list, and a header outside the list that
looks like one in use has its word `free` in no header of the list and in no allocation but a stack. A header
swallowed by a merge was free, only what is written on a stack makes it look otherwise, and when the stack is freed and its bytes are handed out
again the new owner's `memset` or `craft` deals with it, as a split does with one that its new header overlaps.
`CoalescedInv`: two free neighbours occur only from where `coalesce` has got to. `SearchInv`: what the search has passed
does not fit, and after an extension something ahead does. The refinement of `Allocator` follows: `take` is `Malloc`,
`kfree` is `Free`, `extend_heap` is `Grow`, and everything else stutters.

`AlignAssumption` says that the heap's start, the header and a page are multiples of the
alignment (0xC0000000, 16 and 4096 bytes against 8); `NoWrapAssumption` limits the theorems to requests for which
`brk + bytes` does not wrap, which is what the run `memory_break` is about.

### Physical memory and paging

`IInv` is the conjunction of the run's invariants, `DirInv` (each directory entry has a table of its own, the
identity tables stay where `paging_init` put them), `GrowInv` (a `grow_mapping` in progress has passed the
test against the ceiling and has taken a frame for each page it mapped, and for the one in hand) and `HandInv` (frames are in hand only while a page is
being mapped, and one for a table only while the directory has none for that page: what `map_fails` gives back is then nobody else's). The invariants need one another: an unmap must not clear an
entry in the identity region, which holds because tables are in place there, which holds because
no frame is shared. `PhysicalAssumption` says that the machine has less memory than the address space above the heap's
ceiling (the README of the kernel runs it with 128 MB): a growth that wraps past the
ceiling's test then runs out of frames before it comes round to page 0. Without it, `IdentityIntact` could not be proved.

### The memory map at boot

The theorems are about every map: any number of entries, any 64-bit addresses and lengths, overlapping
and in any order. `RegionsInv` says which entries `regions[]` holds, `HighestInv` that no usable one ends above
`highest` in 32 bits, `BitmapInv` which frames are used before, during and after the loop that gives regions back. `AvailableIsExact`
then compares frames counted in words with bytes counted in 64 bits, for representable maps.

`HandsOver` adds `TopInv` (`highest` is the end of a usable entry, not only a bound): the frames above the bitmap and
below `total_frames` are then exactly those of the one range that reaches to the end of memory, whatever the map says
below it and however its entries overlap.

### Console input

`RingInv` says that task 0 reads the ring only while it holds a character and takes the oldest,
although more may arrive between the test, the read and the advance; `LineInv` that the edited part of
`line_buf` has no terminator and the line a command reads has one. Lemmas show that push and advance are `Append` and `Tail` on the
part of the ring between the indices, also where it wraps, that the ring is full exactly when `RING_SIZE - 1`
characters wait, and that the string at `line_buf` is the edited line. The refinement of `Console` then goes action by action: a push is
`Arrive`, the advance is `Take`, `shell_input_char` is `Handle`, the return of the command is `Finish`, all else stutters.

### The screen

The invariant follows each call through its two halves, bytes first and cells second. `OutInv`: what is left to print ends with the
prompt. `CallInv` and `QueueInv`: which call is in progress, on which character, and which of its bytes are still to be sent. `EchoInv`:
what the cells before the cursor spell before and after the call has done its work. `HostInv`: the same for the terminal's
row, by the number of bytes still to be sent. `LinesAssumption` says that every command ends what
it prints with a line feed, which all print calls of the commands do; without it the prompt would not start in column 0 and `EchoOnHost` would be false.
`GlyphsAssumption` keeps control characters apart from printable ones; a blank may be printed (the prompt has one).

### Numbers

`NumbersExact` is about what loops over digits compute, for numbers of any length. The provers cannot instantiate the
library's induction theorems, but induction can be stated about sets instead of operators: `Least` (a set of naturals that is
not empty has a least element) gives `StrongInduction` and `BoundedInduction` for subsets of `Nat`, and `Recursion` gives the
equation of a function defined by recursion on an initial segment. On these rest

* `AccumulateIs`: what `atoi` and `atoi_hex` accumulate is the exact sum of the digits, reduced modulo `WORD`, although every step
  of the loop reduces; `SameSums` and `ValueUnique` identify it with the operator's number;
* `DecimalFacts` and `HexDigitsOf`: the digits `print_int` and `print_hex` write denote the number again;
* `SkipTo` and the lemmas about a line put together from pieces (`HoldsSplit`, `HoldsLine`, `SkipSpaces`): where `cmd_calc`
  and `atoi_hex` find sign, digits, operator and second operand, with any spacing (`CalcLine`, `AddressLine`);
* `QuotientFacts`: the quotient of two ints is an int unless it is the least one divided by -1.

`BaseAssumption` says that decimal digits are not letters (`DEC` at most 10), that there are digits for `HEX` (at most 16), and that `HEX` is
even, so that half of the words are negative ints.

### Why things end

Liveness itself is outside the prover. What it rests on besides fairness is safety, and is proved:

* `OperationsReturn`: `OperationsShrink` says that every step of a heap operation makes `Rank` smaller, a stage (search, extend, coalesce,
  search again, split, memset or craft) and the bytes that the loop of the stage has ahead, and that `Rank` is bounded by the size of the largest heap. For
  `coalesce`, which may stay at a block and enlarge it, the bytes behind the block's end are counted as well.
* `PrintReturns`: `PrintingEnds` counts polls, bytes and characters left. The UART neither adds to them nor takes from them; a byte that
  does not go out is dropped after its last poll.
* `InputIsHandled`: `InputComesNearer` says that a character in the ring is at most five steps of task 0 or ticks from being handled,
  that no interrupt takes it further away, and that the `hlt` into which it may fall is one of those steps.
* `ReadyTaskRuns`, `SleepReturns`: `BoundedWait` bounds the switches a ready task waits through, `SleepOnTime` the ticks a sleep is late.

These measures are no properties of a run; they were checked with TLC on small instances before they were proved.

### Only model-checked

* The liveness properties (`ReadyTaskRuns`, `DeadTaskReaped`, `SleepReturns`, `OperationsReturn`, `InputIsHandled`, `PrintReturns`): the step from a
  bounded measure and fairness to "eventually" needs `ENABLED` and well-founded induction on behaviours, which the prover does not have.
* The five violations, which are counterexamples on small instances. `HeapRace` uses a recursive operator for the coalescing done
  inside an interrupt and is for TLC only, and so are `DoubleFree` and `Agent`, whose only properties are violated.

## Not modelled

* The boot code, the gate table and PIC set-up, the serial port's initialisation with its loopback
  test: straight-line code before anything runs concurrently. The modules' initial states are what they leave
  (`Screen` starts both with and without a UART).
* The commands that only read and print, the comparison of command names, `echo`, `reboot` and `halt`, and the exception report, which
  stops the machine (`Numbers` has it as "HALT").
* What `kfree` prints when `reap` calls it with a bad pointer, from inside the tick and so
  perhaps within a `putchar` of task 0: `StacksOwnedOnce` says that `reap` never
  passes one as long as the heap is intact (`heap_race` is how it may not be).
* The UART's receive FIFO beyond one byte; the agent's conversation with its language model; the screenshot tool.

## Plan

Every invariant, action property and refinement that a run expects to hold is proved. What could be added:

1. Several ranges of free frames in `Memory`'s initial state. `BootMemory` covers such maps, but `HandsOver` and `Memory` are about one range.
2. A receive FIFO of more than one byte in `ConsoleInput`, with the loop of `serial_handler` as steps of its own.
3. The local buffers of `print_int` (12 characters): that the digits of an int never exceed it.
4. The comparison of command names and the splitting of a line into command and argument.
