------------------------------ MODULE HeapRace ------------------------------
(***************************************************************************)
(* The kernel heap under preemption.  Task 0 executes kmalloc and kfree    *)
(* with interrupts enabled, and a tick that finds a dead task frees its    *)
(* stack from inside the interrupt (scheduler_tick -> reap -> kfree).      *)
(* This module takes the steps of Heap and lets such a tick fall between   *)
(* any two of them.                                                        *)
(*                                                                         *)
(* Of the scheduler only the stacks are kept, and which of them belong to  *)
(* tasks that the shell has killed and the next tick will reap.            *)
(***************************************************************************)
EXTENDS Heap

VARIABLE doomed   \* stack_base of the tasks that are DEAD and not yet reaped

raceVars == <<vars, doomed>>

RaceInit == Init /\ doomed = {}

\* A step of task 0 in the heap.
HeapStep == Next /\ UNCHANGED doomed

\* The shell's kill command.
task_kill ==
  /\ pc = "idle"
  /\ \E p \in stacks \ doomed : doomed' = doomed \cup {p}
  /\ UNCHANGED vars

\* coalesce() from the block at a on, run to its end. The interrupted code
\* may hold a pointer to a header that is swallowed here, so that its words
\* are kept as they are.
RECURSIVE CoalesceAll(_, _, _)
CoalesceAll(h, l, a) ==
  LET n == h[a].next
  IN  IF a = Null \/ n = Null
        THEN [hdr |-> h, live |-> l]
      ELSE IF h[a].free /\ h[n].free /\ a + HeaderSize + h[a].size = n
        THEN CoalesceAll([h EXCEPT ![a].size = @ + HeaderSize + h[n].size, ![a].next = h[n].next],
                         l \ {n}, a)
      ELSE CoalesceAll(h, l, n)

\* The timer interrupt: reap() passes every dead task's stack to kfree,
\* whichever step task 0 is at. kfree coalesces after each; the list at the
\* end is the one a single pass leaves.
reap ==
  LET freed == {p - HeaderSize : p \in {q \in doomed : kfree_accepts(q)}}
      done  == CoalesceAll([x \in Addrs |-> [hdr[x] EXCEPT !.free = @ \/ x \in freed]],
                           live, HEAP_START)
  IN
  /\ doomed # {}
  /\ hdr'    = done.hdr
  /\ live'   = done.live
  /\ owned'  = {o \in owned : o[1] \notin doomed}
  /\ stacks' = stacks \ doomed
  /\ doomed' = {}
  /\ UNCHANGED <<brk, pc, caller, request, attempt, b, then>>

RaceNext == HeapStep \/ task_kill \/ reap

RaceSpec == RaceInit /\ [][RaceNext]_raceVars

\* heap.c: every allocation is preceded by a header and the headers form a
\* singly linked list. An allocation whose header has left the list is
\* memory the list believes to be free.
AllocationsListed == \A o \in owned : o[1] - HeaderSize \in live
=============================================================================
