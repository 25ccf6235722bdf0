----------------------------- MODULE Allocator -----------------------------
(***************************************************************************)
(* What heap.h promises its callers: memory between a fixed start and a    *)
(* break that moves up to a ceiling, pieces of it that are handed out,     *)
(* aligned and never overlapping, and taken back one at a time.  Nothing   *)
(* is said of blocks, lists or headers; a request that fails changes       *)
(* nothing.  Module Heap is shown to implement this.                       *)
(***************************************************************************)
EXTENDS Integers

CONSTANTS
  Start, Initial, Ceiling,   \* bounds of the memory: [Start, Ceiling)
  Unit,                      \* pointers are multiples of this
  Sizes                      \* bytes a caller may ask for

VARIABLES
  allocs,   \* <<pointer, bytes>> of what has been handed out
  top       \* the break

vars == <<allocs, top>>

Init == allocs = {} /\ top = Start + Initial

Apart(p, n, q, m) == p + n <= q \/ q + m <= p

\* kmalloc(n) returns p.
Malloc ==
  /\ \E p \in Start..(top - 1), n \in Sizes :
       /\ p % Unit = 0 /\ p + n <= top
       /\ \A a \in allocs : Apart(p, n, a[1], a[2])
       /\ allocs' = allocs \cup {<<p, n>>}
  /\ UNCHANGED top

\* kfree takes back one allocation, whole.
Free ==
  /\ \E a \in allocs : allocs' = allocs \ {a}
  /\ UNCHANGED top

\* The break moves up, for a request that does not fit.
Grow ==
  /\ top' \in (top + 1)..Ceiling
  /\ UNCHANGED allocs

Spec == Init /\ [][Malloc \/ Free \/ Grow]_vars
=============================================================================
