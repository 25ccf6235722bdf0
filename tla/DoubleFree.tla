----------------------------- MODULE DoubleFree -----------------------------
(***************************************************************************)
(* A pointer that is freed twice.  Beside the heap of Heap this module     *)
(* remembers which pointers have been freed and not handed out again: what *)
(* kfree is to refuse.                                                     *)
(***************************************************************************)
EXTENDS Heap

VARIABLE freed   \* pointers that were freed and have not been handed out again

freeVars == <<vars, freed>>

Pointers(allocs) == {o[1] : o \in allocs}

FreeInit == Init /\ freed = {}

\* A step of the heap, and what it does to the pointers that are free.
FreeNext ==
  /\ Next
  /\ freed' = (freed \cup (Pointers(owned) \ Pointers(owned'))) \ Pointers(owned')

FreeSpec == FreeInit /\ [][FreeNext]_freeVars

\* heap.c: the magic word "catches double frees". A pointer that has been
\* freed and not handed out since is refused by kfree.
DoubleFreeCaught == pc = "idle" => \A p \in freed : ~kfree_accepts(p)
=============================================================================
