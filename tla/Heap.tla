-------------------------------- MODULE Heap --------------------------------
(***************************************************************************)
(* The kernel heap of heap.c: a first-fit allocator over a singly linked   *)
(* list of block headers kept in memory, in address order.                 *)
(*                                                                         *)
(* Each loop of the code advances one iteration per step, so the module    *)
(* shows every intermediate list.  At most one operation is in progress:   *)
(* kmalloc and kfree take no lock, and this module describes the runs in   *)
(* which no timer tick reaps a dead task's stack in the middle of one.     *)
(* Module HeapRace adds those ticks.                                       *)
(*                                                                         *)
(* Memory is seen as headers: hdr[a] is what a block_t read at address a   *)
(* would hold.  A header that leaves the list stays in memory until        *)
(* something overwrites it, and kfree, which trusts the word it finds      *)
(* below the pointer it is given, may meet it there.  What overwrites it   *)
(* may be a part of a stack, which spares the magic word and replaces the  *)
(* word that says whether the block is free.                               *)
(***************************************************************************)
EXTENDS Integers, FiniteSets

CONSTANTS
  Align,         \* align8 rounds requests up to a multiple of this (8)
  WordSize,      \* sizeof(uint32_t) (4)
  HeaderSize,    \* sizeof(block_t), four words (16)
  MIN_SPLIT,     \* smallest payload worth splitting off (16)
  PAGE_SIZE,     \* (4096)
  EXTEND_MIN,    \* smallest extension of the heap (4 pages)
  HEAP_START,    \* (0xC0000000)
  HEAP_INITIAL,  \* bytes mapped by heap_init (64 KB)
  HEAP_MAX,      \* ceiling on the heap's size (4 MB)
  ADDRESS_SPACE, \* addresses are below this (2^32)
  Requests,      \* the sizes kmalloc is called with
  TASK_STACK_SIZE, \* the size task_create calls it with (8192)
  FrameSize      \* bytes of the first context task_create builds (11 words)

ASSUME SizesAssumption ==
  /\ Align \in Nat \ {0}
  /\ WordSize \in Nat \ {0}
  /\ HeaderSize = 4 * WordSize
  /\ MIN_SPLIT \in Nat \ {0}
  /\ PAGE_SIZE \in Nat \ {0}
  /\ EXTEND_MIN \in Nat \ {0}
  /\ HEAP_START \in Nat \ {0}
  /\ HEAP_MAX \in Nat
  /\ HEAP_INITIAL \in Nat
  /\ HeaderSize < HEAP_INITIAL
  /\ HEAP_INITIAL <= HEAP_MAX
  /\ HEAP_INITIAL % PAGE_SIZE = 0

\* Headers, pages and the heap's first address are aligned for any payload.
ASSUME AlignAssumption ==
  HEAP_START % Align = 0 /\ HeaderSize % Align = 0 /\ PAGE_SIZE % Align = 0

ASSUME RequestsAssumption ==
  /\ Requests \subseteq Nat \ {0}
  /\ TASK_STACK_SIZE \in Requests
  /\ FrameSize \in (3 * WordSize)..TASK_STACK_SIZE

\* Requests are small enough for brk + bytes not to wrap around.
ASSUME NoWrapAssumption ==
  /\ ADDRESS_SPACE \in Nat
  /\ \A n \in Requests :
       HEAP_START + HEAP_MAX + n + Align + HeaderSize + EXTEND_MIN + PAGE_SIZE < ADDRESS_SPACE

VARIABLES
  hdr,        \* memory, as the header a read at each address would return
  brk,        \* first unmapped address after the heap
  live,       \* the addresses of the headers in the list (head is HEAP_START)
  owned,      \* <<pointer, bytes>> of the allocations not yet freed
  stacks,     \* the pointers among them that are stacks of tasks
  pc,         \* where the operation in progress is
  caller,     \* who called kmalloc: the shell's kmalloc command or task_create
  request,    \* the size kmalloc was called with
  attempt,    \* kmalloc's loop counter
  b,          \* the block a loop is at
  then        \* where coalesce returns to

vars == <<hdr, brk, live, owned, stacks, pc, caller, request, attempt, b, then>>

Null  == 0
Addrs == HEAP_START..(HEAP_START + HEAP_MAX - 1)

\* n rounded up to a multiple of m.
RoundUp(n, m) == ((n + m - 1) \div m) * m

\* Mutant: the request is taken as it is.
align8_Not(n) == n

align8(n) == RoundUp(n, Align)

\* The first address after the block at a.
End(a) == a + HeaderSize + hdr[a].size

Garbage == [magic |-> FALSE, size |-> 0, next |-> Null, free |-> FALSE]

FreeBlock(bytes, next) == [magic |-> TRUE, size |-> bytes, next |-> next, free |-> TRUE]

\* The address of the word free of a block_t at a, its last one.
FreeWord(a) == a + HeaderSize - WordSize

\* Memory h after the header r is stored at a: a block_t read at an address
\* inside it finds no magic word, and one that begins before it and reaches
\* into it, at an aligned address, finds in its word free the size of r,
\* which is not 0.
Store(h, a, r) ==
  [x \in Addrs |-> IF x = a THEN r
                   ELSE IF a < x /\ x < a + HeaderSize THEN Garbage
                   ELSE IF h[x].magic /\ x < a /\ a < x + HeaderSize THEN [h[x] EXCEPT !.free = TRUE]
                   ELSE h[x]]

-----------------------------------------------------------------------------
(* heap_init, when the initial mapping succeeds.                           *)

Init ==
  /\ brk     = HEAP_START + HEAP_INITIAL
  /\ hdr     = Store([x \in Addrs |-> Garbage], HEAP_START,
                     FreeBlock(HEAP_INITIAL - HeaderSize, Null))
  /\ live    = {HEAP_START}
  /\ owned   = {}
  /\ stacks  = {}
  /\ pc      = "idle"
  /\ caller  = "shell"
  /\ request = 0
  /\ attempt = 0
  /\ b       = Null
  /\ then    = "idle"

\* The operation returns; its locals are gone.
Return ==
  /\ pc' = "idle" /\ caller' = "shell" /\ request' = 0 /\ attempt' = 0
  /\ b' = Null /\ then' = "idle"

-----------------------------------------------------------------------------
(* kmalloc                                                                 *)

\* kmalloc(n), called by the shell with any size or by task_create with the
\* size of a stack: size 0 is refused, which changes nothing.
kmalloc ==
  /\ pc = "idle"
  /\ \/ \E n \in Requests : request' = n /\ caller' = "shell"
     \/ request' = TASK_STACK_SIZE /\ caller' = "task"
  /\ pc'      = "search"
  /\ attempt' = 0
  /\ b'       = HEAP_START
  /\ UNCHANGED <<hdr, brk, live, owned, stacks, then>>

size == align8(request)

\* Mutant: a block of exactly the requested size is passed over.
Fits_Strict(a) == hdr[a].free /\ hdr[a].size > size

Fits(a) == hdr[a].free /\ hdr[a].size >= size

\* The body of the first-fit loop, up to the choice of a block.
search ==
  /\ pc = "search"
  /\ \/ b = Null /\ pc' = "extend" /\ UNCHANGED b
     \/ b # Null /\ ~Fits(b) /\ b' = hdr[b].next /\ UNCHANGED pc
     \/ b # Null /\ Fits(b) /\ pc' = "take" /\ UNCHANGED b
  /\ UNCHANGED <<hdr, brk, live, owned, stacks, caller, request, attempt, then>>

WorthSplitting(a) == hdr[a].size >= size + HeaderSize + MIN_SPLIT

\* Mutant: the new header's own bytes are counted as payload.
RestSize_NoHeader(a) == hdr[a].size - size

\* The payload of the block split off the one at a.
RestSize(a) == hdr[a].size - size - HeaderSize

\* Split the chosen block if that is worth it, and hand it out.
take ==
  LET rest   == b + HeaderSize + size
      split  == Store(hdr, rest, FreeBlock(RestSize(b), hdr[b].next))
      carved == [split EXCEPT ![b].size = size, ![b].next = rest]
  IN
  /\ pc = "take"
  /\ \/ /\ WorthSplitting(b)
        /\ hdr'  = [carved EXCEPT ![b].free = FALSE]
        /\ live' = live \cup {rest}
     \/ /\ ~WorthSplitting(b)
        /\ hdr' = [hdr EXCEPT ![b].free = FALSE]
        /\ UNCHANGED live
  /\ owned' = owned \cup {<<b + HeaderSize, request>>}
  /\ pc' = IF caller = "shell" THEN "memset" ELSE "craft"
  /\ UNCHANGED <<brk, stacks, caller, request, attempt, b, then>>

\* cmd_kmalloc scribbles over the bytes it asked for.
memset ==
  LET p == b + HeaderSize
  IN
  /\ pc = "memset"
  /\ hdr' = [x \in Addrs |-> IF p <= x /\ x < p + request THEN Garbage ELSE hdr[x]]
  /\ Return
  /\ UNCHANGED <<brk, live, owned, stacks>>

\* task_create builds the context of the first switch at the top of the new
\* stack: eflags, the eight registers, which are 0, and two code addresses.
\* A header left where the frame begins keeps its magic word when that lies
\* below the frame; its word free becomes whatever the frame has there.
craft ==
  LET top       == b + HeaderSize + TASK_STACK_SIZE
      sp        == top - FrameSize
      zero(w)   == sp < w /\ w < top - 2 * WordSize
      inFrame(x) == sp <= x /\ x < top
  IN
  /\ pc = "craft"
  /\ hdr' = [x \in Addrs |->
               IF inFrame(x) THEN Garbage
               ELSE IF hdr[x].magic /\ inFrame(FreeWord(x)) THEN [hdr[x] EXCEPT !.free = ~zero(FreeWord(x))]
               ELSE hdr[x]]
  /\ stacks' = stacks \cup {b + HeaderSize}
  /\ Return
  /\ UNCHANGED <<brk, live, owned>>

\* The headers left in the stack at p.
Left(p) == {x \in p..(p + TASK_STACK_SIZE - 1) : x \in Addrs /\ hdr[x].magic}

\* A task, and the interrupts that hit it, push what they like on its stack:
\* any of the headers left there may be lost or find any word in the place
\* of free. The steps of kmalloc and kfree never look at these words, so
\* that it makes no difference which of them this falls between.
task_runs ==
  /\ pc = "idle"
  /\ \E p \in stacks : \E lost, zero \in SUBSET Left(p) :
       hdr' = [x \in Addrs |->
                 IF x \in lost THEN Garbage
                 ELSE IF x \in Left(p) /\ FreeWord(x) < p + TASK_STACK_SIZE
                   THEN [hdr[x] EXCEPT !.free = x \notin zero]
                 ELSE hdr[x]]
  /\ UNCHANGED <<brk, live, owned, stacks, pc, caller, request, attempt, b, then>>

\* Mutant: the extension leaves no room for its header.
Want_NoHeader == IF size < EXTEND_MIN THEN EXTEND_MIN ELSE size

\* Bytes extend_heap asks grow_mapping for.
Want == IF size + HeaderSize < EXTEND_MIN THEN EXTEND_MIN ELSE size + HeaderSize

\* extend_heap(size) through grow_mapping: either the ceiling or a missing
\* frame stops it and kmalloc returns 0, or the new pages become one more
\* block at the tail and the list is coalesced.
extend_heap ==
  LET bytes == RoundUp(Want, PAGE_SIZE)
      fresh == FreeBlock(bytes - HeaderSize, Null)
      tail  == CHOOSE a \in live : hdr[a].next = Null
  IN
  /\ pc = "extend"
  /\ \/ Return /\ UNCHANGED <<hdr, brk, live, owned, stacks>>
     \/ /\ brk + bytes <= HEAP_START + HEAP_MAX
        /\ brk'  = brk + bytes
        /\ hdr'  = [Store(hdr, brk, fresh) EXCEPT ![tail].next = brk]
        /\ live' = live \cup {brk}
        /\ pc'   = "coalesce" /\ then' = "search" /\ b' = HEAP_START
        /\ UNCHANGED <<owned, stacks, caller, request, attempt>>

-----------------------------------------------------------------------------
(* coalesce and kfree                                                      *)

Mergeable(a) ==
  /\ hdr[a].free
  /\ hdr[hdr[a].next].free
  /\ End(a) = hdr[a].next

\* Mutant: after a merge the loop moves on instead of trying again.
AfterMerge_MovesOn == IF hdr[hdr[b].next].next = Null THEN b ELSE hdr[hdr[b].next].next

\* Where the loop goes on after a merge: the same block.
AfterMerge == b

\* Mutant: the swallowed header's size is forgotten in the sum.
MergedSize_NoHeader(a) == hdr[a].size + hdr[hdr[a].next].size

MergedSize(a) == hdr[a].size + HeaderSize + hdr[hdr[a].next].size

\* Memory after the block at a has swallowed its neighbour n. The header of n
\* stays behind; no list leads to it any more, so that all anybody can still
\* read of it is what kfree does, magic and free.
Merge(a, n) ==
  [hdr EXCEPT ![a].size = MergedSize(a), ![a].next = hdr[n].next,
              ![n].size = 0,             ![n].next = Null]

\* Mutant: the loop does not advance past a block it cannot merge.
AfterRefusal_Stuck == b

\* Where the loop goes on when there is nothing to merge.
AfterRefusal == hdr[b].next

\* One iteration of coalesce(): swallow the next block, or move on to it,
\* or stop at the end of the list. kmalloc then makes its second attempt.
coalesce ==
  /\ pc = "coalesce"
  /\ \/ /\ b # Null /\ hdr[b].next # Null /\ Mergeable(b)
        /\ hdr'  = Merge(b, hdr[b].next)
        /\ live' = live \ {hdr[b].next}
        /\ b'    = AfterMerge
        /\ UNCHANGED <<pc, caller, request, attempt, then>>
     \/ /\ b # Null /\ hdr[b].next # Null /\ ~Mergeable(b)
        /\ b' = AfterRefusal
        /\ UNCHANGED <<hdr, live, pc, caller, request, attempt, then>>
     \/ /\ b = Null \/ hdr[b].next = Null
        /\ IF then = "search" /\ attempt = 0
             THEN /\ pc' = "search" /\ attempt' = 1 /\ b' = HEAP_START /\ then' = "idle"
                  /\ UNCHANGED <<caller, request>>
             ELSE Return
        /\ UNCHANGED <<hdr, live>>
  /\ UNCHANGED <<brk, owned, stacks>>

\* Mutant: a block that is free already is accepted.
kfree_accepts_NoFree(p) ==
  /\ p >= HEAP_START + HeaderSize /\ p < brk
  /\ hdr[p - HeaderSize].magic

\* The checks of kfree(p): inside the heap, a header below it, in use.
kfree_accepts(p) ==
  /\ p >= HEAP_START + HeaderSize /\ p < brk
  /\ hdr[p - HeaderSize].magic
  /\ ~hdr[p - HeaderSize].free

\* kfree(p), from the shell for any address in the heap that is not the
\* stack of a living task, or from reap for the stack of a dead one. A
\* pointer the checks refuse changes nothing.
kfree ==
  /\ pc = "idle"
  /\ \E p \in Addrs :
       /\ kfree_accepts(p)
       /\ hdr'   = [hdr EXCEPT ![p - HeaderSize].free = TRUE]
       /\ owned' = {o \in owned : o[1] # p}
       /\ stacks' = stacks \ {p}
  /\ pc' = "coalesce" /\ b' = HEAP_START
  /\ UNCHANGED <<brk, live, caller, request, attempt, then>>

-----------------------------------------------------------------------------
Work == search \/ take \/ memset \/ craft \/ extend_heap \/ coalesce

Next == kmalloc \/ kfree \/ task_runs \/ Work

Spec == Init /\ [][Next]_vars

\* The operation in progress goes on: task 0 gets the processor again and
\* again (Scheduler's ReadyTaskRuns).
FairSpec == Spec /\ WF_vars(Work)

-----------------------------------------------------------------------------
(* Properties.                                                             *)

Headers == [magic : BOOLEAN, size : Nat, next : Addrs \cup {Null}, free : BOOLEAN]

\* The types of memory, the break and the locals.
TypeOK ==
  /\ hdr \in [Addrs -> Headers]
  /\ brk \in Nat
  /\ live \in SUBSET Addrs
  /\ owned \in SUBSET (Addrs \X Requests)
  /\ stacks \in SUBSET Addrs
  /\ pc \in {"idle", "search", "take", "memset", "craft", "extend", "coalesce"}
  /\ caller \in {"shell", "task"}
  /\ request \in Requests \cup {0}
  /\ attempt \in {0, 1}
  /\ b \in Addrs \cup {Null}
  /\ then \in {"idle", "search"}

\* The list is what the picture at the top of heap.c shows: it starts at
\* HEAP_START, every block ends where the next one in the list begins, the
\* last one ends at the break, and no two blocks overlap.
Tiling ==
  /\ HEAP_START \in live
  /\ \A a \in live : hdr[a].next \in live \cup {Null}
  /\ \A a \in live : End(a) = IF hdr[a].next = Null THEN brk ELSE hdr[a].next
  /\ \A a, c \in live : a < c => End(a) <= c

\* Between operations kfree accepts every allocation that has not been
\* freed. It may also accept a pointer that is none: a header swallowed by a
\* merge may come to look like one in use when it lies on a stack. The word
\* it then writes belongs to no block in the list and to no allocation of the
\* shell: only a stack, or bytes nobody owns, can be hit.
KfreeSafe ==
  pc = "idle" =>
    /\ \A o \in owned : kfree_accepts(o[1])
    /\ \A p \in Addrs : kfree_accepts(p) /\ (\A o \in owned : o[1] # p) =>
         LET w == FreeWord(p - HeaderSize)
         IN  /\ \A a \in live : w \notin a..(a + HeaderSize - 1)
             /\ \A o \in owned : o[1] \in stacks \/ w \notin o[1]..(o[1] + o[2] - 1)

\* Between operations no two neighbours are both free: freeing everything
\* leaves one block again, whatever order the frees came in.
FullyCoalesced ==
  pc = "idle" => \A a \in live : hdr[a].next # Null => ~(hdr[a].free /\ hdr[hdr[a].next].free)

\* Once the heap has been extended the second search succeeds, so kmalloc
\* never maps memory and then returns 0.
ExtendSuffices == pc = "extend" => attempt = 0

\* kmalloc gives up, or extends the heap, only when no free block can hold
\* what was asked for.
FailsOnlyWhenFull ==
  [][pc = "extend" => \A a \in live : hdr[a].free => hdr[a].size < request]_vars

\* Every kmalloc and every kfree returns.
OperationsReturn == pc # "idle" ~> pc = "idle"

Promise == INSTANCE Allocator WITH
  Start <- HEAP_START, Initial <- HEAP_INITIAL, Ceiling <- HEAP_START + HEAP_MAX,
  Unit <- Align, Sizes <- Requests, allocs <- owned, top <- brk

\* The heap keeps its promise: whatever splits, merges and stale headers do
\* underneath, every step is, to the callers, an aligned piece clear of all
\* others being handed out, one piece being taken back whole, the break
\* moving up below the ceiling, or nothing at all.
ImplementsAllocator == Promise!Spec
=============================================================================
