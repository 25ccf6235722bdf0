----------------------------- MODULE HeapProofs -----------------------------
(***************************************************************************)
(* Proofs about Heap, for every header size, alignment, page size, initial *)
(* and largest heap, and every set of request sizes.                       *)
(***************************************************************************)
EXTENDS Heap, DivMod

-----------------------------------------------------------------------------
(* The inductive invariant.                                                *)

Aligned(x) == x % Align = 0

\* Where the operation in progress is, what it has in hand and what a loop
\* has established about it.
LocalsInv ==
  /\ pc \in {"search", "take", "memset", "craft", "extend"} \/ then = "search" => request \in Requests
  /\ then = "search" => pc = "coalesce" /\ attempt = 0
  /\ attempt = 1 => pc \in {"search", "take", "memset", "craft"}
  /\ pc \in {"take", "memset", "craft", "coalesce"} => b \in live
  /\ pc = "search" => b \in live \cup {Null}
  /\ pc = "take" => Fits(b)
  /\ pc \in {"memset", "craft"} =>
       ~hdr[b].free /\ request <= hdr[b].size /\ <<b + HeaderSize, request>> \in owned
  /\ caller = "task" => request = TASK_STACK_SIZE
  /\ pc = "craft" => caller = "task"

\* The blocks lie below the break, on aligned addresses, one of them is the
\* tail, and all carry the magic word.
BlocksInv ==
  /\ brk \in HEAP_START..(HEAP_START + HEAP_MAX) /\ Aligned(brk)
  /\ \A a \in live : End(a) <= brk /\ Aligned(a) /\ hdr[a].magic
  /\ \E a \in live : hdr[a].next = Null

\* The allocations are the blocks in use, large enough, one each.
OwnersInv ==
  /\ \A o \in owned : /\ o[1] - HeaderSize \in live
                      /\ ~hdr[o[1] - HeaderSize].free
                      /\ o[2] <= hdr[o[1] - HeaderSize].size
  /\ \A o, p \in owned : o[1] = p[1] => o = p
  /\ \A a \in live : ~hdr[a].free => \E o \in owned : o[1] = a + HeaderSize

\* The stacks are allocations of their size.
StacksInv == \A p \in stacks : <<p, TASK_STACK_SIZE>> \in owned

\* A header outside the list that looks like one in use.
Stale(x) == x \notin live /\ hdr[x].magic /\ ~hdr[x].free

\* The allocation whose bytes the caller has not written yet.
InHand(p) == pc \in {"memset", "craft"} /\ p = b + HeaderSize

Within(w, p, n) == p <= w /\ w < p + n

\* What is left of the headers outside the list: none begins inside a header
\* of the list, and where one looks like one in use its word free lies in no
\* header of the list and in no allocation, except on a stack.
RemainsInv ==
  /\ \A a \in live, x \in Addrs : a < x /\ x < a + HeaderSize => ~hdr[x].magic
  /\ \A a \in live, x \in Addrs : Stale(x) => ~Within(FreeWord(x), a, HeaderSize)
  /\ \A o \in owned, x \in Addrs :
       Stale(x) => o[1] \in stacks \/ InHand(o[1]) \/ ~Within(FreeWord(x), o[1], o[2])

\* The block at a and its neighbour are not both free.
Settled(a) == hdr[a].next # Null => ~(hdr[a].free /\ hdr[hdr[a].next].free)

\* No two free neighbours, except from where coalesce() has got to.
CoalescedInv ==
  \A a \in live : (pc = "coalesce" => a < b) => Settled(a)

\* What the search has passed over does not fit; what a second search is
\* after still lies ahead.
SearchInv ==
  /\ pc = "search" => \A a \in live : b = Null \/ a < b => ~Fits(a)
  /\ pc = "extend" => \A a \in live : ~Fits(a)
  /\ then = "search" => \E a \in live : Fits(a)
  /\ pc = "search" /\ attempt = 1 => b # Null /\ \E a \in live : b <= a /\ Fits(a)

IInv ==
  /\ TypeOK
  /\ Tiling
  /\ LocalsInv
  /\ BlocksInv
  /\ OwnersInv
  /\ StacksInv
  /\ RemainsInv
  /\ CoalescedInv
  /\ SearchInv

-----------------------------------------------------------------------------
(* Lemmas.                                                                 *)

\* The null pointer is no address of the heap.
LEMMA NullNotAddr == Null \notin Addrs /\ Addrs \subseteq Nat /\ HEAP_START \in Nat
BY SizesAssumption DEF Null, Addrs

\* align8 returns an aligned size that is large enough, and the least one.
LEMMA SizeFacts ==
  ASSUME request \in Requests
  PROVE  /\ size \in Nat /\ request \in Nat \ {0} /\ request <= size
         /\ Aligned(size)
         /\ \A s \in Nat : Aligned(s) /\ request <= s => size <= s
BY RequestsAssumption, SizesAssumption, RoundUpFacts DEF size, align8, RoundUp, Aligned

\* Aligned sizes and addresses add up to aligned ones.
LEMMA AlignedSum ==
  /\ \A x, y \in Int : Aligned(x) /\ Aligned(y) => Aligned(x + y) /\ Aligned(x - y)
  /\ Aligned(HEAP_START) /\ Aligned(HeaderSize)
<1>1. ASSUME NEW x \in Int, NEW y \in Int, Aligned(x), Aligned(y)
      PROVE  Aligned(x + y) /\ Aligned(x - y)
  <2>1. x % Align = 0 /\ y % Align = 0 /\ Align \in Nat \ {0}
    BY <1>1, SizesAssumption DEF Aligned
  <2>2. (x + y) % Align = 0 /\ (x - y) % Align = 0
    BY ONLY SumMod, <2>1, x \in Int, y \in Int
  <2> QED
    BY <2>2 DEF Aligned
<1> QED
  BY <1>1, AlignAssumption DEF Aligned

\* Storing one field of a header leaves a header.
LEMMA FreeUpdate ==
  ASSUME NEW r \in Headers, NEW f \in BOOLEAN
  PROVE  [r EXCEPT !.free = f] \in Headers
BY DEF Headers

\* So does storing its link,
LEMMA LinkUpdate ==
  ASSUME NEW r \in Headers, NEW n \in Addrs \cup {Null}
  PROVE  [r EXCEPT !.next = n] \in Headers
BY DEF Headers

\* or its size and its link.
LEMMA BlockUpdate ==
  ASSUME NEW r \in Headers, NEW s \in Nat, NEW n \in Addrs \cup {Null}
  PROVE  [[r EXCEPT !.size = s] EXCEPT !.next = n] \in Headers
BY DEF Headers

\* What the picture of the list means for its links: a block's successor
\* starts where the block ends, no two blocks have the same successor, and
\* the block without one is the last.
LEMMA Geometry ==
  ASSUME TypeOK, Tiling, BlocksInv
  PROVE  /\ \A a \in live : /\ a \in Addrs /\ a \in Nat /\ hdr[a].size \in Nat
                             /\ End(a) \in Nat /\ a + HeaderSize <= End(a) /\ a < End(a)
                             /\ End(a) <= HEAP_START + HEAP_MAX
         /\ \A a \in live : hdr[a].next # Null =>
              hdr[a].next \in live /\ hdr[a].next = End(a) /\ a < hdr[a].next
         /\ \A a, c \in live : hdr[a].next = hdr[c].next => a = c
         /\ \A a \in live : hdr[a].next = Null => End(a) = brk /\ \A c \in live : c <= a
<1> USE SizesAssumption, NullNotAddr
<1>1. \A a \in live : /\ a \in Addrs /\ a \in Nat /\ hdr[a].size \in Nat
                       /\ End(a) \in Nat /\ a + HeaderSize <= End(a) /\ a < End(a)
                       /\ End(a) <= HEAP_START + HEAP_MAX
  <2> TAKE a \in live
  <2>1. a \in Addrs /\ a \in Nat /\ hdr[a].size \in Nat
    BY DEF TypeOK, Headers
  <2>2. End(a) \in Nat /\ a + HeaderSize <= End(a) /\ a < End(a)
    BY <2>1 DEF End
  <2>3. End(a) <= brk /\ brk \in Nat /\ brk <= HEAP_START + HEAP_MAX
    BY DEF BlocksInv
  <2> QED
    BY <2>1, <2>2, <2>3
<1>2. \A a \in live : hdr[a].next # Null =>
        hdr[a].next \in live /\ hdr[a].next = End(a) /\ a < hdr[a].next
  BY <1>1 DEF Tiling
<1>3. \A a, c \in live : End(a) = End(c) => a = c
  <2> SUFFICES ASSUME NEW a \in live, NEW c \in live, End(a) = End(c), a < c PROVE FALSE
    BY <1>1
  <2> QED
    BY <1>1 DEF Tiling
<1>4. \A a \in live : hdr[a].next = Null => End(a) = brk /\ \A c \in live : c <= a
  <2> TAKE a \in live
  <2> HAVE hdr[a].next = Null
  <2>1. End(a) = brk
    BY DEF Tiling
  <2>2. ASSUME NEW c \in live, a < c PROVE FALSE
    BY <1>1, <2>1, <2>2 DEF Tiling, BlocksInv
  <2> QED
    BY <1>1, <2>1, <2>2
<1>5. \A a, c \in live : hdr[a].next = hdr[c].next => a = c
  BY <1>2, <1>3, <1>4
<1> QED
  BY <1>1, <1>2, <1>4, <1>5

\* The payload of every block is aligned too.
LEMMA SizesAligned ==
  ASSUME TypeOK, Tiling, BlocksInv, NEW a \in live
  PROVE  Aligned(hdr[a].size)
<1>1. End(a) \in Int /\ a \in Int /\ HeaderSize \in Int /\ hdr[a].size \in Int
  BY Geometry, SizesAssumption
<1>2. Aligned(End(a)) /\ Aligned(a)
  BY DEF Tiling, BlocksInv
<1>3. Aligned(a + HeaderSize) /\ a + HeaderSize \in Int
  BY <1>1, <1>2, AlignedSum
<1>4. Aligned(End(a) - (a + HeaderSize))
  BY <1>1, <1>2, <1>3, AlignedSum
<1>5. End(a) - (a + HeaderSize) = hdr[a].size
  BY <1>1 DEF End
<1> QED
  BY <1>4, <1>5

-----------------------------------------------------------------------------
(* The initial state.                                                      *)

\* heap_init's one block satisfies the invariant.
LEMMA InitIInv == Init => IInv
<1> SUFFICES ASSUME Init PROVE IInv
  OBVIOUS
<1> USE SizesAssumption, NullNotAddr
<1>1. HEAP_START \in Addrs /\ Null # HEAP_START
  BY DEF Addrs
<1>2. hdr \in [Addrs -> Headers]
  BY DEF Init, Store, FreeBlock, Garbage, Headers
<1>3. /\ hdr[HEAP_START] = FreeBlock(HEAP_INITIAL - HeaderSize, Null)
      /\ \A x \in Addrs : x # HEAP_START => hdr[x] = Garbage
  <2>1. \A x \in Addrs : [y \in Addrs |-> Garbage][x] = Garbage /\ ~Garbage.magic
    BY DEF Garbage
  <2> QED
    BY <1>1, <2>1 DEF Init, Store
<1>4. End(HEAP_START) = brk /\ brk \in Nat /\ brk \in HEAP_START..(HEAP_START + HEAP_MAX)
  BY <1>3 DEF Init, FreeBlock, End
<1>5. Aligned(brk)
  <2>1. /\ HEAP_INITIAL \in Int /\ PAGE_SIZE \in Nat \ {0} /\ Align \in Nat \ {0}
        /\ HEAP_INITIAL % PAGE_SIZE = 0 /\ PAGE_SIZE % Align = 0
    BY AlignAssumption
  <2>2. HEAP_INITIAL % Align = 0
    BY ONLY TransMod, <2>1
  <2>3. Aligned(HEAP_INITIAL)
    BY <2>2 DEF Aligned
  <2> QED
    BY <2>1, <2>3, AlignedSum DEF Init
<1>6. TypeOK
  BY <1>1, <1>2, <1>4 DEF Init, TypeOK
<1>7. Tiling
  BY <1>3, <1>4 DEF Init, Tiling, FreeBlock
<1>8. BlocksInv
  <2>1. live = {HEAP_START} /\ hdr[HEAP_START].magic /\ hdr[HEAP_START].next = Null
    BY <1>3 DEF Init, FreeBlock
  <2>2. End(HEAP_START) <= brk
    BY <1>4
  <2> QED
    BY <1>4, <1>5, <2>1, <2>2, AlignedSum, Zenon DEF BlocksInv
<1>9. OwnersInv
  <2>1. live = {HEAP_START} /\ owned = {} /\ hdr[HEAP_START].free
    BY <1>3 DEF Init, FreeBlock
  <2> QED
    BY <2>1 DEF OwnersInv
<1>10. LocalsInv /\ SearchInv
  BY DEF Init, LocalsInv, SearchInv
<1>11. CoalescedInv
  BY <1>3 DEF Init, CoalescedInv, Settled, FreeBlock
<1>12. StacksInv /\ RemainsInv
  <2>1. \A x \in Addrs : hdr[x].magic => x = HEAP_START
    BY <1>3 DEF Garbage
  <2>2. \A a \in live, x \in Addrs : a < x /\ x < a + HeaderSize => ~hdr[x].magic
    <3>1. \A a \in live : a = HEAP_START /\ a \in Nat
      BY DEF Init
    <3> QED
      BY <2>1, <3>1
  <2>3. \A x \in Addrs : ~Stale(x)
    BY <2>1 DEF Init, Stale
  <2> QED
    BY <2>2, <2>3 DEF Init, StacksInv, RemainsInv
<1> QED
  BY <1>6, <1>7, <1>8, <1>9, <1>10, <1>11, <1>12 DEF IInv

-----------------------------------------------------------------------------
(* Steps that leave the list alone.                                        *)

\* Writing to memory outside the headers of the list leaves the list, the
\* allocations and what every header of the list says as they are.
LEMMA ListUntouched ==
  ASSUME IInv, UNCHANGED <<brk, live, owned>>, \A x \in live : hdr'[x] = hdr[x]
  PROVE  /\ Tiling' /\ BlocksInv' /\ OwnersInv'
         /\ \A a \in live : Settled(a)' <=> Settled(a)
<1>1. \A a \in live : End(a)' = End(a)
  BY DEF End
<1>2. Tiling'
  BY <1>1 DEF IInv, Tiling
<1>3. BlocksInv'
  BY <1>1 DEF IInv, BlocksInv
<1>4. OwnersInv'
  BY DEF IInv, OwnersInv
<1>5. \A a \in live : Settled(a)' <=> Settled(a)
  BY DEF IInv, Tiling, Settled
<1> QED
  BY <1>2, <1>3, <1>4, <1>5

\* A step that writes no memory and leaves no allocation in hand.
LEMMA MemoryUntouched ==
  ASSUME IInv, UNCHANGED <<hdr, brk, live, owned, stacks>>,
         pc \notin {"memset", "craft"} \/ UNCHANGED <<pc, b>>
  PROVE  /\ Tiling' /\ BlocksInv' /\ OwnersInv' /\ StacksInv' /\ RemainsInv'
         /\ \A a \in live : Settled(a)' <=> Settled(a)
<1>1. /\ Tiling' /\ BlocksInv' /\ OwnersInv'
      /\ \A a \in live : Settled(a)' <=> Settled(a)
  BY ListUntouched
<1>2. StacksInv'
  BY DEF IInv, StacksInv
<1>3. \A x : (Stale(x)' <=> Stale(x)) /\ (InHand(x) => InHand(x)')
  BY DEF Stale, InHand
<1>4. RemainsInv'
  BY <1>3 DEF IInv, RemainsInv
<1> QED
  BY <1>1, <1>2, <1>4

\* What is left of headers after a write that touches no header of the list,
\* when every header that comes to look like one in use has its word free on
\* the stack at p.
LEMMA RemainsAfterWrite ==
  ASSUME IInv, UNCHANGED <<live, owned>>,
         NEW p, <<p, TASK_STACK_SIZE>> \in owned, p \in stacks', stacks \subseteq stacks',
         \A q : InHand(q) => q = p,
         \A x \in Addrs : hdr'[x].magic => hdr[x].magic,
         \A x \in Addrs : Stale(x)' => Stale(x) \/ Within(FreeWord(x), p, TASK_STACK_SIZE)
  PROVE  RemainsInv'
<1> USE SizesAssumption, NullNotAddr
<1> DEFINE c == p - HeaderSize
<1>1. c \in live /\ TASK_STACK_SIZE <= hdr[c].size /\ p \in Nat /\ p = c + HeaderSize
  BY DEF IInv, OwnersInv, TypeOK
<1> HIDE DEF c
<1>2. End(c) = p + hdr[c].size /\ TASK_STACK_SIZE \in Nat
  BY <1>1, RequestsAssumption DEF End
<1>3. \A a \in live, x \in Addrs : a < x /\ x < a + HeaderSize => ~hdr'[x].magic
  BY DEF IInv, RemainsInv
<1>4. ASSUME NEW x \in Addrs, Stale(x)', NEW a \in live PROVE ~Within(FreeWord(x), a, HeaderSize)
  <2>1. CASE Stale(x)
    BY <2>1 DEF IInv, RemainsInv
  <2>2. CASE Within(FreeWord(x), p, TASK_STACK_SIZE)
    <3>1. /\ a \in Nat /\ c \in Nat /\ End(c) \in Nat /\ hdr[c].size \in Nat
          /\ a + HeaderSize <= End(a) /\ End(a) \in Nat
          /\ (a < c => End(a) <= c) /\ (c < a => End(c) <= a)
      BY <1>1, Geometry DEF IInv, Tiling
    <3>2. p + TASK_STACK_SIZE <= End(c) /\ FreeWord(x) \in Int
      BY <1>1, <1>2, <3>1 DEF FreeWord
    <3> QED
      BY <1>1, <1>2, <2>2, <3>1, <3>2 DEF Within
  <2> QED
    BY <1>4, <2>1, <2>2
<1>5. ASSUME NEW o \in owned, NEW x \in Addrs, Stale(x)', o[1] \notin stacks'
      PROVE  ~Within(FreeWord(x), o[1], o[2])
  <2>0. o[1] # p /\ o[1] \notin stacks /\ ~InHand(o[1])
    BY <1>5
  <2>1. CASE Stale(x)
    BY <2>0, <2>1 DEF IInv, RemainsInv
  <2>2. CASE Within(FreeWord(x), p, TASK_STACK_SIZE)
    <3> DEFINE a == o[1] - HeaderSize
    <3>0. a \in live /\ o[2] <= hdr[a].size /\ o[1] = a + HeaderSize /\ o[2] \in Nat /\ a # c
      <4>1. o[1] \in Nat /\ o[2] \in Nat
        BY RequestsAssumption DEF IInv, TypeOK
      <4>2. a \in live /\ o[2] <= hdr[a].size
        BY DEF IInv, OwnersInv
      <4>3. o[1] = a + HeaderSize /\ a # c
        BY <1>1, <2>0, <4>1 DEF c
      <4> QED
        BY <4>1, <4>2, <4>3
    <3> HIDE DEF a
    <3>1. /\ a \in Nat /\ c \in Nat /\ End(c) \in Nat /\ hdr[c].size \in Nat /\ hdr[a].size \in Nat
          /\ End(a) = a + HeaderSize + hdr[a].size
          /\ (a < c => End(a) <= c) /\ (c < a => End(c) <= a)
      BY <1>1, <3>0, Geometry DEF IInv, Tiling, End
    <3>2. p + TASK_STACK_SIZE <= End(c) /\ FreeWord(x) \in Int
      BY <1>1, <1>2, <3>1 DEF FreeWord
    <3> QED
      BY <1>1, <1>2, <2>2, <3>0, <3>1, <3>2 DEF Within
  <2> QED
    BY <1>5, <2>1, <2>2
<1> QED
  BY <1>3, <1>4, <1>5 DEF RemainsInv

\* The beginning of kmalloc.
LEMMA KmallocStep == IInv /\ kmalloc => IInv'
<1> SUFFICES ASSUME IInv, kmalloc PROVE IInv'
  OBVIOUS
<1> USE NullNotAddr DEF kmalloc
<1>1. TypeOK'
  BY SizesAssumption, RequestsAssumption DEF IInv, TypeOK, Addrs, Tiling
<1>2. /\ Tiling' /\ BlocksInv' /\ OwnersInv' /\ StacksInv' /\ RemainsInv'
      /\ \A a \in live : Settled(a)' <=> Settled(a)
  BY MemoryUntouched
<1>3. LocalsInv'
  BY RequestsAssumption DEF IInv, LocalsInv, Tiling
<1>4. CoalescedInv'
  BY <1>2 DEF IInv, CoalescedInv
<1>5. SearchInv'
  <2>1. \A a \in live : ~(a < HEAP_START) /\ HEAP_START # Null
    BY SizesAssumption DEF IInv, TypeOK, Addrs, Null
  <2> QED
    BY <2>1 DEF IInv, LocalsInv, SearchInv
<1> QED
  BY <1>1, <1>2, <1>3, <1>4, <1>5 DEF IInv

\* The search moves on past a block that does not fit, or settles on one
\* that does; a second search cannot reach the end.
LEMMA SearchStep == IInv /\ search => IInv'
<1> SUFFICES ASSUME IInv, search PROVE IInv'
  OBVIOUS
<1> USE NullNotAddr DEF search
<1>0. \A x : Fits(x)' <=> Fits(x)
  BY DEF Fits, size
<1>1. TypeOK'
  BY DEF IInv, TypeOK, Headers
<1>2. /\ Tiling' /\ BlocksInv' /\ OwnersInv' /\ StacksInv' /\ RemainsInv'
      /\ \A a \in live : Settled(a)' <=> Settled(a)
  BY MemoryUntouched
<1>3. LocalsInv'
  <2>1. b \in live \cup {Null} /\ request \in Requests /\ then # "search"
    BY DEF IInv, LocalsInv
  <2>2. attempt = 1 => b # Null
    BY DEF IInv, SearchInv
  <2>3. b # Null => hdr[b].next \in live \cup {Null}
    BY <2>1 DEF IInv, Tiling
  <2> QED
    BY <1>0, <2>1, <2>2, <2>3 DEF IInv, TypeOK, LocalsInv
<1>4. CoalescedInv'
  BY <1>2 DEF IInv, CoalescedInv
<1>5. SearchInv'
  <2>1. CASE b = Null /\ pc' = "extend" /\ UNCHANGED b
    BY <1>0, <2>1 DEF IInv, LocalsInv, SearchInv
  <2>2. CASE b # Null /\ ~Fits(b) /\ b' = hdr[b].next /\ UNCHANGED pc
    <3>1. b \in live
      BY <2>2 DEF IInv, LocalsInv
    <3>2. \A a \in live : b' = Null \/ a < b' => a = b \/ a < b
      <4>1. TypeOK /\ Tiling /\ BlocksInv
        BY DEF IInv
      <4>2. \A a, c \in live : a < c => End(a) <= c
        BY <4>1 DEF Tiling
      <4> QED
        BY <2>2, <3>1, <4>1, <4>2, Geometry
    <3>3. \A a \in live : b' = Null \/ a < b' => ~Fits(a)
      BY <2>2, <3>1, <3>2, Geometry DEF IInv, SearchInv
    <3>4. ASSUME NEW a \in live, b <= a, Fits(a) PROVE b' # Null /\ b' <= a
      BY <2>2, <3>1, <3>2, <3>4, Geometry DEF IInv
    <3> QED
      BY <1>0, <2>2, <3>3, <3>4 DEF IInv, LocalsInv, SearchInv
  <2>3. CASE b # Null /\ Fits(b) /\ pc' = "take" /\ UNCHANGED b
    BY <2>3 DEF IInv, LocalsInv, SearchInv
  <2> QED
    BY <2>1, <2>2, <2>3
<1> QED
  BY <1>1, <1>2, <1>3, <1>4, <1>5 DEF IInv

\* cmd_kmalloc's scribbling stays inside the block it was given.
LEMMA MemsetStep == IInv /\ memset => IInv'
<1> SUFFICES ASSUME IInv, memset PROVE IInv'
  OBVIOUS
<1> USE SizesAssumption, NullNotAddr DEF memset, Return
<1>1. b \in live /\ request \in Requests /\ request <= hdr[b].size /\ request \in Nat
  BY RequestsAssumption DEF IInv, LocalsInv
<1>2. hdr' \in [Addrs -> Headers]
  BY DEF IInv, TypeOK, Garbage, Headers
<1>3. TypeOK'
  BY <1>2 DEF IInv, TypeOK
<1>4. ASSUME NEW x \in live PROVE hdr'[x] = hdr[x]
  <2>1. x = b \/ x < b \/ End(b) <= x
    <3>1. TypeOK /\ Tiling /\ BlocksInv
      BY DEF IInv
    <3> QED
      BY <1>1, <3>1, Geometry DEF Tiling
  <2>2. b + HeaderSize + request <= End(b) /\ x \in Addrs /\ b < b + HeaderSize
    BY <1>1, Geometry DEF IInv, End
  <2>3. ~(b + HeaderSize <= x /\ x < b + HeaderSize + request)
    BY <1>1, <2>1, <2>2, Geometry DEF IInv
  <2> QED
    BY <2>2, <2>3
<1>5. /\ \A x \in Addrs : hdr'[x] \in {hdr[x], Garbage}
      /\ \A x \in Addrs : Within(x, b + HeaderSize, request) => hdr'[x] = Garbage
  BY DEF Within
<1>6. Tiling' /\ BlocksInv' /\ OwnersInv' /\ \A a \in live : Settled(a)' <=> Settled(a)
  BY <1>4, ListUntouched
<1>7. LocalsInv' /\ SearchInv'
  BY DEF LocalsInv, SearchInv
<1>8. CoalescedInv' /\ StacksInv'
  BY <1>6 DEF IInv, CoalescedInv, StacksInv
<1>9. RemainsInv'
  <2>1. \A x \in Addrs : (hdr'[x].magic => hdr[x].magic) /\ (Stale(x)' => Stale(x) /\ hdr'[x].magic)
    BY <1>5 DEF Stale, Garbage
  <2>2. ASSUME NEW o \in owned, NEW x \in Addrs, Stale(x)', o[1] \notin stacks,
               Within(FreeWord(x), o[1], o[2])
        PROVE  FALSE
    <3>1. Stale(x) /\ InHand(o[1]) /\ hdr'[x].magic
      BY <2>1, <2>2 DEF IInv, RemainsInv
    <3>2. o[1] = b + HeaderSize /\ o[2] = request
      <4>1. o[1] = b + HeaderSize /\ <<b + HeaderSize, request>> \in owned
        BY <3>1 DEF InHand, IInv, LocalsInv
      <4> QED
        BY <4>1 DEF IInv, OwnersInv
    <3>3. b \in Nat /\ x \in Nat
      BY <1>1, Geometry DEF IInv
    <3>4. b < x /\ x < b + HeaderSize + request
      BY <1>1, <2>2, <3>2, <3>3 DEF Within, FreeWord
    <3>5. CASE x < b + HeaderSize
      BY <1>1, <3>1, <3>4, <3>5 DEF IInv, RemainsInv, Stale
    <3>6. CASE b + HeaderSize <= x
      BY <1>5, <3>1, <3>4, <3>6 DEF Within, Garbage
    <3> QED
      BY <3>3, <3>5, <3>6, <1>1
  <2> QED
    BY <2>1, <2>2 DEF IInv, RemainsInv
<1> QED
  BY <1>3, <1>6, <1>7, <1>8, <1>9 DEF IInv

\* The context that task_create builds stays inside the block it was given.
LEMMA CraftStep == IInv /\ craft => IInv'
<1> SUFFICES ASSUME IInv, craft PROVE IInv'
  OBVIOUS
<1> USE SizesAssumption, NullNotAddr
<1> DEFINE p   == b + HeaderSize
           top == b + HeaderSize + TASK_STACK_SIZE
           sp  == top - FrameSize
           zero(w)    == sp < w /\ w < top - 2 * WordSize
           inFrame(x) == sp <= x /\ x < top
<1>1. /\ b \in live /\ request = TASK_STACK_SIZE /\ TASK_STACK_SIZE <= hdr[b].size
      /\ <<p, TASK_STACK_SIZE>> \in owned /\ TASK_STACK_SIZE \in Nat /\ pc = "craft"
      /\ FrameSize \in Nat /\ FrameSize <= TASK_STACK_SIZE
      /\ b \in Nat /\ b \in Addrs /\ hdr[b].size \in Nat /\ End(b) = p + hdr[b].size
      /\ p \in Addrs /\ p \in Nat /\ sp \in Nat /\ p <= sp /\ top = p + TASK_STACK_SIZE
  <2>1. /\ b \in live /\ request = TASK_STACK_SIZE /\ TASK_STACK_SIZE <= hdr[b].size
        /\ <<p, TASK_STACK_SIZE>> \in owned /\ pc = "craft"
    BY DEF IInv, LocalsInv, craft
  <2>2. TASK_STACK_SIZE \in Nat /\ FrameSize \in Nat /\ FrameSize <= TASK_STACK_SIZE
    BY RequestsAssumption
  <2>3. b \in Nat /\ b \in Addrs /\ hdr[b].size \in Nat
    BY <2>1, Geometry DEF IInv
  <2>4. p \in Addrs
    BY <2>1 DEF IInv, TypeOK
  <2> QED
    BY <2>1, <2>2, <2>3, <2>4 DEF End
<1>2. /\ hdr' = [x \in Addrs |->
                   IF inFrame(x) THEN Garbage
                   ELSE IF hdr[x].magic /\ inFrame(FreeWord(x))
                     THEN [hdr[x] EXCEPT !.free = ~zero(FreeWord(x))]
                   ELSE hdr[x]]
      /\ stacks' = stacks \cup {p}
      /\ UNCHANGED <<brk, live, owned>>
  BY DEF craft
<1>3. \A x \in Addrs : zero(FreeWord(x)) \in BOOLEAN
  OBVIOUS
<1> HIDE DEF zero
<1>4. ASSUME NEW x \in Addrs
      PROVE  /\ hdr'[x] \in Headers /\ (hdr'[x].magic => hdr[x].magic)
             /\ hdr'[x] # hdr[x] => (hdr'[x] = Garbage /\ inFrame(x)) \/ inFrame(FreeWord(x))
  <2>1. hdr[x] \in Headers /\ Garbage \in Headers /\ ~Garbage.magic
    BY DEF IInv, TypeOK, Garbage, Headers
  <2>2. CASE inFrame(x)
    BY <1>2, <2>1, <2>2
  <2>3. CASE ~inFrame(x) /\ hdr[x].magic /\ inFrame(FreeWord(x))
    <3>1. hdr'[x] = [hdr[x] EXCEPT !.free = ~zero(FreeWord(x))]
      BY <1>2, <2>3
    <3>2. hdr'[x] \in Headers
      BY <1>3, <2>1, <3>1, FreeUpdate
    <3> QED
      BY <2>1, <2>3, <3>2
  <2>4. CASE ~inFrame(x) /\ ~(hdr[x].magic /\ inFrame(FreeWord(x)))
    BY <1>2, <2>1, <2>4
  <2> QED
    BY <2>2, <2>3, <2>4
<1>5. hdr' \in [Addrs -> Headers]
  BY <1>2, <1>4
<1>6. ASSUME NEW x \in live PROVE hdr'[x] = hdr[x]
  <2>1. x = b \/ End(x) <= b \/ End(b) <= x
    BY <1>1, Geometry DEF IInv, Tiling
  <2>2. x \in Addrs /\ x \in Nat /\ End(x) \in Nat /\ x + HeaderSize <= End(x) /\ End(b) \in Nat
    BY <1>1, Geometry DEF IInv
  <2>3. top <= End(b) /\ p = b + HeaderSize
    BY <1>1
  <2>4. x + HeaderSize <= p \/ top <= x
    BY <1>1, <2>1, <2>2, <2>3
  <2>5. ~inFrame(x) /\ ~inFrame(FreeWord(x))
    BY <1>1, <2>2, <2>4 DEF FreeWord
  <2> QED
    BY <1>4, <2>2, <2>5
<1>7. Tiling' /\ BlocksInv' /\ OwnersInv' /\ \A a \in live : Settled(a)' <=> Settled(a)
  BY <1>2, <1>6, ListUntouched
<1>8. TypeOK'
  <2>1. stacks' \in SUBSET Addrs
    BY <1>1, <1>2 DEF IInv, TypeOK
  <2> QED
    BY <1>2, <1>5, <2>1 DEF IInv, TypeOK, craft, Return
<1>9. LocalsInv' /\ SearchInv'
  BY DEF LocalsInv, SearchInv, craft, Return
<1>10. CoalescedInv' /\ StacksInv'
  BY <1>1, <1>2, <1>7 DEF IInv, CoalescedInv, StacksInv
<1>11. RemainsInv'
  <2>1. p \in stacks' /\ stacks \subseteq stacks' /\ \A q : InHand(q) => q = p
    BY <1>2 DEF InHand
  <2>2. \A x \in Addrs : hdr'[x].magic => hdr[x].magic
    BY <1>4
  <2>3. ASSUME NEW x \in Addrs, Stale(x)', ~Stale(x)
        PROVE  Within(FreeWord(x), p, TASK_STACK_SIZE)
    <3>1. hdr'[x] # hdr[x] /\ hdr'[x].magic
      BY <1>2, <2>3 DEF Stale
    <3>2. inFrame(FreeWord(x))
      BY <1>4, <3>1 DEF Garbage
    <3> QED
      BY <1>1, <3>2 DEF Within, FreeWord
  <2> HIDE DEF p, inFrame
  <2> QED
    BY <1>1, <1>2, <2>1, <2>2, <2>3, RemainsAfterWrite
<1> QED
  BY <1>7, <1>8, <1>9, <1>10, <1>11 DEF IInv

\* What a task pushes stays on its stack.
LEMMA RunsStep == IInv /\ task_runs => IInv'
<1> SUFFICES ASSUME IInv, pc = "idle", NEW p \in stacks,
                    NEW lost \in SUBSET Left(p), NEW zero \in SUBSET Left(p),
                    hdr' = [x \in Addrs |->
                              IF x \in lost THEN Garbage
                              ELSE IF x \in Left(p) /\ FreeWord(x) < p + TASK_STACK_SIZE
                                THEN [hdr[x] EXCEPT !.free = x \notin zero]
                              ELSE hdr[x]],
                    UNCHANGED <<brk, live, owned, stacks, pc, caller, request, attempt, b, then>>
             PROVE  IInv'
  BY DEF task_runs
<1> USE SizesAssumption, NullNotAddr
<1> DEFINE c == p - HeaderSize
<1>1. /\ <<p, TASK_STACK_SIZE>> \in owned /\ p \in Nat /\ p = c + HeaderSize
      /\ c \in live /\ TASK_STACK_SIZE <= hdr[c].size /\ TASK_STACK_SIZE \in Nat
  BY RequestsAssumption DEF IInv, StacksInv, OwnersInv, TypeOK
<1> HIDE DEF c
<1>2. \A x \in Left(p) : x \in Addrs /\ hdr[x].magic /\ Within(x, p, TASK_STACK_SIZE)
  BY <1>1 DEF Left, Within
<1>3. ASSUME NEW x \in Addrs
      PROVE  /\ hdr'[x] \in Headers /\ (hdr'[x].magic => hdr[x].magic)
             /\ hdr'[x] # hdr[x] => /\ Within(x, p, TASK_STACK_SIZE)
                                    /\ hdr'[x] = Garbage \/ FreeWord(x) < p + TASK_STACK_SIZE
  <2>1. hdr[x] \in Headers /\ Garbage \in Headers /\ ~Garbage.magic
    BY DEF IInv, TypeOK, Garbage, Headers
  <2>2. CASE x \in lost
    BY <1>2, <2>1, <2>2
  <2>3. CASE x \notin lost /\ x \in Left(p) /\ FreeWord(x) < p + TASK_STACK_SIZE
    <3>1. hdr'[x] = [hdr[x] EXCEPT !.free = x \notin zero]
      BY <2>3
    <3>2. hdr'[x] \in Headers
      BY <2>1, <3>1, FreeUpdate
    <3> QED
      BY <1>2, <2>3, <3>2
  <2>4. CASE x \notin lost /\ ~(x \in Left(p) /\ FreeWord(x) < p + TASK_STACK_SIZE)
    BY <2>1, <2>4
  <2> QED
    BY <2>2, <2>3, <2>4
<1>4. hdr' \in [Addrs -> Headers]
  BY <1>3
<1>5. ASSUME NEW x \in live PROVE hdr'[x] = hdr[x]
  <2>1. /\ x \in Addrs /\ x \in Nat /\ c \in Nat /\ End(c) = p + hdr[c].size /\ hdr[c].size \in Nat
        /\ x = c \/ x < c \/ End(c) <= x
    BY <1>1, Geometry DEF IInv, Tiling, End
  <2>2. ~Within(x, p, TASK_STACK_SIZE)
    BY <1>1, <2>1 DEF Within
  <2> QED
    BY <1>3, <2>1, <2>2
<1>6. Tiling' /\ BlocksInv' /\ OwnersInv' /\ \A a \in live : Settled(a)' <=> Settled(a)
  BY <1>5, ListUntouched
<1>7. TypeOK'
  BY <1>4 DEF IInv, TypeOK
<1>8. LocalsInv' /\ SearchInv' /\ CoalescedInv' /\ StacksInv'
  BY <1>6 DEF IInv, LocalsInv, SearchInv, CoalescedInv, StacksInv
<1>9. RemainsInv'
  <2>1. \A q : ~InHand(q)
    BY DEF InHand
  <2>2. ASSUME NEW x \in Addrs, Stale(x)', ~Stale(x)
        PROVE  Within(FreeWord(x), p, TASK_STACK_SIZE)
    <3>1. hdr'[x] # hdr[x] /\ hdr'[x] # Garbage
      BY <2>2 DEF Stale, Garbage
    <3> QED
      BY <1>1, <1>3, <3>1 DEF Within, FreeWord
  <2> QED
    BY <1>1, <1>3, <2>1, <2>2, RemainsAfterWrite
<1> QED
  BY <1>6, <1>7, <1>8, <1>9 DEF IInv

-----------------------------------------------------------------------------
(* kfree and coalesce                                                      *)

\* kfree accepts every allocation, and what it accepts besides is a header
\* outside the list that looks like one in use.
LEMMA AcceptsOwned ==
  ASSUME IInv, NEW p \in Addrs
  PROVE  /\ (\E o \in owned : o[1] = p) => kfree_accepts(p) /\ p - HeaderSize \in live
         /\ kfree_accepts(p) => /\ p - HeaderSize \in Addrs
                                /\ (\E o \in owned : o[1] = p) \/ Stale(p - HeaderSize)
<1> USE SizesAssumption, NullNotAddr
<1>1. ASSUME kfree_accepts(p)
      PROVE  /\ p - HeaderSize \in Addrs
             /\ (\E o \in owned : o[1] = p) \/ Stale(p - HeaderSize)
  <2>1. p - HeaderSize \in Addrs
    BY <1>1 DEF kfree_accepts, Addrs
  <2>2. CASE p - HeaderSize \in live
    <3>1. ~hdr[p - HeaderSize].free
      BY <1>1 DEF kfree_accepts
    <3>2. PICK o \in owned : o[1] = (p - HeaderSize) + HeaderSize
      BY <2>2, <3>1 DEF IInv, OwnersInv
    <3> QED
      BY <2>1, <3>2
  <2>3. CASE p - HeaderSize \notin live
    BY <1>1, <2>1, <2>3 DEF kfree_accepts, Stale
  <2> QED
    BY <2>2, <2>3
<1>2. ASSUME NEW o \in owned, o[1] = p PROVE kfree_accepts(p) /\ p - HeaderSize \in live
  <2> DEFINE a == p - HeaderSize
  <2>1. a \in live /\ ~hdr[a].free /\ o[2] <= hdr[a].size
    BY <1>2 DEF IInv, OwnersInv
  <2>2. hdr[a].magic /\ a + HeaderSize + hdr[a].size <= brk
    BY <2>1 DEF IInv, BlocksInv, End
  <2>3. o[2] \in Nat \ {0}
    BY <1>2, RequestsAssumption DEF IInv, TypeOK
  <2>4. a \in Nat /\ a >= HEAP_START /\ hdr[a].size \in Nat /\ brk \in Nat
    BY <2>1, Geometry DEF IInv, Addrs, TypeOK
  <2>5. p >= HEAP_START + HeaderSize /\ p < brk
    BY <2>1, <2>2, <2>3, <2>4
  <2> QED
    BY <2>1, <2>2, <2>5 DEF kfree_accepts
<1> QED
  BY <1>1, <1>2

\* Marking a block free keeps the list; coalesce() starts at its head.
LEMMA KfreeStep == IInv /\ kfree => IInv'
<1> SUFFICES ASSUME IInv, NEW p \in Addrs, kfree_accepts(p),
                    pc = "idle",
                    hdr' = [hdr EXCEPT ![p - HeaderSize].free = TRUE],
                    owned' = {o \in owned : o[1] # p},
                    stacks' = stacks \ {p},
                    pc' = "coalesce", b' = HEAP_START,
                    UNCHANGED <<brk, live, caller, request, attempt, then>>
             PROVE  IInv'
  BY DEF kfree
<1> USE SizesAssumption, NullNotAddr
<1> DEFINE a == p - HeaderSize
<1>1. a \in Addrs /\ p = a + HeaderSize
  BY AcceptsOwned DEF Addrs
<1> HIDE DEF a
<1>2. /\ hdr' \in [Addrs -> Headers]
      /\ hdr'[a].magic = hdr[a].magic /\ hdr'[a].size = hdr[a].size
      /\ hdr'[a].next = hdr[a].next /\ hdr'[a].free = TRUE
      /\ \A x \in Addrs : x # a => hdr'[x] = hdr[x]
  <2>1. hdr' = [hdr EXCEPT ![a].free = TRUE] /\ hdr \in [Addrs -> Headers]
    BY DEF a, IInv, TypeOK
  <2>2. hdr'[a] = [hdr[a] EXCEPT !.free = TRUE] /\ \A x \in Addrs : x # a => hdr'[x] = hdr[x]
    BY <1>1, <2>1
  <2>3. hdr[a] \in Headers
    BY <1>1, <2>1
  <2>4. hdr'[a] \in Headers
    BY <2>2, <2>3, FreeUpdate
  <2>5. /\ hdr'[a].magic = hdr[a].magic /\ hdr'[a].size = hdr[a].size
        /\ hdr'[a].next = hdr[a].next /\ hdr'[a].free = TRUE
    BY <2>2, <2>3 DEF Headers
  <2>6. hdr' \in [Addrs -> Headers]
    BY <1>1, <2>1, <2>2, <2>4
  <2> QED
    BY <2>2, <2>5, <2>6
<1>3. \A x \in Addrs : /\ hdr'[x].magic = hdr[x].magic /\ hdr'[x].size = hdr[x].size
                       /\ hdr'[x].next = hdr[x].next
  BY <1>2
<1>4. live \subseteq Addrs /\ \A x \in live : End(x)' = End(x)
  BY <1>3 DEF IInv, TypeOK, End
<1>5. TypeOK'
  BY <1>2 DEF IInv, TypeOK, Tiling
<1>6. Tiling'
  BY <1>3, <1>4 DEF IInv, Tiling
<1>7. BlocksInv'
  BY <1>3, <1>4 DEF IInv, BlocksInv
<1>8. OwnersInv'
  <2>1. \A o \in owned' : o \in owned /\ o[1] # p /\ o[1] \in Nat
    BY DEF IInv, TypeOK
  <2>2. \A o \in owned' : o[1] - HeaderSize # a
    BY <1>1, <2>1 DEF Addrs
  <2>3. \A o \in owned' : /\ o[1] - HeaderSize \in live
                          /\ ~hdr'[o[1] - HeaderSize].free
                          /\ o[2] <= hdr'[o[1] - HeaderSize].size
    BY <1>2, <1>4, <2>1, <2>2 DEF IInv, OwnersInv
  <2>4. ASSUME NEW c \in live, ~hdr'[c].free PROVE \E o \in owned' : o[1] = c + HeaderSize
    <3>1. c # a /\ ~hdr[c].free /\ c \in Nat /\ a \in Nat
      BY <1>1, <1>2, <1>4, <2>4
    <3>2. c + HeaderSize # p
      BY <1>1, <3>1
    <3> QED
      BY <3>1, <3>2 DEF IInv, OwnersInv
  <2> QED
    BY <2>1, <2>3, <2>4 DEF IInv, OwnersInv
<1>9. LocalsInv'
  BY DEF IInv, LocalsInv, Tiling
<1>10. CoalescedInv' /\ SearchInv'
  <2>1. \A x \in live : ~(x < HEAP_START)
    BY <1>4 DEF Addrs
  <2> QED
    BY <2>1 DEF IInv, LocalsInv, CoalescedInv, SearchInv
<1>11. StacksInv'
  <2> SUFFICES ASSUME NEW q \in stacks, q # p PROVE <<q, TASK_STACK_SIZE>> \in owned'
    BY DEF StacksInv
  <2>1. <<q, TASK_STACK_SIZE>> \in owned /\ <<q, TASK_STACK_SIZE>>[1] = q
    BY DEF IInv, StacksInv
  <2> QED
    BY <2>1
<1>12. RemainsInv'
  <2>1. \A x \in Addrs : (hdr'[x].magic => hdr[x].magic) /\ (Stale(x)' => Stale(x))
    BY <1>2 DEF Stale
  <2>2. \A o \in owned' : o \in owned /\ (o[1] \in stacks => o[1] \in stacks') /\ ~InHand(o[1])
    BY DEF InHand
  <2> QED
    BY <2>1, <2>2 DEF IInv, RemainsInv
<1> QED
  BY <1>5, <1>6, <1>7, <1>8, <1>9, <1>10, <1>11, <1>12 DEF IInv

\* A block swallows its free neighbour. The neighbour's end becomes its end,
\* and nobody else led to the neighbour.
LEMMA MergeStep ==
  ASSUME IInv, pc = "coalesce", hdr[b].next # Null, Mergeable(b),
         hdr' = Merge(b, hdr[b].next), live' = live \ {hdr[b].next}, b' = AfterMerge,
         UNCHANGED <<pc, caller, request, attempt, then, brk, owned, stacks>>
  PROVE  IInv'
<1> USE SizesAssumption, NullNotAddr
<1> DEFINE n == hdr[b].next
           m == MergedSize(b)
<1>1. /\ b \in live /\ n \in live /\ n = End(b) /\ b < n /\ b # n
      /\ b \in Addrs /\ n \in Addrs /\ live \subseteq Addrs
      /\ hdr[b] \in Headers /\ hdr[n] \in Headers
      /\ hdr[b].free /\ hdr[n].free
  <2>1. b \in live /\ live \subseteq Addrs /\ \A x \in Addrs : hdr[x] \in Headers
    BY DEF IInv, LocalsInv, TypeOK
  <2> QED
    BY <2>1, Geometry DEF IInv, Mergeable
<1>2. m = hdr[b].size + HeaderSize + hdr[n].size /\ m \in Nat
  BY <1>1 DEF MergedSize, Headers
<1>3. hdr[n].next \in Addrs \cup {Null}
  BY <1>1 DEF Headers
<1>4. hdr' = [hdr EXCEPT ![b].size = m, ![b].next = hdr[n].next, ![n].size = 0, ![n].next = Null]
  BY DEF Merge
<1>5. b' = b
  BY DEF AfterMerge
<1> HIDE DEF n, m
<1>6. /\ hdr'[b] = [[hdr[b] EXCEPT !.size = m] EXCEPT !.next = hdr[n].next]
      /\ hdr'[n] = [[hdr[n] EXCEPT !.size = 0] EXCEPT !.next = Null]
      /\ \A x \in Addrs : x # b /\ x # n => hdr'[x] = hdr[x]
      /\ DOMAIN hdr' = Addrs /\ hdr' = [x \in Addrs |-> hdr'[x]]
  BY <1>1, <1>4 DEF IInv, TypeOK
<1>7. hdr'[b] \in Headers /\ hdr'[n] \in Headers
  <2>1. Null \in Addrs \cup {Null} /\ 0 \in Nat
    OBVIOUS
  <2>2. [[hdr[b] EXCEPT !.size = m] EXCEPT !.next = hdr[n].next] \in Headers
    BY <1>1, <1>2, <1>3, BlockUpdate
  <2>3. [[hdr[n] EXCEPT !.size = 0] EXCEPT !.next = Null] \in Headers
    BY <1>1, <2>1, BlockUpdate
  <2> QED
    BY <1>6, <2>2, <2>3
<1>8. /\ hdr'[b].magic = hdr[b].magic /\ hdr'[b].free = hdr[b].free
      /\ hdr'[b].size = m /\ hdr'[b].next = hdr[n].next
      /\ hdr'[n].magic = hdr[n].magic /\ hdr'[n].free = hdr[n].free
  BY <1>1, <1>6 DEF Headers
<1>9. hdr' \in [Addrs -> Headers]
  BY <1>6, <1>7 DEF IInv, TypeOK
<1>10. \A x \in Addrs : hdr'[x].magic = hdr[x].magic /\ hdr'[x].free = hdr[x].free
  BY <1>6, <1>8
<1>11. live' = live \ {n} /\ b \in live'
  BY <1>1 DEF n
<1> DEFINE newEnd(x) == x + HeaderSize + hdr'[x].size
<1>12. newEnd(b) = End(n) /\ \A x \in live' : x # b => newEnd(x) = End(x)
  <2>1. b \in Nat /\ hdr[b].size \in Nat /\ hdr[n].size \in Nat
    BY <1>1 DEF Headers
  <2>2. newEnd(b) = b + HeaderSize + m
    BY <1>8
  <2>3. n = b + HeaderSize + hdr[b].size /\ End(n) = n + HeaderSize + hdr[n].size
    BY <1>1 DEF End
  <2>4. newEnd(b) = End(n)
    BY <1>2, <2>1, <2>2, <2>3
  <2>5. \A x \in live' : x # b => newEnd(x) = End(x)
    BY <1>1, <1>6, <1>11 DEF End
  <2> QED
    BY <2>4, <2>5
<1> HIDE DEF newEnd
<1>13. \A x \in live : x # b => hdr[x].next # n
  BY <1>1, Geometry DEF IInv, n
<1>14. \A x \in live : /\ x \in Nat /\ End(x) \in Nat /\ x < End(x) /\ End(x) <= brk
                       /\ \A c \in live : x < c => End(x) <= c
  BY Geometry DEF IInv, Tiling, BlocksInv
<1>15. hdr[n].next # n
  BY <1>1, Geometry DEF IInv
<1>16. TypeOK'
  BY <1>5, <1>9, <1>11 DEF IInv, TypeOK
<1>17. Tiling'
  <2>1. HEAP_START \in live'
    BY <1>1, <1>11 DEF IInv, Tiling, Addrs
  <2>2. ASSUME NEW x \in live'
        PROVE  /\ hdr'[x].next \in live' \cup {Null}
               /\ newEnd(x) = IF hdr'[x].next = Null THEN brk ELSE hdr'[x].next
    <3>1. /\ \A y \in live : hdr[y].next \in live \cup {Null}
          /\ \A y \in live : End(y) = IF hdr[y].next = Null THEN brk ELSE hdr[y].next
      BY DEF IInv, Tiling
    <3>2. CASE x = b
      BY <1>1, <1>8, <1>11, <1>12, <1>15, <3>1, <3>2
    <3>3. CASE x # b
      <4>1. hdr'[x] = hdr[x] /\ x \in live /\ newEnd(x) = End(x)
        BY <1>1, <1>6, <1>11, <1>12, <3>3
      <4> QED
        BY <1>11, <1>13, <3>1, <3>3, <4>1
    <3> QED
      BY <3>2, <3>3
  <2>4. ASSUME NEW x \in live', NEW c \in live', x < c PROVE newEnd(x) <= c
    <3>1. CASE x # b
      BY <1>11, <1>12, <1>14, <2>4, <3>1
    <3>2. CASE x = b
      <4>1. c # n /\ n <= c
        BY <1>1, <1>11, <1>14, <2>4, <3>2
      <4> QED
        BY <1>1, <1>11, <1>12, <1>14, <3>2, <4>1
    <3> QED
      BY <3>1, <3>2
  <2> QED
    BY <2>1, <2>2, <2>4 DEF Tiling, End, newEnd
<1>18. BlocksInv'
  <2>1. \A x \in live' : newEnd(x) <= brk
    BY <1>1, <1>11, <1>12, <1>14
  <2>2. \E x \in live' : hdr'[x].next = Null
    <3>1. PICK t \in live : hdr[t].next = Null
      BY DEF IInv, BlocksInv
    <3>2. CASE t = n
      BY <1>8, <1>11, <3>1, <3>2
    <3>3. CASE t # n
      <4>1. t # b /\ t \in live' /\ hdr'[t] = hdr[t]
        BY <1>1, <1>6, <1>11, <3>1, <3>3 DEF n
      <4> QED
        BY <3>1, <4>1
    <3> QED
      BY <3>2, <3>3
  <2> QED
    BY <1>1, <1>10, <1>11, <2>1, <2>2 DEF IInv, BlocksInv, End, newEnd
<1>19. OwnersInv'
  <2>1. \A o \in owned : o[1] - HeaderSize \notin {b, n}
    BY <1>1 DEF IInv, OwnersInv
  <2>2. \A o \in owned : /\ o[1] - HeaderSize \in live'
                         /\ hdr'[o[1] - HeaderSize] = hdr[o[1] - HeaderSize]
    BY <1>1, <1>6, <1>11, <2>1 DEF IInv, OwnersInv
  <2>4. \A x \in live' : ~hdr'[x].free => \E o \in owned : o[1] = x + HeaderSize
    BY <1>1, <1>10, <1>11 DEF IInv, OwnersInv
  <2> QED
    BY <2>2, <2>4 DEF IInv, OwnersInv
<1>20. LocalsInv'
  BY <1>5, <1>11 DEF IInv, LocalsInv
<1>21. CoalescedInv'
  <2> SUFFICES ASSUME NEW x \in live', x < b PROVE Settled(x)'
    BY <1>5 DEF CoalescedInv
  <2>1. Settled(x) /\ x # b /\ x \in live
    BY <1>11, <1>14 DEF IInv, CoalescedInv
  <2>2. hdr'[x].next = hdr[x].next /\ hdr'[x].free = hdr[x].free
    BY <1>1, <1>6, <1>11, <2>1
  <2>3. hdr[x].next # Null => hdr'[hdr[x].next].free = hdr[hdr[x].next].free
    BY <1>1, <1>10, <2>1 DEF IInv, Tiling
  <2> QED
    BY <2>1, <2>2, <2>3 DEF Settled
<1>22. SearchInv'
  <2>1. ASSUME NEW x \in live, Fits(x), then = "search" PROVE \E y \in live' : Fits(y)'
    <3>1. size' = size /\ size \in Nat
      BY <2>1, SizeFacts DEF size, IInv, LocalsInv
    <3>2. hdr[x].free /\ hdr[x].size >= size
      BY <2>1 DEF Fits
    <3>3. CASE x \in {b, n}
      <4>1. m >= hdr[x].size /\ m \in Nat /\ hdr[x].size \in Nat
        BY <1>1, <1>2, <3>3 DEF Headers
      <4>2. Fits(b)'
        BY <1>1, <1>5, <1>8, <3>1, <3>2, <4>1 DEF Fits
      <4> QED
        BY <1>5, <1>11, <4>2
    <3>4. CASE x \notin {b, n}
      <4>1. hdr'[x] = hdr[x] /\ x \in live'
        BY <1>1, <1>6, <1>11, <3>4
      <4> QED
        BY <3>1, <3>2, <4>1 DEF Fits
    <3> QED
      BY <3>3, <3>4
  <2> QED
    BY <2>1 DEF IInv, SearchInv
<1>23. StacksInv' /\ RemainsInv'
  <2>1. \A x \in Addrs : (hdr'[x].magic => hdr[x].magic) /\ (Stale(x)' => Stale(x))
    BY <1>1, <1>10, <1>11 DEF Stale
  <2>2. \A q : ~InHand(q)
    BY DEF InHand
  <2> QED
    BY <1>11, <2>1, <2>2 DEF IInv, StacksInv, RemainsInv
<1> QED
  BY <1>16, <1>17, <1>18, <1>19, <1>20, <1>21, <1>22, <1>23 DEF IInv

\* One iteration of coalesce().
LEMMA CoalesceStep == IInv /\ coalesce => IInv'
<1> SUFFICES ASSUME IInv, coalesce PROVE IInv'
  OBVIOUS
<1> USE SizesAssumption, NullNotAddr
<1>1. pc = "coalesce" /\ b \in live /\ b # Null /\ UNCHANGED <<brk, owned, stacks>>
  BY DEF coalesce, IInv, LocalsInv, TypeOK
<1>2. CASE /\ b # Null /\ hdr[b].next # Null /\ Mergeable(b)
           /\ hdr'  = Merge(b, hdr[b].next)
           /\ live' = live \ {hdr[b].next}
           /\ b'    = AfterMerge
           /\ UNCHANGED <<pc, caller, request, attempt, then>>
  BY <1>1, <1>2, MergeStep
<1>3. CASE /\ b # Null /\ hdr[b].next # Null /\ ~Mergeable(b)
           /\ b' = AfterRefusal
           /\ UNCHANGED <<hdr, live, pc, caller, request, attempt, then>>
  <2> USE <1>3
  <2>1. b' = hdr[b].next /\ b' \in live /\ b' = End(b) /\ b < b'
    BY <1>1, Geometry DEF IInv, AfterRefusal
  <2>2. TypeOK'
    BY <1>1, <2>1 DEF IInv, TypeOK
  <2>3. /\ Tiling' /\ BlocksInv' /\ OwnersInv' /\ StacksInv' /\ RemainsInv'
        /\ \A a \in live : Settled(a)' <=> Settled(a)
    BY <1>1, MemoryUntouched
  <2>4. LocalsInv'
    BY <1>1, <2>1 DEF IInv, LocalsInv
  <2>5. CoalescedInv'
    <3>1. Settled(b)
      BY <1>1, <2>1 DEF Mergeable, Settled
    <3>2. \A a \in live : a < b' => a = b \/ a < b
      BY <1>1, <2>1, Geometry DEF IInv, Tiling
    <3> QED
      BY <1>1, <2>3, <3>1, <3>2 DEF IInv, CoalescedInv
  <2>6. SearchInv'
    BY <1>1 DEF IInv, SearchInv, Fits, size
  <2> QED
    BY <2>2, <2>3, <2>4, <2>5, <2>6 DEF IInv
<1>4. CASE /\ b = Null \/ hdr[b].next = Null
           /\ IF then = "search" /\ attempt = 0
                THEN /\ pc' = "search" /\ attempt' = 1 /\ b' = HEAP_START /\ then' = "idle"
                     /\ UNCHANGED <<caller, request>>
                ELSE Return
           /\ UNCHANGED <<hdr, live>>
  <2> USE <1>4 DEF Return
  <2>1. hdr[b].next = Null /\ \A c \in live : c <= b
    BY <1>1, Geometry DEF IInv
  <2>2. HEAP_START \in live /\ HEAP_START \in Addrs
    BY DEF IInv, TypeOK, Tiling
  <2>3. TypeOK'
    BY <1>1, <2>2 DEF IInv, TypeOK
  <2>4. /\ Tiling' /\ BlocksInv' /\ OwnersInv' /\ StacksInv' /\ RemainsInv'
        /\ \A a \in live : Settled(a)' <=> Settled(a)
    BY <1>1, MemoryUntouched
  <2>5. LocalsInv'
    BY <1>1, <2>2 DEF IInv, LocalsInv
  <2>6. CoalescedInv'
    <3>1. Settled(b)
      BY <2>1 DEF Settled
    <3>2. \A a \in live : a = b \/ a < b
      BY <1>1, <2>1 DEF IInv, TypeOK
    <3>3. \A a \in live : Settled(a)
      BY <1>1, <3>1, <3>2 DEF IInv, CoalescedInv
    <3> QED
      BY <2>4, <3>3 DEF CoalescedInv
  <2>7. SearchInv'
    <3>1. \A a \in live : HEAP_START <= a /\ ~(a < HEAP_START)
      BY DEF IInv, TypeOK, Addrs
    <3> QED
      BY <1>1, <2>2, <3>1 DEF IInv, LocalsInv, SearchInv, Fits, size
  <2> QED
    BY <2>3, <2>4, <2>5, <2>6, <2>7 DEF IInv
<1> QED
  BY <1>1, <1>2, <1>3, <1>4 DEF coalesce

-----------------------------------------------------------------------------
(* Handing a block out, and extending the heap.                            *)

\* What is handed out: an aligned piece inside the chosen block, clear of
\* every other allocation.
LEMMA TakenPiece ==
  ASSUME IInv, pc = "take"
  PROVE  /\ b \in live /\ b \in Addrs /\ hdr[b] \in Headers /\ hdr[b].free
         /\ request \in Requests /\ request <= size /\ size <= hdr[b].size
         /\ size \in Nat /\ request \in Nat \ {0} /\ hdr[b].size \in Nat
         /\ b + HeaderSize \in Addrs /\ Aligned(b + HeaderSize)
         /\ b + HeaderSize + request <= End(b) /\ End(b) <= brk
         /\ \A o \in owned : o[1] # b + HeaderSize
<1> USE SizesAssumption, NullNotAddr
<1>1. b \in live /\ b \in Addrs /\ hdr[b] \in Headers /\ request \in Requests /\ Fits(b)
  BY DEF IInv, LocalsInv, TypeOK
<1>2. /\ size \in Nat /\ request \in Nat \ {0} /\ request <= size
      /\ hdr[b].free /\ hdr[b].size \in Nat /\ size <= hdr[b].size
  BY <1>1, SizeFacts DEF Fits, Headers
<1>3. End(b) = b + HeaderSize + hdr[b].size /\ End(b) <= brk /\ brk <= HEAP_START + HEAP_MAX
      /\ brk \in Nat /\ b \in Nat
  BY <1>1 DEF IInv, BlocksInv, End, TypeOK
<1>4. b + HeaderSize + request <= End(b)
  BY <1>2, <1>3
<1>5. b + HeaderSize \in Addrs
  BY <1>1, <1>2, <1>3, <1>4 DEF Addrs
<1>6. Aligned(b + HeaderSize)
  <2>1. Aligned(b) /\ b \in Int /\ HeaderSize \in Int
    BY <1>1 DEF IInv, BlocksInv
  <2> QED
    BY <2>1, AlignedSum
<1>7. ASSUME NEW o \in owned, o[1] = b + HeaderSize PROVE FALSE
  <2>1. o[1] - HeaderSize = b
    BY <1>3, <1>7
  <2> QED
    BY <1>2, <2>1 DEF IInv, OwnersInv
<1> QED
  BY <1>1, <1>2, <1>3, <1>4, <1>5, <1>6, <1>7

\* The invariant after a step that hands out the block at b, from what it
\* does to the list: the block keeps its place and is now in use.
LEMMA HandedOut ==
  ASSUME IInv, pc = "take", hdr' \in [Addrs -> Headers],
         live' \in SUBSET Addrs, live \subseteq live',
         ~hdr'[b].free, size <= hdr'[b].size,
         \A x \in live : x # b => hdr'[x] = hdr[x],
         \A x \in live' \ live : hdr'[x].free,
         owned' = owned \cup {<<b + HeaderSize, request>>},
         pc' = (IF caller = "shell" THEN "memset" ELSE "craft"),
         UNCHANGED <<brk, stacks, caller, request, attempt, b, then>>
  PROVE  TypeOK' /\ OwnersInv' /\ StacksInv' /\ LocalsInv' /\ SearchInv'
<1> USE NullNotAddr
<1>0. /\ b \in live /\ b \in Addrs /\ b \in Nat /\ request \in Requests /\ request \in Nat
      /\ b + HeaderSize \in Addrs /\ \A o \in owned : o[1] # b + HeaderSize
  BY TakenPiece
<1>1. TypeOK'
  BY <1>0 DEF IInv, TypeOK
<1>5. hdr'[b].size \in Nat /\ request <= hdr'[b].size
  <2>1. hdr'[b].size \in Nat
    BY <1>0 DEF Headers
  <2> QED
    BY <2>1, TakenPiece
<1>2. OwnersInv'
  <2> DEFINE new == <<b + HeaderSize, request>>
  <2>1. new[1] = b + HeaderSize /\ new[2] = request /\ new[1] - HeaderSize = b
    BY <1>0, SizesAssumption
  <2>2. \A o \in owned : o[1] - HeaderSize # b /\ o[1] - HeaderSize \in live
    BY <1>0, SizesAssumption DEF IInv, OwnersInv, TypeOK
  <2> HIDE DEF new
  <2>3. \A o \in owned' : o = new \/ o \in owned
    BY DEF new
  <2>5. ASSUME NEW o \in owned'
        PROVE  /\ o[1] - HeaderSize \in live'
               /\ ~hdr'[o[1] - HeaderSize].free
               /\ o[2] <= hdr'[o[1] - HeaderSize].size
    <3>1. CASE o = new
      BY <1>0, <1>5, <2>1, <3>1
    <3>2. CASE o \in owned
      BY <2>2, <3>2 DEF IInv, OwnersInv
    <3> QED
      BY <2>3, <3>1, <3>2
  <2>6. \A o, p \in owned' : o[1] = p[1] => o = p
    BY <1>0, <2>1, <2>3 DEF IInv, OwnersInv
  <2>7. ASSUME NEW x \in live', ~hdr'[x].free PROVE \E o \in owned' : o[1] = x + HeaderSize
    <3>1. x \in live
      BY <2>7
    <3>2. CASE x = b
      BY <2>1, <3>2 DEF new
    <3>3. CASE x # b
      BY <2>7, <3>1, <3>3 DEF IInv, OwnersInv
    <3> QED
      BY <3>2, <3>3
  <2> QED
    BY <2>5, <2>6, <2>7 DEF OwnersInv
<1>3. LocalsInv'
  <2>1. then # "search" /\ attempt \in {0, 1} /\ (caller = "task" => request = TASK_STACK_SIZE)
    BY DEF IInv, LocalsInv, TypeOK
  <2>2. b' = b /\ request' = request /\ then' = then /\ b' \in live'
    BY <1>0
  <2>3. ~hdr'[b'].free /\ request' <= hdr'[b'].size /\ <<b' + HeaderSize, request'>> \in owned'
    BY <1>5, <2>2
  <2>4. caller \in {"shell", "task"}
    BY DEF IInv, TypeOK
  <2> QED
    BY <1>0, <2>1, <2>2, <2>3, <2>4 DEF LocalsInv
<1>4. SearchInv'
  BY DEF IInv, LocalsInv, SearchInv
<1>6. StacksInv'
  BY DEF IInv, StacksInv
<1> QED
  BY <1>1, <1>2, <1>3, <1>4, <1>6

\* Storing a header leaves a memory of headers, changes none that it does
\* not overlap, and makes none look like one in use.
LEMMA StoreFacts ==
  ASSUME NEW h \in [Addrs -> Headers], NEW a \in Addrs, NEW r \in Headers
  PROVE  /\ Store(h, a, r) \in [Addrs -> Headers]
         /\ Store(h, a, r)[a] = r
         /\ \A x \in Addrs : x + HeaderSize <= a \/ a + HeaderSize <= x => Store(h, a, r)[x] = h[x]
         /\ \A x \in Addrs : x # a /\ Store(h, a, r)[x].magic => h[x].magic /\ ~(a < x /\ x < a + HeaderSize)
         /\ \A x \in Addrs : x # a /\ Store(h, a, r)[x].magic /\ ~Store(h, a, r)[x].free =>
              ~h[x].free /\ (x + HeaderSize <= a \/ a + HeaderSize <= x)
<1> USE SizesAssumption, NullNotAddr
<1>1. Garbage \in Headers /\ ~Garbage.magic
  BY DEF Garbage, Headers
<1>2. a \in Nat /\ \A x \in Addrs : x \in Nat
  OBVIOUS
<1>3. ASSUME NEW x \in Addrs
      PROVE  /\ Store(h, a, r)[x] \in Headers
             /\ x = a => Store(h, a, r)[x] = r
             /\ x + HeaderSize <= a \/ a + HeaderSize <= x => Store(h, a, r)[x] = h[x]
             /\ x # a /\ Store(h, a, r)[x].magic => h[x].magic /\ ~(a < x /\ x < a + HeaderSize)
             /\ x # a /\ Store(h, a, r)[x].magic /\ ~Store(h, a, r)[x].free =>
                  ~h[x].free /\ (x + HeaderSize <= a \/ a + HeaderSize <= x)
  <2>0. h[x] \in Headers
    OBVIOUS
  <2>1. CASE x = a
    BY <1>2, <2>1 DEF Store
  <2>2. CASE a < x /\ x < a + HeaderSize
    BY <1>1, <1>2, <2>2 DEF Store
  <2>3. CASE h[x].magic /\ x < a /\ a < x + HeaderSize
    <3>1. Store(h, a, r)[x] = [h[x] EXCEPT !.free = TRUE]
      BY <1>2, <2>3 DEF Store
    <3>2. Store(h, a, r)[x] \in Headers
      BY <2>0, <3>1, FreeUpdate
    <3>3. Store(h, a, r)[x].free
      BY <2>0, <3>1 DEF Headers
    <3> QED
      BY <1>2, <2>3, <3>2, <3>3
  <2>4. CASE ~(x = a) /\ ~(a < x /\ x < a + HeaderSize) /\ ~(h[x].magic /\ x < a /\ a < x + HeaderSize)
    <3>1. Store(h, a, r)[x] = h[x]
      BY <2>4 DEF Store
    <3> QED
      BY <1>2, <2>0, <2>4, <3>1
  <2> QED
    BY <2>1, <2>2, <2>3, <2>4
<1>4. Store(h, a, r) \in [Addrs -> Headers]
  BY <1>3 DEF Store
<1> QED
  BY <1>3, <1>4

\* What is left of headers after the block at b has been handed out: it is in
\* hand, and no other header has come to look like one in use.
LEMMA RemainsAfterTake ==
  ASSUME RemainsInv, pc = "take", UNCHANGED <<stacks, b>>, pc' \in {"memset", "craft"},
         owned' = owned \cup {<<b + HeaderSize, request>>},
         \A a \in live', x \in Addrs : a < x /\ x < a + HeaderSize => ~hdr'[x].magic,
         \A x \in Addrs : Stale(x)' => Stale(x),
         \A a \in live', x \in Addrs : Stale(x)' => ~Within(FreeWord(x), a, HeaderSize)
  PROVE  RemainsInv'
<1>1. ASSUME NEW o \in owned', NEW x \in Addrs, Stale(x)'
      PROVE  o[1] \in stacks' \/ InHand(o[1])' \/ ~Within(FreeWord(x), o[1], o[2])
  <2>1. CASE o \in owned
    BY <1>1, <2>1 DEF RemainsInv, InHand
  <2>2. CASE o = <<b + HeaderSize, request>>
    BY <2>2 DEF InHand
  <2> QED
    BY <2>1, <2>2
<1> QED
  BY <1>1 DEF RemainsInv

\* A block that is not worth splitting is handed out as it is.
LEMMA TakeWholeStep ==
  ASSUME IInv, take, hdr' = [hdr EXCEPT ![b].free = FALSE], live' = live
  PROVE  IInv'
<1> USE SizesAssumption, NullNotAddr
<1>1. pc = "take" /\ UNCHANGED brk
  BY DEF take
<1>2. b \in live /\ b \in Addrs /\ hdr[b] \in Headers /\ hdr[b].free /\ live \subseteq Addrs
  BY <1>1, TakenPiece DEF IInv, TypeOK
<1>3. hdr'[b] = [hdr[b] EXCEPT !.free = FALSE] /\ \A x \in Addrs : x # b => hdr'[x] = hdr[x]
  BY <1>2 DEF IInv, TypeOK
<1>4. hdr'[b] \in Headers
  BY <1>2, <1>3, FreeUpdate
<1>5. hdr' \in [Addrs -> Headers]
  BY <1>2, <1>3, <1>4 DEF IInv, TypeOK
<1>6. /\ hdr'[b].magic = hdr[b].magic /\ hdr'[b].size = hdr[b].size
      /\ hdr'[b].next = hdr[b].next /\ hdr'[b].free = FALSE
  BY <1>2, <1>3 DEF Headers
<1>7. \A x \in Addrs : /\ hdr'[x].magic = hdr[x].magic /\ hdr'[x].size = hdr[x].size
                       /\ hdr'[x].next = hdr[x].next
  BY <1>3, <1>6
<1>8. TypeOK' /\ OwnersInv' /\ StacksInv' /\ LocalsInv' /\ SearchInv'
  BY <1>1, <1>2, <1>3, <1>5, <1>6, TakenPiece, HandedOut DEF take
<1>9. Tiling'
  <2>1. \A x \in live : End(x)' = End(x)
    BY <1>2, <1>7 DEF End
  <2> QED
    BY <1>1, <1>2, <1>7, <2>1 DEF IInv, Tiling
<1>10. BlocksInv'
  BY <1>1, <1>2, <1>7 DEF IInv, BlocksInv, End
<1>11. CoalescedInv'
  <2>1. pc' # "coalesce"
    BY DEF take
  <2>2. \A x \in live : Settled(x)
    BY <1>1 DEF IInv, CoalescedInv
  <2>3. \A x \in Addrs : hdr'[x].free => hdr[x].free
    BY <1>3, <1>6
  <2>4. \A x \in live : hdr[x].next # Null => hdr[x].next \in Addrs
    BY <1>2 DEF IInv, Tiling
  <2> QED
    BY <1>2, <1>7, <2>1, <2>2, <2>3, <2>4 DEF CoalescedInv, Settled
<1>12. RemainsInv'
  <2>1. \A x \in Addrs : (hdr'[x].magic <=> hdr[x].magic) /\ (Stale(x)' => Stale(x))
    BY <1>2, <1>3, <1>7 DEF Stale
  <2> QED
    BY <1>1, <2>1, RemainsAfterTake DEF IInv, RemainsInv, take
<1> QED
  BY <1>8, <1>9, <1>10, <1>11, <1>12 DEF IInv

\* A block that is worth splitting: the rest becomes a block of its own,
\* between the one handed out and its successor.
LEMMA TakeSplitStep ==
  ASSUME IInv, take, WorthSplitting(b),
         hdr' = [[Store(hdr, b + HeaderSize + size, FreeBlock(RestSize(b), hdr[b].next))
                    EXCEPT ![b].size = size, ![b].next = b + HeaderSize + size]
                    EXCEPT ![b].free = FALSE],
         live' = live \cup {b + HeaderSize + size}
  PROVE  IInv'
<1> USE SizesAssumption, NullNotAddr
<1> DEFINE rest  == b + HeaderSize + size
           piece == FreeBlock(RestSize(b), hdr[b].next)
           mem   == Store(hdr, rest, piece)
<1>1. pc = "take" /\ UNCHANGED brk
  BY DEF take
<1>2. /\ b \in live /\ b \in Addrs /\ b \in Nat /\ hdr[b] \in Headers /\ hdr[b].free
      /\ size \in Nat /\ hdr[b].size \in Nat /\ hdr[b].next \in Addrs \cup {Null}
      /\ End(b) <= brk /\ End(b) = b + HeaderSize + hdr[b].size
      /\ brk \in Nat /\ brk <= HEAP_START + HEAP_MAX
      /\ live \subseteq Addrs /\ hdr \in [Addrs -> Headers]
  BY <1>1, TakenPiece DEF IInv, BlocksInv, End, Headers, TypeOK
<1>3. /\ RestSize(b) \in Nat /\ rest \in Addrs /\ b < rest /\ b # rest /\ rest \in Nat
      /\ rest + HeaderSize + RestSize(b) = End(b) /\ rest + HeaderSize <= End(b) /\ rest < End(b)
  <2>1. hdr[b].size >= size + HeaderSize + MIN_SPLIT
    BY DEF WorthSplitting
  <2>2. RestSize(b) = hdr[b].size - size - HeaderSize
    BY DEF RestSize
  <2>3. b >= HEAP_START
    BY <1>2 DEF Addrs
  <2>4. RestSize(b) \in Nat /\ b < rest /\ rest + HeaderSize + RestSize(b) = End(b)
    BY <1>2, <2>1, <2>2
  <2>5. rest + HeaderSize <= End(b) /\ rest < End(b) /\ rest \in Nat /\ rest < HEAP_START + HEAP_MAX
    BY <1>2, <2>4
  <2> HIDE DEF rest
  <2>6. rest \in Addrs
    <3>1. /\ rest \in Int /\ HEAP_START \in Int /\ HEAP_START + HEAP_MAX - 1 \in Int
          /\ HEAP_START <= rest /\ rest <= HEAP_START + HEAP_MAX - 1
      BY <1>2, <2>3, <2>4, <2>5
    <3> QED
      BY ONLY <3>1 DEF Addrs
  <2> QED
    BY <1>2, <2>4, <2>5, <2>6
<1>4. piece \in Headers /\ piece.free /\ piece.magic /\ piece.size = RestSize(b)
      /\ piece.next = hdr[b].next
  BY <1>2, <1>3 DEF FreeBlock, Headers
<1> HIDE DEF rest, piece
<1>5. \A x \in live : x = b \/ x < b \/ End(b) <= x
  BY <1>2, Geometry DEF IInv, Tiling
<1>6. rest \notin live
  BY <1>2, <1>3, <1>5
<1>7. /\ mem \in [Addrs -> Headers] /\ mem[rest] = piece /\ mem[b] = hdr[b]
      /\ \A x \in live : mem[x] = hdr[x]
      /\ \A x \in Addrs : x # rest /\ mem[x].magic => hdr[x].magic /\ ~(rest < x /\ x < rest + HeaderSize)
      /\ \A x \in Addrs : x # rest /\ mem[x].magic /\ ~mem[x].free =>
           ~hdr[x].free /\ (x + HeaderSize <= rest \/ rest + HeaderSize <= x)
  <2>1. \A x \in live : x \in Addrs /\ (x + HeaderSize <= rest \/ rest + HeaderSize <= x)
    <3> SUFFICES ASSUME NEW x \in live PROVE x + HeaderSize <= rest \/ rest + HeaderSize <= x
      BY <1>2
    <3>1. /\ x \in Nat /\ x + HeaderSize <= End(x) /\ End(x) \in Nat /\ End(b) \in Nat
          /\ (x < b => End(x) <= b) /\ b + HeaderSize <= rest
      BY <1>2, <1>3, Geometry DEF IInv, Tiling, rest
    <3> QED
      BY <1>2, <1>3, <1>5, <3>1
  <2>2. /\ mem \in [Addrs -> Headers] /\ mem[rest] = piece
        /\ \A x \in Addrs : x + HeaderSize <= rest \/ rest + HeaderSize <= x => mem[x] = hdr[x]
        /\ \A x \in Addrs : x # rest /\ mem[x].magic => hdr[x].magic /\ ~(rest < x /\ x < rest + HeaderSize)
        /\ \A x \in Addrs : x # rest /\ mem[x].magic /\ ~mem[x].free =>
             ~hdr[x].free /\ (x + HeaderSize <= rest \/ rest + HeaderSize <= x)
    <3>1. hdr \in [Addrs -> Headers] /\ rest \in Addrs /\ piece \in Headers
      BY <1>2, <1>3, <1>4
    <3> QED
      BY ONLY StoreFacts, <3>1
  <2> HIDE DEF mem
  <2> QED
    BY <1>2, <2>1, <2>2
<1>8. hdr' = [[mem EXCEPT ![b].size = size, ![b].next = rest] EXCEPT ![b].free = FALSE]
  BY DEF rest, piece
<1> HIDE DEF mem
<1>9. /\ hdr'[b] = [[[hdr[b] EXCEPT !.size = size] EXCEPT !.next = rest] EXCEPT !.free = FALSE]
      /\ \A x \in Addrs : x # b => hdr'[x] = mem[x]
  <2>1. mem \in [Addrs -> Headers] /\ mem[b] = hdr[b] /\ b \in Addrs
    BY <1>2, <1>7
  <2> QED
    BY ONLY <1>8, <2>1
<1>10. /\ hdr'[b] \in Headers
       /\ hdr'[b].magic = hdr[b].magic /\ hdr'[b].size = size
       /\ hdr'[b].next = rest /\ hdr'[b].free = FALSE
  <2> DEFINE half == [[hdr[b] EXCEPT !.size = size] EXCEPT !.next = rest]
  <2>1. half \in Headers
    BY <1>2, <1>3, BlockUpdate
  <2>0. half.magic = hdr[b].magic /\ half.size = size /\ half.next = rest
    BY <1>2 DEF Headers
  <2>2. hdr'[b] = [half EXCEPT !.free = FALSE]
    BY <1>9
  <2> HIDE DEF half
  <2>3. hdr'[b] \in Headers
    BY <2>1, <2>2, FreeUpdate
  <2>4. /\ hdr'[b].magic = half.magic /\ hdr'[b].size = half.size
        /\ hdr'[b].next = half.next /\ hdr'[b].free = FALSE
    BY <2>1, <2>2 DEF Headers
  <2> QED
    BY <2>0, <2>3, <2>4
<1>11. hdr' \in [Addrs -> Headers]
  <2>1. mem \in [Addrs -> Headers] /\ b \in Addrs
    BY <1>2, <1>7
  <2>2. \A x \in Addrs : hdr'[x] \in Headers
    BY ONLY <1>9, <1>10, <2>1
  <2>3. hdr' = [x \in Addrs |-> hdr'[x]]
    BY ONLY <1>8, <2>1
  <2> QED
    BY ONLY <2>2, <2>3
<1>13. /\ hdr'[rest] = piece
       /\ \A x \in live : x # b => hdr'[x] = hdr[x]
  BY <1>2, <1>3, <1>7, <1>9
<1>14. live' = live \cup {rest} /\ live' \in SUBSET Addrs /\ \A x \in live' : x \in live \/ x = rest
  BY <1>2, <1>3 DEF rest
<1>15. TypeOK' /\ OwnersInv' /\ StacksInv' /\ LocalsInv' /\ SearchInv'
  <2>1. \A x \in live' \ live : hdr'[x].free
    BY <1>4, <1>13, <1>14
  <2>3. live \subseteq live' /\ ~hdr'[b].free /\ size <= hdr'[b].size
    BY <1>2, <1>10, <1>14
  <2>4. /\ owned' = owned \cup {<<b + HeaderSize, request>>}
        /\ pc' = (IF caller = "shell" THEN "memset" ELSE "craft")
        /\ UNCHANGED <<brk, stacks, caller, request, attempt, b, then>>
    BY DEF take
  <2> QED
    BY <1>1, <1>11, <1>13, <1>14, <2>1, <2>3, <2>4, HandedOut
<1> DEFINE newEnd(x) == x + HeaderSize + hdr'[x].size
<1>16. /\ newEnd(b) = rest /\ newEnd(rest) = End(b)
       /\ \A x \in live : x # b => newEnd(x) = End(x)
  <2>1. newEnd(b) = rest
    BY <1>10 DEF rest
  <2>2. newEnd(rest) = End(b)
    BY <1>3, <1>4, <1>13
  <2>3. \A x \in live : x # b => newEnd(x) = End(x)
    BY <1>13 DEF End
  <2> QED
    BY <2>1, <2>2, <2>3
<1> HIDE DEF newEnd
<1>17. \A x \in live : /\ x \in Nat /\ End(x) \in Nat /\ x < End(x) /\ End(x) <= brk
                       /\ \A c \in live : x < c => End(x) <= c
  BY Geometry DEF IInv, Tiling, BlocksInv
<1>18. Tiling'
  <2>1. HEAP_START \in live'
    BY <1>14 DEF IInv, Tiling
  <2>2. /\ \A x \in live : hdr[x].next \in live \cup {Null}
        /\ \A x \in live : End(x) = IF hdr[x].next = Null THEN brk ELSE hdr[x].next
    BY DEF IInv, Tiling
  <2>3. ASSUME NEW x \in live'
        PROVE  /\ hdr'[x].next \in live' \cup {Null}
               /\ newEnd(x) = IF hdr'[x].next = Null THEN brk ELSE hdr'[x].next
    <3>1. CASE x = b
      BY <1>3, <1>10, <1>14, <1>16, <3>1
    <3>2. CASE x = rest
      <4>1. hdr'[x].next = hdr[b].next
        BY <1>4, <1>13, <3>2
      <4>2. newEnd(x) = End(b)
        BY <1>16, <3>2
      <4>3. /\ hdr[b].next \in live \cup {Null}
            /\ End(b) = IF hdr[b].next = Null THEN brk ELSE hdr[b].next
        BY <1>2, <2>2
      <4> QED
        BY ONLY <1>14, <4>1, <4>2, <4>3
    <3>3. CASE x \in live /\ x # b
      BY <1>13, <1>14, <1>16, <2>2, <3>3
    <3> QED
      BY <1>14, <3>1, <3>2, <3>3
  <2>4. ASSUME NEW x \in live', NEW c \in live', x < c PROVE newEnd(x) <= c
    <3>1. CASE x = b
      <4>1. CASE c = rest
        BY <1>3, <1>16, <3>1, <4>1
      <4>2. CASE c \in live
        BY <1>2, <1>3, <1>16, <1>17, <2>4, <3>1, <4>2
      <4> QED
        BY <1>14, <4>1, <4>2
    <3>2. CASE x = rest
      <4>1. c \in live /\ b < c
        BY <1>2, <1>3, <1>14, <1>17, <2>4, <3>2
      <4> QED
        BY <1>2, <1>16, <1>17, <3>2, <4>1
    <3>3. CASE x \in live /\ x # b /\ c = rest
      <4>1. x < b
        BY <1>2, <1>3, <1>5, <1>17, <2>4, <3>3
      <4> QED
        BY <1>2, <1>3, <1>16, <1>17, <3>3, <4>1
    <3>4. CASE x \in live /\ x # b /\ c \in live
      BY <1>16, <1>17, <2>4, <3>4
    <3> QED
      BY <1>14, <3>1, <3>2, <3>3, <3>4
  <2> QED
    <3>1. brk' = brk
      BY <1>1
    <3> QED
      <4>1. \A x \in live' : End(x)' = newEnd(x)
        BY DEF End, newEnd
      <4> QED
        BY ONLY <2>1, <2>3, <2>4, <3>1, <4>1 DEF Tiling
<1>19. BlocksInv'
  <2>1. \A x \in live' : newEnd(x) <= brk
    BY <1>2, <1>3, <1>14, <1>16, <1>17
  <2>2. Aligned(rest)
    <3>1. Aligned(b + HeaderSize) /\ Aligned(size) /\ b + HeaderSize \in Int /\ size \in Int
      BY <1>1, <1>2, TakenPiece, SizeFacts
    <3> QED
      BY <3>1, AlignedSum DEF rest
  <2>3. \A x \in live' : Aligned(x) /\ hdr'[x].magic
    BY <1>4, <1>10, <1>13, <1>14, <2>2 DEF IInv, BlocksInv
  <2>4. \E x \in live' : hdr'[x].next = Null
    <3>1. PICK t \in live : hdr[t].next = Null
      BY DEF IInv, BlocksInv
    <3>2. CASE t = b
      BY <1>4, <1>13, <1>14, <3>1, <3>2
    <3>3. CASE t # b
      BY <1>13, <1>14, <3>1, <3>3
    <3> QED
      BY <3>2, <3>3
  <2> QED
    BY <1>1, <2>1, <2>3, <2>4 DEF IInv, BlocksInv, End, newEnd
<1>20. CoalescedInv'
  <2>1. pc' # "coalesce"
    BY DEF take
  <2>2. \A x \in live : Settled(x)
    BY <1>1 DEF IInv, CoalescedInv
  <2>3. \A x \in live : hdr[x].next # Null => hdr[x].next \in live
    BY DEF IInv, Tiling
  <2>4. ASSUME NEW x \in live', hdr'[x].next # Null
        PROVE  ~(hdr'[x].free /\ hdr'[hdr'[x].next].free)
    <3>1. CASE x = b
      BY <1>10, <3>1
    <3>2. CASE x = rest
      <4>1. hdr'[x].next = hdr[b].next /\ hdr[b].next \in live /\ hdr[b].next # b
        <5>1. hdr'[x].next = hdr[b].next /\ hdr[b].next \in live
          BY <1>2, <1>4, <1>13, <2>3, <2>4, <3>2
        <5>2. hdr[b].next # Null => b < hdr[b].next
          BY <1>2, Geometry DEF IInv
        <5> QED
          BY <1>2, <2>4, <5>1, <5>2
      <4>2. ~hdr[hdr[b].next].free
        BY <1>2, <2>2, <2>4, <4>1 DEF Settled
      <4> QED
        BY <1>13, <4>1, <4>2
    <3>3. CASE x \in live /\ x # b
      <4>1. hdr'[x] = hdr[x] /\ hdr[x].next \in live
        BY <1>13, <2>3, <2>4, <3>3
      <4>2. hdr'[hdr[x].next].free => hdr[hdr[x].next].free
        BY <1>10, <1>13, <4>1
      <4> QED
        BY <2>2, <2>4, <3>3, <4>1, <4>2 DEF Settled
    <3> QED
      BY <1>14, <3>1, <3>2, <3>3
  <2> QED
    BY <2>1, <2>4 DEF CoalescedInv, Settled
<1>21. RemainsInv'
  <2>1. ASSUME NEW x \in Addrs, NEW a \in live', a < x, x < a + HeaderSize PROVE ~hdr'[x].magic
    <3>1. CASE a = rest
      BY <1>2, <1>3, <1>7, <1>9, <2>1, <3>1
    <3>2. CASE a \in live
      <4>1. x # b /\ x # rest
        <5>1. /\ a \in Nat /\ End(a) \in Nat /\ a + HeaderSize <= End(a) /\ b + HeaderSize <= rest
              /\ (a < b => End(a) <= b) /\ (b < a => End(b) <= a) /\ End(b) \in Nat
          BY <1>2, <3>2, Geometry DEF IInv, Tiling, rest
        <5> QED
          BY <1>2, <1>3, <2>1, <5>1
      <4> QED
        BY <1>7, <1>9, <2>1, <3>2, <4>1 DEF IInv, RemainsInv
    <3> QED
      BY <1>14, <3>1, <3>2
  <2>2. ASSUME NEW x \in Addrs, Stale(x)'
        PROVE  Stale(x) /\ (x + HeaderSize <= rest \/ rest + HeaderSize <= x)
    <3>1. x # b /\ x # rest /\ x \notin live /\ hdr'[x] = mem[x]
      BY <1>2, <1>9, <1>14, <2>2 DEF Stale
    <3> QED
      BY <1>7, <2>2, <3>1 DEF Stale
  <2>3. ASSUME NEW x \in Addrs, NEW a \in live', Stale(x)' PROVE ~Within(FreeWord(x), a, HeaderSize)
    <3>1. CASE a = rest
      <4>1. (x + HeaderSize <= rest \/ rest + HeaderSize <= x) /\ x \in Nat /\ rest \in Nat
        BY <1>3, <2>2, <2>3
      <4> QED
        BY ONLY <3>1, <4>1, SizesAssumption DEF Within, FreeWord
    <3>2. CASE a \in live
      BY <2>2, <2>3, <3>2 DEF IInv, RemainsInv
    <3> QED
      BY <1>14, <3>1, <3>2
  <2>4. pc' \in {"memset", "craft"} /\ UNCHANGED <<stacks, b>> /\ owned' = owned \cup {<<b + HeaderSize, request>>}
    BY DEF take
  <2> QED
    BY <1>1, <2>1, <2>2, <2>3, <2>4, RemainsAfterTake DEF IInv
<1> QED
  BY <1>15, <1>18, <1>19, <1>20, <1>21 DEF IInv

\* The end of a successful kmalloc.
LEMMA TakeStep == IInv /\ take => IInv'
<1> SUFFICES ASSUME IInv, take PROVE IInv'
  OBVIOUS
<1> QED
  BY TakeWholeStep, TakeSplitStep DEF take

\* What extend_heap asks for is a number of whole pages that holds a header
\* and the request.
LEMMA ExtensionSize ==
  ASSUME request \in Requests
  PROVE  LET bytes == RoundUp(Want, PAGE_SIZE)
         IN  bytes \in Nat /\ size + HeaderSize <= bytes /\ size \in Nat /\ Aligned(bytes)
<1> USE SizesAssumption
<1>1. size \in Nat
  BY SizeFacts
<1>2. Want \in Nat /\ size + HeaderSize <= Want
  BY <1>1 DEF Want
<1> DEFINE bytes == RoundUp(Want, PAGE_SIZE)
<1>3. bytes \in Nat /\ Want <= bytes /\ bytes % PAGE_SIZE = 0
  <2>1. Want \in Nat /\ PAGE_SIZE \in Nat \ {0}
    BY <1>2
  <2> QED
    BY ONLY RoundUpFacts, <2>1 DEF RoundUp
<1> HIDE DEF bytes
<1>4. bytes % Align = 0
  <2>1. bytes \in Int /\ PAGE_SIZE \in Nat \ {0} /\ Align \in Nat \ {0} /\ PAGE_SIZE % Align = 0
    BY <1>3, AlignAssumption
  <2> QED
    BY ONLY TransMod, <1>3, <2>1
<1>5. bytes \in Nat /\ size + HeaderSize <= bytes /\ Aligned(bytes)
  BY <1>1, <1>2, <1>3, <1>4 DEF Aligned
<1> QED
  BY <1>1, <1>5 DEF bytes

\* The new pages become one more block at the tail, and it fits the request.
LEMMA GrowStep ==
  ASSUME IInv, pc = "extend", NEW bytes, NEW tail,
         bytes \in Nat, size + HeaderSize <= bytes, Aligned(bytes),
         tail \in live, hdr[tail].next = Null,
         brk + bytes <= HEAP_START + HEAP_MAX,
         brk' = brk + bytes,
         hdr' = [Store(hdr, brk, FreeBlock(bytes - HeaderSize, Null)) EXCEPT ![tail].next = brk],
         live' = live \cup {brk},
         pc' = "coalesce", then' = "search", b' = HEAP_START,
         UNCHANGED <<owned, stacks, caller, request, attempt>>
  PROVE  IInv'
<1> USE SizesAssumption, NullNotAddr
<1> DEFINE fresh == FreeBlock(bytes - HeaderSize, Null)
           mem   == Store(hdr, brk, fresh)
<1>1. /\ request \in Requests /\ size \in Nat /\ then # "search" /\ attempt = 0
      /\ hdr \in [Addrs -> Headers] /\ live \subseteq Addrs /\ tail \in Addrs
      /\ hdr[tail] \in Headers /\ brk \in Nat /\ HEAP_START <= brk /\ Aligned(brk)
  <2>1. request \in Requests /\ then # "search" /\ attempt = 0
    BY DEF IInv, LocalsInv, TypeOK
  <2>2. size \in Nat
    BY <2>1, SizeFacts
  <2> QED
    BY <2>1, <2>2 DEF IInv, TypeOK, BlocksInv
<1>2. brk \in Addrs /\ brk # Null
  <2>1. /\ brk \in Int /\ HEAP_START \in Int /\ HEAP_START + HEAP_MAX - 1 \in Int
        /\ HEAP_START <= brk /\ brk <= HEAP_START + HEAP_MAX - 1
    BY <1>1
  <2>2. brk \in Addrs
    BY ONLY <2>1 DEF Addrs
  <2> QED
    BY <2>2
<1>3. fresh \in Headers /\ fresh.free /\ fresh.magic /\ fresh.size = bytes - HeaderSize
      /\ fresh.next = Null
  BY <1>1 DEF FreeBlock, Headers
<1> HIDE DEF fresh
<1>4. \A x \in live : /\ x \in Addrs /\ x \in Nat /\ End(x) \in Nat /\ x < End(x) /\ End(x) <= brk
                      /\ x < brk /\ x + HeaderSize <= brk
  BY <1>1, Geometry DEF IInv, BlocksInv
<1>5. brk \notin live /\ tail # brk /\ End(tail) = brk /\ \A x \in live : hdr[x].next = Null => x = tail
  BY <1>1, <1>4, Geometry DEF IInv
<1>6. /\ mem \in [Addrs -> Headers] /\ mem[brk] = fresh
      /\ \A x \in Addrs : x + HeaderSize <= brk \/ brk + HeaderSize <= x => mem[x] = hdr[x]
      /\ \A x \in Addrs : x # brk /\ mem[x].magic => hdr[x].magic /\ ~(brk < x /\ x < brk + HeaderSize)
      /\ \A x \in Addrs : x # brk /\ mem[x].magic /\ ~mem[x].free =>
           ~hdr[x].free /\ (x + HeaderSize <= brk \/ brk + HeaderSize <= x)
  <2>1. hdr \in [Addrs -> Headers] /\ brk \in Addrs /\ fresh \in Headers
    BY <1>1, <1>2, <1>3
  <2> QED
    BY ONLY StoreFacts, <2>1
<1>7. hdr' = [mem EXCEPT ![tail].next = brk]
  BY DEF fresh
<1> HIDE DEF mem
<1>8. mem[tail] = hdr[tail] /\ \A x \in live : mem[x] = hdr[x]
  BY <1>4, <1>6
<1>9. /\ hdr'[tail] = [hdr[tail] EXCEPT !.next = brk]
      /\ \A x \in Addrs : x # tail => hdr'[x] = mem[x]
  BY <1>1, <1>6, <1>7, <1>8
<1>10. hdr'[tail] \in Headers
  BY <1>1, <1>2, <1>9, LinkUpdate
<1>11. /\ hdr'[tail].magic = hdr[tail].magic /\ hdr'[tail].size = hdr[tail].size
       /\ hdr'[tail].next = brk /\ hdr'[tail].free = hdr[tail].free
  BY <1>1, <1>9 DEF Headers
<1>12. hdr' \in [Addrs -> Headers]
  BY <1>1, <1>6, <1>7, <1>9, <1>10
<1>13. /\ hdr'[brk] = fresh
       /\ \A x \in live : x # tail => hdr'[x] = hdr[x]
       /\ \A x \in live : /\ hdr'[x].magic = hdr[x].magic /\ hdr'[x].size = hdr[x].size
                          /\ hdr'[x].free = hdr[x].free
  BY <1>2, <1>4, <1>5, <1>6, <1>8, <1>9, <1>11
<1>14. \A x \in live' : x \in live \/ x = brk
  OBVIOUS
<1>15. TypeOK'
  <2>1. live' \in SUBSET Addrs /\ brk' \in Nat /\ HEAP_START \in Addrs
    BY <1>1, <1>2 DEF IInv, Tiling, TypeOK
  <2> QED
    BY <1>12, <2>1 DEF IInv, TypeOK
<1> DEFINE newEnd(x) == x + HeaderSize + hdr'[x].size
<1>16. newEnd(brk) = brk + bytes /\ \A x \in live : newEnd(x) = End(x)
  <2>1. newEnd(brk) = brk + bytes
    <3>1. hdr'[brk].size = bytes - HeaderSize
      BY <1>3, <1>13
    <3>2. bytes \in Int /\ brk \in Int /\ HeaderSize \in Int
      BY <1>1
    <3> QED
      BY ONLY <3>1, <3>2
  <2>2. \A x \in live : newEnd(x) = End(x)
    BY <1>13 DEF End
  <2> QED
    BY <2>1, <2>2
<1> HIDE DEF newEnd
<1>17. Tiling'
  <2>1. HEAP_START \in live'
    BY DEF IInv, Tiling
  <2>2. /\ \A x \in live : hdr[x].next \in live \cup {Null}
        /\ \A x \in live : End(x) = IF hdr[x].next = Null THEN brk ELSE hdr[x].next
        /\ \A x, c \in live : x < c => End(x) <= c
    BY DEF IInv, Tiling
  <2>3. ASSUME NEW x \in live'
        PROVE  /\ hdr'[x].next \in live' \cup {Null}
               /\ newEnd(x) = IF hdr'[x].next = Null THEN brk + bytes ELSE hdr'[x].next
    <3>1. CASE x = tail
      BY <1>2, <1>5, <1>11, <1>16, <3>1
    <3>2. CASE x = brk
      BY <1>3, <1>13, <1>16, <3>2
    <3>3. CASE x \in live /\ x # tail
      <4>1. hdr'[x] = hdr[x] /\ hdr[x].next # Null
        BY <1>5, <1>13, <3>3
      <4> QED
        BY <1>16, <2>2, <3>3, <4>1
    <3> QED
      BY <1>14, <3>1, <3>2, <3>3
  <2>4. ASSUME NEW x \in live', NEW c \in live', x < c PROVE newEnd(x) <= c
    <3>1. x \in live
      BY <1>1, <1>4, <1>14, <2>4
    <3>2. CASE c = brk
      BY <1>4, <1>16, <3>1, <3>2
    <3>3. CASE c \in live
      BY <1>16, <2>2, <2>4, <3>1, <3>3
    <3> QED
      BY <1>14, <3>2, <3>3
  <2> QED
    BY <2>1, <2>3, <2>4 DEF Tiling, End, newEnd
<1>18. BlocksInv'
  <2>1. \A x \in live' : newEnd(x) <= brk + bytes
    BY <1>1, <1>4, <1>14, <1>16
  <2>2. Aligned(brk + bytes)
    <3>1. Aligned(brk) /\ Aligned(bytes) /\ brk \in Int /\ bytes \in Int
      BY <1>1
    <3> QED
      BY <3>1, AlignedSum
  <2>3. \A x \in live' : Aligned(x) /\ hdr'[x].magic
    BY <1>1, <1>3, <1>13, <1>14 DEF IInv, BlocksInv
  <2>4. \E x \in live' : hdr'[x].next = Null
    BY <1>3, <1>13
  <2>5. brk + bytes \in HEAP_START..(HEAP_START + HEAP_MAX)
    BY <1>1
  <2> QED
    BY <2>1, <2>2, <2>3, <2>4, <2>5 DEF BlocksInv, End, newEnd
<1>19. OwnersInv'
  <2>1. \A o \in owned : /\ o[1] - HeaderSize \in live'
                         /\ ~hdr'[o[1] - HeaderSize].free
                         /\ o[2] <= hdr'[o[1] - HeaderSize].size
    BY <1>13 DEF IInv, OwnersInv
  <2>2. \A x \in live' : ~hdr'[x].free => \E o \in owned : o[1] = x + HeaderSize
    BY <1>3, <1>13, <1>14 DEF IInv, OwnersInv
  <2> QED
    BY <2>1, <2>2 DEF IInv, OwnersInv
<1>20. LocalsInv'
  BY <1>1 DEF IInv, LocalsInv, Tiling
<1>21. CoalescedInv'
  <2>1. ASSUME NEW x \in live' PROVE ~(x < HEAP_START)
    <3>1. x \in Addrs
      BY <1>1, <1>2, <1>14
    <3> QED
      BY ONLY <3>1, SizesAssumption DEF Addrs
  <2> QED
    BY <2>1 DEF CoalescedInv
<1>22. SearchInv'
  <2>1. hdr'[brk].free /\ hdr'[brk].size >= size
    <3>1. hdr'[brk].size = bytes - HeaderSize /\ hdr'[brk].free
      BY <1>3, <1>13
    <3>2. bytes \in Int /\ size \in Int /\ HeaderSize \in Int /\ size + HeaderSize <= bytes
      BY <1>1
    <3> QED
      BY ONLY <3>1, <3>2
  <2>2. size' = size
    BY DEF size
  <2> QED
    BY <2>1, <2>2 DEF SearchInv, Fits
<1>23. StacksInv' /\ RemainsInv'
  <2>1. ASSUME NEW x \in Addrs, NEW a \in live', a < x, x < a + HeaderSize PROVE ~hdr'[x].magic
    <3>1. CASE a = brk
      BY <1>1, <1>2, <1>4, <1>6, <1>9, <2>1, <3>1
    <3>2. CASE a \in live
      <4>1. x \notin live /\ x # brk
        BY <1>1, <1>4, <2>1, <3>2, Geometry DEF IInv, Tiling
      <4> QED
        BY <1>6, <1>9, <2>1, <3>2, <4>1 DEF IInv, RemainsInv
    <3> QED
      BY <1>14, <3>1, <3>2
  <2>2. ASSUME NEW x \in Addrs, Stale(x)'
        PROVE  Stale(x) /\ (x + HeaderSize <= brk \/ brk + HeaderSize <= x)
    <3>1. x # tail /\ x # brk /\ x \notin live /\ hdr'[x] = mem[x]
      BY <1>9, <2>2 DEF Stale
    <3> QED
      BY <1>6, <2>2, <3>1 DEF Stale
  <2>3. ASSUME NEW x \in Addrs, NEW a \in live', Stale(x)' PROVE ~Within(FreeWord(x), a, HeaderSize)
    <3>1. CASE a = brk
      <4>1. (x + HeaderSize <= brk \/ brk + HeaderSize <= x) /\ x \in Nat /\ brk \in Nat
        BY <1>1, <2>2, <2>3
      <4> QED
        BY ONLY <3>1, <4>1, SizesAssumption DEF Within, FreeWord
    <3>2. CASE a \in live
      BY <2>2, <2>3, <3>2 DEF IInv, RemainsInv
    <3> QED
      BY <1>14, <3>1, <3>2
  <2>4. \A q : ~InHand(q)
    BY DEF InHand
  <2> QED
    BY <2>1, <2>2, <2>3, <2>4 DEF IInv, StacksInv, RemainsInv
<1> QED
  BY <1>15, <1>17, <1>18, <1>19, <1>20, <1>21, <1>22, <1>23 DEF IInv

\* extend_heap gives up, or adds a block.
LEMMA ExtendStep == IInv /\ extend_heap => IInv'
<1> SUFFICES ASSUME IInv, extend_heap PROVE IInv'
  OBVIOUS
<1> USE NullNotAddr
<1>1. pc = "extend" /\ request \in Requests
  BY DEF extend_heap, IInv, LocalsInv
<1>2. CASE Return /\ UNCHANGED <<hdr, brk, live, owned, stacks>>
  <2>1. TypeOK'
    BY <1>2 DEF IInv, TypeOK, Return
  <2>2. /\ Tiling' /\ BlocksInv' /\ OwnersInv' /\ StacksInv' /\ RemainsInv'
        /\ \A a \in live : Settled(a)' <=> Settled(a)
    BY <1>1, <1>2, MemoryUntouched
  <2>3. CoalescedInv'
    BY <1>1, <1>2, <2>2 DEF IInv, CoalescedInv
  <2>4. LocalsInv' /\ SearchInv'
    BY <1>2 DEF LocalsInv, SearchInv, Return
  <2> QED
    BY <2>1, <2>2, <2>3, <2>4 DEF IInv
<1>3. CASE ~(Return /\ UNCHANGED <<hdr, brk, live, owned, stacks>>)
  <2> DEFINE bytes == RoundUp(Want, PAGE_SIZE)
             tail  == CHOOSE a \in live : hdr[a].next = Null
  <2>1. bytes \in Nat /\ size + HeaderSize <= bytes /\ Aligned(bytes)
    BY <1>1, ExtensionSize
  <2>2. tail \in live /\ hdr[tail].next = Null
    BY DEF IInv, BlocksInv
  <2>3. /\ brk + bytes <= HEAP_START + HEAP_MAX
        /\ brk' = brk + bytes
        /\ hdr' = [Store(hdr, brk, FreeBlock(bytes - HeaderSize, Null)) EXCEPT ![tail].next = brk]
        /\ live' = live \cup {brk}
        /\ pc' = "coalesce" /\ then' = "search" /\ b' = HEAP_START
        /\ UNCHANGED <<owned, stacks, caller, request, attempt>>
    BY <1>3 DEF extend_heap
  <2> HIDE DEF bytes, tail
  <2> QED
    BY <1>1, <2>1, <2>2, <2>3, GrowStep
<1> QED
  BY <1>2, <1>3

-----------------------------------------------------------------------------
(* The theorems.                                                           *)

\* The invariant holds initially and every step keeps it.
THEOREM Invariance == Spec => []IInv
<1>1. ASSUME IInv, [Next]_vars PROVE IInv'
  <2>1. CASE UNCHANGED vars
    <3>1. /\ hdr' = hdr /\ brk' = brk /\ live' = live /\ owned' = owned /\ stacks' = stacks /\ pc' = pc
          /\ request' = request /\ attempt' = attempt /\ b' = b /\ then' = then /\ caller' = caller
      BY <2>1 DEF vars
    <3>2. TypeOK'
      BY <1>1, <3>1 DEF IInv, TypeOK
    <3>3. /\ Tiling' /\ BlocksInv' /\ OwnersInv' /\ StacksInv' /\ RemainsInv'
          /\ \A a \in live : Settled(a)' <=> Settled(a)
      BY <1>1, <3>1, MemoryUntouched
    <3>4. \A x : Fits(x)' <=> Fits(x)
      BY <3>1 DEF Fits, size
    <3>5. LocalsInv'
      BY <1>1, <3>1, <3>4 DEF IInv, LocalsInv
    <3>6. CoalescedInv'
      BY <1>1, <3>1, <3>3 DEF IInv, CoalescedInv
    <3>7. SearchInv'
      BY <1>1, <3>1, <3>4 DEF IInv, SearchInv
    <3> QED
      BY <3>2, <3>3, <3>5, <3>6, <3>7 DEF IInv
  <2>2. CASE kmalloc
    BY <1>1, <2>2, KmallocStep
  <2>3. CASE kfree
    BY <1>1, <2>3, KfreeStep
  <2>4. CASE search
    BY <1>1, <2>4, SearchStep
  <2>5. CASE take
    BY <1>1, <2>5, TakeStep
  <2>6. CASE memset
    BY <1>1, <2>6, MemsetStep
  <2>7. CASE extend_heap
    BY <1>1, <2>7, ExtendStep
  <2>9. CASE craft
    BY <1>1, <2>9, CraftStep
  <2>10. CASE task_runs
    BY <1>1, <2>10, RunsStep
  <2>8. CASE coalesce
    BY <1>1, <2>8, CoalesceStep
  <2> QED
    BY <1>1, <2>1, <2>2, <2>3, <2>4, <2>5, <2>6, <2>7, <2>8, <2>9, <2>10 DEF Next, Work
<1> QED
  BY <1>1, InitIInv, PTL DEF Spec

\* Memory, the list, the break and the locals of heap.c have their types.
THEOREM TypeCorrect == Spec => []TypeOK
<1>1. IInv => TypeOK
  BY DEF IInv
<1> QED
  BY <1>1, Invariance, PTL

\* The list is always the picture at the top of heap.c: no gap, no overlap,
\* whatever split, merge or extension has just happened.
THEOREM ListTilesTheHeap == Spec => []Tiling
<1>1. IInv => Tiling
  BY DEF IInv
<1> QED
  BY <1>1, Invariance, PTL

\* kfree's checks accept every allocation that has not been freed, and when
\* the remains of a header on a stack deceive them, no block of the list and
\* no allocation of the shell is written to.
THEOREM KfreeIsSafe == Spec => []KfreeSafe
<1>1. ASSUME IInv, pc = "idle" PROVE KfreeSafe
  <2>1. ASSUME NEW o \in owned PROVE kfree_accepts(o[1])
    <3>1. o[1] \in Addrs
      BY <1>1 DEF IInv, TypeOK
    <3> QED
      BY <1>1, <3>1, AcceptsOwned
  <2>2. ASSUME NEW p \in Addrs, kfree_accepts(p), \A o \in owned : o[1] # p
        PROVE  LET w == FreeWord(p - HeaderSize)
               IN  /\ \A a \in live : w \notin a..(a + HeaderSize - 1)
                   /\ \A o \in owned : o[1] \in stacks \/ w \notin o[1]..(o[1] + o[2] - 1)
    <3>1. Stale(p - HeaderSize) /\ p - HeaderSize \in Addrs
      BY <1>1, <2>2, AcceptsOwned
    <3> DEFINE w == FreeWord(p - HeaderSize)
    <3>2. /\ \A a \in live : ~Within(w, a, HeaderSize)
          /\ \A o \in owned : o[1] \in stacks \/ ~Within(w, o[1], o[2])
      BY <1>1, <3>1 DEF IInv, RemainsInv, InHand
    <3> HIDE DEF w
    <3>3. \A a \in live : w \notin a..(a + HeaderSize - 1)
      <4>1. \A a \in live : a \in Nat
        BY <1>1, NullNotAddr DEF IInv, TypeOK
      <4> QED
        BY <3>2, <4>1, SizesAssumption DEF Within
    <3>4. \A o \in owned : o[1] \in stacks \/ w \notin o[1]..(o[1] + o[2] - 1)
      <4>1. \A o \in owned : o[1] \in Nat /\ o[2] \in Nat
        BY <1>1, NullNotAddr, RequestsAssumption DEF IInv, TypeOK
      <4> QED
        BY <3>2, <4>1 DEF Within
    <3> QED
      BY <3>3, <3>4 DEF w
  <2> QED
    BY <2>1, <2>2 DEF KfreeSafe
<1>2. IInv => KfreeSafe
  BY <1>1 DEF KfreeSafe
<1> QED
  BY <1>2, Invariance, PTL

\* coalesce() leaves no two free neighbours.
THEOREM NoFreeNeighbours == Spec => []FullyCoalesced
<1>1. IInv => FullyCoalesced
  BY DEF IInv, CoalescedInv, Settled, FullyCoalesced
<1> QED
  BY <1>1, Invariance, PTL

\* kmalloc extends the heap at most once: its second search succeeds.
THEOREM SecondSearchSucceeds == Spec => []ExtendSuffices
<1>1. IInv => ExtendSuffices
  BY DEF IInv, LocalsInv, TypeOK, ExtendSuffices
<1> QED
  BY <1>1, Invariance, PTL

\* kmalloc extends the heap, or returns 0, only when no free block would
\* have held the bytes asked for, before rounding.
THEOREM FailureIsJustified == Spec => FailsOnlyWhenFull
<1>1. ASSUME IInv, pc = "extend", NEW a \in live, hdr[a].free PROVE hdr[a].size < request
  <2>1. request \in Requests /\ ~Fits(a) /\ hdr[a].size \in Nat
    BY <1>1, Geometry DEF IInv, LocalsInv, SearchInv
  <2>2. Aligned(hdr[a].size)
    BY <1>1, SizesAligned DEF IInv
  <2>3. size \in Nat /\ request \in Nat /\ (request <= hdr[a].size => size <= hdr[a].size)
    BY <2>1, <2>2, SizeFacts
  <2> QED
    BY <1>1, <2>1, <2>3 DEF Fits
<1>2. IInv => (pc = "extend" => \A a \in live : hdr[a].free => hdr[a].size < request)
  BY <1>1
<1> QED
  BY <1>2, Invariance, PTL DEF FailsOnlyWhenFull

\* Two blocks in use are apart, so what kmalloc hands out overlaps nothing.
LEMMA PiecesApart ==
  ASSUME IInv, pc = "take", NEW o \in owned
  PROVE  Promise!Apart(b + HeaderSize, request, o[1], o[2])
<1> USE SizesAssumption, NullNotAddr
<1>1. /\ b \in live /\ b \in Nat /\ request \in Nat /\ b + HeaderSize + request <= End(b)
      /\ o[1] # b + HeaderSize
  BY TakenPiece
<1> DEFINE a == o[1] - HeaderSize
<1>2. a \in live /\ o[2] <= hdr[a].size
  BY DEF IInv, OwnersInv
<1>3. o[1] \in Nat /\ o[2] \in Nat /\ o[1] = a + HeaderSize
  <2>1. o[1] \in Nat /\ o[2] \in Nat
    BY RequestsAssumption DEF IInv, TypeOK
  <2> QED
    BY <2>1
<1> HIDE DEF a
<1>4. a \in Nat /\ End(a) = o[1] + hdr[a].size /\ hdr[a].size \in Nat /\ o[1] + o[2] <= End(a)
  <2>1. a \in Nat /\ hdr[a].size \in Nat
    BY <1>2, Geometry DEF IInv
  <2>2. End(a) = o[1] + hdr[a].size
    BY <1>3, <2>1 DEF End
  <2> QED
    BY <1>2, <1>3, <2>1, <2>2
<1>5. End(b) \in Nat /\ a # b /\ (a < b => End(a) <= b) /\ (b < a => End(b) <= a)
  BY <1>1, <1>2, <1>3, Geometry DEF IInv, Tiling
<1> QED
  BY <1>1, <1>3, <1>4, <1>5 DEF Promise!Apart

\* Every step of heap.c is a step of the allocator that heap.h promises, or
\* changes nothing its callers see.
THEOREM KeepsItsPromise == Spec => ImplementsAllocator
<1> USE SizesAssumption
<1>1. Init => Promise!Init
  BY DEF Init, Promise!Init
<1>2. ASSUME IInv, [Next]_vars
      PROVE  [Promise!Malloc \/ Promise!Free \/ Promise!Grow]_(Promise!vars)
  <2>1. CASE UNCHANGED <<owned, brk>>
    BY <2>1 DEF Promise!vars
  <2>2. CASE take
    <3>1. /\ owned' = owned \cup {<<b + HeaderSize, request>>} /\ UNCHANGED brk /\ pc = "take"
      BY <2>2 DEF take
    <3>2. /\ request \in Requests /\ (b + HeaderSize) % Align = 0
          /\ b + HeaderSize + request <= brk
          /\ \A o \in owned : Promise!Apart(b + HeaderSize, request, o[1], o[2])
      <4>1. /\ b \in Nat /\ request \in Requests /\ request \in Nat /\ Aligned(b + HeaderSize)
            /\ b + HeaderSize + request <= End(b) /\ End(b) <= brk
            /\ End(b) \in Nat /\ brk \in Nat
        BY <1>2, <3>1, TakenPiece, Geometry, NullNotAddr DEF IInv, TypeOK
      <4>2. b + HeaderSize + request <= brk
        BY <4>1
      <4> QED
        BY <1>2, <3>1, <4>1, <4>2, PiecesApart DEF Aligned
    <3>3. b + HeaderSize \in HEAP_START..(brk - 1)
      <4>1. /\ b \in Nat /\ HEAP_START <= b /\ brk \in Nat /\ request \in Nat \ {0}
        BY <1>2, <3>1, TakenPiece, NullNotAddr DEF IInv, TypeOK, Addrs
      <4> QED
        BY <3>2, <4>1
    <3> QED
      BY <3>1, <3>2, <3>3 DEF Promise!Malloc
  <2>3. CASE kfree
    <3>1. PICK p \in Addrs : kfree_accepts(p) /\ owned' = {o \in owned : o[1] # p}
      BY <2>3 DEF kfree
    <3>2. CASE \A o \in owned : o[1] # p
      <4>1. owned' = owned
        BY <3>1, <3>2
      <4> QED
        BY <2>1, <2>3, <4>1 DEF kfree
    <3>3. ASSUME NEW o \in owned, o[1] = p PROVE Promise!Free
      <4>1. owned' = owned \ {o}
        BY <1>2, <3>1, <3>3 DEF IInv, OwnersInv
      <4> QED
        BY <2>3, <4>1 DEF kfree, Promise!Free
    <3> QED
      BY <3>2, <3>3
  <2>4. CASE extend_heap
    <3> DEFINE bytes == RoundUp(Want, PAGE_SIZE)
    <3>1. UNCHANGED <<owned, brk>>
          \/ (brk + bytes <= HEAP_START + HEAP_MAX /\ brk' = brk + bytes /\ UNCHANGED owned)
      BY <2>4 DEF extend_heap
    <3>2. bytes \in Nat \ {0} /\ brk \in Nat
      <4>1. request \in Requests
        BY <1>2, <2>4 DEF IInv, LocalsInv, extend_heap
      <4>2. bytes \in Nat /\ size + HeaderSize <= bytes /\ size \in Nat
        BY <4>1, ExtensionSize
      <4> QED
        BY <1>2, <4>2 DEF IInv, TypeOK
    <3> HIDE DEF bytes
    <3> QED
      BY <2>1, <3>1, <3>2 DEF Promise!Grow
  <2> QED
    BY <1>2, <2>1, <2>2, <2>3, <2>4
       DEF Next, Work, kmalloc, search, memset, craft, task_runs, coalesce, vars
<1> QED
  BY <1>1, <1>2, Invariance, PTL DEF Spec, ImplementsAllocator, Promise!Spec

-----------------------------------------------------------------------------
(* Why every operation ends: what is left of it, as a number.              *)

\* How far an operation has come: a first search, an extension, coalescing,
\* a second search, the split and what the caller writes.
Stage ==
  CASE pc = "idle"                   -> 0
    [] pc \in {"memset", "craft"}    -> 1
    [] pc = "take"                   -> 2
    [] pc = "search" /\ attempt = 1  -> 3
    [] pc = "coalesce"               -> 4
    [] pc = "extend"                 -> 5
    [] pc = "search" /\ attempt # 1  -> 6

\* What a loop has ahead: bytes behind the block it is at, and for coalesce,
\* which may stay at a block and enlarge it, those behind the block's end.
Ahead ==
  LET top == HEAP_START + HEAP_MAX
  IN  IF pc = "search" /\ b # Null THEN top - b
      ELSE IF pc = "coalesce" THEN (top - b) + (top - End(b))
      ELSE 0

Stride == 2 * HEAP_MAX + 1

Rank == Stage * Stride + Ahead

\* Every step of an operation in progress leaves less of it.
Shrinks == [][pc # "idle" => Rank' < Rank]_vars

\* What is left is never more than the largest heap allows, however the list
\* is fragmented, and nothing is left only when the operation has returned.
RankBounded == Rank \in 0..(7 * Stride - 1) /\ (Rank = 0 <=> pc = "idle")

LEMMA AheadFacts ==
  ASSUME IInv
  PROVE  Ahead \in 0..(2 * HEAP_MAX) /\ Stage \in 0..6
<1> USE SizesAssumption, NullNotAddr
<1>1. Stage \in 0..6
  BY DEF Stage, IInv, TypeOK
<1>2. CASE pc = "search" /\ b # Null
  <2>1. b \in HEAP_START..(HEAP_START + HEAP_MAX - 1)
    BY <1>2 DEF IInv, TypeOK, Addrs
  <2>2. Ahead = (HEAP_START + HEAP_MAX) - b
    BY ONLY <1>2 DEF Ahead
  <2> QED
    BY <1>1, <2>1, <2>2
<1>3. CASE pc = "coalesce"
  <2>1. b \in live
    BY <1>3 DEF IInv, LocalsInv
  <2>2. b \in Addrs /\ b \in Nat /\ End(b) \in Nat /\ b < End(b) /\ End(b) <= HEAP_START + HEAP_MAX
    BY <2>1, Geometry DEF IInv
  <2>3. Ahead = ((HEAP_START + HEAP_MAX) - b) + ((HEAP_START + HEAP_MAX) - End(b))
    BY ONLY <1>3 DEF Ahead
  <2> HIDE DEF End
  <2> QED
    BY <1>1, <2>2, <2>3 DEF Addrs
<1>4. CASE ~(pc = "search" /\ b # Null) /\ pc # "coalesce"
  BY <1>1, <1>4 DEF Ahead
<1> QED
  BY <1>2, <1>3, <1>4

\* A later stage has less left, whatever its loop has ahead.
LEMMA RankOrder ==
  ASSUME NEW s \in 0..6, NEW t \in 0..6, NEW x \in 0..(2 * HEAP_MAX), NEW y \in 0..(2 * HEAP_MAX),
         t < s \/ (t = s /\ y < x)
  PROVE  t * Stride + y < s * Stride + x
<1>1. HEAP_MAX \in Nat /\ Stride \in Nat /\ Stride = 2 * HEAP_MAX + 1
  BY SizesAssumption DEF Stride
<1>2. CASE t = s /\ y < x
  <2>1. t * Stride = s * Stride /\ s * Stride \in Int
    BY <1>1, <1>2
  <2> QED
    BY <1>1, <1>2, <2>1
<1>3. CASE t < s
  <2>1. (t + 1) * Stride <= s * Stride
    BY <1>1, <1>3
  <2>2. (t + 1) * Stride = t * Stride + Stride /\ t * Stride \in Int /\ s * Stride \in Int
    BY <1>1
  <2> QED
    BY <1>1, <2>1, <2>2
<1> QED
  BY <1>2, <1>3

LEMMA StepShrinks ==
  ASSUME IInv, IInv', Work
  PROVE  Stage' < Stage \/ (Stage' = Stage /\ Ahead' < Ahead)
<1> USE SizesAssumption, NullNotAddr
<1> DEFINE top == HEAP_START + HEAP_MAX
<1>1. CASE search
  <2>1. CASE b = Null \/ Fits(b)
    BY <1>1, <2>1 DEF search, Stage, IInv, TypeOK, SearchInv
  <2>2. CASE b # Null /\ ~Fits(b)
    <3>1. /\ pc = "search" /\ pc' = "search" /\ attempt' = attempt /\ b' = hdr[b].next
          /\ Stage' = Stage /\ b \in live
      BY <1>1, <2>2 DEF search, Stage, IInv, LocalsInv
    <3>2. /\ b \in Nat /\ b \in Addrs /\ (hdr[b].next # Null => hdr[b].next \in Addrs /\ b < hdr[b].next)
      BY <3>1, Geometry DEF IInv, TypeOK
    <3>3. Ahead = top - b /\ Ahead' = IF b' # Null THEN top - b' ELSE 0
      BY <2>2, <3>1 DEF Ahead
    <3> QED
      BY <3>1, <3>2, <3>3 DEF Addrs
  <2> QED
    BY <2>1, <2>2
<1>2. CASE take
  BY <1>2 DEF take, Stage
<1>3. CASE memset
  BY <1>3 DEF memset, Return, Stage
<1>4. CASE extend_heap
  BY <1>4 DEF extend_heap, Return, Stage
<1>6. CASE craft
  BY <1>6 DEF craft, Return, Stage
<1>5. CASE coalesce
  <2>0. pc = "coalesce" /\ b \in live /\ Stage = 4
    BY <1>5 DEF coalesce, Stage, IInv, LocalsInv
  <2>1. /\ b \in Nat /\ b \in Addrs /\ End(b) \in Nat /\ b < End(b)
        /\ (hdr[b].next # Null => hdr[b].next \in live /\ hdr[b].next = End(b) /\ b < hdr[b].next)
        /\ Ahead = (top - b) + (top - End(b))
    BY <2>0, Geometry DEF IInv, Ahead
  <2>2. ASSUME b' \in Nat, End(b)' \in Nat, pc' = "coalesce", b <= b', End(b) < End(b)'
        PROVE  Stage' = Stage /\ Ahead' < Ahead
    <3>1. Stage' = 4 /\ Ahead' = (top - b') + (top - End(b)')
      BY <2>2 DEF Stage, Ahead
    <3> HIDE DEF End
    <3> QED
      BY <2>0, <2>1, <2>2, <3>1
  <2>3. CASE hdr[b].next # Null /\ Mergeable(b) /\ hdr' = Merge(b, hdr[b].next) /\ b' = AfterMerge /\ pc' = pc
    <3> DEFINE n == hdr[b].next
    <3>1. n \in Addrs /\ n # b /\ hdr \in [Addrs -> Headers] /\ hdr[b].size \in Nat /\ hdr[n].size \in Nat
      BY <2>1, <2>3 DEF IInv, TypeOK, Headers
    <3>2. hdr'[b].size = hdr[b].size + HeaderSize + hdr[n].size
      <4> DEFINE m == MergedSize(b)
      <4>1. hdr' = [hdr EXCEPT ![b].size = m, ![b].next = hdr[n].next, ![n].size = 0, ![n].next = Null]
        BY <2>3 DEF Merge
      <4> HIDE DEF m
      <4>2. hdr'[b] = [[hdr[b] EXCEPT !.size = m] EXCEPT !.next = hdr[n].next]
        BY <2>1, <3>1, <4>1
      <4>3. hdr'[b].size = m
        BY <2>1, <3>1, <4>2 DEF Headers
      <4> QED
        BY <4>3 DEF m, MergedSize
    <3>3. End(b)' = End(b) + HeaderSize + hdr[n].size /\ b' = b
      BY <2>1, <2>3, <3>1, <3>2 DEF End, AfterMerge
    <3>4. End(b)' \in Nat /\ End(b) < End(b)' /\ b' \in Nat /\ b <= b'
      <4> HIDE DEF End
      <4> QED
        BY <2>1, <3>1, <3>3
    <3> QED
      BY <2>0, <2>2, <2>3, <3>4
  <2>4. CASE hdr[b].next # Null /\ b' = AfterRefusal /\ UNCHANGED <<hdr, pc>>
    <3>1. b' = hdr[b].next /\ End(b)' = End(b') /\ hdr[b].next \in live
      BY <2>1, <2>4 DEF AfterRefusal, End
    <3>2. End(b') \in Nat /\ b' \in Nat /\ b' < End(b') /\ b' = End(b) /\ b < b'
      BY <2>1, <3>1, Geometry, <2>4 DEF IInv
    <3> QED
      BY <2>0, <2>1, <2>2, <2>4, <3>1, <3>2
  <2>5. CASE \/ pc' = "search" /\ attempt' = 1
             \/ pc' = "idle"
    BY <2>0, <2>5 DEF Stage
  <2> QED
    BY <1>5, <2>3, <2>4, <2>5 DEF coalesce, Return
<1> QED
  BY <1>1, <1>2, <1>3, <1>4, <1>5, <1>6 DEF Work

\* Every kmalloc and kfree ends within a number of steps that only depends on
\* the largest heap: each step of the search, of coalesce and of what lies
\* between them makes Rank smaller, and Rank is bounded. With the processor
\* given to task 0 again and again this is why OperationsReturn holds, for
\* every size of heap.
THEOREM OperationsShrink == Spec => Shrinks /\ []RankBounded
<1>1. IInv /\ IInv' /\ [Next]_vars => [pc # "idle" => Rank' < Rank]_vars
  <2> SUFFICES ASSUME IInv, IInv', Next, pc # "idle" PROVE Rank' < Rank
    OBVIOUS
  <2>1. Work
    BY DEF Next, kmalloc, kfree, task_runs
  <2>2. Stage' < Stage \/ (Stage' = Stage /\ Ahead' < Ahead)
    BY <2>1, StepShrinks
  <2>3. Ahead \in 0..(2 * HEAP_MAX) /\ Stage \in 0..6
    BY AheadFacts
  <2>4. Ahead' \in 0..(2 * HEAP_MAX) /\ Stage' \in 0..6
    <3>1. (IInv => Ahead \in 0..(2 * HEAP_MAX) /\ Stage \in 0..6)'
      BY AheadFacts, PTL
    <3> QED
      BY <3>1
  <2>5. Rank = Stage * Stride + Ahead /\ Rank' = Stage' * Stride + Ahead'
    BY DEF Rank, Stride
  <2> QED
    BY ONLY <2>2, <2>3, <2>4, <2>5, RankOrder
<1>2. IInv => RankBounded
  <2> SUFFICES ASSUME IInv PROVE RankBounded
    OBVIOUS
  <2>1. Ahead \in 0..(2 * HEAP_MAX) /\ Stage \in 0..6
    BY AheadFacts
  <2>2. HEAP_MAX \in Nat /\ Stride \in Nat /\ Stride = 2 * HEAP_MAX + 1
    BY SizesAssumption DEF Stride
  <2>3. (Stage = 0 <=> pc = "idle") /\ (pc = "idle" => Ahead = 0)
    BY DEF Stage, Ahead, IInv, TypeOK
  <2>4. Stage * Stride <= 6 * Stride /\ Stage * Stride \in Nat
    BY <2>1, <2>2
  <2>5. Stage # 0 => Stride <= Stage * Stride
    BY <2>1, <2>2
  <2>6. Stage = 0 => Stage * Stride = 0
    BY <2>2
  <2> HIDE DEF Stride
  <2> QED
    BY <2>1, <2>2, <2>3, <2>4, <2>5, <2>6 DEF RankBounded, Rank
<1> QED
  BY <1>1, <1>2, Invariance, PTL DEF Spec, Shrinks
=============================================================================
