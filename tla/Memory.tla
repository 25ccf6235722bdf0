------------------------------- MODULE Memory -------------------------------
(***************************************************************************)
(* Physical frames and virtual pages: the frame bitmap of pmm.c, the page  *)
(* directory and tables of paging.c, the growth of the heap's mapping      *)
(* (grow_mapping in heap.c), and the shell commands alloc, free, map and   *)
(* unmap, which work on them.                                              *)
(*                                                                         *)
(* The processor caches translations on its own account: tlb may pick up   *)
(* any present entry at any moment and keeps it until an invlpg.           *)
(*                                                                         *)
(* Addresses are counted in pages.  Mapping a page takes several steps,    *)
(* the same for the heap and for the map command: a frame, perhaps a frame *)
(* for a new page table, the entry; and when that fails, what was taken    *)
(* goes back.  Only task 0 runs any of it and the interrupt handlers touch *)
(* none of it, so that the other commands are one step each.  The operator *)
(* frees a frame only if alloc handed it out or if it is free already:     *)
(* free would give away any frame of the kernel's on request.              *)
(***************************************************************************)
EXTENDS Integers, FiniteSets

CONSTANTS
  NFrames,       \* total_frames
  Reserved,      \* frames below this hold low memory, the kernel and the bitmap
  IdentityEnd,   \* pages below this are mapped one-to-one
  TableSize,     \* entries of a page table (1024)
  NPages,        \* pages of the virtual address space
  HeapStart,     \* the heap's first page
  HeapInitial,   \* pages mapped by heap_init
  HeapMax,       \* ceiling on the heap's pages
  Extensions,    \* pages kmalloc asks for when nothing fits
  MapTargets,    \* pages the operator maps
  None           \* no frame

Frames    == 0..(NFrames - 1)
Pages     == 0..(NPages - 1)
DirIndex  == 0..((NPages - 1) \div TableSize)
Entries   == 0..(TableSize - 1)

\* Tables the identity map needs; paging_init takes the directory and then
\* these from the lowest free frames.
IdentityTables == (IdentityEnd + TableSize - 1) \div TableSize
BootEnd        == Reserved + 1 + IdentityTables

ASSUME SizeAssumption ==
  /\ NFrames \in Nat /\ NPages \in Nat /\ TableSize \in Nat \ {0}
  /\ Reserved \in Nat \ {0}
  /\ IdentityEnd \in Nat /\ IdentityEnd <= NFrames
  /\ BootEnd <= IdentityEnd
  /\ NPages % TableSize = 0

ASSUME HeapAssumption ==
  /\ HeapStart \in Nat /\ HeapInitial \in Nat /\ HeapMax \in Nat
  /\ IdentityTables * TableSize <= HeapStart /\ HeapStart + HeapMax < NPages
  /\ HeapInitial <= HeapMax
  /\ Extensions \subseteq 1..(NPages - 1)
  /\ MapTargets \subseteq Pages
  /\ None \notin Frames

\* There is less memory than address space above the heap's ceiling (1020 MB).
ASSUME PhysicalAssumption == HeapStart + HeapMax + (NFrames - BootEnd) < NPages

VARIABLES
  used, used_frames,                 \* pmm.c: the bitmap and its counter
  dir, ram,                          \* the directory; each frame read as a page table
  mapped_pages, table_count,         \* paging.c's counters
  tlb,                               \* translations the processor has cached
  brk, bytes, off, ready,            \* heap.c: the break, and a grow_mapping in progress
  pc, virt,                          \* what task 0 is doing; the page cmd_map maps
  frame, table,                      \* frames taken for a page and for its table, not yet entered
  held, lost                         \* frames the operator has; frames whose page was mapped over

pmmVars  == <<used, used_frames>>
tblVars  == <<dir, ram, mapped_pages, table_count, tlb>>
heapVars == <<brk, bytes, off, ready>>
mapVars  == <<pc, virt, frame, table>>
vars     == <<pmmVars, tblVars, heapVars, mapVars, held, lost>>

-----------------------------------------------------------------------------
(* pmm.c                                                                   *)

Free == Frames \ used

Lowest(S) == CHOOSE f \in S : \A g \in S : f <= g

\* Mutant: the counter moves although the frame was free already.
frame_mark_free_NoTest(S) ==
  /\ used'        = used \ S
  /\ used_frames' = used_frames - Cardinality(S)

\* frame_mark_free of the frames S, reached through pmm_free_frame: it does
\* nothing for a frame that is free already or does not exist.
frame_mark_free(S) ==
  /\ used'        = used \ S
  /\ used_frames' = used_frames - Cardinality(S \cap used)

\* The frame pmm_alloc_frame returns, which it marks used.
Frame1 == Lowest(Free)

frame_mark_used(f) ==
  /\ used'        = used \cup {f}
  /\ used_frames' = used_frames + 1

-----------------------------------------------------------------------------
(* paging.c                                                                *)

Dir(v) == v \div TableSize
Tbl(v) == v % TableSize

Zeroed == [e \in Entries |-> None]

\* What a frame holds before anybody clears it: words that read as entries.
Junk == [e \in Entries |-> 0]

paging_translate(v) == IF dir[Dir(v)] = None THEN None ELSE ram[dir[Dir(v)]][Tbl(v)]

Mapped == {v \in Pages : paging_translate(v) # None}

\* Mutant: the page keeps its old translation in the TLB.
flush_tlb_page_Never(v) == UNCHANGED tlb

flush_tlb_page(v) == tlb' = [tlb EXCEPT ![v] = None]

\* Mutant: a new table may lie anywhere.
TableFits_Anywhere(t) == TRUE

\* get_table accepts a frame for a table only inside the identity window.
TableFits(t) == t < IdentityEnd

CountPage(v) == IF v \in Mapped THEN mapped_pages ELSE mapped_pages + 1

\* Mutant: a new page table is not cleared.
NewTable_NotCleared(t) == ram[t]

\* memset of the frame that becomes a table.
NewTable(t) == Zeroed

\* paging_unmap of a mapped page.
paging_unmap(v) ==
  /\ ram' = [ram EXCEPT ![dir[Dir(v)]][Tbl(v)] = None]
  /\ mapped_pages' = mapped_pages - 1
  /\ flush_tlb_page(v)

-----------------------------------------------------------------------------
(* After pmm_init and paging_init.                                         *)

Init ==
  /\ used         = 0..(BootEnd - 1)
  /\ used_frames  = BootEnd
  /\ dir          = [d \in DirIndex |-> IF d < IdentityTables THEN Reserved + 1 + d ELSE None]
  /\ ram          = [f \in Frames |->
                       IF f \in (Reserved + 1)..(BootEnd - 1)
                         THEN [e \in Entries |->
                                 LET v == (f - Reserved - 1) * TableSize + e
                                 IN  IF v < IdentityEnd THEN v ELSE None]
                         ELSE Junk]
  /\ mapped_pages = IdentityEnd
  /\ table_count  = IdentityTables
  /\ tlb          = [v \in Pages |-> None]
  /\ brk = HeapStart /\ bytes = 0 /\ off = 0 /\ ready = FALSE
  /\ pc = "boot" /\ virt = 0 /\ frame = None /\ table = None
  /\ held = {} /\ lost = {}

-----------------------------------------------------------------------------
(* heap.c: grow_mapping, called by heap_init and by extend_heap.           *)

\* Addresses have 32 bits: sums wrap around at the end of the space.
Wrap(v) == v % NPages

\* Mutant: the new pages are forgotten in the test.
UnderCeiling_Before(n) == brk < HeapStart + HeapMax

UnderCeiling(n) == Wrap(brk + n) <= HeapStart + HeapMax

\* grow_mapping(n pages): refused at the ceiling, which changes nothing.
grow_mapping(n) ==
  /\ UnderCeiling(n)
  /\ bytes' = n /\ off' = 0 /\ pc' = "grow"
  /\ UNCHANGED <<pmmVars, tblVars, brk, ready, virt, frame, table, held, lost>>

heap_init   == pc = "boot" /\ grow_mapping(HeapInitial)
extend_heap == pc = "idle" /\ ready /\ \E n \in Extensions : grow_mapping(n)

\* One round of the loop takes a frame, and the steps below map it.
grow_page ==
  /\ pc = "grow" /\ off < bytes /\ frame = None /\ Free # {}
  /\ frame_mark_used(Frame1) /\ frame' = Frame1
  /\ UNCHANGED <<tblVars, heapVars, pc, virt, table, held, lost>>

\* grow_mapping returns 0: the pages mapped so far stay mapped and brk is
\* where it was.
grow_fails == pc' = "idle" /\ bytes' = 0 /\ off' = 0 /\ UNCHANGED <<brk, ready>>

\* There is no frame for the next page.
grow_no_frame ==
  /\ pc = "grow" /\ off < bytes /\ frame = None /\ Free = {}
  /\ grow_fails
  /\ UNCHANGED <<pmmVars, tblVars, virt, frame, table, held, lost>>

\* The loop ends: the break moves and the heap is (or stays) ready.
grow_done ==
  /\ pc = "grow" /\ off = bytes
  /\ brk' = Wrap(brk + bytes) /\ bytes' = 0 /\ off' = 0
  /\ ready' = TRUE /\ pc' = "idle"
  /\ UNCHANGED <<pmmVars, tblVars, virt, frame, table, held, lost>>

-----------------------------------------------------------------------------
(* paging_map(Target, frame), called by grow_mapping and by cmd_map.       *)

Target == IF pc = "grow" THEN Wrap(brk + off) ELSE virt

\* get_table has to create the table and takes a frame for it.
get_table ==
  /\ frame # None /\ table = None /\ dir[Dir(Target)] = None /\ Free # {}
  /\ frame_mark_used(Frame1) /\ table' = Frame1
  /\ UNCHANGED <<tblVars, heapVars, pc, virt, frame, held, lost>>

\* The frame is cleared and becomes the table.
new_table ==
  /\ table # None /\ TableFits(table)
  /\ ram' = [ram EXCEPT ![table] = NewTable(table)]
  /\ dir' = [dir EXCEPT ![Dir(Target)] = table]
  /\ table_count' = table_count + 1
  /\ table' = None
  /\ UNCHANGED <<pmmVars, mapped_pages, tlb, heapVars, pc, virt, frame, held, lost>>

\* The entry is written, over an old one if there was one, and paging_map
\* returns 1: to the next round of the loop, or to the end of cmd_map.
paging_map ==
  LET v == Target
  IN  /\ frame # None /\ table = None /\ dir[Dir(v)] # None
      /\ ram' = [ram EXCEPT ![dir[Dir(v)]][Tbl(v)] = frame]
      /\ mapped_pages' = CountPage(v)
      /\ flush_tlb_page(v)
      /\ lost' = lost \cup ({paging_translate(v)} \ {None})
      /\ frame' = None
      /\ IF pc = "grow" THEN off' = off + 1 /\ UNCHANGED <<pc, virt>>
                        ELSE pc' = "idle" /\ virt' = 0 /\ UNCHANGED off
      /\ UNCHANGED <<pmmVars, dir, table_count, brk, bytes, ready, table, held>>

\* Mutant: nobody returns the frames.
give_back_Never(S) == UNCHANGED pmmVars

\* get_table returns the frame that is too high for a table, and then the
\* caller of paging_map the one it wanted to map.
give_back(S) == frame_mark_free(S)

\* paging_map returns 0: no frame is left for the table, or the one there
\* is lies above the identity window.
map_fails ==
  /\ frame # None /\ dir[Dir(Target)] = None
  /\ IF table = None THEN Free = {} ELSE ~TableFits(table)
  /\ give_back({frame, table} \ {None})
  /\ frame' = None /\ table' = None
  /\ IF pc = "grow" THEN grow_fails /\ UNCHANGED virt
                    ELSE pc' = "idle" /\ virt' = 0 /\ UNCHANGED heapVars
  /\ UNCHANGED <<tblVars, held, lost>>

-----------------------------------------------------------------------------
(* Shell commands.                                                         *)

cmd_alloc ==
  /\ pc = "idle" /\ Free # {}
  /\ frame_mark_used(Frame1)
  /\ held' = held \cup {Frame1}
  /\ UNCHANGED <<tblVars, heapVars, mapVars, lost>>

\* free A: a frame from alloc, one that is free, or one that does not exist.
cmd_free ==
  /\ pc = "idle"
  /\ \E f \in held \cup Free \cup {NFrames} :
       frame_mark_free({f}) /\ held' = held \ {f}
  /\ UNCHANGED <<tblVars, heapVars, mapVars, lost>>

\* map A takes a frame. Page 0 is the usage message; a mapped page and a
\* bitmap without a free frame change nothing.
cmd_map ==
  /\ pc = "idle" /\ Free # {}
  /\ \E v \in MapTargets \ {0} : v \notin Mapped /\ virt' = v
  /\ frame_mark_used(Frame1) /\ frame' = Frame1 /\ pc' = "map"
  /\ UNCHANGED <<tblVars, heapVars, table, held, lost>>

MayUnmap(v) == v \in Mapped /\ v >= IdentityEnd

\* unmap A: the frame goes back to the allocator.
cmd_unmap ==
  /\ pc = "idle"
  /\ \E v \in Pages :
       /\ MayUnmap(v)
       /\ paging_unmap(v)
       /\ frame_mark_free({paging_translate(v)})
  /\ UNCHANGED <<dir, table_count, heapVars, mapVars, held, lost>>

-----------------------------------------------------------------------------
\* The processor walks the tables and caches what it finds. The entries of
\* the identity region, which never change, are left out.
tlb_fill ==
  /\ \E v \in Mapped :
       v >= IdentityEnd /\ tlb' = [tlb EXCEPT ![v] = paging_translate(v)]
  /\ UNCHANGED <<pmmVars, dir, ram, mapped_pages, table_count, heapVars, mapVars, held, lost>>

Next ==
  \/ heap_init \/ extend_heap \/ grow_page \/ grow_no_frame \/ grow_done
  \/ get_table \/ new_table \/ paging_map \/ map_fails
  \/ cmd_alloc \/ cmd_free \/ cmd_map \/ cmd_unmap
  \/ tlb_fill

Spec == Init /\ [][Next]_vars

-----------------------------------------------------------------------------
(* Properties.                                                             *)

\* The types of the bitmap, the tables and the counters.
TypeOK ==
  /\ used \in SUBSET Frames /\ used_frames \in 0..NFrames
  /\ dir \in [DirIndex -> Frames \cup {None}]
  /\ ram \in [Frames -> [Entries -> Frames \cup {None}]]
  /\ mapped_pages \in 0..NPages /\ table_count \in 0..Cardinality(DirIndex)
  /\ tlb \in [Pages -> Frames \cup {None}]
  /\ brk \in HeapStart..(HeapStart + HeapMax)
  /\ bytes \in 0..(NPages - 1) /\ off \in 0..bytes
  /\ ready \in BOOLEAN
  /\ pc \in {"boot", "idle", "grow", "map"} /\ virt \in Pages
  /\ frame \in Frames \cup {None} /\ table \in Frames \cup {None}
  /\ held \in SUBSET Frames /\ lost \in SUBSET Frames

Tables == {dir[d] : d \in DirIndex} \ {None}

\* Frames the kernel uses in place, by physical address.
InPlace == 0..Reserved \cup Tables

\* Frames a mapping in progress has taken.
InHand == {frame, table} \ {None}

Above == {v \in Mapped : v >= IdentityEnd}

\* Every used frame has exactly one user, at every step of a mapping and
\* after every way it can fail: the kernel or its page tables, the operator
\* (alloc), the mapping in progress, or one page above the identity region;
\* the only frames without one are those whose page a grow_mapping has
\* mapped over, after an earlier one had failed half-way.
NoFrameShared ==
  /\ \A v \in Above : paging_translate(v) \in used \ (InPlace \cup held \cup InHand \cup lost)
  /\ \A v, w \in Above : v # w => paging_translate(v) # paging_translate(w)
  /\ held \subseteq used \ (InPlace \cup InHand \cup lost)
  /\ lost \subseteq used \ (InPlace \cup InHand)
  /\ InHand \subseteq used \ InPlace
  /\ frame # None => frame # table
  /\ InPlace \subseteq used
  /\ \A f \in used \ (InPlace \cup held \cup InHand \cup lost) :
       \E v \in Above : paging_translate(v) = f

\* The counters the frames and paging commands print agree with the bitmap
\* and the tables, also when a mapping is replaced or a frame freed twice.
CountersAgree ==
  /\ used_frames  = Cardinality(used)
  /\ mapped_pages = Cardinality(Mapped)
  /\ table_count  = Cardinality(Tables)

\* Every address the kernel uses in place translates to itself, the page
\* tables included: they stay reachable once paging is on.
IdentityIntact ==
  /\ \A v \in 0..(IdentityEnd - 1) : paging_translate(v) = v
  /\ \A t \in Tables : t < IdentityEnd

\* A translation the processor has cached is the one the tables give: no
\* access goes through a mapping that was changed or removed.
TlbCoherent == \A v \in Pages : tlb[v] # None => tlb[v] = paging_translate(v)

\* A page becomes mapped only when somebody maps it: entering a new table
\* into the directory maps that one page and no other.
MapsOnePage == [][Cardinality(Mapped' \ Mapped) <= 1]_vars

=============================================================================
