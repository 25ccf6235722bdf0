----------------------------- MODULE BootMemory -----------------------------
(***************************************************************************)
(* From the boot loader's memory map to the frame bitmap: memory_init      *)
(* (memory.c) reads the entries, pmm_init (pmm.c) decides which frames may *)
(* be handed out.  Both run once, before interrupts are enabled; each      *)
(* round of their loops is a step.                                         *)
(*                                                                         *)
(* The map gives 64-bit addresses and lengths, the kernel keeps 32 bits of *)
(* them: every uint32_t computation is reduced modulo WORD.                *)
(***************************************************************************)
EXTENDS Integers, Sequences, FiniteSets

CONSTANTS
  WORD,         \* 2^32
  FRAME_SIZE,   \* bytes of a frame (4096)
  KB,           \* 1024
  WORD_BITS,    \* frames per word of the bitmap (32)
  WORD_BYTES,   \* bytes of such a word (4)
  MAX_REGIONS,  \* entries regions[] can hold (32)
  KernelEnd,    \* the linker's kernel_end
  Bases, Lengths, Types,  \* what entries of the map are made of
  MaxEntries    \* longest map

ASSUME SizesAssumption ==
  /\ {WORD, FRAME_SIZE, KB, WORD_BITS, WORD_BYTES} \subseteq Nat \ {0}
  /\ MAX_REGIONS \in Nat /\ MaxEntries \in Nat
  /\ WORD % FRAME_SIZE = 0
  /\ KernelEnd \in 0..(WORD - 1)

ASSUME EntriesAssumption ==
  Bases \subseteq Nat /\ Lengths \subseteq Nat /\ Types \subseteq Nat

\* Entries of the map. No entry reaches past the 64-bit address space.
Entries == [addr : Bases, len : Lengths, type : Types]

Usable == 1

VARIABLES
  mmap,                          \* the boot loader's map
  entry,                         \* the next entry to read
  regions,                       \* regions[0..region_count - 1]
  total_kb, usable_kb, highest,  \* memory.c's sums
  total_frames, used, used_frames, bitmap_size,  \* pmm.c: used is the bitmap
  r,                             \* the next region to free
  pc

sums == <<total_kb, usable_kb, highest>>
pmm  == <<total_frames, used, used_frames, bitmap_size>>
vars == <<mmap, entry, regions, sums, pmm, r, pc>>

\* A boot loader without a map leaves memory_init nothing to read, like an
\* empty one.
Init ==
  /\ mmap \in UNION {[1..n -> Entries] : n \in 0..MaxEntries}
  /\ entry = 1
  /\ regions = <<>>
  /\ total_kb = 0 /\ usable_kb = 0 /\ highest = 0
  /\ total_frames = 0 /\ used = {} /\ used_frames = 0 /\ bitmap_size = 0
  /\ r = 1
  /\ pc = "memory_init"

-----------------------------------------------------------------------------
(* memory.c                                                                *)

\* Mutant: the table's limit is not tested.
Recorded_Always(reg) == Append(regions, reg)

\* regions[] after the entry: full, it keeps what it has.
Recorded(reg) == IF Len(regions) < MAX_REGIONS THEN Append(regions, reg) ELSE regions

\* Mutant: the end of the last usable entry wins, not the highest.
Highest_Last(end) == end

Highest(end) == IF end > highest THEN end ELSE highest

\* One round of memory_init's loop, or its end.
memory_init ==
  /\ pc = "memory_init"
  /\ IF entry > Len(mmap)
       THEN pc' = "pmm_init" /\ UNCHANGED <<entry, regions, sums>>
       ELSE LET base == mmap[entry].addr % WORD
                len  == mmap[entry].len % WORD
                type == mmap[entry].type
            IN  /\ regions'  = Recorded([base |-> base, len |-> len, type |-> type])
                /\ total_kb' = (total_kb + len \div KB) % WORD
                /\ IF type = Usable
                     THEN /\ usable_kb' = (usable_kb + len \div KB) % WORD
                          /\ highest'   = Highest((base + len) % WORD)
                     ELSE UNCHANGED <<usable_kb, highest>>
                /\ entry' = entry + 1
                /\ UNCHANGED pc
  /\ UNCHANGED <<mmap, pmm, r>>

-----------------------------------------------------------------------------
(* pmm.c                                                                   *)

RoundUp(n, m) == ((n + m - 1) \div m) * m

\* The bitmap lies on the first frame boundary after the kernel.
bitmap_addr == RoundUp(KernelEnd, FRAME_SIZE)

Frames == 0..(total_frames - 1)

\* frame_mark_free and frame_mark_used for the frames S: a frame outside the
\* bitmap, or one that is marked so already, changes nothing.
mark_free(S) ==
  /\ used'        = used \ S
  /\ used_frames' = used_frames - Cardinality(S \cap used)

\* Mutant: used_frames moves for frames that were used already.
mark_used_NoTest(S) ==
  /\ used'        = used \cup (S \cap Frames)
  /\ used_frames' = used_frames + Cardinality(S \cap Frames)

mark_used(S) ==
  /\ used'        = used \cup (S \cap Frames)
  /\ used_frames' = used_frames + Cardinality((S \cap Frames) \ used)

\* The start of pmm_init: every frame is marked used.
pmm_init ==
  /\ pc = "pmm_init"
  /\ total_frames' = highest \div FRAME_SIZE
  /\ used'         = 0..(total_frames' - 1)
  /\ used_frames'  = total_frames'
  /\ bitmap_size'  = (RoundUp(total_frames', WORD_BITS) \div WORD_BITS) * WORD_BYTES
  /\ pc' = "free"
  /\ UNCHANGED <<mmap, entry, regions, sums, r>>

\* Region r is freed if it is usable RAM.
free_region ==
  /\ pc = "free" /\ r <= Len(regions)
  /\ IF regions[r].type = Usable
       THEN LET start == regions[r].base \div FRAME_SIZE
            IN  mark_free(start..(start + regions[r].len \div FRAME_SIZE - 1))
       ELSE UNCHANGED <<used, used_frames>>
  /\ r' = r + 1
  /\ UNCHANGED <<mmap, entry, regions, sums, total_frames, bitmap_size, pc>>

\* Mutant: the bitmap's own frames are forgotten.
LastReserved_NoBitmap == (bitmap_addr - 1) \div FRAME_SIZE

\* The last frame of low memory, the kernel and the bitmap.
LastReserved == (bitmap_addr + bitmap_size) \div FRAME_SIZE

reclaim ==
  /\ pc = "free" /\ r > Len(regions)
  /\ mark_used(0..LastReserved)
  /\ pc' = "done"
  /\ UNCHANGED <<mmap, entry, regions, sums, total_frames, bitmap_size, r>>

\* After reclaim the allocator is online and boot goes on with paging_init.
Next == memory_init \/ pmm_init \/ free_region \/ reclaim

Spec == Init /\ [][Next]_vars

-----------------------------------------------------------------------------
(* Properties.                                                             *)

\* The types of the tables and sums; regions[] is never overrun.
TypeOK ==
  /\ mmap \in Seq(Entries) /\ Len(mmap) <= MaxEntries
  /\ entry \in 1..(Len(mmap) + 1) /\ r \in 1..(Len(regions) + 1)
  /\ Len(regions) <= MAX_REGIONS
  /\ \A i \in DOMAIN regions : regions[i].base \in 0..(WORD - 1) /\ regions[i].len \in 0..(WORD - 1)
  /\ {total_kb, usable_kb, highest} \subseteq 0..(WORD - 1)
  /\ total_frames \in 0..(WORD \div FRAME_SIZE) /\ used \subseteq Frames
  /\ used_frames \in 0..total_frames /\ bitmap_size \in Nat
  /\ pc \in {"memory_init", "pmm_init", "free", "done"}

\* The bytes of a set of entries, and those of a frame, as 64-bit addresses.
Span(a, n) == a..(a + n - 1)
UsableBytes == UNION {Span(mmap[i].addr, mmap[i].len) : i \in {j \in DOMAIN mmap : mmap[j].type = Usable}}
FrameBytes(f) == Span(f * FRAME_SIZE, FRAME_SIZE)

\* Frames pmm_alloc_frame may hand out.
Available == Frames \ used

\* used_frames, from which free frames are computed, agrees with the bitmap
\* whatever the map says: overlapping regions are counted once.
UsedFramesAgree == used_frames = Cardinality(used)

\* No frame that holds low memory, the kernel or the bitmap is ever handed
\* out, whatever the map says.
KernelReserved ==
  pc = "done" => \A f \in Available : f * FRAME_SIZE >= bitmap_addr + bitmap_size

\* A map the kernel can represent: usable entries start on a frame, end below
\* 4 GB, and all entries fit into regions[].
Representable ==
  /\ Len(mmap) <= MAX_REGIONS
  /\ \A i \in DOMAIN mmap : mmap[i].type = Usable =>
       /\ mmap[i].addr % FRAME_SIZE = 0
       /\ mmap[i].addr + mmap[i].len < WORD

\* From a representable map pmm_init makes available exactly the whole frames
\* of usable RAM behind the bitmap, however regions overlap and whatever
\* order they come in.
AvailableIsExact ==
  pc = "done" /\ Representable =>
    Available = {f \in (LastReserved + 1)..(WORD \div FRAME_SIZE) : FrameBytes(f) \subseteq UsableBytes}

\* pmm.c: free only the regions GRUB told us are usable RAM.
OnlyUsableAvailable == pc = "done" => \A f \in Available : FrameBytes(f) \subseteq UsableBytes
=============================================================================
