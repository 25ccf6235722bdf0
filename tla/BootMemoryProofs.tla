-------------------------- MODULE BootMemoryProofs --------------------------
(***************************************************************************)
(* Proofs about BootMemory, for every memory map: any number of entries,   *)
(* any addresses and lengths, and any sizes of frames and words.           *)
(***************************************************************************)
EXTENDS BootMemory, DivMod, FiniteSetTheorems, SequenceTheorems

-----------------------------------------------------------------------------
(* The inductive invariant.                                                *)

\* What regions[] keeps of an entry of the map.
Region(e) == [base |-> e.addr % WORD, len |-> e.len % WORD, type |-> e.type]

Regions == [base : 0..(WORD - 1), len : 0..(WORD - 1), type : Types]

\* regions[] holds the entries read so far, as many as fit.
RegionsInv ==
  /\ regions \in Seq(Regions)
  /\ Len(regions) = IF entry - 1 <= MAX_REGIONS THEN entry - 1 ELSE MAX_REGIONS
  /\ \A i \in 1..Len(regions) : regions[i] = Region(mmap[i])
  /\ pc # "memory_init" => entry = Len(mmap) + 1

\* No usable entry read so far ends, in 32 bits, above highest.
HighestInv ==
  \A i \in 1..(entry - 1) : mmap[i].type = Usable =>
    (Region(mmap[i]).base + Region(mmap[i]).len) % WORD <= highest

\* Frame f is one of those that region i gives back.
Gives(i, f) ==
  LET start == regions[i].base \div FRAME_SIZE
  IN  /\ regions[i].type = Usable
      /\ f \in start..(start + regions[i].len \div FRAME_SIZE - 1)

\* The bitmap before pmm_init, while regions are given back, and at the end.
BitmapInv ==
  /\ pc \in {"memory_init", "pmm_init"} => total_frames = 0 /\ used = {} /\ r = 1
  /\ pc \in {"free", "done"} => total_frames = highest \div FRAME_SIZE
  /\ pc = "free" => used = {f \in Frames : \A i \in 1..(r - 1) : ~Gives(i, f)}
  /\ pc = "done" => used = {f \in Frames : f <= LastReserved \/ \A i \in 1..Len(regions) : ~Gives(i, f)}

IInv ==
  /\ TypeOK
  /\ UsedFramesAgree
  /\ RegionsInv
  /\ HighestInv
  /\ BitmapInv

-----------------------------------------------------------------------------
(* Lemmas.                                                                 *)

\* The sizes as numbers.
LEMMA Sizes ==
  /\ WORD \in Nat \ {0} /\ FRAME_SIZE \in Nat \ {0} /\ KB \in Nat \ {0}
  /\ WORD_BITS \in Nat \ {0} /\ WORD_BYTES \in Nat \ {0}
  /\ MAX_REGIONS \in Nat /\ MaxEntries \in Nat /\ KernelEnd \in Nat
BY SizesAssumption

\* Rounding up leaves a natural number.
LEMMA RoundUpNat ==
  ASSUME NEW n \in Nat, NEW m \in Nat \ {0}
  PROVE  RoundUp(n, m) \in Nat
BY RoundUpFacts DEF RoundUp

\* A region is made of 32-bit numbers.
LEMMA RegionType ==
  ASSUME NEW e \in Entries
  PROVE  /\ Region(e) \in Regions
         /\ Region(e).base = e.addr % WORD /\ Region(e).len = e.len % WORD
         /\ Region(e).type = e.type
         /\ e.addr \in Nat /\ e.len \in Nat
<1>1. e.addr \in Nat /\ e.len \in Nat /\ e.type \in Types
  BY EntriesAssumption DEF Entries
<1>2. e.addr % WORD \in 0..(WORD - 1) /\ e.len % WORD \in 0..(WORD - 1)
  BY <1>1, Sizes, DivNat
<1> QED
  BY <1>1, <1>2 DEF Region, Regions

\* The frames of low memory, the kernel and the bitmap.
LEMMA ReservedNat ==
  ASSUME bitmap_size \in Nat
  PROVE  bitmap_addr \in Nat /\ LastReserved \in Nat
<1>1. bitmap_addr \in Nat
  BY Sizes, RoundUpNat DEF bitmap_addr
<1>2. bitmap_addr + bitmap_size \in Nat
  BY <1>1
<1> QED
  BY <1>1, <1>2, Sizes, DivNat DEF LastReserved

\* The bitmap is finite, and no larger than the memory.
LEMMA FrameSet ==
  ASSUME NEW n \in Nat
  PROVE  /\ IsFiniteSet(0..(n - 1)) /\ Cardinality(0..(n - 1)) = n
         /\ \A S \in SUBSET (0..(n - 1)) : IsFiniteSet(S) /\ Cardinality(S) \in 0..n
<1>1. IsFiniteSet(0..(n - 1)) /\ Cardinality(0..(n - 1)) = n
  <2>1. 0 \in Int /\ n - 1 \in Int
    OBVIOUS
  <2>2. /\ IsFiniteSet(0..(n - 1))
        /\ Cardinality(0..(n - 1)) = IF 0 > n - 1 THEN 0 ELSE (n - 1) - 0 + 1
    BY ONLY <2>1, FS_Interval
  <2> QED
    BY <2>2
<1>2. ASSUME NEW S \in SUBSET (0..(n - 1)) PROVE IsFiniteSet(S) /\ Cardinality(S) \in 0..n
  <2>1. IsFiniteSet(S) /\ Cardinality(S) <= n
    BY <1>1, FS_Subset
  <2>2. Cardinality(S) \in Nat
    BY <2>1, FS_CardinalityType
  <2> QED
    BY <2>1, <2>2
<1> QED
  BY <1>1, <1>2

-----------------------------------------------------------------------------
(* The steps.                                                              *)

\* Before anything is read.
LEMMA InitIInv == Init => IInv
<1> SUFFICES ASSUME Init PROVE IInv
  OBVIOUS
<1> USE Sizes
<1>1. mmap \in Seq(Entries) /\ Len(mmap) <= MaxEntries /\ Len(mmap) \in Nat
  <2>1. PICK n \in 0..MaxEntries : mmap \in [1..n -> Entries]
    BY DEF Init
  <2>2. mmap \in Seq(Entries)
    BY <2>1, SeqDef
  <2>3. Len(mmap) = n
    <3>1. DOMAIN mmap = 1..n /\ DOMAIN mmap = 1..Len(mmap) /\ Len(mmap) \in Nat
      BY <2>1, <2>2, LenProperties
    <3> QED
      BY <2>1, <3>1
  <2> QED
    BY <2>2, <2>3
<1>2. regions = <<>> /\ Len(regions) = 0 /\ regions \in Seq(Regions) /\ DOMAIN regions = {}
  BY EmptySeq DEF Init
<1>3. 0 \div FRAME_SIZE = 0 /\ WORD \div FRAME_SIZE \in Nat
  BY DivNat
<1>4. TypeOK
  <2>1. entry \in 1..(Len(mmap) + 1) /\ r \in 1..(Len(regions) + 1) /\ Len(regions) <= MAX_REGIONS
    BY <1>1, <1>2 DEF Init
  <2>2. {total_kb, usable_kb, highest} \subseteq 0..(WORD - 1)
    BY DEF Init
  <2>3. total_frames \in 0..(WORD \div FRAME_SIZE) /\ used_frames \in 0..total_frames
        /\ bitmap_size \in Nat /\ used \subseteq Frames
    BY <1>3 DEF Init
  <2>4. pc \in {"memory_init", "pmm_init", "free", "done"}
    BY DEF Init
  <2> QED
    BY <1>1, <1>2, <2>1, <2>2, <2>3, <2>4 DEF TypeOK
<1>5. UsedFramesAgree
  BY FS_EmptySet DEF Init, UsedFramesAgree
<1>6. RegionsInv /\ HighestInv
  BY <1>2 DEF Init, RegionsInv, HighestInv
<1>7. BitmapInv
  BY DEF Init, BitmapInv
<1> QED
  BY <1>4, <1>5, <1>6, <1>7 DEF IInv

\* One entry of the map is read.
LEMMA ReadEntry ==
  ASSUME IInv, memory_init, entry <= Len(mmap)
  PROVE  IInv'
<1> USE Sizes
<1> DEFINE e   == mmap[entry]
           reg == Region(e)
           end == (reg.base + reg.len) % WORD
<1>1. /\ pc = "memory_init" /\ mmap \in Seq(Entries) /\ Len(mmap) \in Nat
      /\ entry \in 1..Len(mmap) /\ regions \in Seq(Regions) /\ Len(regions) \in Nat
      /\ e \in Entries
  <2>1. pc = "memory_init" /\ mmap \in Seq(Entries) /\ regions \in Seq(Regions)
    BY DEF memory_init, IInv, TypeOK, RegionsInv
  <2>2. Len(mmap) \in Nat /\ Len(regions) \in Nat
    BY <2>1, LenProperties
  <2>3. entry \in 1..Len(mmap)
    BY <2>2 DEF IInv, TypeOK
  <2> QED
    BY <2>1, <2>2, <2>3, ElementOfSeq
<1>2. /\ reg \in Regions /\ reg.base = e.addr % WORD /\ reg.len = e.len % WORD
      /\ reg.type = e.type /\ e.addr \in Nat /\ e.len \in Nat
      /\ reg.base \in 0..(WORD - 1) /\ reg.len \in 0..(WORD - 1)
  <2>1. /\ reg \in Regions /\ reg.base = e.addr % WORD /\ reg.len = e.len % WORD
        /\ reg.type = e.type /\ e.addr \in Nat /\ e.len \in Nat
    BY <1>1, RegionType
  <2> QED
    BY <2>1 DEF Regions
<1>3. /\ regions' = Recorded(reg)
      /\ total_kb' = (total_kb + (reg.len \div KB)) % WORD
      /\ IF e.type = Usable
           THEN usable_kb' = (usable_kb + (reg.len \div KB)) % WORD /\ highest' = Highest(end)
           ELSE UNCHANGED <<usable_kb, highest>>
      /\ entry' = entry + 1
      /\ UNCHANGED <<pc, mmap, total_frames, used, used_frames, bitmap_size, r>>
  BY <1>1, <1>2 DEF memory_init, Region, pmm
<1> HIDE DEF reg
<1>4. end \in 0..(WORD - 1)
  <2>1. reg.base + reg.len \in Nat /\ WORD \in Nat \ {0}
    BY <1>2
  <2> QED
    BY ONLY <2>1, DivNat
<1> HIDE DEF end
<1>5. /\ total_kb \in 0..(WORD - 1) /\ usable_kb \in 0..(WORD - 1) /\ highest \in 0..(WORD - 1)
      /\ reg.len \div KB \in Nat
  <2>1. reg.len \in Nat /\ KB \in Nat \ {0}
    BY <1>2
  <2>2. reg.len \div KB \in Nat
    BY ONLY <2>1, DivNat
  <2> QED
    BY <2>2 DEF IInv, TypeOK
<1>6. /\ total_kb' \in 0..(WORD - 1) /\ usable_kb' \in 0..(WORD - 1) /\ highest' \in 0..(WORD - 1)
      /\ highest <= highest' /\ (e.type = Usable => end <= highest')
  <2> DEFINE k == reg.len \div KB
  <2>1. /\ total_kb + k \in Nat /\ usable_kb + k \in Nat /\ WORD \in Nat \ {0}
    BY <1>5
  <2> HIDE DEF k
  <2>2. (total_kb + k) % WORD \in 0..(WORD - 1) /\ (usable_kb + k) % WORD \in 0..(WORD - 1)
    BY ONLY <2>1, DivNat
  <2>3. /\ total_kb' = (total_kb + k) % WORD
        /\ usable_kb' \in {usable_kb, (usable_kb + k) % WORD}
    BY <1>3 DEF k
  <2>4. total_kb' \in 0..(WORD - 1) /\ usable_kb' \in 0..(WORD - 1)
    BY ONLY <1>5, <2>2, <2>3
  <2>5. highest' = (IF e.type = Usable THEN Highest(end) ELSE highest)
    BY <1>3
  <2>6. highest' \in 0..(WORD - 1) /\ highest <= highest' /\ (e.type = Usable => end <= highest')
    BY ONLY <1>4, <1>5, <2>1, <2>5 DEF Highest
  <2> QED
    BY <2>4, <2>6
<1>7. /\ regions' \in Seq(Regions)
      /\ Len(regions') = IF entry <= MAX_REGIONS THEN entry ELSE MAX_REGIONS
      /\ Len(regions') >= Len(regions) /\ Len(regions') \in Nat
      /\ \A i \in 1..Len(regions') : regions'[i] = Region(mmap[i])
  <2>1. /\ Len(regions) = IF entry - 1 <= MAX_REGIONS THEN entry - 1 ELSE MAX_REGIONS
        /\ \A i \in 1..Len(regions) : regions[i] = Region(mmap[i])
    BY DEF IInv, RegionsInv
  <2>2. CASE Len(regions) < MAX_REGIONS
    <3>1. regions' = Append(regions, reg)
      BY <1>3, <2>2 DEF Recorded
    <3>2. /\ regions' \in Seq(Regions) /\ Len(regions') = Len(regions) + 1
          /\ \A i \in 1..Len(regions) : regions'[i] = regions[i]
          /\ regions'[Len(regions) + 1] = reg
      BY <1>1, <1>2, <3>1, AppendProperties
    <3>3. Len(regions) = entry - 1 /\ Len(regions') = entry /\ entry <= MAX_REGIONS
      BY <1>1, <2>1, <2>2, <3>2
    <3>4. \A i \in 1..Len(regions') : regions'[i] = Region(mmap[i])
      <4> TAKE i \in 1..Len(regions')
      <4>1. CASE i = entry
        BY <1>1, <3>2, <3>3, <4>1 DEF reg
      <4>2. CASE i # entry
        <5>1. i \in 1..Len(regions)
          BY <1>1, <3>2, <3>3, <4>2
        <5> QED
          BY <2>1, <3>2, <5>1
      <4> QED
        BY <4>1, <4>2
    <3> QED
      BY <1>1, <3>2, <3>3, <3>4
  <2>3. CASE ~(Len(regions) < MAX_REGIONS)
    <3>1. regions' = regions
      BY <1>3, <2>3 DEF Recorded
    <3>2. Len(regions) = MAX_REGIONS /\ (entry <= MAX_REGIONS => FALSE)
      BY <1>1, <2>1, <2>3
    <3> QED
      BY <1>1, <2>1, <3>1, <3>2
  <2> QED
    BY <2>2, <2>3
<1>8. RegionsInv'
  BY <1>1, <1>3, <1>7 DEF RegionsInv
<1>9. HighestInv'
  <2> SUFFICES ASSUME NEW i \in 1..entry, mmap[i].type = Usable
               PROVE  (Region(mmap[i]).base + Region(mmap[i]).len) % WORD <= highest'
    <3>1. entry' - 1 = entry
      BY <1>1, <1>3
    <3> QED
      BY <1>3, <3>1 DEF HighestInv, Region
  <2>1. CASE i = entry
    BY <1>6, <2>1 DEF end, reg
  <2>2. CASE i # entry
    <3>1. i \in 1..(entry - 1) /\ i \in 1..Len(mmap)
      BY <1>1, <2>2
    <3>2. (Region(mmap[i]).base + Region(mmap[i]).len) % WORD <= highest
      BY <3>1 DEF IInv, HighestInv
    <3>3. (Region(mmap[i]).base + Region(mmap[i]).len) % WORD \in Int
      <4>1. mmap[i] \in Entries
        BY <1>1, <3>1, ElementOfSeq
      <4>2. Region(mmap[i]).base \in Nat /\ Region(mmap[i]).len \in Nat
        BY <4>1, RegionType DEF Regions
      <4>3. Region(mmap[i]).base + Region(mmap[i]).len \in Nat /\ WORD \in Nat \ {0}
        BY <4>2
      <4> QED
        BY ONLY <4>3, DivNat
    <3> QED
      BY <1>5, <1>6, <3>2, <3>3
  <2> QED
    BY <2>1, <2>2
<1>10. BitmapInv' /\ UsedFramesAgree'
  BY <1>1, <1>3 DEF IInv, BitmapInv, UsedFramesAgree
<1>11. TypeOK'
  <2>1. DOMAIN regions' = 1..Len(regions') /\ \A i \in DOMAIN regions' : regions'[i] \in Regions
    BY <1>7, LenProperties, ElementOfSeq
  <2>2. \A i \in DOMAIN regions' : regions'[i].base \in 0..(WORD - 1) /\ regions'[i].len \in 0..(WORD - 1)
    BY <2>1 DEF Regions
  <2>3. entry' \in 1..(Len(mmap) + 1) /\ Len(regions') <= MAX_REGIONS /\ r' \in 1..(Len(regions') + 1)
    <3>1. r' = r /\ r \in 1..(Len(regions) + 1)
      BY <1>3 DEF IInv, TypeOK
    <3>2. entry' \in 1..(Len(mmap) + 1)
      BY <1>1, <1>3
    <3>3. Len(regions') <= MAX_REGIONS
      <4>1. entry \in Nat /\ MAX_REGIONS \in Nat
        BY <1>1
      <4> QED
        BY ONLY <1>7, <4>1
    <3>4. Len(regions) \in Nat
      BY <1>1
    <3>5. r' \in 1..(Len(regions') + 1)
      BY ONLY <1>7, <3>1, <3>4
    <3> QED
      BY <3>2, <3>3, <3>5
  <2>4. Frames' = Frames
    BY <1>3 DEF Frames
  <2> QED
    BY <1>1, <1>3, <1>6, <2>2, <2>3, <2>4 DEF IInv, TypeOK
<1> QED
  BY <1>8, <1>9, <1>10, <1>11 DEF IInv

\* memory_init has read the whole map.
LEMMA ReadDone ==
  ASSUME IInv, memory_init, ~(entry <= Len(mmap))
  PROVE  IInv'
<1>1. mmap \in Seq(Entries) /\ Len(mmap) \in Nat /\ entry \in 1..(Len(mmap) + 1)
  BY LenProperties DEF IInv, TypeOK
<1>2. /\ pc = "memory_init" /\ pc' = "pmm_init"
      /\ UNCHANGED <<mmap, entry, regions, sums, pmm, r>>
  BY <1>1 DEF memory_init
<1>3. entry = Len(mmap) + 1
  BY <1>1
<1>4. /\ UNCHANGED <<mmap, entry, regions, r>>
      /\ UNCHANGED <<total_kb, usable_kb, highest>>
      /\ UNCHANGED <<total_frames, used, used_frames, bitmap_size>>
  BY <1>2 DEF sums, pmm
<1>5. TypeOK'
  BY <1>2, <1>4 DEF IInv, TypeOK, Frames
<1>6. UsedFramesAgree' /\ HighestInv'
  BY <1>4 DEF IInv, UsedFramesAgree, HighestInv, Region
<1>7. RegionsInv'
  BY <1>3, <1>4 DEF IInv, RegionsInv, Region
<1>8. BitmapInv'
  BY <1>2, <1>4 DEF IInv, BitmapInv
<1> QED
  BY <1>5, <1>6, <1>7, <1>8 DEF IInv

\* Every frame is marked used.
LEMMA PmmInitStep ==
  ASSUME IInv, pmm_init
  PROVE  IInv'
<1> USE Sizes
<1>1. /\ pc = "pmm_init" /\ pc' = "free" /\ r = 1
      /\ UNCHANGED <<mmap, entry, regions, r>>
      /\ UNCHANGED <<total_kb, usable_kb, highest>>
      /\ total_frames' = highest \div FRAME_SIZE
      /\ used' = 0..(total_frames' - 1) /\ used_frames' = total_frames'
      /\ bitmap_size' = (RoundUp(total_frames', WORD_BITS) \div WORD_BITS) * WORD_BYTES
  BY DEF pmm_init, sums, IInv, BitmapInv
<1>2. total_frames' \in Nat /\ total_frames' \in 0..(WORD \div FRAME_SIZE)
  <2>1. highest \in Nat /\ highest \in Int /\ WORD \in Int /\ highest <= WORD /\ FRAME_SIZE \in Nat \ {0}
    BY DEF IInv, TypeOK
  <2>2. highest \div FRAME_SIZE \in Nat /\ highest \div FRAME_SIZE <= WORD \div FRAME_SIZE
        /\ WORD \div FRAME_SIZE \in Nat
    BY <2>1, DivNat, DivOrder
  <2> QED
    BY <1>1, <2>2
<1>3. bitmap_size' \in Nat
  <2>1. RoundUp(total_frames', WORD_BITS) \in Nat
    BY <1>2, RoundUpNat
  <2>2. RoundUp(total_frames', WORD_BITS) \div WORD_BITS \in Nat
    BY <2>1, DivNat
  <2> QED
    BY <1>1, <2>2
<1>4. TypeOK'
  BY <1>1, <1>2, <1>3 DEF IInv, TypeOK, Frames
<1>5. UsedFramesAgree'
  BY <1>1, <1>2, FrameSet DEF UsedFramesAgree
<1>6. RegionsInv' /\ HighestInv'
  BY <1>1 DEF IInv, RegionsInv, HighestInv, Region
<1>7. BitmapInv'
  <2>1. used' = {f \in Frames' : \A i \in 1..(r' - 1) : ~(Gives(i, f)')}
    BY <1>1 DEF Frames
  <2> QED
    BY <1>1, <2>1 DEF BitmapInv
<1> QED
  BY <1>4, <1>5, <1>6, <1>7 DEF IInv

\* A region is given back, once for each of its frames.
LEMMA FreeRegionStep ==
  ASSUME IInv, free_region
  PROVE  IInv'
<1> USE Sizes
<1>1. /\ pc = "free" /\ pc' = "free" /\ r' = r + 1
      /\ UNCHANGED <<mmap, entry, regions, total_frames, bitmap_size>>
      /\ UNCHANGED <<total_kb, usable_kb, highest>>
      /\ r <= Len(regions)
  BY DEF free_region, sums
<1>2. /\ regions \in Seq(Regions) /\ Len(regions) \in Nat /\ r \in 1..Len(regions)
      /\ total_frames \in Nat /\ used \subseteq Frames /\ used_frames \in 0..total_frames
      /\ used_frames = Cardinality(used)
      /\ used = {f \in Frames : \A i \in 1..(r - 1) : ~Gives(i, f)}
  <2>1. regions \in Seq(Regions) /\ Len(regions) \in Nat
    BY LenProperties DEF IInv, RegionsInv
  <2>2. r \in 1..Len(regions)
    BY <1>1, <2>1 DEF IInv, TypeOK
  <2>3. total_frames \in Nat /\ used \subseteq Frames /\ used_frames \in 0..total_frames
    BY DEF IInv, TypeOK
  <2>4. used_frames = Cardinality(used)
    BY DEF IInv, UsedFramesAgree
  <2>5. used = {f \in Frames : \A i \in 1..(r - 1) : ~Gives(i, f)}
    BY <1>1 DEF IInv, BitmapInv
  <2> QED
    BY <2>1, <2>2, <2>3, <2>4, <2>5
<1> DEFINE S == {f \in used : Gives(r, f)}
<1>3. used' = used \ S /\ used_frames' = used_frames - Cardinality(S)
  <2> DEFINE s == regions[r].base \div FRAME_SIZE
             T == s..(s + (regions[r].len \div FRAME_SIZE) - 1)
  <2>1. CASE regions[r].type = Usable
    <3>1. used' = used \ T /\ used_frames' = used_frames - Cardinality(T \cap used)
      BY <2>1 DEF free_region, mark_free
    <3>2. S = T \cap used
      BY <2>1 DEF Gives
    <3> QED
      BY <3>1, <3>2
  <2>2. CASE regions[r].type # Usable
    <3>1. S = {}
      BY <2>2 DEF Gives
    <3>2. used' = used /\ used_frames' = used_frames
      BY <2>2 DEF free_region
    <3> HIDE DEF S
    <3>3. Cardinality(S) = 0 /\ used \ S = used
      BY <3>1, FS_EmptySet
    <3>4. used_frames \in Int
      BY <1>2
    <3> QED
      BY ONLY <3>2, <3>3, <3>4
  <2> QED
    BY <2>1, <2>2
<1>4. S \in SUBSET used
  OBVIOUS
<1>5. used' = {f \in Frames : \A i \in 1..r : ~Gives(i, f)}
  <2>1. \A f \in Frames : (\A i \in 1..r : ~Gives(i, f)) <=> ((\A i \in 1..(r - 1) : ~Gives(i, f)) /\ ~Gives(r, f))
    <3> TAKE f \in Frames
    <3>1. 1..r = 1..(r - 1) \cup {r}
      BY <1>2
    <3> QED
      BY <3>1
  <2> QED
    BY <1>2, <1>3, <2>1
<1> HIDE DEF S
<1>6. used_frames' = Cardinality(used') /\ used' \subseteq Frames /\ used_frames' \in 0..total_frames
  <2>1. used \in SUBSET (0..(total_frames - 1)) /\ used' \in SUBSET (0..(total_frames - 1))
    BY <1>2, <1>5 DEF Frames
  <2>2. IsFiniteSet(used) /\ Cardinality(used') \in 0..total_frames
    BY <1>2, <2>1, FrameSet
  <2>3. Cardinality(used \ S) = Cardinality(used) - Cardinality(used \cap S)
    BY <2>2, FS_Difference
  <2>4. used \cap S = S
    BY <1>4
  <2> QED
    BY <1>2, <1>3, <1>5, <2>2, <2>3, <2>4
<1>7. TypeOK'
  <2>1. r' \in 1..(Len(regions) + 1)
    BY <1>1, <1>2
  <2> QED
    BY <1>1, <1>6, <2>1 DEF IInv, TypeOK, Frames
<1>8. UsedFramesAgree'
  BY <1>6 DEF UsedFramesAgree
<1>9. RegionsInv' /\ HighestInv'
  BY <1>1 DEF IInv, RegionsInv, HighestInv, Region
<1>10. BitmapInv'
  <2>1. r' - 1 = r
    BY <1>1, <1>2
  <2>2. total_frames' = (highest \div FRAME_SIZE)' /\ pc' = "free"
    BY <1>1 DEF IInv, BitmapInv
  <2>3. used' = {f \in Frames' : \A i \in 1..(r' - 1) : ~(Gives(i, f)')}
    BY <1>1, <1>5, <2>1 DEF Frames, Gives
  <2> QED
    BY <2>2, <2>3 DEF BitmapInv
<1> QED
  BY <1>7, <1>8, <1>9, <1>10 DEF IInv

\* Low memory, the kernel and the bitmap are taken back.
LEMMA ReclaimStep ==
  ASSUME IInv, reclaim
  PROVE  IInv'
<1> USE Sizes
<1> DEFINE L == LastReserved
           S == ((0..L) \cap Frames) \ used
<1>1. /\ pc = "free" /\ pc' = "done" /\ r > Len(regions)
      /\ UNCHANGED <<mmap, entry, regions, total_frames, bitmap_size, r>>
      /\ UNCHANGED <<total_kb, usable_kb, highest>>
      /\ used' = used \cup ((0..L) \cap Frames) /\ used_frames' = used_frames + Cardinality(S)
  BY DEF reclaim, sums, mark_used
<1>2. /\ Len(regions) \in Nat /\ r = Len(regions) + 1
      /\ total_frames \in Nat /\ used \subseteq Frames /\ used_frames \in 0..total_frames
      /\ used_frames = Cardinality(used) /\ L \in Nat
      /\ used = {f \in Frames : \A i \in 1..(r - 1) : ~Gives(i, f)}
  <2>1. regions \in Seq(Regions) /\ Len(regions) \in Nat
    BY LenProperties DEF IInv, RegionsInv
  <2>2. L \in Nat
    BY ReservedNat DEF IInv, TypeOK
  <2>3. /\ total_frames \in Nat /\ used \subseteq Frames /\ used_frames \in 0..total_frames
        /\ r \in 1..(Len(regions) + 1)
    BY DEF IInv, TypeOK
  <2>4. used_frames = Cardinality(used) /\ used = {f \in Frames : \A i \in 1..(r - 1) : ~Gives(i, f)}
    BY <1>1 DEF IInv, UsedFramesAgree, BitmapInv
  <2>5. r = Len(regions) + 1
    BY ONLY <1>1, <2>1, <2>3
  <2> QED
    BY <2>1, <2>2, <2>3, <2>4, <2>5
<1> HIDE DEF L
<1>3. used' = used \cup S /\ used \cap S = {} /\ used \cup S \subseteq Frames
  BY <1>1, <1>2
<1>4. used' = {f \in Frames : f <= L \/ \A i \in 1..Len(regions) : ~Gives(i, f)}
  <2>1. r - 1 = Len(regions)
    BY <1>2
  <2>2. \A f \in Frames : f \in 0..L <=> f <= L
    BY <1>2 DEF Frames
  <2>3. used = {f \in Frames : \A i \in 1..Len(regions) : ~Gives(i, f)}
    BY <1>2, <2>1
  <2>4. used' = used \cup {f \in Frames : f <= L}
    BY <1>1, <2>2
  <2> QED
    BY <2>3, <2>4
<1> HIDE DEF S
<1>5. used_frames' = Cardinality(used') /\ used' \subseteq Frames /\ used_frames' \in 0..total_frames
  <2>1. /\ used \in SUBSET (0..(total_frames - 1)) /\ S \in SUBSET (0..(total_frames - 1))
        /\ used \cup S \in SUBSET (0..(total_frames - 1))
    BY <1>2, <1>3 DEF Frames
  <2>2. IsFiniteSet(used) /\ IsFiniteSet(S) /\ Cardinality(used \cup S) \in 0..total_frames
        /\ Cardinality(S) \in 0..total_frames
    BY <1>2, <2>1, FrameSet
  <2>3. Cardinality(used \cup S) = Cardinality(used) + Cardinality(S) - Cardinality(used \cap S)
    BY <2>2, FS_Union
  <2>4. Cardinality(used \cap S) = 0
    BY <1>3, FS_EmptySet
  <2>5. Cardinality(used \cup S) = used_frames'
    BY <1>1, <1>2, <2>2, <2>3, <2>4
  <2> QED
    BY <1>3, <2>2, <2>5
<1>6. TypeOK'
  BY <1>1, <1>5 DEF IInv, TypeOK, Frames
<1>7. UsedFramesAgree'
  BY <1>5 DEF UsedFramesAgree
<1>8. RegionsInv' /\ HighestInv'
  BY <1>1 DEF IInv, RegionsInv, HighestInv, Region
<1>9. BitmapInv'
  <2>1. total_frames' = (highest \div FRAME_SIZE)' /\ LastReserved' = L
    BY <1>1 DEF IInv, BitmapInv, L, LastReserved, bitmap_addr
  <2>2. used' = {f \in Frames' : f <= LastReserved' \/ \A i \in 1..Len(regions') : ~(Gives(i, f)')}
    BY <1>1, <1>4, <2>1 DEF Frames, Gives
  <2> QED
    BY <1>1, <2>1, <2>2 DEF BitmapInv
<1> QED
  BY <1>6, <1>7, <1>8, <1>9 DEF IInv

\* What memory_init and pmm_init keep of the map is, at every step, what the
\* inductive invariant says.
THEOREM Invariance == Spec => []IInv
<1>1. Init => IInv
  BY InitIInv
<1>2. IInv /\ [Next]_vars => IInv'
  <2> SUFFICES ASSUME IInv, [Next]_vars PROVE IInv'
    OBVIOUS
  <2>1. CASE memory_init
    BY <2>1, ReadEntry, ReadDone
  <2>2. CASE pmm_init
    BY <2>2, PmmInitStep
  <2>3. CASE free_region
    BY <2>3, FreeRegionStep
  <2>4. CASE reclaim
    BY <2>4, ReclaimStep
  <2>5. CASE UNCHANGED vars
    <3>1. /\ UNCHANGED <<mmap, entry, regions, r, pc>>
          /\ UNCHANGED <<total_kb, usable_kb, highest>>
          /\ UNCHANGED <<total_frames, used, used_frames, bitmap_size>>
      BY <2>5 DEF vars, sums, pmm
    <3>2. TypeOK' /\ UsedFramesAgree'
      BY <3>1 DEF IInv, TypeOK, UsedFramesAgree, Frames
    <3>3. RegionsInv' /\ HighestInv'
      BY <3>1 DEF IInv, RegionsInv, HighestInv, Region
    <3>4. BitmapInv'
      BY <3>1 DEF IInv, BitmapInv, Frames, Gives, LastReserved, bitmap_addr
    <3> QED
      BY <3>2, <3>3, <3>4 DEF IInv
  <2> QED
    BY <2>1, <2>2, <2>3, <2>4, <2>5 DEF Next
<1> QED
  BY <1>1, <1>2, PTL DEF Spec

-----------------------------------------------------------------------------
(* What the invariant gives.                                               *)

\* The tables and sums keep their types and regions[] is never overrun,
\* however many entries the map has.
THEOREM TypeCorrect == Spec => []TypeOK
BY Invariance, PTL DEF IInv

\* used_frames agrees with the bitmap through every round of pmm_init,
\* however the map's regions overlap.
THEOREM UsedFramesAgreeThm == Spec => []UsedFramesAgree
BY Invariance, PTL DEF IInv

\* What may be handed out at the end: frames past the reserved ones that some
\* region gives.
LEMMA AvailableFrames ==
  ASSUME IInv, pc = "done"
  PROVE  \A f : f \in Available <=> /\ f \in Frames /\ f > LastReserved
                                    /\ \E i \in 1..Len(regions) : Gives(i, f)
<1>1. used = {f \in Frames : f <= LastReserved \/ \A i \in 1..Len(regions) : ~Gives(i, f)}
  BY DEF IInv, BitmapInv
<1>2. LastReserved \in Nat
  BY ReservedNat DEF IInv, TypeOK
<1>3. \A f \in Frames : f \in Int /\ (f > LastReserved <=> ~(f <= LastReserved))
  BY <1>2 DEF Frames
<1> QED
  BY <1>1, <1>3 DEF Available

\* pmm_init hands out no frame of low memory, the kernel or the bitmap,
\* whatever the map says.
THEOREM KernelReservedThm == Spec => []KernelReserved
<1>1. IInv => KernelReserved
  <2> SUFFICES ASSUME IInv, pc = "done", NEW f \in Available
               PROVE  f * FRAME_SIZE >= bitmap_addr + bitmap_size
    BY DEF KernelReserved
  <2> DEFINE x == bitmap_addr + bitmap_size
             L == x \div FRAME_SIZE
  <2>1. x \in Int /\ L \in Int /\ L = LastReserved
    <3>1. bitmap_size \in Nat
      BY DEF IInv, TypeOK
    <3> QED
      BY <3>1, ReservedNat DEF LastReserved
  <2>2. f \in Frames /\ f > L
    BY <2>1, AvailableFrames
  <2>3. f \in Int /\ ~(f <= L)
    BY <2>1, <2>2 DEF Frames
  <2> HIDE DEF x
  <2>4. f * FRAME_SIZE <= x <=> f <= L
    BY <2>1, <2>3, Sizes, DivGalois
  <2>5. f * FRAME_SIZE \in Int
    BY <2>3, Sizes
  <2>6. f * FRAME_SIZE >= x
    BY <2>1, <2>3, <2>4, <2>5
  <2> QED
    BY <2>6 DEF x
<1> QED
  BY <1>1, Invariance, PTL

\* The frames of a region that starts on a frame boundary are those that lie
\* in it as a whole.
LEMMA WholeFrames ==
  ASSUME NEW a \in Nat, NEW n \in Nat, NEW f \in Nat, a % FRAME_SIZE = 0
  PROVE  LET start == a \div FRAME_SIZE
         IN  f \in start..(start + (n \div FRAME_SIZE) - 1)
               <=> a <= f * FRAME_SIZE /\ f * FRAME_SIZE + FRAME_SIZE <= a + n
<1> USE Sizes
<1> DEFINE m == FRAME_SIZE
           s == a \div m
           q == n \div m
<1>1. m \in Nat \ {0} /\ a \in Int /\ n \in Int /\ s \in Nat /\ q \in Nat
  BY DivNat
<1>2. a = s * m
  <2>1. a = m * s + (a % m)
    BY <1>1, DivModFacts
  <2> HIDE DEF s
  <2> QED
    BY <1>1, <2>1
<1> HIDE DEF m, s
<1>3. s <= f <=> s * m <= f * m
  BY <1>1, MultipleOrder
<1>4. (f + 1 - s) * m <= n <=> f + 1 - s <= q
  BY <1>1, DivGalois
<1> HIDE DEF q
<1>5. (f + 1 - s) * m = f * m + m - s * m
  BY <1>1
<1>6. f * m \in Int /\ s * m \in Int
  BY <1>1
<1>7. f \in s..(s + q - 1) <=> s <= f /\ f + 1 - s <= q
  BY <1>1
<1>8. f * m + m - s * m <= n <=> f * m + m <= s * m + n
  BY <1>1, <1>6
<1>9. f \in s..(s + q - 1) <=> a <= f * m /\ f * m + m <= a + n
  BY <1>2, <1>3, <1>4, <1>5, <1>7, <1>8
<1> QED
  BY <1>9 DEF m, s, q

\* A region that starts on a frame boundary and holds a frame's last byte
\* holds the frame.
LEMMA LastByte ==
  ASSUME NEW a \in Nat, NEW n \in Nat, NEW f \in Nat, a % FRAME_SIZE = 0,
         f * FRAME_SIZE + FRAME_SIZE - 1 \in Span(a, n)
  PROVE  a <= f * FRAME_SIZE /\ f * FRAME_SIZE + FRAME_SIZE <= a + n
<1> USE Sizes
<1> DEFINE m == FRAME_SIZE
           s == a \div m
<1>1. m \in Nat \ {0} /\ s \in Nat
  BY DivNat
<1>2. a = s * m
  <2>1. a = m * s + (a % m)
    BY <1>1, DivModFacts
  <2> HIDE DEF s
  <2> QED
    BY <1>1, <2>1
<1>3. f * m \in Int /\ f * m + m - 1 >= a /\ f * m + m - 1 <= a + n - 1
  BY DEF Span
<1> HIDE DEF m, s
<1>4. (f + 1) * m = f * m + m /\ s * m \in Int
  BY <1>1
<1>5. ~(f + 1 <= s)
  <2>1. f + 1 <= s <=> (f + 1) * m <= s * m
    BY <1>1, MultipleOrder
  <2> QED
    BY <1>1, <1>2, <1>3, <1>4, <2>1
<1>6. s <= f /\ (s <= f <=> s * m <= f * m)
  BY <1>1, <1>5, MultipleOrder
<1>7. a <= f * m /\ f * m + m <= a + n
  BY <1>1, <1>2, <1>3, <1>6
<1> QED
  BY <1>7 DEF m

\* A map the kernel can represent reaches regions[] and highest unchanged.
LEMMA RepresentedRegion ==
  ASSUME IInv, pc = "done", Representable, NEW i \in 1..Len(mmap), mmap[i].type = Usable
  PROVE  /\ mmap[i].addr \in Nat /\ mmap[i].len \in Nat
         /\ mmap[i].addr % FRAME_SIZE = 0
         /\ regions[i].base = mmap[i].addr /\ regions[i].len = mmap[i].len
         /\ mmap[i].addr + mmap[i].len <= highest
<1> USE Sizes
<1>1. /\ mmap \in Seq(Entries) /\ Len(mmap) \in Nat /\ DOMAIN mmap = 1..Len(mmap)
      /\ mmap[i] \in Entries
  BY LenProperties, ElementOfSeq DEF IInv, TypeOK
<1>2. entry = Len(mmap) + 1 /\ Len(regions) = Len(mmap)
  BY <1>1 DEF IInv, RegionsInv, Representable
<1>3. regions[i] = Region(mmap[i])
  BY <1>2 DEF IInv, RegionsInv
<1> DEFINE a == mmap[i].addr
           n == mmap[i].len
<1>4. a \in Nat /\ n \in Nat /\ a % FRAME_SIZE = 0 /\ a + n < WORD
  BY <1>1, RegionType DEF Representable
<1>5. Region(mmap[i]).base = a % WORD /\ Region(mmap[i]).len = n % WORD
  BY <1>1, RegionType
<1> HIDE DEF a, n
<1>6. a % WORD = a /\ n % WORD = n /\ (a + n) % WORD = a + n
  <2>1. a \in Nat /\ n \in Nat /\ a + n \in Nat /\ a < WORD /\ n < WORD /\ a + n < WORD
    BY <1>4
  <2> QED
    BY <2>1, SmallMod
<1>7. (Region(mmap[i]).base + Region(mmap[i]).len) % WORD <= highest
  <2>1. i \in 1..(entry - 1)
    BY <1>1, <1>2
  <2> QED
    BY <2>1 DEF IInv, HighestInv
<1>8. a + n <= highest
  BY <1>5, <1>6, <1>7
<1> QED
  BY <1>3, <1>4, <1>5, <1>6, <1>8 DEF a, n

\* The entry holds frame f as a whole.
Holds(i, f) ==
  /\ mmap[i].type = Usable
  /\ mmap[i].addr <= f * FRAME_SIZE
  /\ f * FRAME_SIZE + FRAME_SIZE <= mmap[i].addr + mmap[i].len

\* A frame of a representable map is usable RAM as a whole when one entry
\* holds it: no frame is made of two entries.
LEMMA UsableFrame ==
  ASSUME IInv, pc = "done", Representable, NEW f \in Nat
  PROVE  FrameBytes(f) \subseteq UsableBytes <=> \E i \in 1..Len(mmap) : Holds(i, f)
<1> USE Sizes
<1>1. DOMAIN mmap = 1..Len(mmap) /\ f * FRAME_SIZE \in Nat
  BY LenProperties DEF IInv, TypeOK
<1>2. ASSUME FrameBytes(f) \subseteq UsableBytes PROVE \E i \in 1..Len(mmap) : Holds(i, f)
  <2> DEFINE b == f * FRAME_SIZE + FRAME_SIZE - 1
  <2>1. b \in FrameBytes(f)
    BY <1>1 DEF FrameBytes, Span
  <2>2. PICK i \in 1..Len(mmap) : mmap[i].type = Usable /\ b \in Span(mmap[i].addr, mmap[i].len)
    BY <1>1, <1>2, <2>1 DEF UsableBytes
  <2>3. mmap[i].addr \in Nat /\ mmap[i].len \in Nat /\ mmap[i].addr % FRAME_SIZE = 0
    BY <2>2, RepresentedRegion
  <2>4. /\ mmap[i].addr <= f * FRAME_SIZE
        /\ f * FRAME_SIZE + FRAME_SIZE <= mmap[i].addr + mmap[i].len
    BY <2>2, <2>3, LastByte
  <2> QED
    BY <2>2, <2>4 DEF Holds
<1>3. ASSUME NEW i \in 1..Len(mmap), Holds(i, f) PROVE FrameBytes(f) \subseteq UsableBytes
  <2>1. mmap[i].addr \in Nat /\ mmap[i].len \in Nat /\ mmap[i].type = Usable
    BY <1>3, RepresentedRegion DEF Holds
  <2>2. FrameBytes(f) \subseteq Span(mmap[i].addr, mmap[i].len)
    <3> DEFINE p == f * FRAME_SIZE
    <3>1. /\ p \in Nat /\ FRAME_SIZE \in Nat /\ mmap[i].addr <= p
          /\ p + FRAME_SIZE <= mmap[i].addr + mmap[i].len
      BY <1>1, <1>3 DEF Holds
    <3>2. FrameBytes(f) = p..(p + FRAME_SIZE - 1)
      BY DEF FrameBytes, Span
    <3> HIDE DEF p
    <3> QED
      BY ONLY <2>1, <3>1, <3>2 DEF Span
  <2>3. Span(mmap[i].addr, mmap[i].len) \subseteq UsableBytes
    BY <1>1, <2>1 DEF UsableBytes
  <2> QED
    BY <2>2, <2>3
<1> QED
  BY <1>2, <1>3

\* From a map the kernel can represent, pmm_init makes available exactly the
\* whole frames of usable RAM behind the bitmap, for any number, order and
\* overlap of the entries.
THEOREM AvailableIsExactThm == Spec => []AvailableIsExact
<1>1. IInv => AvailableIsExact
  <2> SUFFICES ASSUME IInv, pc = "done", Representable
               PROVE  Available = {f \in (LastReserved + 1)..(WORD \div FRAME_SIZE) : FrameBytes(f) \subseteq UsableBytes}
    BY DEF AvailableIsExact
  <2> USE Sizes
  <2>1. /\ LastReserved \in Nat /\ highest \in Nat /\ total_frames \in Nat
        /\ WORD \div FRAME_SIZE \in Nat /\ total_frames <= WORD \div FRAME_SIZE
        /\ total_frames = highest \div FRAME_SIZE
    <3>1. LastReserved \in Nat
      BY ReservedNat DEF IInv, TypeOK
    <3>2. highest \in Nat /\ total_frames \in 0..(WORD \div FRAME_SIZE)
      BY DEF IInv, TypeOK
    <3>3. WORD \div FRAME_SIZE \in Nat
      BY DivNat
    <3>4. total_frames = highest \div FRAME_SIZE
      BY DEF IInv, BitmapInv
    <3> QED
      BY <3>1, <3>2, <3>3, <3>4
  <2>2. Len(regions) = Len(mmap) /\ Len(mmap) \in Nat
    <3>1. Len(mmap) \in Nat
      BY LenProperties DEF IInv, TypeOK
    <3> QED
      BY <3>1 DEF IInv, RegionsInv, Representable
  <2>3. ASSUME NEW f \in Nat, NEW i \in 1..Len(mmap)
        PROVE  Gives(i, f) <=> Holds(i, f)
    <3>1. regions[i].type = mmap[i].type
      <4>1. regions[i] = Region(mmap[i])
        BY <2>2, <2>3 DEF IInv, RegionsInv
      <4>2. mmap[i] \in Entries
        BY ElementOfSeq DEF IInv, TypeOK
      <4> QED
        BY <4>1, <4>2, RegionType
    <3>2. CASE mmap[i].type = Usable
      <4>1. /\ mmap[i].addr \in Nat /\ mmap[i].len \in Nat /\ mmap[i].addr % FRAME_SIZE = 0
            /\ regions[i].base = mmap[i].addr /\ regions[i].len = mmap[i].len
        BY <3>2, RepresentedRegion
      <4> QED
        BY <3>1, <3>2, <4>1, WholeFrames DEF Gives, Holds
    <3> QED
      BY <3>1, <3>2 DEF Gives, Holds
  <2>4. ASSUME NEW f \in Nat, NEW i \in 1..Len(mmap), Holds(i, f)
        PROVE  f \in Frames
    <3>1. /\ mmap[i].addr \in Nat /\ mmap[i].len \in Nat
          /\ mmap[i].addr + mmap[i].len <= highest
      BY <2>4, RepresentedRegion DEF Holds
    <3>2. f * FRAME_SIZE + FRAME_SIZE <= highest
      BY <2>1, <2>4, <3>1 DEF Holds
    <3>3. (f + 1) * FRAME_SIZE = f * FRAME_SIZE + FRAME_SIZE /\ f + 1 \in Int /\ highest \in Int
      BY <2>1
    <3>4. (f + 1) * FRAME_SIZE <= highest <=> f + 1 <= highest \div FRAME_SIZE
      BY <3>3, DivGalois
    <3>5. f + 1 <= total_frames
      BY <2>1, <3>2, <3>3, <3>4
    <3> QED
      BY <2>1, <3>5 DEF Frames
  <2>5. ASSUME NEW f \in Nat
        PROVE  f \in Available <=> f > LastReserved /\ \E i \in 1..Len(mmap) : Holds(i, f)
    BY <2>2, <2>3, <2>4, AvailableFrames
  <2>6. ASSUME NEW f \in Available
        PROVE  f \in (LastReserved + 1)..(WORD \div FRAME_SIZE) /\ FrameBytes(f) \subseteq UsableBytes
    <3>1. f \in Frames /\ f > LastReserved
      BY AvailableFrames
    <3>2. f \in Nat /\ f \in (LastReserved + 1)..(WORD \div FRAME_SIZE)
      BY <2>1, <3>1 DEF Frames
    <3> QED
      BY <2>5, <3>2, UsableFrame
  <2>7. ASSUME NEW f \in (LastReserved + 1)..(WORD \div FRAME_SIZE), FrameBytes(f) \subseteq UsableBytes
        PROVE  f \in Available
    <3>1. f \in Nat /\ f > LastReserved
      BY <2>1
    <3> QED
      BY <2>5, <2>7, <3>1, UsableFrame
  <2> QED
    BY <2>6, <2>7
<1> QED
  BY <1>1, Invariance, PTL

-----------------------------------------------------------------------------
(* What pmm_init hands over to paging_init.                                *)

\* The end of an entry, in 32 bits.
EndOf(e) == (Region(e).base + Region(e).len) % WORD

\* highest is the end of a usable entry, if there is one.
TopInv == highest = 0 \/ \E i \in 1..(entry - 1) : mmap[i].type = Usable /\ highest = EndOf(mmap[i])

\* Entry i is usable memory from the first frame behind the bitmap, or from
\* before it, up to the end of all usable memory.
MainRange(i) ==
  /\ mmap[i].type = Usable
  /\ mmap[i].addr <= (LastReserved + 1) * FRAME_SIZE
  /\ (LastReserved + 1) * FRAME_SIZE <= mmap[i].addr + mmap[i].len
  /\ \A j \in DOMAIN mmap : mmap[j].type = Usable =>
       mmap[j].addr + mmap[j].len <= mmap[i].addr + mmap[i].len

\* On a machine with one range of memory above the kernel, pmm_init leaves
\* exactly the frames up to LastReserved in use, and counts them right: the
\* state from which paging_init, and module Memory, go on.
HandsOver ==
  pc = "done" /\ Representable /\ (\E i \in DOMAIN mmap : MainRange(i)) =>
    used = 0..LastReserved /\ used_frames = LastReserved + 1

LEMMA TopStep ==
  ASSUME IInv, TopInv, [Next]_vars
  PROVE  TopInv'
<1>1. CASE memory_init /\ entry <= Len(mmap)
  <2>0. mmap \in Seq(Entries) /\ Len(mmap) \in Nat /\ entry \in 1..(Len(mmap) + 1)
    BY LenProperties DEF IInv, TypeOK
  <2>1. entry \in Nat /\ entry >= 1 /\ mmap[entry] \in Entries
    BY <1>1, <2>0, ElementOfSeq
  <2>2. /\ entry' = entry + 1 /\ mmap' = mmap
        /\ highest' = highest \/ (mmap[entry].type = Usable /\ highest' = EndOf(mmap[entry]))
    <3>1. /\ Region(mmap[entry]).base = mmap[entry].addr % WORD
          /\ Region(mmap[entry]).len = mmap[entry].len % WORD
      BY <2>1, RegionType
    <3>2. ~(entry > Len(mmap))
      BY <1>1, <2>0, <2>1
    <3> QED
      BY <1>1, <3>1, <3>2 DEF memory_init, Highest, EndOf
  <2>3. CASE highest' = highest
    <3>1. \A i \in 1..(entry - 1) : i \in 1..(entry' - 1)
      BY <2>1, <2>2
    <3> QED
      BY <2>2, <2>3, <3>1 DEF TopInv, EndOf, Region
  <2>4. CASE mmap[entry].type = Usable /\ highest' = EndOf(mmap[entry])
    <3>1. entry \in 1..(entry' - 1)
      BY <2>1, <2>2
    <3> QED
      BY <2>2, <2>4, <3>1 DEF TopInv, EndOf, Region
  <2> QED
    BY <2>2, <2>3, <2>4
<1>2. CASE UNCHANGED <<highest, entry, mmap>>
  BY <1>2 DEF TopInv, EndOf, Region
<1>3. CASE memory_init /\ ~(entry <= Len(mmap))
  <2>1. Len(mmap) \in Nat /\ entry \in Nat
    BY LenProperties DEF IInv, TypeOK
  <2>2. entry > Len(mmap)
    BY <1>3, <2>1
  <2> QED
    BY <1>2, <1>3, <2>2 DEF memory_init, sums
<1> QED
  BY <1>1, <1>2, <1>3 DEF Next, pmm_init, free_region, reclaim, vars, sums

\* The last frame of the main range is the last frame there is, and every
\* frame behind the bitmap lies in it.
LEMMA MainFrames ==
  ASSUME IInv, TopInv, AvailableIsExact, pc = "done", Representable,
         NEW i \in DOMAIN mmap, MainRange(i)
  PROVE  /\ LastReserved \in Nat /\ total_frames \in Nat /\ LastReserved < total_frames
         /\ \A f \in Frames : f > LastReserved => f \in Available
<1> USE Sizes
<1> DEFINE end == mmap[i].addr + mmap[i].len
           L   == LastReserved
<1>1. /\ L \in Nat /\ highest \in Nat /\ total_frames \in Nat
      /\ total_frames = highest \div FRAME_SIZE /\ total_frames <= WORD \div FRAME_SIZE
      /\ WORD \div FRAME_SIZE \in Nat
      /\ DOMAIN mmap = 1..Len(mmap) /\ entry = Len(mmap) + 1 /\ Len(mmap) \in Nat
  <2>1. L \in Nat /\ highest \in Nat /\ total_frames \in 0..(WORD \div FRAME_SIZE)
    BY ReservedNat DEF IInv, TypeOK
  <2>2. total_frames = highest \div FRAME_SIZE /\ entry = Len(mmap) + 1
    BY DEF IInv, BitmapInv, RegionsInv
  <2>3. DOMAIN mmap = 1..Len(mmap) /\ Len(mmap) \in Nat
    BY LenProperties DEF IInv, TypeOK
  <2>4. WORD \div FRAME_SIZE \in Nat
    BY DivNat
  <2> QED
    BY <2>1, <2>2, <2>3, <2>4
<1>2. /\ i \in 1..Len(mmap) /\ mmap[i].addr \in Nat /\ mmap[i].len \in Nat /\ end \in Nat
      /\ end <= highest
  <2>1. i \in 1..Len(mmap) /\ mmap[i].type = Usable
    BY <1>1 DEF MainRange
  <2> QED
    BY <2>1, RepresentedRegion
<1>3. highest <= end
  <2>1. CASE highest = 0
    BY <1>2, <2>1
  <2>2. CASE highest # 0
    <3>1. PICK j \in 1..(entry - 1) : mmap[j].type = Usable /\ highest = EndOf(mmap[j])
      BY <2>2 DEF TopInv
    <3>2. j \in 1..Len(mmap) /\ j \in DOMAIN mmap
      BY <1>1
    <3>3. /\ mmap[j].addr \in Nat /\ mmap[j].len \in Nat
          /\ mmap[j].addr + mmap[j].len < WORD /\ mmap[j] \in Entries
      BY <3>1, <3>2, RepresentedRegion, ElementOfSeq DEF Representable, IInv, TypeOK
    <3> DEFINE a == mmap[j].addr
               n == mmap[j].len
    <3>4. EndOf(mmap[j]) = ((a % WORD) + (n % WORD)) % WORD
      BY <3>3, RegionType DEF EndOf
    <3>5. mmap[j].addr + mmap[j].len <= end
      BY <3>1, <3>2 DEF MainRange
    <3>6. a \in Nat /\ n \in Nat /\ a + n \in Nat /\ a < WORD /\ n < WORD /\ a + n < WORD
      BY <3>3
    <3>7. a + n <= end
      BY <3>5
    <3> HIDE DEF a, n
    <3>8. a % WORD = a /\ n % WORD = n /\ (a + n) % WORD = a + n
      BY <3>6, SmallMod
    <3> QED
      BY <3>1, <3>4, <3>7, <3>8
  <2> QED
    BY <2>1, <2>2
<1>4. end = highest
  BY <1>1, <1>2, <1>3
<1>5. /\ mmap[i].type = Usable /\ mmap[i].addr <= (L + 1) * FRAME_SIZE /\ (L + 1) * FRAME_SIZE <= highest
  BY <1>4 DEF MainRange
<1> HIDE DEF end, L
<1>6. L + 1 <= total_frames
  <2>1. L + 1 \in Int /\ highest \in Int /\ FRAME_SIZE \in Nat \ {0}
    BY <1>1
  <2>2. (L + 1) * FRAME_SIZE <= highest <=> L + 1 <= highest \div FRAME_SIZE
    BY ONLY <2>1, DivGalois
  <2> QED
    BY <1>1, <1>5, <2>2
<1>7. ASSUME NEW f \in Frames, f > L PROVE f \in Available
  <2>1. f \in Nat /\ f + 1 <= total_frames /\ L + 1 <= f /\ f \in (L + 1)..(WORD \div FRAME_SIZE)
    BY <1>1, <1>7 DEF Frames
  <2>2. f + 1 \in Int /\ highest \in Int /\ FRAME_SIZE \in Nat \ {0} /\ f \in Int /\ L + 1 \in Int
    BY <1>1, <2>1
  <2>3. (f + 1) * FRAME_SIZE <= highest
    <3>1. (f + 1) * FRAME_SIZE <= highest <=> f + 1 <= highest \div FRAME_SIZE
      BY ONLY <2>2, DivGalois
    <3> QED
      BY <1>1, <2>1, <3>1
  <2>4. (L + 1) * FRAME_SIZE <= f * FRAME_SIZE
    <3>1. L + 1 <= f <=> (L + 1) * FRAME_SIZE <= f * FRAME_SIZE
      BY ONLY <2>2, MultipleOrder
    <3> QED
      BY <2>1, <3>1
  <2>5. (f + 1) * FRAME_SIZE = f * FRAME_SIZE + FRAME_SIZE /\ f * FRAME_SIZE \in Int /\ (L + 1) * FRAME_SIZE \in Int
    BY <2>2
  <2>6. Holds(i, f)
    BY <1>2, <1>4, <1>5, <2>3, <2>4, <2>5 DEF Holds, end
  <2>7. FrameBytes(f) \subseteq UsableBytes
    BY <1>2, <2>1, <2>6, UsableFrame
  <2> QED
    BY <2>1, <2>7 DEF AvailableIsExact, L
<1> QED
  BY <1>1, <1>6, <1>7 DEF L

\* On a machine with one range of memory above the kernel, whatever else its
\* map says below and however entries overlap, pmm_init hands over exactly
\* the frames from 0 to LastReserved in use: Memory's Reserved is
\* LastReserved + 1 and its NFrames total_frames.
THEOREM HandsOverThm == Spec => []HandsOver
<1>1. Init => TopInv
  BY DEF Init, TopInv
<1>2. Spec => []TopInv
  BY <1>1, TopStep, Invariance, PTL DEF Spec
<1>3. IInv /\ TopInv /\ AvailableIsExact => HandsOver
  <2> SUFFICES ASSUME IInv, TopInv, AvailableIsExact, pc = "done", Representable,
                      NEW i \in DOMAIN mmap, MainRange(i)
               PROVE  used = 0..LastReserved /\ used_frames = LastReserved + 1
    BY DEF HandsOver
  <2>1. /\ LastReserved \in Nat /\ total_frames \in Nat /\ LastReserved < total_frames
        /\ \A f \in Frames : f > LastReserved => f \in Available
    BY MainFrames
  <2>2. used \subseteq Frames /\ used_frames = Cardinality(used)
    BY DEF IInv, TypeOK, UsedFramesAgree
  <2>3. \A f \in Available : f > LastReserved
    BY AvailableFrames
  <2>4. used = 0..LastReserved
    <3> DEFINE L == LastReserved
    <3>1. \A f \in Frames : f \in Nat /\ (f \in used \/ f > L)
      BY <2>3 DEF Available, Frames
    <3>2. \A f \in used : f \in Frames /\ ~(f > L)
      BY <2>1, <2>2 DEF Available
    <3>3. L \in Nat /\ \A f \in 0..L : f \in Frames
      BY <2>1 DEF Frames
    <3> HIDE DEF L
    <3>4. \A f : f \in used <=> f \in 0..L
      BY <3>1, <3>2, <3>3
    <3> QED
      BY <3>4 DEF L
  <2>5. Cardinality(0..LastReserved) = LastReserved + 1
    <3> DEFINE n == LastReserved + 1
    <3>1. n \in Nat /\ n - 1 = LastReserved
      BY <2>1
    <3> HIDE DEF n
    <3>2. Cardinality(0..(n - 1)) = n
      BY <3>1, FrameSet
    <3> QED
      BY <3>1, <3>2 DEF n
  <2> QED
    BY <2>2, <2>4, <2>5
<1> QED
  BY <1>2, <1>3, Invariance, AvailableIsExactThm, PTL
=============================================================================
