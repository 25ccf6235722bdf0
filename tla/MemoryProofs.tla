---------------------------- MODULE MemoryProofs ----------------------------
(***************************************************************************)
(* Proofs about Memory, for any number of frames, any size of the page     *)
(* tables and of the address space, and any identity region.               *)
(***************************************************************************)
EXTENDS Memory, DivMod, FiniteSetTheorems, WellFoundedInduction

-----------------------------------------------------------------------------
(* The inductive invariant.                                                *)

\* Every directory entry has a table of its own, and those of the identity
\* region are where paging_init put them.
DirInv ==
  /\ \A d, e \in DirIndex : dir[d] # None /\ dir[d] = dir[e] => d = e
  /\ \A d \in 0..(IdentityTables - 1) : dir[d] = Reserved + 1 + d

\* A grow_mapping in progress has passed the ceiling's test, and has taken a
\* frame for every page it has mapped and for the one it is about to map.
GrowInv ==
  pc = "grow" => /\ UnderCeiling(bytes)
                 /\ BootEnd + off + (IF frame = None THEN 0 ELSE 1) <= used_frames

\* Frames are in hand only while a page is being mapped, and one for a table
\* only while the directory has no table for that page.
HandInv ==
  /\ frame # None => pc = "map" \/ (pc = "grow" /\ off < bytes)
  /\ pc = "map" => frame # None /\ virt >= IdentityEnd
  /\ table # None => frame # None /\ dir[Dir(Target)] = None

IInv ==
  /\ TypeOK
  /\ NoFrameShared
  /\ CountersAgree
  /\ IdentityIntact
  /\ TlbCoherent
  /\ DirInv
  /\ GrowInv
  /\ HandInv

-----------------------------------------------------------------------------
(* Lemmas about the operators.                                             *)

\* The sizes as numbers.
LEMMA Sizes ==
  /\ NFrames \in Nat /\ NPages \in Nat \ {0} /\ TableSize \in Nat \ {0} /\ Reserved \in Nat \ {0}
  /\ IdentityEnd \in Nat /\ IdentityEnd <= NFrames
  /\ IdentityTables \in Nat /\ IdentityEnd <= IdentityTables * TableSize
  /\ IdentityTables * TableSize <= HeapStart /\ HeapStart + HeapMax < NPages
  /\ BootEnd \in Nat /\ BootEnd = Reserved + 1 + IdentityTables /\ BootEnd <= IdentityEnd
  /\ HeapStart \in Nat /\ HeapMax \in Nat /\ IdentityEnd <= HeapStart
<1>1. /\ NFrames \in Nat /\ NPages \in Nat /\ TableSize \in Nat \ {0} /\ Reserved \in Nat \ {0}
      /\ IdentityEnd \in Nat /\ IdentityEnd <= NFrames /\ HeapStart \in Nat /\ HeapMax \in Nat
      /\ IdentityTables * TableSize <= HeapStart /\ HeapStart + HeapMax < NPages
      /\ BootEnd <= IdentityEnd
  BY SizeAssumption, HeapAssumption
<1>2. IdentityEnd <= IdentityTables * TableSize /\ IdentityTables * TableSize \in Nat
  BY ONLY <1>1, RoundUpFacts DEF IdentityTables
<1>3. IdentityTables \in Nat
  <2>1. IdentityEnd + TableSize - 1 \in Int /\ 0 \in Int /\ 0 <= IdentityEnd + TableSize - 1
        /\ 0 \div TableSize = 0
    BY <1>1
  <2>2. 0 \div TableSize <= (IdentityEnd + TableSize - 1) \div TableSize
    BY ONLY <1>1, <2>1, DivOrder
  <2>3. IdentityTables \in Int
    BY ONLY <1>1, <2>1, DivModFacts DEF IdentityTables
  <2> QED
    BY <2>1, <2>2, <2>3 DEF IdentityTables
<1> QED
  BY <1>1, <1>2, <1>3 DEF BootEnd

\* A page is an entry of a table, and different pages are different entries.
LEMMA PageSplit ==
  /\ \A v \in Pages : v \in Nat /\ Dir(v) \in DirIndex /\ Tbl(v) \in Entries
  /\ \A v, w \in Pages : Dir(v) = Dir(w) /\ Tbl(v) = Tbl(w) => v = w
  /\ \A v \in Pages : v = Dir(v) * TableSize + Tbl(v)
<1>1. ASSUME NEW v \in Pages
      PROVE  /\ v \in Nat /\ Dir(v) \in DirIndex /\ Tbl(v) \in Entries
             /\ v = Dir(v) * TableSize + Tbl(v) /\ Dir(v) \in Int
  <2>1. v \in Int /\ v \in Nat /\ v <= NPages - 1 /\ NPages - 1 \in Int /\ 0 <= v /\ 0 \in Int
        /\ TableSize \in Nat \ {0}
    BY Sizes DEF Pages
  <2>2. /\ v = TableSize * (v \div TableSize) + (v % TableSize)
        /\ v % TableSize \in 0..(TableSize - 1) /\ v \div TableSize \in Int
    BY ONLY <2>1, DivModFacts
  <2>3. v \div TableSize <= (NPages - 1) \div TableSize /\ (NPages - 1) \div TableSize \in Int
    BY ONLY <2>1, DivOrder, DivModFacts
  <2>4. 0 \div TableSize <= v \div TableSize
    BY ONLY <2>1, DivOrder
  <2>5. 0 \div TableSize = 0
    BY <2>1
  <2> QED
    BY <2>1, <2>2, <2>3, <2>4, <2>5 DEF Dir, Tbl, DirIndex, Entries
<1> QED
  BY <1>1

\* Every frame set is finite, and no larger than the memory.
LEMMA FrameSet ==
  /\ IsFiniteSet(Frames) /\ Cardinality(Frames) = NFrames /\ Frames \subseteq Nat
  /\ \A S \in SUBSET Frames : IsFiniteSet(S) /\ Cardinality(S) \in 0..NFrames
<1>1. IsFiniteSet(Frames) /\ Cardinality(Frames) = NFrames
  <2>1. 0 \in Int /\ NFrames - 1 \in Int
    BY Sizes
  <2>2. IsFiniteSet(0..(NFrames - 1))
        /\ Cardinality(0..(NFrames - 1)) = IF 0 > NFrames - 1 THEN 0 ELSE (NFrames - 1) - 0 + 1
    BY ONLY <2>1, FS_Interval
  <2> QED
    BY <2>2, Sizes DEF Frames
<1>2. ASSUME NEW S \in SUBSET Frames PROVE IsFiniteSet(S) /\ Cardinality(S) \in 0..NFrames
  <2>1. IsFiniteSet(S) /\ Cardinality(S) <= NFrames
    BY <1>1, FS_Subset
  <2>2. Cardinality(S) \in Nat
    BY <2>1, FS_CardinalityType
  <2> QED
    BY <2>1, <2>2, Sizes
<1> QED
  BY <1>1, <1>2, Sizes DEF Frames

\* So is every set of pages,
LEMMA PageSet ==
  \A S \in SUBSET Pages : IsFiniteSet(S) /\ Cardinality(S) \in 0..NPages
<1>1. IsFiniteSet(Pages) /\ Cardinality(Pages) = NPages
  <2>1. 0 \in Int /\ NPages - 1 \in Int
    BY Sizes
  <2>2. IsFiniteSet(0..(NPages - 1))
        /\ Cardinality(0..(NPages - 1)) = IF 0 > NPages - 1 THEN 0 ELSE (NPages - 1) - 0 + 1
    BY ONLY <2>1, FS_Interval
  <2> QED
    BY <2>2, Sizes DEF Pages
<1> SUFFICES ASSUME NEW S \in SUBSET Pages PROVE IsFiniteSet(S) /\ Cardinality(S) \in 0..NPages
  OBVIOUS
<1>2. IsFiniteSet(S) /\ Cardinality(S) <= NPages
  BY <1>1, FS_Subset
<1>3. Cardinality(S) \in Nat
  BY <1>2, FS_CardinalityType
<1> QED
  BY <1>2, <1>3, Sizes

\* and the tables of a directory are no more than its entries.
LEMMA TableSet ==
  ASSUME NEW D \in [DirIndex -> Frames \cup {None}]
  PROVE  LET T == {D[d] : d \in DirIndex} \ {None}
         IN  IsFiniteSet(T) /\ Cardinality(T) \in 0..Cardinality(DirIndex)
<1> DEFINE T == {D[d] : d \in DirIndex} \ {None}
           f == [t \in T |-> CHOOSE d \in DirIndex : D[d] = t]
<1>1. IsFiniteSet(DirIndex)
  <2>1. 0 \in Int /\ NPages - 1 \in Int /\ TableSize \in Nat \ {0}
    BY Sizes
  <2>2. (NPages - 1) \div TableSize \in Int
    BY ONLY <2>1, DivModFacts
  <2> QED
    BY <2>1, <2>2, FS_Interval DEF DirIndex
<1>2. f \in [T -> DirIndex] /\ \A t \in T : D[f[t]] = t
  OBVIOUS
<1>3. f \in Injection(T, DirIndex)
  BY <1>2 DEF Injection, IsInjective
<1>4. IsFiniteSet(T) /\ Cardinality(T) <= Cardinality(DirIndex)
  BY <1>1, <1>3, FS_Injection
<1>5. Cardinality(T) \in Nat /\ Cardinality(DirIndex) \in Nat
  BY <1>1, <1>4, FS_CardinalityType
<1> QED
  BY <1>4, <1>5

\* pmm_alloc_frame's scan finds a frame of the set it is after.
LEMMA LowestIn ==
  ASSUME NEW S \in SUBSET Frames, S # {}
  PROVE  Lowest(S) \in S /\ \A g \in S : Lowest(S) <= g
<1>1. S \subseteq Nat
  BY FrameSet
<1> DEFINE R == {ss \in Nat \X Nat : ss[1] < ss[2]}
<1>2. IsWellFoundedOn(R, Nat)
  BY NatLessThanWellFounded, Zenon DEF OpToRel
<1> HIDE DEF R
<1>3. PICK f \in S : \A g \in S : ~(<<g, f>> \in R)
  BY <1>1, <1>2, WFMin
<1>4. ASSUME NEW g \in S PROVE f <= g
  <2>1. g \in Nat /\ f \in Nat /\ ~(<<g, f>> \in R)
    BY <1>1, <1>3
  <2>2. \A x, y \in Nat : x < y => <<x, y>> \in R
    BY DEF R
  <2>3. ~(g < f)
    BY <2>1, <2>2
  <2> QED
    BY <2>1, <2>3
<1> QED
  BY <1>4 DEF Lowest

\* The directory has an entry for every table of the identity region.
LEMMA IdentityDirs == 0..(IdentityTables - 1) \subseteq DirIndex
<1>1. /\ IdentityTables \in Nat /\ TableSize \in Nat \ {0} /\ 0 \in 0..(TableSize - 1)
      /\ IdentityTables * TableSize \in Int /\ NPages - 1 \in Int
      /\ IdentityTables * TableSize <= NPages - 1
      /\ IdentityTables * TableSize = IdentityTables * TableSize + 0
  BY Sizes
<1>2. (IdentityTables * TableSize + 0) \div TableSize = IdentityTables
  BY ONLY <1>1, DivModUnique
<1>3. /\ (IdentityTables * TableSize) \div TableSize <= (NPages - 1) \div TableSize
      /\ (NPages - 1) \div TableSize \in Int
  BY ONLY <1>1, DivOrder, DivModFacts
<1>4. IdentityTables <= (NPages - 1) \div TableSize
  BY <1>1, <1>2, <1>3
<1> QED
  BY <1>1, <1>3, <1>4 DEF DirIndex

-----------------------------------------------------------------------------
(* The state paging_init leaves.                                           *)

\* The tables that paging_init fills in translate the identity region to
\* itself and nothing else.
LEMMA InitTranslation ==
  ASSUME Init, NEW v \in Pages
  PROVE  paging_translate(v) = IF v < IdentityEnd THEN v ELSE None
<1> USE Sizes, HeapAssumption
<1>1. v \in Nat /\ Dir(v) \in DirIndex /\ Tbl(v) \in Entries /\ v = Dir(v) * TableSize + Tbl(v)
  BY PageSplit
<1>2. Dir(v) \in Nat /\ Tbl(v) \in Nat
  <2>1. Dir(v) \in Nat
    BY <1>1 DEF DirIndex
  <2>2. Tbl(v) \in Nat
    BY <1>1 DEF Entries
  <2> QED
    BY <2>1, <2>2
<1>3. CASE Dir(v) < IdentityTables
  <2> DEFINE f == Reserved + 1 + Dir(v)
  <2>1. f \in (Reserved + 1)..(BootEnd - 1) /\ f - Reserved - 1 = Dir(v)
    BY <1>2, <1>3
  <2>2. f \in Frames /\ f # None /\ dir[Dir(v)] = f
    <3>1. f \in Frames
      BY <2>1 DEF Frames
    <3> QED
      BY <1>1, <1>3, <3>1 DEF Init
  <2> HIDE DEF f
  <2>3. ram[f] = [e \in Entries |-> LET u == (f - Reserved - 1) * TableSize + e
                                    IN  IF u < IdentityEnd THEN u ELSE None]
    BY <2>1, <2>2 DEF Init
  <2>4. ram[f][Tbl(v)] = IF v < IdentityEnd THEN v ELSE None
    BY <1>1, <2>1, <2>3
  <2> QED
    BY <2>2, <2>4 DEF paging_translate
<1>4. CASE ~(Dir(v) < IdentityTables)
  <2>1. IdentityTables * TableSize <= Dir(v) * TableSize
    BY <1>2, <1>4, MultipleOrder
  <2>2. Dir(v) * TableSize \in Nat /\ IdentityTables * TableSize \in Nat
    BY <1>2
  <2>3. ~(v < IdentityEnd)
    BY <1>1, <1>2, <2>1, <2>2
  <2>4. dir[Dir(v)] = None
    BY <1>1, <1>4 DEF Init
  <2> QED
    BY <2>3, <2>4 DEF paging_translate
<1> QED
  BY <1>3, <1>4

\* The first state satisfies the invariant.
LEMMA InitIInv == Init => IInv
<1> SUFFICES ASSUME Init PROVE IInv
  OBVIOUS
<1> USE Sizes, HeapAssumption
<1>1. \A v \in Pages : paging_translate(v) = IF v < IdentityEnd THEN v ELSE None
  BY InitTranslation
<1>2. 0..(BootEnd - 1) \subseteq Frames /\ 0..(IdentityEnd - 1) \subseteq Frames
      /\ 0..(IdentityEnd - 1) \subseteq Pages
  BY DEF Frames, Pages
<1>3. Mapped = 0..(IdentityEnd - 1)
  <2>1. \A v \in Pages : v \in Int /\ 0 <= v
    BY DEF Pages
  <2>2. \A v \in Pages : v < IdentityEnd <=> v \in 0..(IdentityEnd - 1)
    BY <2>1
  <2>3. \A v \in 0..(IdentityEnd - 1) : v # None
    BY <1>2
  <2> QED
    BY <1>1, <1>2, <2>2, <2>3 DEF Mapped
<1>4. Tables = (Reserved + 1)..(BootEnd - 1)
  <2>1. \A d \in DirIndex : d \in Int /\ 0 <= d
    BY DEF DirIndex
  <2>2. \A d \in DirIndex : dir[d] = IF d < IdentityTables THEN Reserved + 1 + d ELSE None
    BY DEF Init
  <2>3. ASSUME NEW t \in Tables PROVE t \in (Reserved + 1)..(BootEnd - 1)
    <3>1. PICK d \in DirIndex : t = dir[d] /\ t # None
      BY <2>3 DEF Tables
    <3> QED
      BY <2>1, <2>2, <3>1
  <2>4. ASSUME NEW t \in (Reserved + 1)..(BootEnd - 1) PROVE t \in Tables
    <3> DEFINE d == t - (Reserved + 1)
    <3>1. d \in 0..(IdentityTables - 1) /\ t = Reserved + 1 + d /\ t \in Frames
      BY DEF Frames
    <3> HIDE DEF d
    <3>2. d \in DirIndex /\ d < IdentityTables
      BY <3>1, IdentityDirs
    <3>3. dir[d] = t /\ t # None
      BY <2>2, <3>1, <3>2
    <3> QED
      BY <3>2, <3>3 DEF Tables
  <2> QED
    BY <2>3, <2>4
<1>5. /\ Cardinality(used) = BootEnd /\ Cardinality(Mapped) = IdentityEnd
      /\ Cardinality(Tables) = IdentityTables
  <2>1. \A x, y \in Int : Cardinality(x..y) = IF x > y THEN 0 ELSE y - x + 1
    BY FS_Interval
  <2>2. Cardinality(0..(BootEnd - 1)) = BootEnd
    BY <2>1
  <2>3. Cardinality(0..(IdentityEnd - 1)) = IdentityEnd
    BY <2>1
  <2>4. Cardinality((Reserved + 1)..(BootEnd - 1)) = IdentityTables
    BY <2>1
  <2> QED
    BY <1>3, <1>4, <2>2, <2>3, <2>4 DEF Init
<1>6. CountersAgree
  BY <1>5 DEF Init, CountersAgree
<1>7. dir \in [DirIndex -> Frames \cup {None}]
  <2>1. \A d \in DirIndex : d \in Int /\ 0 <= d
    BY DEF DirIndex
  <2>2. \A d \in DirIndex : d < IdentityTables => Reserved + 1 + d \in Frames
    BY <2>1 DEF Frames
  <2> QED
    BY <2>2 DEF Init
<1>8. ram \in [Frames -> [Entries -> Frames \cup {None}]]
  <2>1. \A u \in Int : 0 <= u /\ u < IdentityEnd => u \in Frames
    BY DEF Frames
  <2>2. Junk \in [Entries -> Frames \cup {None}]
    BY <2>1 DEF Junk, Frames
  <2>3. ASSUME NEW f \in (Reserved + 1)..(BootEnd - 1), NEW e \in Entries
        PROVE  (f - Reserved - 1) * TableSize + e \in Nat
    <3>1. f - Reserved - 1 \in Nat /\ e \in Nat
      BY DEF Entries
    <3> QED
      BY <3>1
  <2> DEFINE row(f) == [e \in Entries |-> LET u == (f - Reserved - 1) * TableSize + e
                                          IN  IF u < IdentityEnd THEN u ELSE None]
  <2>4. ASSUME NEW f \in (Reserved + 1)..(BootEnd - 1)
        PROVE  row(f) \in [Entries -> Frames \cup {None}]
    BY <2>1, <2>3
  <2>5. ram = [f \in Frames |-> IF f \in (Reserved + 1)..(BootEnd - 1) THEN row(f) ELSE Junk]
    BY DEF Init
  <2> HIDE DEF row
  <2> QED
    BY <2>2, <2>4, <2>5
<1>9. TypeOK
  <2>1. used \in SUBSET Frames /\ used_frames \in 0..NFrames
    BY <1>2 DEF Init
  <2>2. mapped_pages \in 0..NPages /\ table_count \in 0..Cardinality(DirIndex)
    <3>1. Cardinality(Tables) \in 0..Cardinality(DirIndex)
      BY <1>7, TableSet DEF Tables
    <3> QED
      BY <1>5, <3>1 DEF Init
  <2>3. /\ brk \in HeapStart..(HeapStart + HeapMax)
        /\ bytes \in 0..(NPages - 1) /\ off \in 0..bytes
    BY DEF Init
  <2>4. tlb \in [Pages -> Frames \cup {None}] /\ held \in SUBSET Frames
    BY DEF Init
  <2>5. /\ ready \in BOOLEAN /\ pc \in {"boot", "idle", "grow", "map"} /\ virt \in Pages
        /\ frame \in Frames \cup {None} /\ table \in Frames \cup {None} /\ lost \in SUBSET Frames
    <3>1. 0 \in Pages
      BY DEF Pages
    <3> QED
      BY <3>1 DEF Init
  <2> QED
    BY <1>7, <1>8, <2>1, <2>2, <2>3, <2>4, <2>5 DEF TypeOK
<1>10. IdentityIntact
  BY <1>1, <1>2, <1>4 DEF IdentityIntact
<1>11. NoFrameShared
  <2>1. Above = {}
    BY <1>3 DEF Above
  <2>2. InPlace = 0..(BootEnd - 1)
    BY <1>4 DEF InPlace
  <2>3. InHand = {}
    BY DEF Init, InHand
  <2> QED
    BY <2>1, <2>2, <2>3 DEF Init, NoFrameShared
<1>12. TlbCoherent
  BY DEF Init, TlbCoherent
<1>13. DirInv
  <2>1. \A d \in DirIndex : dir[d] = IF d < IdentityTables THEN Reserved + 1 + d ELSE None
    BY DEF Init
  <2>2. \A d \in DirIndex : d \in Int
    BY DEF DirIndex
  <2> QED
    BY <2>1, <2>2, IdentityDirs DEF DirInv
<1>14. GrowInv /\ HandInv
  BY DEF Init, GrowInv, HandInv
<1> QED
  BY <1>6, <1>9, <1>10, <1>11, <1>12, <1>13, <1>14 DEF IInv

-----------------------------------------------------------------------------
(* Taking and returning frames.                                            *)

\* What the invariant says of the frames and the tables.
PagingInv ==
  /\ used \in SUBSET Frames /\ used_frames \in 0..NFrames
  /\ dir \in [DirIndex -> Frames \cup {None}]
  /\ ram \in [Frames -> [Entries -> Frames \cup {None}]]
  /\ mapped_pages \in 0..NPages /\ table_count \in 0..Cardinality(DirIndex)
  /\ tlb \in [Pages -> Frames \cup {None}]
  /\ frame \in Frames \cup {None} /\ table \in Frames \cup {None}
  /\ held \in SUBSET Frames /\ lost \in SUBSET Frames
  /\ NoFrameShared
  /\ CountersAgree
  /\ IdentityIntact
  /\ TlbCoherent
  /\ DirInv

\* Steps that change neither the directory nor the tables: translations,
\* and what is mapped, stay as they are.
LEMMA TablesUntouched ==
  ASSUME UNCHANGED <<dir, ram>>
  PROVE  /\ \A w : paging_translate(w)' = paging_translate(w)
         /\ Mapped' = Mapped /\ Above' = Above /\ Tables' = Tables /\ InPlace' = InPlace
BY DEF paging_translate, Mapped, Above, Tables, InPlace

\* A step that takes and maps nothing.
LEMMA PagingUntouched ==
  ASSUME PagingInv, UNCHANGED <<pmmVars, tblVars, frame, table, held, lost>>
  PROVE  PagingInv' /\ Mapped' = Mapped
<1>0. UNCHANGED <<used, used_frames, dir, ram, mapped_pages, table_count, tlb, frame, table, held, lost>>
  BY DEF pmmVars, tblVars
<1>1. /\ \A w : paging_translate(w)' = paging_translate(w)
      /\ Mapped' = Mapped /\ Above' = Above /\ Tables' = Tables /\ InPlace' = InPlace
  BY <1>0, TablesUntouched
<1>2. InHand' = InHand
  BY <1>0 DEF InHand
<1>3. NoFrameShared' /\ CountersAgree' /\ IdentityIntact' /\ TlbCoherent' /\ DirInv'
  BY <1>0, <1>1, <1>2 DEF PagingInv, NoFrameShared, CountersAgree, IdentityIntact, TlbCoherent, DirInv
<1> QED
  BY <1>0, <1>1, <1>3 DEF PagingInv

\* The frame pmm_alloc_frame returns was free.
LEMMA FreshFrame ==
  ASSUME Free # {}
  PROVE  Frame1 \in Frames /\ Frame1 \notin used /\ Frame1 # None
<1>1. Free \in SUBSET Frames
  BY DEF Free
<1>2. Frame1 \in Free
  BY <1>1, LowestIn DEF Frame1
<1> QED
  BY <1>2, HeapAssumption DEF Free

\* pmm_alloc_frame: the frame it takes, which nobody used, goes to the
\* operator or to the mapping in progress.
LEMMA TakeStep ==
  ASSUME PagingInv, Free # {}, frame_mark_used(Frame1), UNCHANGED <<tblVars, lost>>,
         \/ held' = held \cup {Frame1} /\ UNCHANGED <<frame, table>>
         \/ frame = None /\ table = None /\ frame' = Frame1 /\ UNCHANGED <<table, held>>
         \/ frame # None /\ table = None /\ table' = Frame1 /\ UNCHANGED <<frame, held>>
  PROVE  PagingInv' /\ Mapped' = Mapped /\ used_frames' = used_frames + 1
<1> USE Sizes
<1>0. UNCHANGED <<dir, ram, mapped_pages, table_count, tlb, lost>>
  BY DEF tblVars
<1>1. Frame1 \in Frames /\ Frame1 \notin used /\ Frame1 # None
  BY FreshFrame
<1>2. used' = used \cup {Frame1} /\ used_frames' = used_frames + 1
  BY DEF frame_mark_used
<1>3. /\ \A w : paging_translate(w)' = paging_translate(w)
      /\ Mapped' = Mapped /\ Above' = Above /\ Tables' = Tables /\ InPlace' = InPlace
  BY <1>0, TablesUntouched
<1>4. /\ used' \in SUBSET Frames /\ held' \in SUBSET Frames
      /\ frame' \in Frames \cup {None} /\ table' \in Frames \cup {None}
  BY <1>1, <1>2 DEF PagingInv
<1>5. used_frames' = Cardinality(used') /\ used_frames' \in 0..NFrames
  <2>1. IsFiniteSet(used) /\ Cardinality(used) = used_frames
    BY FrameSet DEF PagingInv, CountersAgree
  <2>2. Cardinality(used \cup {Frame1}) = Cardinality(used) + 1
    BY <1>1, <2>1, FS_AddElement
  <2>3. Cardinality(used') \in 0..NFrames
    BY <1>4, FrameSet
  <2> QED
    BY <1>2, <2>1, <2>2, <2>3
<1>6. CountersAgree'
  BY <1>0, <1>3, <1>5 DEF PagingInv, CountersAgree
<1>7. NoFrameShared'
  <2>1. CASE held' = held \cup {Frame1} /\ UNCHANGED <<frame, table>>
    <3>1. InHand' = InHand
      BY <2>1 DEF InHand
    <3>2. \A f \in InHand : f \in used
      BY DEF PagingInv, NoFrameShared
    <3> QED
      BY <1>0, <1>1, <1>2, <1>3, <2>1, <3>1, <3>2 DEF PagingInv, NoFrameShared
  <2>2. CASE held' = held /\ ~UNCHANGED <<frame, table>>
    <3>1. InHand' = InHand \cup {Frame1} /\ (frame' # None => frame' # table')
      <4>1. frame # None => frame \in used
        BY DEF PagingInv, NoFrameShared, InHand
      <4> QED
        BY <1>1, <2>2, <4>1 DEF InHand
    <3> QED
      BY <1>0, <1>1, <1>2, <1>3, <2>2, <3>1 DEF PagingInv, NoFrameShared
  <2>3. frame = None => frame # Frame1
    BY <1>1
  <2>4. table = None => table # Frame1
    BY <1>1
  <2> QED
    BY <2>1, <2>2, <2>3, <2>4
<1>8. IdentityIntact' /\ TlbCoherent' /\ DirInv'
  BY <1>0, <1>3 DEF PagingInv, IdentityIntact, TlbCoherent, DirInv
<1> QED
  BY <1>0, <1>2, <1>3, <1>4, <1>5, <1>6, <1>7, <1>8 DEF PagingInv

\* frame_mark_free keeps the counter exact, whatever it is given.
LEMMA FreeCount ==
  ASSUME used \in SUBSET Frames, used_frames = Cardinality(used), NEW S, frame_mark_free(S)
  PROVE  /\ used' = used \ S /\ used' \in SUBSET Frames
         /\ used_frames' = Cardinality(used') /\ used_frames' \in 0..NFrames
<1>1. used' = used \ S /\ used_frames' = used_frames - Cardinality(S \cap used)
  BY DEF frame_mark_free
<1>2. IsFiniteSet(used) /\ IsFiniteSet(used \ S) /\ Cardinality(used \ S) \in 0..NFrames
  BY FrameSet
<1>3. Cardinality(used \ S) = Cardinality(used) - Cardinality(used \cap S)
  BY <1>2, FS_Difference
<1>4. used \cap S = S \cap used
  OBVIOUS
<1> QED
  BY <1>1, <1>2, <1>3, <1>4

\* Frames go back: one that the operator holds, or all that the mapping in
\* progress has taken.
LEMMA ReturnStep ==
  ASSUME PagingInv, NEW S, frame_mark_free(S), UNCHANGED <<tblVars, lost>>,
         \/ held' = held \ S /\ UNCHANGED <<frame, table>> /\ S \cap used \subseteq held
         \/ S = InHand /\ frame' = None /\ table' = None /\ held' = held
  PROVE  PagingInv' /\ Mapped' = Mapped
<1> USE Sizes
<1>0. UNCHANGED <<dir, ram, mapped_pages, table_count, tlb, lost>>
  BY DEF tblVars
<1>1. /\ \A w : paging_translate(w)' = paging_translate(w)
      /\ Mapped' = Mapped /\ Above' = Above /\ Tables' = Tables /\ InPlace' = InPlace
  BY <1>0, TablesUntouched
<1>2. /\ used' = used \ S /\ used' \in SUBSET Frames
      /\ used_frames' = Cardinality(used') /\ used_frames' \in 0..NFrames
  BY FreeCount DEF PagingInv, CountersAgree
<1>3. /\ held' \in SUBSET Frames
      /\ frame' \in Frames \cup {None} /\ table' \in Frames \cup {None}
  BY DEF PagingInv
<1>4. CountersAgree'
  BY <1>0, <1>1, <1>2 DEF PagingInv, CountersAgree
<1>5. NoFrameShared'
  <2>1. CASE held' = held \ S /\ UNCHANGED <<frame, table>> /\ S \cap used \subseteq held
    <3>1. InHand' = InHand
      BY <2>1 DEF InHand
    <3> QED
      BY <1>0, <1>1, <1>2, <2>1, <3>1 DEF PagingInv, NoFrameShared
  <2>2. CASE S = InHand /\ frame' = None /\ table' = None /\ held' = held
    <3>1. InHand' = {} /\ frame' = None
      BY <2>2 DEF InHand
    <3> QED
      BY <1>0, <1>1, <1>2, <2>2, <3>1 DEF PagingInv, NoFrameShared
  <2> QED
    BY <2>1, <2>2
<1>6. IdentityIntact' /\ TlbCoherent' /\ DirInv'
  BY <1>0, <1>1 DEF PagingInv, IdentityIntact, TlbCoherent, DirInv
<1> QED
  BY <1>0, <1>1, <1>2, <1>3, <1>4, <1>5, <1>6 DEF PagingInv

-----------------------------------------------------------------------------
(* Mapping a page.                                                         *)

\* get_table enters the frame it has taken, cleared, as a table: no page
\* becomes mapped.
LEMMA NewTableStep ==
  ASSUME PagingInv, new_table, NEW v \in Pages, v = Target, dir[Dir(v)] = None
  PROVE  PagingInv' /\ Mapped' = Mapped /\ dir' = [dir EXCEPT ![Dir(v)] = table]
<1> USE Sizes
<1>1. /\ Dir(v) \in DirIndex /\ Tbl(v) \in Entries
      /\ dir \in [DirIndex -> Frames \cup {None}]
      /\ ram \in [Frames -> [Entries -> Frames \cup {None}]]
      /\ table \in Frames /\ table # None /\ table \in used /\ table \notin InPlace
      /\ table \notin Tables /\ table < IdentityEnd
  BY PageSplit DEF PagingInv, NoFrameShared, InHand, InPlace, new_table, TableFits
<1>2. /\ ram' = [ram EXCEPT ![table] = Zeroed]
      /\ dir' = [dir EXCEPT ![Dir(v)] = table]
      /\ table_count' = table_count + 1 /\ table' = None
      /\ UNCHANGED <<used, used_frames, mapped_pages, tlb, frame, held, lost>>
  BY DEF new_table, NewTable, pmmVars
<1>3. /\ dir'[Dir(v)] = table /\ \A d \in DirIndex : d # Dir(v) => dir'[d] = dir[d]
      /\ dir' \in [DirIndex -> Frames \cup {None}]
  BY <1>1, <1>2
<1>4. /\ ram'[table] = Zeroed /\ \A x \in Frames : x # table => ram'[x] = ram[x]
      /\ ram' \in [Frames -> [Entries -> Frames \cup {None}]]
  <2>1. Zeroed \in [Entries -> Frames \cup {None}]
    BY DEF Zeroed
  <2> HIDE DEF Zeroed
  <2> QED
    BY <1>1, <1>2, <2>1
<1>5. ASSUME NEW w \in Pages
      PROVE  (IF dir'[Dir(w)] = None THEN None ELSE ram'[dir'[Dir(w)]][Tbl(w)])
               = paging_translate(w)
  <2>1. Dir(w) \in DirIndex /\ Tbl(w) \in Entries
    BY PageSplit
  <2>2. CASE Dir(w) = Dir(v)
    BY <1>1, <1>3, <1>4, <2>1, <2>2 DEF paging_translate, Zeroed
  <2>3. CASE Dir(w) # Dir(v)
    <3>1. dir'[Dir(w)] = dir[Dir(w)] /\ (dir[Dir(w)] # None => dir[Dir(w)] \in Frames \ {table})
      BY <1>1, <1>3, <2>1, <2>3 DEF Tables
    <3> QED
      BY <1>4, <3>1 DEF paging_translate
  <2> QED
    BY <2>2, <2>3
<1>6. \A w \in Pages : paging_translate(w)' = paging_translate(w)
  BY <1>5 DEF paging_translate
<1>7. Mapped' = Mapped /\ Above' = Above /\ Above \subseteq Pages
  <2>1. Mapped' = {w \in Pages : paging_translate(w)' # None}
    BY DEF Mapped
  <2>2. Mapped' = Mapped
    BY <1>6, <2>1 DEF Mapped
  <2> QED
    BY <2>2 DEF Above, Mapped
<1>8. Tables' = Tables \cup {table} /\ InPlace' = InPlace \cup {table}
  <2> DEFINE new == {dir'[d] : d \in DirIndex} \ {None}
  <2>1. \A x : x \in new <=> x \in Tables \cup {table}
    BY <1>1, <1>3 DEF Tables
  <2>2. Tables' = new
    BY DEF Tables
  <2>3. Tables' = Tables \cup {table}
    BY <2>1, <2>2
  <2> QED
    BY <2>3 DEF InPlace
<1>9. CountersAgree' /\ table_count' \in 0..Cardinality(DirIndex)
  <2>1. IsFiniteSet(Tables) /\ Cardinality(Tables) = table_count
    BY TableSet DEF PagingInv, Tables, CountersAgree
  <2>2. Cardinality(Tables \cup {table}) = Cardinality(Tables) + 1
    BY <1>1, <2>1, FS_AddElement
  <2>3. Cardinality({dir'[d] : d \in DirIndex} \ {None}) \in 0..Cardinality(DirIndex)
    BY <1>3, TableSet
  <2>4. Tables' = {dir'[d] : d \in DirIndex} \ {None}
    BY DEF Tables
  <2>5. table_count' = Cardinality(Tables') /\ table_count' \in 0..Cardinality(DirIndex)
    BY <1>2, <1>8, <2>1, <2>2, <2>3, <2>4
  <2> QED
    BY <1>2, <1>7, <2>5 DEF PagingInv, CountersAgree
<1>10. NoFrameShared'
  <2>1. InHand = InHand' \cup {table} /\ table \notin InHand'
    BY <1>1, <1>2 DEF InHand, PagingInv, NoFrameShared
  <2>2. \A w \in Above : paging_translate(w)' = paging_translate(w)
    BY <1>6, <1>7
  <2> QED
    BY <1>1, <1>2, <1>7, <1>8, <2>1, <2>2 DEF PagingInv, NoFrameShared
<1>11. IdentityIntact'
  <2>1. \A w \in 0..(IdentityEnd - 1) : w \in Pages
    BY DEF Pages
  <2> QED
    BY <1>1, <1>6, <1>8, <2>1 DEF PagingInv, IdentityIntact
<1>12. TlbCoherent'
  BY <1>2, <1>6 DEF PagingInv, TlbCoherent
<1>13. DirInv'
  <2>1. \A d \in DirIndex : dir[d] # table
    BY <1>1 DEF Tables
  <2>2. \A d, e \in DirIndex : dir'[d] # None /\ dir'[d] = dir'[e] => d = e
    BY <1>3, <2>1 DEF PagingInv, DirInv
  <2>3. \A d \in 0..(IdentityTables - 1) : dir'[d] = Reserved + 1 + d
    <3> TAKE d \in 0..(IdentityTables - 1)
    <3>1. d \in DirIndex /\ dir[d] = Reserved + 1 + d
      BY IdentityDirs DEF PagingInv, DirInv
    <3>2. Reserved + 1 + d \in Frames
      BY DEF Frames
    <3>3. d # Dir(v)
      BY <3>1, <3>2, HeapAssumption
    <3> QED
      BY <1>3, <3>1, <3>3
  <2> QED
    BY <2>2, <2>3 DEF DirInv
<1> QED
  BY <1>2, <1>3, <1>4, <1>7, <1>9, <1>10, <1>11, <1>12, <1>13 DEF PagingInv

\* Writing an entry of a table that exists changes the translation of one
\* page.
LEMMA EntryWritten ==
  ASSUME PagingInv, NEW v \in Pages, dir[Dir(v)] # None, NEW f \in Frames \cup {None},
         ram' = [ram EXCEPT ![dir[Dir(v)]][Tbl(v)] = f], dir' = dir
  PROVE  /\ ram' \in [Frames -> [Entries -> Frames \cup {None}]]
         /\ \A w \in Pages : paging_translate(w)' = IF w = v THEN f ELSE paging_translate(w)
         /\ Tables' = Tables /\ InPlace' = InPlace
<1> DEFINE t == dir[Dir(v)]
<1>1. /\ Dir(v) \in DirIndex /\ Tbl(v) \in Entries /\ t \in Frames /\ t # None
      /\ dir \in [DirIndex -> Frames \cup {None}]
      /\ ram \in [Frames -> [Entries -> Frames \cup {None}]]
  BY PageSplit DEF PagingInv
<1>2. ram' = [ram EXCEPT ![t][Tbl(v)] = f]
  OBVIOUS
<1>3. ASSUME NEW w \in Pages, dir[Dir(w)] = t PROVE Dir(w) = Dir(v)
  BY <1>1, <1>3, PageSplit DEF PagingInv, DirInv
<1> HIDE DEF t
<1>4. /\ ram'[t] = [ram[t] EXCEPT ![Tbl(v)] = f]
      /\ \A x \in Frames : x # t => ram'[x] = ram[x]
      /\ ram' \in [Frames -> [Entries -> Frames \cup {None}]]
  <2> DEFINE row == [ram[t] EXCEPT ![Tbl(v)] = f]
  <2>1. row \in [Entries -> Frames \cup {None}]
    BY <1>1
  <2>2. ram' = [ram EXCEPT ![t] = row]
    BY <1>1, <1>2
  <2> HIDE DEF row
  <2>3. /\ ram'[t] = row /\ \A x \in Frames : x # t => ram'[x] = ram[x]
        /\ ram' \in [Frames -> [Entries -> Frames \cup {None}]]
    BY <1>1, <2>1, <2>2
  <2> QED
    BY <2>3 DEF row
<1>5. ASSUME NEW w \in Pages
      PROVE  (IF dir[Dir(w)] = None THEN None ELSE ram'[dir[Dir(w)]][Tbl(w)])
               = IF w = v THEN f ELSE paging_translate(w)
  <2>1. Dir(w) \in DirIndex /\ Tbl(w) \in Entries
    BY PageSplit
  <2>2. CASE w = v
    BY <1>1, <1>4, <2>2 DEF t
  <2>3. CASE w # v /\ dir[Dir(w)] = t
    <3>1. Tbl(w) # Tbl(v)
      BY <1>3, <2>3, PageSplit
    <3> QED
      BY <1>1, <1>4, <2>1, <2>3, <3>1 DEF paging_translate
  <2>4. CASE w # v /\ dir[Dir(w)] # t
    BY <1>1, <1>4, <2>1, <2>4 DEF paging_translate
  <2> QED
    BY <2>2, <2>3, <2>4
<1>6. \A w \in Pages : paging_translate(w)' = IF w = v THEN f ELSE paging_translate(w)
  BY <1>5 DEF paging_translate
<1>7. Tables' = Tables /\ InPlace' = InPlace
  BY DEF Tables, InPlace
<1> QED
  BY <1>4, <1>6, <1>7

\* flush_tlb_page keeps the processor's cache coherent with such a change.
LEMMA Flushed ==
  ASSUME PagingInv, NEW v \in Pages, flush_tlb_page(v),
         \A w \in Pages : w # v => paging_translate(w)' = paging_translate(w)
  PROVE  tlb' \in [Pages -> Frames \cup {None}] /\ TlbCoherent'
<1>1. tlb' = [tlb EXCEPT ![v] = None] /\ tlb \in [Pages -> Frames \cup {None}]
  BY DEF flush_tlb_page, PagingInv
<1>2. \A w \in Pages : tlb'[w] # None => w # v /\ tlb[w] # None /\ tlb'[w] = tlb[w]
  BY <1>1
<1> QED
  BY <1>1, <1>2 DEF PagingInv, TlbCoherent

\* Mapping the frame in hand above the identity region keeps the frames
\* apart, the counters exact and the processor's cache coherent.
LEMMA MapStep ==
  ASSUME PagingInv, paging_map, NEW v \in Pages, v = Target, v >= IdentityEnd
  PROVE  PagingInv' /\ Mapped' = Mapped \cup {v} /\ frame' = None /\ used_frames' = used_frames
<1> USE Sizes
<1> DEFINE o == paging_translate(v)
<1>1. /\ ram' = [ram EXCEPT ![dir[Dir(v)]][Tbl(v)] = frame]
      /\ mapped_pages' = CountPage(v) /\ flush_tlb_page(v)
      /\ lost' = lost \cup ({o} \ {None})
      /\ frame # None /\ frame' = None /\ table = None /\ dir[Dir(v)] # None
      /\ UNCHANGED <<used, used_frames, dir, table_count, table, held>>
  BY DEF paging_map, pmmVars
<1>2. frame \in Frames /\ frame \in used /\ frame \notin InPlace /\ o \in Frames \cup {None}
  <2>1. Dir(v) \in DirIndex /\ Tbl(v) \in Entries
    BY PageSplit
  <2> QED
    BY <1>1, <2>1 DEF PagingInv, NoFrameShared, InHand, paging_translate
<1>3. /\ ram' \in [Frames -> [Entries -> Frames \cup {None}]]
      /\ \A w \in Pages : paging_translate(w)' = IF w = v THEN frame ELSE paging_translate(w)
      /\ Tables' = Tables /\ InPlace' = InPlace
  BY <1>1, <1>2, EntryWritten
<1>4. Mapped' = Mapped \cup {v}
  <2>1. Mapped' = {w \in Pages : paging_translate(w)' # None}
    BY DEF Mapped
  <2> QED
    BY <1>1, <1>3, <2>1 DEF Mapped
<1>5. v \in Mapped <=> o # None
  BY DEF Mapped
<1>6. Above' = Above \cup {v} /\ Above \subseteq Pages /\ (v \in Above <=> o # None)
  BY <1>4, <1>5 DEF Above, Mapped
<1>7. CountersAgree' /\ mapped_pages' \in 0..NPages
  <2>1. Mapped \in SUBSET Pages /\ Mapped' \in SUBSET Pages
    BY <1>4 DEF Mapped
  <2>2. IsFiniteSet(Mapped) /\ Cardinality(Mapped') \in 0..NPages
    BY <2>1, PageSet
  <2>3. Cardinality(Mapped \cup {v})
          = IF v \in Mapped THEN Cardinality(Mapped) ELSE Cardinality(Mapped) + 1
    BY <2>2, FS_AddElement
  <2>4. mapped_pages' = Cardinality(Mapped')
    BY <1>1, <1>4, <2>3 DEF CountPage, PagingInv, CountersAgree
  <2> QED
    BY <1>1, <1>3, <2>2, <2>4 DEF PagingInv, CountersAgree
<1> HIDE DEF o
<1>8. NoFrameShared'
  <2>1. InHand = {frame} /\ InHand' = {}
    BY <1>1 DEF InHand
  <2>2. /\ \A w \in Above : /\ paging_translate(w) \in used /\ paging_translate(w) # frame
                            /\ paging_translate(w) \notin InPlace
                            /\ paging_translate(w) \notin held
                            /\ paging_translate(w) \notin lost
        /\ \A w, u \in Above : w # u => paging_translate(w) # paging_translate(u)
        /\ \A f \in held : f \in used /\ f \notin InPlace /\ f # frame /\ f \notin lost
        /\ \A f \in lost : f \in used /\ f \notin InPlace /\ f # frame
        /\ InPlace \subseteq used
        /\ \A f \in used : f \notin InPlace /\ f \notin held /\ f # frame /\ f \notin lost =>
             \E w \in Above : paging_translate(w) = f
    BY <2>1 DEF PagingInv, NoFrameShared
  <2>3. /\ paging_translate(v)' = frame
        /\ \A w \in Above : w # v => paging_translate(w)' = paging_translate(w)
    BY <1>3, <1>6
  <2>4. o # None => /\ v \in Above /\ paging_translate(v) = o
                    /\ o \in used /\ o # frame /\ o \notin InPlace /\ o \notin held
    BY <1>6, <2>2 DEF o
  <2>5. o # None => \A w \in Above : w # v => paging_translate(w) # o
    BY <2>2, <2>4
  <2>6. \A f : f \in lost' <=> f \in lost \/ (f = o /\ o # None)
    BY <1>1
  <2>7. \A w \in Above' : paging_translate(w)' \in used \ (InPlace \cup held \cup {} \cup lost')
    BY <1>2, <1>6, <2>2, <2>3, <2>4, <2>5, <2>6
  <2>8. \A w, u \in Above' : w # u => paging_translate(w)' # paging_translate(u)'
    BY <1>6, <2>2, <2>3
  <2>9. /\ held \subseteq used \ (InPlace \cup {} \cup lost')
        /\ lost' \subseteq used \ (InPlace \cup {})
    BY <2>2, <2>4, <2>6
  <2>10. ASSUME NEW f \in used \ (InPlace \cup held \cup {} \cup lost')
         PROVE  \E w \in Above' : paging_translate(w)' = f
    <3>1. CASE f = frame
      BY <1>6, <2>3, <3>1
    <3>2. CASE f # frame
      <4>1. PICK w \in Above : paging_translate(w) = f
        BY <2>2, <2>6, <3>2
      <4>2. w # v
        BY <1>6, <2>4, <2>6, <4>1
      <4> QED
        BY <1>6, <2>3, <4>1, <4>2
    <3> QED
      BY <3>1, <3>2
  <2> QED
    BY <1>1, <1>3, <2>1, <2>2, <2>7, <2>8, <2>9, <2>10 DEF NoFrameShared
<1>9. IdentityIntact'
  <2>1. \A w \in 0..(IdentityEnd - 1) : w \in Pages /\ w # v
    BY DEF Pages
  <2> QED
    BY <1>3, <2>1 DEF PagingInv, IdentityIntact
<1>10. tlb' \in [Pages -> Frames \cup {None}] /\ TlbCoherent'
  BY <1>1, <1>3, Flushed
<1>11. DirInv' /\ lost' \in SUBSET Frames
  BY <1>1, <1>2 DEF PagingInv, DirInv
<1> QED
  BY <1>1, <1>3, <1>4, <1>7, <1>8, <1>9, <1>10, <1>11 DEF PagingInv

-----------------------------------------------------------------------------
(* The other steps.                                                        *)

\* cmd_unmap gives the frame back that nobody else uses.
LEMMA UnmapStep ==
  ASSUME PagingInv, NEW v \in Pages, MayUnmap(v), paging_unmap(v),
         frame_mark_free({paging_translate(v)}),
         UNCHANGED <<dir, table_count, frame, table, held, lost>>
  PROVE  PagingInv' /\ Mapped' \subseteq Mapped
<1> USE Sizes
<1> DEFINE f == paging_translate(v)
<1>1. v \in Mapped /\ v >= IdentityEnd /\ v \in Above /\ dir[Dir(v)] # None
  BY DEF MayUnmap, Mapped, Above, paging_translate
<1>2. /\ ram' \in [Frames -> [Entries -> Frames \cup {None}]]
      /\ \A w \in Pages : paging_translate(w)' = IF w = v THEN None ELSE paging_translate(w)
      /\ Tables' = Tables /\ InPlace' = InPlace
  BY <1>1, EntryWritten DEF paging_unmap
<1>3. /\ used' = used \ {f} /\ used' \in SUBSET Frames
      /\ used_frames' = Cardinality(used') /\ used_frames' \in 0..NFrames
  BY FreeCount DEF PagingInv, CountersAgree
<1>4. Mapped' = Mapped \ {v} /\ Above' = Above \ {v} /\ Above \subseteq Pages
  <2>1. Mapped' = {w \in Pages : paging_translate(w)' # None}
    BY DEF Mapped
  <2>2. Mapped' = Mapped \ {v}
    BY <1>2, <2>1 DEF Mapped
  <2> QED
    BY <2>2 DEF Above, Mapped
<1>5. CountersAgree' /\ mapped_pages' \in 0..NPages
  <2>1. Mapped \in SUBSET Pages /\ Mapped' \in SUBSET Pages
    BY <1>4 DEF Mapped
  <2>2. IsFiniteSet(Mapped) /\ Cardinality(Mapped') \in 0..NPages
    BY <2>1, PageSet
  <2>3. Cardinality(Mapped \ {v}) = Cardinality(Mapped) - 1
    BY <1>1, <2>2, FS_RemoveElement
  <2>4. mapped_pages' = Cardinality(Mapped')
    BY <1>4, <2>3 DEF paging_unmap, PagingInv, CountersAgree
  <2> QED
    BY <1>2, <1>3, <2>2, <2>4 DEF PagingInv, CountersAgree
<1> HIDE DEF f
<1>6. NoFrameShared'
  <2>1. InHand' = InHand /\ frame' = frame /\ table' = table /\ held' = held /\ lost' = lost
    BY DEF InHand
  <2>2. /\ \A w \in Above : /\ paging_translate(w) \in used
                            /\ paging_translate(w) \notin InPlace \cup held \cup InHand \cup lost
        /\ \A w, u \in Above : w # u => paging_translate(w) # paging_translate(u)
        /\ held \subseteq used \ (InPlace \cup InHand \cup lost)
        /\ lost \subseteq used \ (InPlace \cup InHand)
        /\ InHand \subseteq used \ InPlace
        /\ frame # None => frame # table
        /\ InPlace \subseteq used
        /\ \A x \in used \ (InPlace \cup held \cup InHand \cup lost) :
             \E w \in Above : paging_translate(w) = x
    BY DEF PagingInv, NoFrameShared
  <2>3. f \notin InPlace \cup held \cup InHand \cup lost /\ paging_translate(v) = f
    BY <1>1, <2>2 DEF f
  <2>4. \A w \in Above' : /\ w \in Above /\ w # v /\ paging_translate(w)' = paging_translate(w)
                          /\ paging_translate(w) # f
    BY <1>1, <1>2, <1>4, <2>2, <2>3
  <2>5. \A w \in Above' : paging_translate(w)' \in used' \ (InPlace \cup held \cup InHand \cup lost)
    BY <1>3, <2>2, <2>4
  <2>6. \A w, u \in Above' : w # u => paging_translate(w)' # paging_translate(u)'
    BY <2>2, <2>4
  <2>7. /\ held \subseteq used' \ (InPlace \cup InHand \cup lost)
        /\ lost \subseteq used' \ (InPlace \cup InHand)
        /\ InHand \subseteq used' \ InPlace
        /\ InPlace \subseteq used'
    BY <1>3, <2>2, <2>3
  <2>8. ASSUME NEW x \in used' \ (InPlace \cup held \cup InHand \cup lost)
        PROVE  \E w \in Above' : paging_translate(w)' = x
    <3>1. PICK w \in Above : paging_translate(w) = x
      BY <1>3, <2>2
    <3>2. w # v /\ w \in Above'
      BY <1>3, <1>4, <2>3, <3>1
    <3> QED
      BY <2>4, <3>1, <3>2
  <2> QED
    BY <1>2, <2>1, <2>2, <2>5, <2>6, <2>7, <2>8 DEF NoFrameShared
<1>7. IdentityIntact'
  <2>1. \A w \in 0..(IdentityEnd - 1) : w \in Pages /\ w # v
    BY <1>1 DEF Pages
  <2> QED
    BY <1>2, <2>1 DEF PagingInv, IdentityIntact
<1>8. tlb' \in [Pages -> Frames \cup {None}] /\ TlbCoherent'
  BY <1>2, Flushed DEF paging_unmap
<1>9. DirInv'
  BY DEF PagingInv, DirInv
<1> QED
  BY <1>2, <1>3, <1>4, <1>5, <1>6, <1>7, <1>8, <1>9 DEF PagingInv

\* The processor caches what the tables say.
LEMMA TlbStep ==
  ASSUME PagingInv, tlb_fill
  PROVE  PagingInv' /\ Mapped' = Mapped
<1>1. PICK v \in Mapped : tlb' = [tlb EXCEPT ![v] = paging_translate(v)]
  BY DEF tlb_fill
<1>2. UNCHANGED <<used, used_frames, dir, ram, mapped_pages, table_count, frame, table, held, lost>>
  BY DEF tlb_fill, pmmVars, mapVars
<1>3. /\ \A w : paging_translate(w)' = paging_translate(w)
      /\ Mapped' = Mapped /\ Above' = Above /\ Tables' = Tables /\ InPlace' = InPlace
  BY <1>2, TablesUntouched
<1>4. v \in Pages /\ paging_translate(v) \in Frames \cup {None}
  <2>1. v \in Pages /\ Dir(v) \in DirIndex /\ Tbl(v) \in Entries
    BY PageSplit DEF Mapped
  <2> QED
    BY <2>1 DEF PagingInv, paging_translate
<1>5. tlb' \in [Pages -> Frames \cup {None}] /\ TlbCoherent'
  BY <1>1, <1>3, <1>4 DEF PagingInv, TlbCoherent
<1>6. NoFrameShared' /\ CountersAgree' /\ IdentityIntact' /\ DirInv'
  BY <1>2, <1>3 DEF PagingInv, NoFrameShared, InHand, CountersAgree, IdentityIntact, DirInv
<1> QED
  BY <1>2, <1>3, <1>5, <1>6 DEF PagingInv

-----------------------------------------------------------------------------
(* Growing the heap.                                                       *)

\* What paging_init took stays taken.
LEMMA BootFrames ==
  ASSUME PagingInv
  PROVE  BootEnd <= used_frames
<1> USE Sizes
<1>1. 0..(BootEnd - 1) \subseteq used
  <2> SUFFICES ASSUME NEW f \in 0..(BootEnd - 1) PROVE f \in used
    OBVIOUS
  <2>1. CASE f <= Reserved
    <3>1. f \in InPlace
      BY <2>1 DEF InPlace
    <3> QED
      BY <3>1 DEF PagingInv, NoFrameShared
  <2>2. CASE f > Reserved
    <3> DEFINE d == f - (Reserved + 1)
    <3>1. d \in 0..(IdentityTables - 1) /\ f = Reserved + 1 + d
      BY <2>2
    <3> HIDE DEF d
    <3>2. d \in DirIndex /\ dir[d] = f
      BY <3>1, IdentityDirs DEF PagingInv, DirInv
    <3>3. f \in Frames
      BY DEF Frames
    <3>4. f \in Tables
      BY <3>2, <3>3, HeapAssumption DEF Tables
    <3> QED
      BY <3>4 DEF PagingInv, NoFrameShared, InPlace
  <2> QED
    BY <2>1, <2>2
<1>2. IsFiniteSet(used) /\ Cardinality(used) = used_frames
  BY FrameSet DEF PagingInv, CountersAgree
<1>3. Cardinality(0..(BootEnd - 1)) <= Cardinality(used)
  BY <1>1, <1>2, FS_Subset
<1>4. \A x, y \in Int : Cardinality(x..y) = IF x > y THEN 0 ELSE y - x + 1
  BY FS_Interval
<1>5. Cardinality(0..(BootEnd - 1)) = BootEnd
  BY <1>4
<1> QED
  BY <1>2, <1>3, <1>5

\* The loop of grow_mapping never gets as far as the end of the address
\* space, it runs out of frames before; and cmd_map leaves the identity
\* region alone.
LEMMA TargetAbove ==
  ASSUME IInv, frame # None
  PROVE  Target \in Pages /\ Target >= IdentityEnd
<1> USE Sizes
<1>1. CASE pc = "map"
  BY <1>1 DEF IInv, TypeOK, HandInv, Target
<1>2. CASE pc = "grow"
  <2>1. BootEnd + off + 1 <= used_frames
    BY <1>2 DEF IInv, GrowInv
  <2>2. /\ used_frames <= NFrames /\ used_frames \in Nat /\ off \in Nat
        /\ brk \in Nat /\ HeapStart <= brk /\ brk <= HeapStart + HeapMax
    BY DEF IInv, TypeOK
  <2>3. brk + off < NPages /\ brk + off \in Nat /\ brk + off >= IdentityEnd
    BY <2>1, <2>2, PhysicalAssumption
  <2>4. Wrap(brk + off) = brk + off
    BY <2>3, SmallMod DEF Wrap
  <2> QED
    BY <1>2, <2>3, <2>4 DEF Pages, Target
<1> QED
  BY <1>1, <1>2 DEF IInv, HandInv

-----------------------------------------------------------------------------
(* Every step.                                                             *)

\* The invariant's part about the heap and the mapping in progress.
HeapInv ==
  /\ brk \in HeapStart..(HeapStart + HeapMax)
  /\ bytes \in 0..(NPages - 1) /\ off \in 0..bytes
  /\ ready \in BOOLEAN
  /\ pc \in {"boot", "idle", "grow", "map"} /\ virt \in Pages
  /\ GrowInv /\ HandInv

LEMMA Parts == IInv <=> PagingInv /\ HeapInv
BY DEF IInv, TypeOK, PagingInv, HeapInv

\* With task 0 at the shell's prompt nothing is in progress.
LEMMA IdleHeapInv ==
  ASSUME HeapInv, pc' = "idle", frame' = None, table' = None, virt' \in Pages, ready' \in BOOLEAN,
         brk' \in HeapStart..(HeapStart + HeapMax),
         bytes' \in 0..(NPages - 1), off' \in 0..bytes'
  PROVE  HeapInv'
BY DEF HeapInv, GrowInv, HandInv

\* Every step keeps the invariant and maps at most one page.
LEMMA NextIInv ==
  ASSUME IInv, Next
  PROVE  IInv' /\ \E v \in Pages : Mapped' \subseteq Mapped \cup {v}
<1> USE Sizes
<1>0. /\ PagingInv /\ HeapInv /\ 0 \in Pages /\ used_frames \in Nat
      /\ (pc = "idle" => frame = None) /\ (frame = None => table = None)
  BY Parts DEF IInv, TypeOK, HandInv, Pages
<1> DEFINE OnePage == \E v \in Pages : Mapped' \subseteq Mapped \cup {v}
<1>1. ASSUME PagingInv', HeapInv', Mapped' \subseteq Mapped PROVE IInv' /\ OnePage
  <2>1. IInv'
    BY <1>1 DEF IInv, TypeOK, PagingInv, HeapInv
  <2> QED
    BY <1>0, <1>1, <2>1
<1>2. ASSUME pc = "idle", UNCHANGED <<heapVars, mapVars>> PROVE HeapInv'
  BY <1>0, <1>2, IdleHeapInv DEF heapVars, mapVars, HeapInv
<1>3. ASSUME pc' = "idle", frame' = None, table' = None, virt' \in Pages, UNCHANGED heapVars
      PROVE  HeapInv'
  BY <1>0, <1>3, IdleHeapInv DEF heapVars, HeapInv
<1>4. ASSUME grow_fails, frame' = None, table' = None, virt' \in Pages PROVE HeapInv'
  <2>1. bytes' \in 0..(NPages - 1) /\ off' \in 0..bytes'
    BY <1>4 DEF grow_fails
  <2> QED
    BY <1>0, <1>4, <2>1, IdleHeapInv DEF grow_fails, HeapInv
<1>5. ASSUME NEW n \in 0..(NPages - 1), grow_mapping(n), frame = None PROVE IInv' /\ OnePage
  <2>1. PagingInv' /\ Mapped' = Mapped
    BY <1>0, <1>5, PagingUntouched DEF grow_mapping
  <2>2. BootEnd <= used_frames
    BY <1>0, BootFrames
  <2>3. /\ UnderCeiling(n) /\ bytes' = n /\ off' = 0 /\ pc' = "grow" /\ frame' = None /\ table' = None
        /\ brk' = brk /\ ready' = ready /\ used_frames' = used_frames /\ virt' = virt
    BY <1>0, <1>5 DEF grow_mapping, pmmVars
  <2>4. GrowInv'
    BY <2>2, <2>3 DEF GrowInv, UnderCeiling
  <2>5. HandInv'
    BY <2>3 DEF HandInv
  <2>6. HeapInv'
    BY <1>0, <2>3, <2>4, <2>5 DEF HeapInv
  <2> QED
    BY <1>1, <2>1, <2>6
<1>6. CASE heap_init
  <2>1. HeapInitial \in 0..(NPages - 1)
    BY HeapAssumption
  <2>2. frame = None
    BY <1>0, <1>6 DEF heap_init, HeapInv, HandInv
  <2> QED
    BY <1>5, <1>6, <2>1, <2>2 DEF heap_init
<1>7. CASE extend_heap
  <2>1. \A n \in Extensions : n \in 0..(NPages - 1)
    BY HeapAssumption
  <2> QED
    BY <1>0, <1>5, <1>7, <2>1 DEF extend_heap
<1>8. CASE grow_page
  <2>1. /\ pc = "grow" /\ off < bytes /\ frame = None /\ table = None /\ frame' = Frame1
        /\ UNCHANGED <<brk, bytes, off, ready, pc, virt, table>>
    BY <1>0, <1>8 DEF grow_page, heapVars
  <2>2. PagingInv' /\ Mapped' = Mapped /\ used_frames' = used_frames + 1
    BY <1>0, <1>8, <2>1, TakeStep DEF grow_page
  <2>3. GrowInv'
    BY <1>0, <2>1, <2>2 DEF HeapInv, GrowInv, UnderCeiling
  <2>4. HandInv'
    BY <2>1 DEF HandInv
  <2>5. HeapInv'
    BY <1>0, <2>1, <2>3, <2>4 DEF HeapInv
  <2> QED
    BY <1>1, <2>2, <2>5
<1>9. CASE grow_no_frame
  <2>1. PagingInv' /\ Mapped' = Mapped
    BY <1>0, <1>9, PagingUntouched DEF grow_no_frame
  <2>2. HeapInv'
    BY <1>0, <1>4, <1>9 DEF grow_no_frame, HeapInv
  <2> QED
    BY <1>1, <2>1, <2>2
<1>10. CASE grow_done
  <2>1. /\ pc = "grow" /\ off = bytes /\ brk' = Wrap(brk + bytes) /\ bytes' = 0 /\ off' = 0
        /\ ready' = TRUE /\ pc' = "idle" /\ UNCHANGED <<virt, frame, table>>
    BY <1>10 DEF grow_done
  <2>2. PagingInv' /\ Mapped' = Mapped
    BY <1>0, <1>10, PagingUntouched DEF grow_done
  <2>3. bytes \in Nat /\ brk \in Nat /\ HeapStart <= brk /\ brk <= HeapStart + HeapMax
    BY <1>0 DEF HeapInv
  <2>4. frame = None /\ table = None
    BY <1>0, <2>1, <2>3 DEF HeapInv, HandInv
  <2>5. BootEnd + bytes <= NFrames /\ Wrap(brk + bytes) <= HeapStart + HeapMax
    BY <1>0, <2>1, <2>3, <2>4 DEF HeapInv, GrowInv, UnderCeiling, PagingInv
  <2>6. brk + bytes \in Nat /\ brk + bytes < NPages /\ HeapStart <= brk + bytes
    BY <2>3, <2>5, PhysicalAssumption
  <2>7. Wrap(brk + bytes) = brk + bytes
    BY <2>6, SmallMod DEF Wrap
  <2>8. /\ brk' \in HeapStart..(HeapStart + HeapMax)
        /\ bytes' \in 0..(NPages - 1) /\ off' \in 0..bytes' /\ virt' \in Pages
    BY <1>0, <2>1, <2>5, <2>6, <2>7 DEF HeapInv
  <2>9. HeapInv'
    BY <1>0, <2>1, <2>4, <2>8, IdleHeapInv
  <2> QED
    BY <1>1, <2>2, <2>9
<1>11. CASE get_table
  <2>1. /\ frame # None /\ table = None /\ dir[Dir(Target)] = None /\ table' = Frame1
        /\ UNCHANGED <<brk, bytes, off, ready, pc, virt, frame, dir>>
    BY <1>11 DEF get_table, heapVars, tblVars
  <2>2. PagingInv' /\ Mapped' = Mapped /\ used_frames' = used_frames + 1
    BY <1>0, <1>11, <2>1, TakeStep DEF get_table
  <2>3. Target' = Target
    BY <2>1 DEF Target
  <2>4. GrowInv'
    BY <1>0, <2>1, <2>2 DEF HeapInv, GrowInv, UnderCeiling
  <2>5. HandInv'
    BY <1>0, <2>1, <2>3 DEF HeapInv, HandInv, Dir
  <2>6. HeapInv'
    BY <1>0, <2>1, <2>4, <2>5 DEF HeapInv
  <2> QED
    BY <1>1, <2>2, <2>6
<1>12. CASE new_table
  <2>1. /\ table # None /\ table' = None
        /\ UNCHANGED <<brk, bytes, off, ready, pc, virt, frame, used_frames>>
    BY <1>12 DEF new_table, heapVars, pmmVars
  <2>2. frame # None /\ dir[Dir(Target)] = None
    BY <1>0, <2>1 DEF HeapInv, HandInv
  <2>3. Target \in Pages
    BY <2>2, TargetAbove
  <2>4. PagingInv' /\ Mapped' = Mapped
    BY <1>0, <1>12, <2>2, <2>3, NewTableStep
  <2>5. GrowInv' /\ HandInv'
    BY <1>0, <2>1 DEF HeapInv, GrowInv, UnderCeiling, HandInv
  <2>6. HeapInv'
    BY <1>0, <2>1, <2>5 DEF HeapInv
  <2> QED
    BY <1>1, <2>4, <2>6
<1>13. CASE paging_map
  <2> DEFINE v == Target
  <2>1. frame # None /\ frame' = None /\ table' = None /\ UNCHANGED <<brk, bytes, ready>>
    BY <1>13 DEF paging_map
  <2>2. v \in Pages /\ v >= IdentityEnd
    BY <2>1, TargetAbove
  <2>3. PagingInv' /\ Mapped' = Mapped \cup {v} /\ used_frames' = used_frames
    BY <1>0, <1>13, <2>2, MapStep
  <2>4. HeapInv'
    <3>1. CASE pc = "grow"
      <4>1. off' = off + 1 /\ pc' = pc /\ virt' = virt
        BY <1>13, <3>1 DEF paging_map
      <4>2. off \in Nat /\ bytes \in Nat /\ off < bytes /\ BootEnd + off + 1 <= used_frames
        BY <1>0, <2>1, <3>1 DEF HeapInv, HandInv, GrowInv
      <4>3. off' \in 0..bytes' /\ GrowInv' /\ HandInv'
        BY <1>0, <2>1, <2>3, <3>1, <4>1, <4>2 DEF HeapInv, GrowInv, UnderCeiling, HandInv
      <4> QED
        BY <1>0, <2>1, <4>1, <4>3 DEF HeapInv
    <3>2. CASE pc # "grow"
      <4>1. pc' = "idle" /\ virt' = 0 /\ off' = off
        BY <1>13, <3>2 DEF paging_map
      <4> QED
        BY <1>0, <1>3, <2>1, <4>1 DEF heapVars
    <3> QED
      BY <3>1, <3>2
  <2> HIDE DEF v
  <2>5. IInv'
    BY <2>3, <2>4 DEF IInv, TypeOK, PagingInv, HeapInv
  <2> QED
    BY <2>2, <2>3, <2>5
<1>14. CASE map_fails
  <2>1. frame' = None /\ table' = None /\ UNCHANGED <<tblVars, held, lost>>
    BY <1>14 DEF map_fails
  <2>2. frame_mark_free(InHand)
    BY <1>14 DEF map_fails, give_back, InHand
  <2>3. PagingInv' /\ Mapped' = Mapped
    BY <1>0, <2>1, <2>2, ReturnStep
  <2>4. HeapInv'
    <3>1. CASE pc = "grow"
      <4>1. grow_fails /\ virt' \in Pages
        BY <1>0, <1>14, <3>1 DEF map_fails, HeapInv
      <4> QED
        BY <1>4, <2>1, <4>1
    <3>2. CASE pc # "grow"
      <4>1. pc' = "idle" /\ virt' = 0 /\ UNCHANGED heapVars
        BY <1>14, <3>2 DEF map_fails
      <4> QED
        BY <1>0, <1>3, <2>1, <4>1
    <3> QED
      BY <3>1, <3>2
  <2> QED
    BY <1>1, <2>3, <2>4
<1>15. CASE cmd_alloc
  <2>1. pc = "idle" /\ UNCHANGED <<heapVars, mapVars>> /\ UNCHANGED <<frame, table>>
    BY <1>15 DEF cmd_alloc, mapVars
  <2>2. PagingInv' /\ Mapped' = Mapped
    BY <1>0, <1>15, <2>1, TakeStep DEF cmd_alloc
  <2> QED
    BY <1>1, <1>2, <2>1, <2>2
<1>16. CASE cmd_free
  <2>1. pc = "idle" /\ UNCHANGED <<heapVars, mapVars>> /\ UNCHANGED <<frame, table>>
        /\ UNCHANGED <<tblVars, lost>>
    BY <1>16 DEF cmd_free, mapVars
  <2>2. PICK f \in held \cup Free \cup {NFrames} : frame_mark_free({f}) /\ held' = held \ {f}
    BY <1>16 DEF cmd_free
  <2>3. {f} \cap used \subseteq held
    <3>1. NFrames \notin used
      BY <1>0 DEF PagingInv, Frames
    <3> QED
      BY <2>2, <3>1 DEF Free
  <2>4. PagingInv' /\ Mapped' = Mapped
    BY <1>0, <2>1, <2>2, <2>3, ReturnStep
  <2> QED
    BY <1>1, <1>2, <2>1, <2>4
<1>17. CASE cmd_map
  <2>1. /\ pc = "idle" /\ frame = None /\ table = None /\ pc' = "map" /\ frame' = Frame1
        /\ Free # {} /\ UNCHANGED <<brk, bytes, off, ready, table>>
    BY <1>0, <1>17 DEF cmd_map, heapVars
  <2>2. PICK v \in MapTargets \ {0} : v \notin Mapped /\ virt' = v
    BY <1>17 DEF cmd_map
  <2>3. v \in Pages /\ v \in Int
    BY HeapAssumption DEF Pages
  <2>4. v >= IdentityEnd
    <3>1. ASSUME v < IdentityEnd PROVE FALSE
      <4>1. v \in 0..(IdentityEnd - 1) /\ v \in Frames
        BY <2>3, <3>1 DEF Pages, Frames
      <4>2. paging_translate(v) = v /\ v # None
        BY <1>0, <4>1, HeapAssumption DEF PagingInv, IdentityIntact
      <4> QED
        BY <2>2, <2>3, <4>2 DEF Mapped
    <3> QED
      BY <2>3, <3>1
  <2>5. PagingInv' /\ Mapped' = Mapped
    BY <1>0, <1>17, <2>1, TakeStep DEF cmd_map
  <2>6. Frame1 # None
    BY <2>1, FreshFrame
  <2>7. GrowInv' /\ HandInv'
    <3>1. GrowInv'
      BY <2>1 DEF GrowInv
    <3>2. frame' # None /\ table' = None /\ virt' >= IdentityEnd /\ pc' = "map"
      BY <2>1, <2>2, <2>4, <2>6
    <3>3. HandInv'
      BY <3>2 DEF HandInv
    <3> QED
      BY <3>1, <3>3
  <2>8. HeapInv'
    BY <1>0, <2>1, <2>2, <2>3, <2>7 DEF HeapInv
  <2> QED
    BY <1>1, <2>5, <2>8
<1>18. CASE cmd_unmap
  <2>1. PICK v \in Pages : MayUnmap(v) /\ paging_unmap(v) /\ frame_mark_free({paging_translate(v)})
    BY <1>18 DEF cmd_unmap
  <2>2. /\ pc = "idle" /\ UNCHANGED <<heapVars, mapVars>>
        /\ UNCHANGED <<dir, table_count, frame, table, held, lost>>
    BY <1>18 DEF cmd_unmap, mapVars
  <2>3. PagingInv' /\ Mapped' \subseteq Mapped
    BY <1>0, <2>1, <2>2, UnmapStep
  <2> QED
    BY <1>1, <1>2, <2>2, <2>3
<1>19. CASE tlb_fill
  <2>1. PagingInv' /\ Mapped' = Mapped
    BY <1>0, <1>19, TlbStep
  <2>2. UNCHANGED <<brk, bytes, off, ready, pc, virt, frame, table, dir, used_frames>>
    BY <1>19 DEF tlb_fill, heapVars, mapVars, pmmVars
  <2>3. HeapInv'
    BY <1>0, <2>2 DEF HeapInv, GrowInv, UnderCeiling, HandInv, Target
  <2> QED
    BY <1>1, <2>1, <2>3
<1> QED
  BY <1>6, <1>7, <1>8, <1>9, <1>10, <1>11, <1>12, <1>13, <1>14, <1>15, <1>16, <1>17, <1>18, <1>19 DEF Next

-----------------------------------------------------------------------------
(* The theorems.                                                           *)

\* The invariant holds in every reachable state.
THEOREM Invariance == Spec => []IInv
<1>1. ASSUME IInv, UNCHANGED vars PROVE IInv'
  <2>1. /\ UNCHANGED <<pmmVars, tblVars, frame, table, held, lost>>
        /\ UNCHANGED <<brk, bytes, off, ready, pc, virt, dir, used_frames>>
    BY <1>1 DEF vars, pmmVars, tblVars, heapVars, mapVars
  <2>2. PagingInv'
    BY <1>1, <2>1, Parts, PagingUntouched
  <2>3. HeapInv'
    BY <1>1, <2>1, Parts DEF HeapInv, GrowInv, UnderCeiling, HandInv, Target
  <2> QED
    BY <2>2, <2>3 DEF IInv, TypeOK, PagingInv, HeapInv
<1>2. IInv /\ [Next]_vars => IInv'
  BY <1>1, NextIInv
<1> QED
  BY <1>2, InitIInv, PTL DEF Spec

\* The bitmap, the tables, the counters and the break have their types; the
\* break never leaves the heap's range, whatever kmalloc asks for.
THEOREM TypeCorrect == Spec => []TypeOK
<1>1. IInv => TypeOK
  BY DEF IInv
<1> QED
  BY <1>1, Invariance, PTL

\* Every used frame has exactly one user, or its page was mapped over by the
\* heap: no map and no grow_mapping that fails keeps a frame for nobody.
THEOREM NoFrameSharedThm == Spec => []NoFrameShared
<1>1. IInv => NoFrameShared
  BY DEF IInv
<1> QED
  BY <1>1, Invariance, PTL

\* The counters pmm.c and paging.c keep are the sizes of what they count.
THEOREM CountersAgreeThm == Spec => []CountersAgree
<1>1. IInv => CountersAgree
  BY DEF IInv
<1> QED
  BY <1>1, Invariance, PTL

\* The kernel, the bitmap and every page table stay reachable at their
\* physical addresses.
THEOREM IdentityIntactThm == Spec => []IdentityIntact
<1>1. IInv => IdentityIntact
  BY DEF IInv
<1> QED
  BY <1>1, Invariance, PTL

\* The processor never uses a translation that the tables no longer give.
THEOREM TlbCoherentThm == Spec => []TlbCoherent
<1>1. IInv => TlbCoherent
  BY DEF IInv
<1> QED
  BY <1>1, Invariance, PTL

\* No step maps two pages: a new table comes cleared.
THEOREM MapsOnePageThm == Spec => MapsOnePage
<1>1. ASSUME IInv, [Next]_vars PROVE [Cardinality(Mapped' \ Mapped) <= 1]_vars
  <2> SUFFICES ASSUME Next PROVE Cardinality(Mapped' \ Mapped) <= 1
    BY <1>1
  <2>1. PICK v \in Pages : Mapped' \subseteq Mapped \cup {v}
    BY <1>1, NextIInv
  <2>2. Mapped' \ Mapped \in SUBSET {v}
    BY <2>1
  <2>3. IsFiniteSet({v}) /\ Cardinality({v}) = 1
    BY FS_Singleton
  <2> QED
    BY <2>2, <2>3, FS_Subset
<1> QED
  BY <1>1, Invariance, PTL DEF Spec, MapsOnePage
=============================================================================
