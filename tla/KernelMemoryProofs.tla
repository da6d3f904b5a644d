------------------------- MODULE KernelMemoryProofs -------------------------
(***************************************************************************)
(* Proofs about the memory of the kernel.                                  *)
(*                                                                         *)
(* Pmm, for every memory map and every size of page: the counter is exact, *)
(* pages are conserved, a page is refused only when none is free, and the  *)
(* bitmap implements the pool of pages.                                    *)
(*                                                                         *)
(* KernelHeap: whatever the frames, the size of a page and the sizes asked *)
(* for, splits, merges and expansions keep every unit of every page in one *)
(* block, and callers see an allocator.                                    *)
(***************************************************************************)
EXTENDS Pmm, KernelHeap, FreeListProofs, FiniteSetTheorems

-----------------------------------------------------------------------------
(* The page allocator *)

\* The inductive invariant of the page allocator.
IInv ==
  /\ PmmTypeOK
  /\ CountExact
  /\ Conserved
  /\ bitmap = 0 => Clear = {} /\ held = {}

-----------------------------------------------------------------------------
(* Minima and maxima *)

\* The entries of a memory map lie below the highest physical address.
LEMMA EntryShape ==
  ASSUME NEW m \in MemMaps, NEW i \in Usable(m)
  PROVE  /\ m[i].base \in Nat /\ m[i].length \in Nat /\ 0 < m[i].length
         /\ End(m[i]) \in Nat /\ 0 < End(m[i]) /\ End(m[i]) <= MaxPages
<1>1. m \in Seq(Entry) /\ i \in 1 .. Len(m) /\ m[i].base + m[i].length <= MaxPages
  BY PmmAssumption DEF Usable
<1>2. m[i] \in Entry
  BY <1>1
<1>3. m[i].base \in Nat /\ m[i].length \in Nat \ {0}
  BY <1>2 DEF Entry
<1> QED BY <1>1, <1>3 DEF End

\* The highest usable page is a number that bounds the usable memory.
LEMMA HighestBounds ==
  ASSUME NEW m \in MemMaps
  PROVE  /\ Highest(m) \in Nat
         /\ \A i \in Usable(m) : End(m[i]) <= Highest(m)
<1>1. \A i \in Usable(m) : End(m[i]) \in Nat /\ 0 < End(m[i]) /\ End(m[i]) <= MaxPages
  BY EntryShape
<1>2. CASE Usable(m) = {}
  BY <1>2 DEF Highest
<1>3. CASE Usable(m) # {}
  <2> DEFINE Ends   == {End(m[i]) : i \in Usable(m)}
             Bounds == {n \in Nat : \A i \in Usable(m) : End(m[i]) <= n}
  <2>1. MaxPages \in Bounds /\ Bounds \in SUBSET Nat
    BY <1>1, PmmAssumption
  <2>2. PICK n \in Bounds : \A k \in Bounds : n <= k
    <3> HIDE DEF Bounds
    <3> QED BY <2>1, LeastNumber
  <2>3. n \in Ends
    <3> SUFFICES ASSUME n \notin Ends
                 PROVE  FALSE
      OBVIOUS
    <3>1. \A i \in Usable(m) : End(m[i]) <= n - 1
      BY <1>1
    <3>2. n - 1 \in Nat
      BY <1>1, <1>3
    <3>3. n - 1 \in Bounds
      BY <3>1, <3>2
    <3> QED BY <2>2, <3>3
  <2>4. \E h \in Ends : \A i \in Usable(m) : End(m[i]) <= h
    BY <2>3
  <2>5. Highest(m) = CHOOSE h \in Ends : \A i \in Usable(m) : End(m[i]) <= h
    BY <1>3 DEF Highest
  <2>6. Highest(m) \in Ends /\ \A i \in Usable(m) : End(m[i]) <= Highest(m)
    <3> HIDE DEF Ends
    <3> QED BY <2>4, <2>5
  <2> QED BY <1>1, <2>6
<1> QED BY <1>2, <1>3

\* Usable memory lies below the highest page, and the bitmap's place is a page.
LEMMA MapShape ==
  ASSUME NEW m \in MemMaps
  PROVE  /\ Memory(m) \subseteq 0 .. Highest(m) - 1
         /\ Place(m) \in Nat
<1>1. \A i \in Usable(m) : m[i].base \in Nat /\ m[i].length \in Nat
  BY EntryShape
<1>2. Memory(m) \subseteq 0 .. Highest(m) - 1
  BY <1>1, HighestBounds DEF Memory, PagesOf, End
<1>3. Place(m) \in Nat
  <2>1. CASE Room(m) = {}
    BY <2>1 DEF Place
  <2>2. CASE Room(m) # {}
    <3>1. Room(m) \in SUBSET Nat
      BY DEF Room, Usable
    <3>2. \E i \in Room(m) : \A j \in Room(m) : i <= j
      BY <2>2, <3>1, LeastNumber
    <3>3. PICK i \in Room(m) : Place(m) = Candidate(m, i)
      BY <2>2, <3>2 DEF Place
    <3>4. Needed(m) \in Nat
      BY HighestBounds, PmmAssumption DEF Needed
    <3> QED BY <1>1, <3>3, <3>4 DEF Room, Candidate, End
  <2> QED BY <2>1, <2>2
<1> QED BY <1>2, <1>3

-----------------------------------------------------------------------------
(* The invariant *)

\* pmm_init leaves a bitmap and a counter that satisfy the invariant.
LEMMA InitIInv == PmmInit => IInv
<1> SUFFICES ASSUME PmmInit PROVE IInv
  OBVIOUS
<1> DEFINE m == memmap
           C == Cleared(m)
           R == Retaken(m)
<1>1. m \in MemMaps /\ bitmap \in Nat /\ bitmap_pages \in Nat
  BY HighestBounds, MapShape DEF PmmInit
<1>2. C \subseteq 0 .. bitmap_pages - 1 /\ R \subseteq C /\ IsFiniteSet(C)
  <2>1. IsFiniteSet(0 .. bitmap_pages - 1)
    BY <1>1, FS_Interval
  <2>2. C \subseteq 0 .. bitmap_pages - 1 /\ R \subseteq C
    BY DEF PmmInit, Cleared, Retaken
  <2> QED BY <2>1, <2>2, FS_Subset
<1>3. CASE bitmap = 0
  <2>1. used = 0 .. bitmap_pages - 1 /\ free_count = 0 /\ held = {} /\ ret = 0
    BY <1>3 DEF PmmInit
  <2>2. Clear = {} /\ Cardinality(Clear) = 0
    BY <2>1, FS_EmptySet DEF Clear
  <2> QED BY <1>1, <1>3, <2>1, <2>2 DEF IInv, PmmTypeOK, CountExact, Conserved
<1>4. CASE bitmap # 0
  <2>1. /\ used = ((0 .. bitmap_pages - 1) \ C) \cup R
        /\ free_count = Cardinality(C) - Cardinality(R)
        /\ held = {} /\ ret = 0
    BY <1>4 DEF PmmInit
  <2>2. Clear = C \ R
    BY <1>2, <2>1 DEF Clear
  <2>3. /\ Cardinality(C \ R) = Cardinality(C) - Cardinality(R)
        /\ Cardinality(C \ R) \in Nat
    <3>1. Cardinality(C \ R) = Cardinality(C) - Cardinality(C \cap R) /\ IsFiniteSet(C \ R)
      BY <1>2, FS_Difference
    <3>2. C \cap R = R
      BY <1>2
    <3> QED BY <3>1, <3>2, FS_CardinalityType
  <2>4. CountExact /\ free_count \in Nat
    BY <2>1, <2>2, <2>3 DEF CountExact
  <2>5. C = Memory(m)
    BY <1>1, MapShape DEF Cleared, PmmInit
  <2>6. Conserved
    BY <2>1, <2>2, <2>5 DEF Conserved, Retaken
  <2> QED BY <1>1, <1>2, <1>4, <2>1, <2>4, <2>6 DEF IInv, PmmTypeOK
<1> QED BY <1>3, <1>4

\* The clear bits are finitely many pages, and page 0 is never one of them.
LEMMA ClearPages ==
  ASSUME IInv
  PROVE  /\ IsFiniteSet(Clear)
         /\ Available = Clear
         /\ Clear \subseteq 1 .. bitmap_pages - 1
<1>1. IsFiniteSet(0 .. bitmap_pages - 1) /\ Clear \subseteq 0 .. bitmap_pages - 1
  BY FS_Interval DEF IInv, PmmTypeOK, Clear
<1>2. IsFiniteSet(Clear)
  BY <1>1, FS_Subset
<1>3. 0 \notin Clear
  BY DEF IInv, Conserved
<1> QED BY <1>1, <1>2, <1>3 DEF Available, IInv, PmmTypeOK

\* The page pmm_alloc_page returns was free, and only it changes hands.
LEMMA AllocEffect ==
  ASSUME IInv, AllocPage
  PROVE  /\ ret' \in Clear
         /\ Clear' = Clear \ {ret'}
         /\ held' = held \cup {ret'}
         /\ free_count' = free_count - 1
         /\ bitmap # 0
         /\ UNCHANGED <<memmap, bitmap, bitmap_pages>>
<1>1. Available # {} /\ Available \in SUBSET Nat
  BY ClearPages DEF AllocPage, Refused
<1>2. ret' = CHOOSE p \in Available : \A q \in Available : p <= q
  BY DEF AllocPage
<1>3. ret' \in Available
  BY <1>1, <1>2, LeastNumber
<1> QED BY <1>3, ClearPages DEF AllocPage, Refused, Clear

\* Clearing the bit of a page of the bitmap adds it to the free pages, once.
LEMMA ClearBitEffect ==
  ASSUME IInv, NEW p \in 0 .. bitmap_pages - 1, ClearBit(p), bitmap_pages' = bitmap_pages
  PROVE  /\ Clear' = Clear \cup {p}
         /\ free_count' = Cardinality(Clear')
         /\ free_count' \in Nat
<1>1. Clear' = Clear \cup {p}
  BY DEF ClearBit, Clear
<1>2. Cardinality(Clear \cup {p}) =
        IF p \in Clear THEN Cardinality(Clear) ELSE Cardinality(Clear) + 1
  BY ClearPages, FS_AddElement
<1>3. p \in used <=> p \notin Clear
  BY DEF Clear
<1> QED BY <1>1, <1>2, <1>3 DEF ClearBit, IInv, PmmTypeOK, CountExact

\* Giving a page out and taking one back preserve the invariant.
LEMMA NextIInv == IInv /\ [PmmNext]_pmmVars => IInv'
<1> SUFFICES ASSUME IInv, [PmmNext]_pmmVars PROVE IInv'
  OBVIOUS
<1>1. CASE AllocPage
  <2>1. /\ ret' \in Clear /\ Clear' = Clear \ {ret'} /\ held' = held \cup {ret'}
        /\ free_count' = free_count - 1 /\ bitmap # 0
        /\ UNCHANGED <<memmap, bitmap, bitmap_pages>>
    BY <1>1, AllocEffect
  <2>2. Cardinality(Clear') = Cardinality(Clear) - 1 /\ Cardinality(Clear') \in Nat
    <3>1. /\ IsFiniteSet(Clear \ {ret'})
          /\ Cardinality(Clear \ {ret'}) = Cardinality(Clear) - 1
      BY <2>1, ClearPages, FS_RemoveElement
    <3> QED BY <2>1, <3>1, FS_CardinalityType
  <2>3. PmmTypeOK'
    <3>1. used' = used \cup {ret'} /\ ret' \in 0 .. bitmap_pages - 1
      BY <1>1, <2>1, ClearPages DEF AllocPage, Clear
    <3>2. free_count' \in Nat
      BY <2>1, <2>2 DEF IInv, CountExact
    <3> QED BY <2>1, <3>1, <3>2 DEF IInv, PmmTypeOK
  <2>4. CountExact'
    BY <2>1, <2>2 DEF IInv, CountExact
  <2>5. Conserved'
    BY <2>1 DEF IInv, Conserved
  <2> QED BY <2>1, <2>3, <2>4, <2>5 DEF IInv
<1>2. CASE AllocFails \/ UNCHANGED pmmVars
  <2>1. /\ UNCHANGED <<memmap, bitmap, bitmap_pages, used, free_count, held>>
        /\ ret' \in 0 .. bitmap_pages
    BY <1>2 DEF AllocFails, pmmVars, IInv, PmmTypeOK
  <2> QED BY <2>1 DEF IInv, PmmTypeOK, CountExact, Conserved, Clear
<1>3. ASSUME NEW p \in 0 .. bitmap_pages, FreePage(p)
      PROVE  IInv'
  <2>1. /\ p \in held /\ ClearBit(p) /\ held' = held \ {p}
        /\ UNCHANGED <<memmap, bitmap, bitmap_pages, ret>>
    BY <1>3 DEF FreePage
  <2>2. p \in 0 .. bitmap_pages - 1
    BY <2>1 DEF IInv, PmmTypeOK
  <2>3. Clear' = Clear \cup {p} /\ free_count' = Cardinality(Clear') /\ free_count' \in Nat
    BY <2>1, <2>2, ClearBitEffect
  <2>4. used' \subseteq 0 .. bitmap_pages - 1
    BY <2>1 DEF ClearBit, IInv, PmmTypeOK
  <2> QED BY <2>1, <2>3, <2>4 DEF IInv, PmmTypeOK, CountExact, Conserved
<1>4. ASSUME NEW p \in 0 .. bitmap_pages, FreeNothing(p)
      PROVE  IInv'
  <2>1. UNCHANGED <<memmap, bitmap, bitmap_pages, held, ret>>
    BY <1>4 DEF FreeNothing
  <2>2. CASE UNCHANGED <<used, free_count>>
    BY <2>1, <2>2 DEF IInv, PmmTypeOK, CountExact, Conserved, Clear
  <2>3. CASE ~UNCHANGED <<used, free_count>>
    <3>1. ClearBit(p) /\ p \in Clear /\ p \in 0 .. bitmap_pages - 1
      BY <1>4, <2>3 DEF FreeNothing, IInv, PmmTypeOK
    <3>2. Clear' = Clear /\ free_count' = Cardinality(Clear') /\ free_count' \in Nat
      BY <2>1, <3>1, ClearBitEffect
    <3>3. used' \subseteq 0 .. bitmap_pages - 1
      BY <3>1 DEF ClearBit, IInv, PmmTypeOK
    <3> QED BY <2>1, <3>2, <3>3 DEF IInv, PmmTypeOK, CountExact, Conserved
  <2> QED BY <2>2, <2>3
<1> QED BY <1>1, <1>2, <1>3, <1>4 DEF PmmNext

-----------------------------------------------------------------------------
(* The theorems *)

\* The inductive invariant holds in every state of the page allocator.
THEOREM PmmInvariance == PmmSpec => []IInv
BY InitIInv, NextIInv, PTL DEF PmmSpec

\* Every variable keeps its type; no page past the bitmap is ever returned.
THEOREM PmmTypeCorrect == PmmSpec => []PmmTypeOK
<1>1. IInv => PmmTypeOK
  BY DEF IInv
<1> QED BY <1>1, PmmInvariance, PTL

\* free_count is the number of clear bits after any calls, double frees
\* included (pmm_free_page tests the bit).
THEOREM CounterIsExact == PmmSpec => []CountExact
<1>1. IInv => CountExact
  BY DEF IInv
<1> QED BY <1>1, PmmInvariance, PTL

\* No page is lost, has two owners, or is one the kernel must not give out.
THEOREM PagesConserved == PmmSpec => []Conserved
<1>1. IInv => Conserved
  BY DEF IInv
<1> QED BY <1>1, PmmInvariance, PTL

\* pmm_alloc_page returns 0 only when there is no free page.
THEOREM RefusesOnlyWhenEmpty == PmmSpec => []RefusedOnlyWhenEmpty
<1>1. IInv => RefusedOnlyWhenEmpty
  <2> SUFFICES ASSUME IInv, free_count = 0 \/ Available = {}
               PROVE  Clear = {}
    BY DEF RefusedOnlyWhenEmpty, Refused
  <2>1. IsFiniteSet(Clear) /\ Available = Clear
    BY ClearPages
  <2>2. free_count = Cardinality(Clear)
    BY DEF IInv, CountExact
  <2> QED BY <2>1, <2>2, FS_EmptySet
<1> QED BY <1>1, PmmInvariance, PTL

\* The page allocator implements PagePool: each step gets a page of the pool,
\* puts one back or leaves both sets alone.
THEOREM Refinement == PmmSpec => ImplementsPool
<1>1. PmmInit => Pool!Init
  BY DEF PmmInit, Pool!Init
<1>2. IInv /\ [PmmNext]_pmmVars => [Pool!Next]_(Pool!vars)
  <2> SUFFICES ASSUME IInv, [PmmNext]_pmmVars
               PROVE  [Pool!Next]_(Pool!vars)
    OBVIOUS
  <2>1. CASE AllocPage
    <3>1. Pool!Get(ret') /\ ret' \in Clear
      BY <2>1, AllocEffect DEF Pool!Get
    <3> QED BY <3>1 DEF Pool!Next
  <2>2. CASE AllocFails \/ UNCHANGED pmmVars
    BY <2>2 DEF AllocFails, pmmVars, Pool!vars, Clear
  <2>3. ASSUME NEW p \in 0 .. bitmap_pages, FreePage(p)
        PROVE  Pool!Next
    <3>1. p \in held /\ ClearBit(p) /\ bitmap_pages' = bitmap_pages /\ held' = held \ {p}
      BY <2>3 DEF FreePage
    <3>2. p \in 0 .. bitmap_pages - 1
      BY <3>1 DEF IInv, PmmTypeOK
    <3>3. Clear' = Clear \cup {p}
      BY <3>1, <3>2, ClearBitEffect
    <3> QED BY <3>1, <3>3 DEF Pool!Next, Pool!Put
  <2>4. ASSUME NEW p \in 0 .. bitmap_pages, FreeNothing(p)
        PROVE  UNCHANGED Pool!vars
    BY <2>4 DEF FreeNothing, ClearBit, Clear, Pool!vars
  <2> QED BY <2>1, <2>2, <2>3, <2>4 DEF PmmNext
<1> QED BY <1>1, <1>2, PmmInvariance, PTL DEF PmmSpec, ImplementsPool, Pool!Spec

-----------------------------------------------------------------------------
(* The kernel heap *)


\* The units of some page frames.
Pages(frames) == UNION {Units(PageBlock(f)) : f \in frames}

\* The blocks in use are apart from each other and from the list.
Apart ==
  /\ \A b \in live : Units(b) \cap Covered(free_list) = {}
  /\ \A b, c \in live : b # c => Units(b) \cap Units(c) = {}

\* List and blocks in use fill the pages of the heap.
Filled == Covered(free_list) \cup Space(live) = Pages(heap)

\* kmalloc looks for something in a search, and for nothing between calls.
Wanted ==
  /\ pc = "idle" => want = 0
  /\ pc = "search" => want # 0

\* The inductive invariant: the list is in address order, not only from each
\* block to the next, and the pages hold its blocks and those in use.
Inv == TypeOK /\ Sorted(free_list) /\ Apart /\ Filled /\ Wanted

-----------------------------------------------------------------------------
(* Pages *)

\* The lowest frame of a pool that is not empty is one of its frames.
LEMMA LowestIsFree ==
  ASSUME pool \subseteq Frames, pool # {}
  PROVE  Lowest \in pool
<1>1. pool \in SUBSET Nat
  BY KernelHeapAssumption
<1>2. \E f \in pool : \A g \in pool : f <= g
  BY <1>1, LeastNumber
<1> QED BY <1>2 DEF Lowest

\* A page is a block, and two pages have no unit in common.
LEMMA PageBlocks ==
  ASSUME NEW f \in Frames
  PROVE  /\ PageBlock(f) \in Block
         /\ \A g \in Frames : f # g => Units(PageBlock(f)) \cap Units(PageBlock(g)) = {}
<1>1. /\ PageUnits \in Nat /\ PageUnits > 1
      /\ \A g \in Frames : g \in Nat
  BY KernelHeapAssumption
<1>2. ASSUME NEW x \in Nat, NEW p \in Nat
      PROVE  x * p \in Nat
  OBVIOUS
<1>3. ASSUME NEW g \in Frames
      PROVE  /\ PageBlock(g) \in Block
             /\ PageBlock(g).addr = g * PageUnits
             /\ After(PageBlock(g)) = g * PageUnits + PageUnits
  <2>1. g * PageUnits \in Nat
    BY <1>1, <1>2
  <2> DEFINE a == g * PageUnits
  <2>2. PageBlock(g) = [addr |-> a, size |-> PageUnits - 1] /\ a \in Nat
    BY <2>1 DEF PageBlock
  <2> HIDE DEF a
  <2>3. /\ PageBlock(g) \in Block /\ PageBlock(g).addr = a
        /\ After(PageBlock(g)) = a + PageUnits
    BY <1>1, <2>2 DEF Block, After
  <2> QED BY <2>3 DEF a
<1>4. ASSUME NEW x \in Nat, NEW y \in Nat, NEW p \in Nat, x < y
      PROVE  x * p + p <= y * p
  <2> DEFINE d == y - x - 1
  <2>1. d \in Nat /\ y = x + 1 + d
    BY <1>4
  <2> HIDE DEF d
  <2>2. (x + 1 + d) * p = x * p + p + d * p
    BY <2>1
  <2>3. d * p \in Nat /\ x * p \in Nat
    BY <2>1, <1>2
  <2> QED BY <2>1, <2>2, <2>3
<1>5. ASSUME NEW g \in Frames, f # g
      PROVE  Units(PageBlock(f)) \cap Units(PageBlock(g)) = {}
  <2>1. f \in Nat /\ g \in Nat /\ (f < g \/ g < f)
    BY <1>1, <1>5
  <2>2. \/ f * PageUnits + PageUnits <= g * PageUnits
        \/ g * PageUnits + PageUnits <= f * PageUnits
    BY <1>1, <1>4, <2>1
  <2>3. \/ After(PageBlock(f)) <= PageBlock(g).addr
        \/ After(PageBlock(g)) <= PageBlock(f).addr
    BY <1>3, <2>2
  <2> QED BY <1>3, <2>3, Disjoint
<1> QED BY <1>3, <1>5

-----------------------------------------------------------------------------
(* The invariant *)

\* heap_init finds an empty list and a heap without pages.
LEMMA InitInv == Init => Inv
<1> SUFFICES ASSUME Init PROVE Inv
  OBVIOUS
<1>1. TypeOK
  BY KernelHeapAssumption DEF Init, TypeOK
<1>2. Len(free_list) = 0 /\ live = {} /\ heap = {} /\ pc = "expand"
  BY DEF Init
<1>3. Covered(free_list) = {}
  BY <1>2 DEF Covered, Part
<1> QED BY <1>1, <1>2, <1>3 DEF Inv, Sorted, Apart, Filled, Wanted, Space, Pages

\* The block kmalloc gives out: a new one, apart from the others, and the list
\* without its units.
LEMMA FoundEffect ==
  ASSUME Inv, Found
  PROVE  \E b \in Block :
           /\ live' = live \cup {b} /\ b.size - want \in 0 .. 1
           /\ want \in Nat \ {0} /\ want' = 0
           /\ free_list' \in Seq(Block) /\ Sorted(free_list)'
           /\ Units(b) \cap Covered(free_list)' = {}
           /\ Covered(free_list) = Covered(free_list)' \cup Units(b)
           /\ \A c \in live : Units(b) \cap Units(c) = {}
<1> DEFINE i == FirstFit(free_list, want)
           b == Taken(free_list[i], want)
<1>1. /\ i # 0 /\ live' = live \cup {b} /\ want' = 0
      /\ free_list' = Take(free_list, i, want)
  BY DEF Found
<1>2. /\ free_list \in Seq(Block) /\ Sorted(free_list) /\ want \in Nat \ {0}
  BY KernelHeapAssumption DEF Inv, TypeOK, Wanted, Found
<1>3. i \in 1 .. Len(free_list) /\ free_list[i].size >= want
  <2>1. i \in 0 .. Len(free_list) /\ free_list[i].size >= want
    BY <1>1, <1>2, FirstFits
  <2> QED BY <1>1, <2>1
<1> HIDE DEF i
<1>4. /\ b \in Block /\ b.size - want \in 0 .. 1
      /\ free_list' \in Seq(Block)
      /\ Sorted(free_list')
      /\ Units(b) \cap Covered(free_list') = {}
      /\ Covered(free_list) = Covered(free_list') \cup Units(b)
  BY <1>1, <1>2, <1>3, TakeEffect
<1>5. Sorted(free_list)' /\ Covered(free_list') = Covered(free_list)'
  BY <1>4 DEF Sorted, Covered, Part
<1>6. \A c \in live : Units(b) \cap Units(c) = {}
  BY <1>4 DEF Inv, Apart
<1> HIDE DEF b
<1> QED BY <1>1, <1>2, <1>4, <1>5, <1>6

\* The step of each operation keeps the invariant.
LEMMA NextInv == Inv /\ [Next]_vars => Inv'
<1> SUFFICES ASSUME Inv, [Next]_vars PROVE Inv'
  OBVIOUS
<1>1. /\ TypeOK /\ Sorted(free_list) /\ Apart /\ Filled /\ Wanted
      /\ free_list \in Seq(Block) /\ live \subseteq Block
  BY DEF Inv, TypeOK
<1>2. ASSUME UNCHANGED <<free_list, live, heap>>
      PROVE  Sorted(free_list)' /\ Apart' /\ Filled'
  BY <1>1, <1>2 DEF Sorted, Apart, Filled, Covered, Part, Space, Pages
<1>3. ASSUME NEW n \in Sizes, Call(n)
      PROVE  Inv'
  <2>1. TypeOK' /\ Wanted'
    BY <1>1, <1>3, KernelHeapAssumption DEF Call, TypeOK, Wanted
  <2>2. Sorted(free_list)' /\ Apart' /\ Filled'
    BY <1>2, <1>3 DEF Call
  <2> QED BY <2>1, <2>2 DEF Inv
<1>4. ASSUME Found
      PROVE  Inv'
  <2>1. PICK b \in Block :
          /\ live' = live \cup {b} /\ want' = 0
          /\ free_list' \in Seq(Block) /\ Sorted(free_list)'
          /\ Units(b) \cap Covered(free_list)' = {}
          /\ Covered(free_list) = Covered(free_list)' \cup Units(b)
          /\ \A c \in live : Units(b) \cap Units(c) = {}
    BY <1>4, FoundEffect
  <2>2. TypeOK' /\ Wanted'
    BY <1>1, <1>4, <2>1 DEF Found, TypeOK, Wanted
  <2>3. Apart'
    <3>1. \A c \in live' : Units(c) \cap Covered(free_list)' = {}
      BY <1>1, <2>1 DEF Apart
    <3>2. \A c, d \in live' : c # d => Units(c) \cap Units(d) = {}
      BY <1>1, <2>1 DEF Apart
    <3> QED BY <3>1, <3>2 DEF Apart
  <2>4. Filled'
    <3>1. Space(live)' = Space(live) \cup Units(b)
      BY <2>1 DEF Space
    <3>2. Pages(heap)' = Pages(heap)
      BY <1>4 DEF Found, Pages
    <3> QED BY <1>1, <2>1, <3>1, <3>2 DEF Filled
  <2> QED BY <2>1, <2>2, <2>3, <2>4 DEF Inv
<1>5. ASSUME NotFound
      PROVE  Inv'
  <2>1. PagesFor(want) \in Nat
    BY <1>1, KernelHeapAssumption DEF PagesFor, TypeOK
  <2>2. TypeOK' /\ Wanted'
    BY <1>1, <1>5, <2>1 DEF NotFound, TypeOK, Wanted
  <2>3. Sorted(free_list)' /\ Apart' /\ Filled'
    BY <1>2, <1>5 DEF NotFound
  <2> QED BY <2>2, <2>3 DEF Inv
<1>6. ASSUME Grow
      PROVE  Inv'
  <2> DEFINE page == PageBlock(Lowest)
  <2>1. Lowest \in pool /\ Lowest \in Frames /\ Lowest \notin heap /\ heap \subseteq Frames
    BY <1>1, <1>6, LowestIsFree DEF Grow, TypeOK
  <2>2. /\ page \in Block
        /\ \A f \in heap : Units(page) \cap Units(PageBlock(f)) = {}
    BY <2>1, PageBlocks
  <2>3. /\ free_list' = Add(free_list, page) /\ heap' = heap \cup {Lowest}
        /\ live' = live
    BY <1>6 DEF Grow
  <2> HIDE DEF page
  <2>4. Units(page) \cap Pages(heap) = {}
    BY <2>2 DEF Pages
  <2>5. Units(page) \cap Covered(free_list) = {} /\ Units(page) \cap Space(live) = {}
    BY <1>1, <2>4 DEF Filled
  <2>6. /\ free_list' \in Seq(Block)
        /\ Sorted(free_list')
        /\ Covered(free_list') = Covered(free_list) \cup Units(page)
    BY <1>1, <2>2, <2>3, <2>5, AddEffect
  <2>7. Sorted(free_list)' /\ Covered(free_list') = Covered(free_list)'
    BY <2>6 DEF Sorted, Covered, Part
  <2>8. TypeOK' /\ Wanted'
    <3>1. left' \in Nat /\ pool' \subseteq Frames /\ heap' \subseteq Frames \ pool'
      BY <1>1, <1>6, <2>1 DEF Grow, TypeOK
    <3> QED BY <1>1, <1>6, <2>6, <3>1 DEF Grow, TypeOK, Wanted
  <2>9. Apart'
    <3>1. \A c \in live : Units(page) \cap Units(c) = {}
      BY <2>5 DEF Space
    <3> QED BY <1>1, <2>3, <2>6, <2>7, <3>1 DEF Apart
  <2>10. Filled'
    <3>1. Pages(heap)' = Pages(heap) \cup Units(page)
      BY <2>3 DEF Pages, page, PageBlock
    <3>2. Space(live)' = Space(live)
      BY <2>3 DEF Space
    <3> QED BY <1>1, <2>6, <2>7, <3>1, <3>2 DEF Filled
  <2> QED BY <2>7, <2>8, <2>9, <2>10 DEF Inv
<1>7. ASSUME Grown
      PROVE  Inv'
  <2>1. TypeOK' /\ Wanted'
    BY <1>1, <1>7 DEF Grown, TypeOK, Wanted
  <2>2. Sorted(free_list)' /\ Apart' /\ Filled'
    BY <1>2, <1>7 DEF Grown
  <2> QED BY <2>1, <2>2 DEF Inv
<1>8. ASSUME OutOfMemory
      PROVE  Inv'
  <2>1. TypeOK' /\ Wanted'
    BY <1>1, <1>8 DEF OutOfMemory, TypeOK, Wanted
  <2>2. Sorted(free_list)' /\ Apart' /\ Filled'
    BY <1>2, <1>8 DEF OutOfMemory
  <2> QED BY <2>1, <2>2 DEF Inv
<1>9. ASSUME NEW b \in live, Free(b)
       PROVE  Inv'
  <2>1. /\ b \in Block /\ live' = live \ {b} /\ free_list' = Add(free_list, b)
        /\ heap' = heap
    BY <1>1, <1>9 DEF Free
  <2>2. Units(b) \cap Covered(free_list) = {}
    BY <1>1 DEF Apart
  <2>3. /\ free_list' \in Seq(Block)
        /\ Sorted(free_list')
        /\ Covered(free_list') = Covered(free_list) \cup Units(b)
    BY <1>1, <2>1, <2>2, AddEffect
  <2>4. Sorted(free_list)' /\ Covered(free_list') = Covered(free_list)'
    BY <2>3 DEF Sorted, Covered, Part
  <2>5. TypeOK' /\ Wanted'
    BY <1>1, <1>9, <2>1, <2>3 DEF Free, TypeOK, Wanted
  <2>6. Apart'
    <3>1. \A c \in live' : Units(c) \cap Covered(free_list) = {} /\ Units(c) \cap Units(b) = {}
      BY <1>1, <2>1 DEF Apart
    <3>2. \A c, d \in live' : c # d => Units(c) \cap Units(d) = {}
      BY <1>1, <2>1 DEF Apart
    <3> QED BY <2>3, <2>4, <3>1, <3>2 DEF Apart
  <2>7. Filled'
    <3>1. Space(live) = Space(live)' \cup Units(b)
      BY <2>1 DEF Space
    <3>2. Pages(heap)' = Pages(heap)
      BY <2>1 DEF Pages
    <3> QED BY <1>1, <2>3, <2>4, <3>1, <3>2 DEF Filled
  <2> QED BY <2>4, <2>5, <2>6, <2>7 DEF Inv
<1>10. ASSUME TakeFrame
       PROVE  Inv'
  <2>1. TypeOK' /\ Wanted'
    BY <1>1, <1>10 DEF TakeFrame, TypeOK, Wanted
  <2>2. Sorted(free_list)' /\ Apart' /\ Filled'
    BY <1>2, <1>10 DEF TakeFrame
  <2> QED BY <2>1, <2>2 DEF Inv
<1>11. ASSUME UNCHANGED vars
       PROVE  Inv'
  <2>1. TypeOK' /\ Wanted'
    BY <1>1, <1>11 DEF vars, TypeOK, Wanted
  <2>2. Sorted(free_list)' /\ Apart' /\ Filled'
    BY <1>2, <1>11 DEF vars
  <2> QED BY <2>1, <2>2 DEF Inv
<1> QED
  BY <1>3, <1>4, <1>5, <1>6, <1>7, <1>8, <1>9, <1>10, <1>11 DEF Next, Kmalloc

\* The invariant holds in every state of the heap.
THEOREM Invariance == Spec => []Inv
<1> QED BY InitInv, NextInv, PTL DEF Spec

-----------------------------------------------------------------------------
(* What the heap promises *)

\* The free list and the blocks in use tile the pages of the heap, and no two
\* blocks of the list could be merged.
LEMMA InvHeapSound == Inv => HeapSound
<1> SUFFICES ASSUME Inv PROVE HeapSound
  OBVIOUS
<1>1. /\ TypeOK /\ Sorted(free_list) /\ Apart /\ Filled
      /\ free_list \in Seq(Block) /\ live \subseteq Block
  BY DEF Inv, TypeOK
<1>2. Len(free_list) \in Nat /\ \A i \in 1 .. Len(free_list) : free_list[i] \in Block
  BY <1>1, LenProperties, ElementOfSeq
<1>3. \A b \in Block : b.addr \in Units(b)
  BY BlockUnits
<1>4. Coalesced
  BY <1>1, <1>2 DEF Sorted, Coalesced
<1>5. UNION {Units(b) : b \in FreeBlocks \cup live} = UNION {Units(PageBlock(f)) : f \in heap}
  <2>1. UNION {Units(b) : b \in FreeBlocks \cup live} = Covered(free_list) \cup Space(live)
    BY DEF FreeBlocks, Covered, Part, Space
  <2> QED BY <1>1, <2>1 DEF Filled, Pages
<1>6. ASSUME NEW b \in FreeBlocks, NEW c \in live
      PROVE  Units(b) \cap Units(c) = {} /\ b # c
  <2>1. Units(b) \subseteq Covered(free_list)
    BY DEF FreeBlocks, Covered, Part
  <2>2. Units(c) \cap Covered(free_list) = {} /\ c.addr \in Units(c)
    BY <1>1, <1>3 DEF Apart
  <2> QED BY <2>1, <2>2
<1>7. ASSUME NEW b \in FreeBlocks, NEW c \in FreeBlocks, b # c
      PROVE  Units(b) \cap Units(c) = {}
  <2>1. PICK i \in 1 .. Len(free_list) : b = free_list[i]
    BY DEF FreeBlocks
  <2>2. PICK j \in 1 .. Len(free_list) : c = free_list[j]
    BY DEF FreeBlocks
  <2>3. i < j \/ j < i
    BY <1>7, <2>1, <2>2
  <2>4. After(b) < c.addr \/ After(c) < b.addr
    BY <1>1, <2>1, <2>2, <2>3 DEF Sorted
  <2>5. /\ b \in Block /\ c \in Block
        /\ b.addr \in Nat /\ After(b) \in Nat /\ c.addr \in Nat /\ After(c) \in Nat
    BY <1>2, <2>1, <2>2, BlockUnits
  <2> QED BY <2>4, <2>5, Disjoint
<1>8. \A b, c \in FreeBlocks \cup live : b # c => Units(b) \cap Units(c) = {}
  BY <1>1, <1>6, <1>7 DEF Apart
<1>9. FreeBlocks \cap live = {}
  BY <1>6
<1> QED BY <1>1, <1>4, <1>5, <1>8, <1>9 DEF HeapSound, Tiled

\* heap.c: in every state each unit of each page is in one block, free or in use,
\* and in one only, and what freelist_add could merge is merged.
THEOREM HeapIsSound == Spec => []HeapSound
<1> QED BY Invariance, InvHeapSound, PTL

\* kmalloc (heap.c:107-152): a request gets a new block, at most one unit larger
\* than it asked for, and 0 only when no page frame is left.
THEOREM RequestsAnswered == Spec => Answered
<1> DEFINE A == pc # "idle" /\ want # 0 /\ pc' = "idle" =>
       \/ \E b \in live' : live' = live \cup {b} /\ b \notin live /\ b.size - want \in 0 .. 1
       \/ live' = live /\ pool = {}
<1>1. Inv /\ [Next]_vars => [A]_vars
  <2> SUFFICES ASSUME Inv, Next, pc # "idle", want # 0, pc' = "idle"
               PROVE  \/ \E b \in live' : /\ live' = live \cup {b} /\ b \notin live
                                          /\ b.size - want \in 0 .. 1
                      \/ live' = live /\ pool = {}
    OBVIOUS
  <2>1. CASE Found
    <3>1. PICK b \in Block :
            /\ live' = live \cup {b} /\ b.size - want \in 0 .. 1
            /\ \A c \in live : Units(b) \cap Units(c) = {}
      BY <2>1, FoundEffect
    <3>2. b.addr \in Units(b)
      BY BlockUnits
    <3>3. b \notin live
      BY <3>1, <3>2
    <3> QED BY <3>1, <3>3
  <2>2. CASE OutOfMemory
    BY <2>2 DEF OutOfMemory
  <2> QED BY <2>1, <2>2 DEF Next, Kmalloc, Call, NotFound, Grow, Grown, Free, TakeFrame
<1> QED BY <1>1, Invariance, PTL DEF Spec, Answered, A

-----------------------------------------------------------------------------
(* The heap implements the allocator *)

\* The payload of a block, as its owner sees it.
Payload(b) == [addr |-> b.addr + 1, size |-> b.size]

\* The owner's part of a block is part of it, and names the block.
LEMMA PayloadInside ==
  ASSUME NEW b \in Block
  PROVE  /\ Blocks!Payload(Payload(b)) \subseteq Units(b)
         /\ Payload(b).size = b.size
         /\ \A c \in Block : Payload(b) = Payload(c) => b = c
<1>1. Payload(b).addr = b.addr + 1 /\ Payload(b).size = b.size
  BY DEF Payload
<1>2. Blocks!Payload(Payload(b)) \subseteq Units(b)
  BY <1>1, BlockUnits DEF Blocks!Payload
<1>3. ASSUME NEW c \in Block, Payload(b) = Payload(c)
      PROVE  b = c
  <2>1. b.addr + 1 = c.addr + 1 /\ b.size = c.size
    BY <1>1, <1>3 DEF Payload
  <2> QED BY <2>1 DEF Block
<1> QED BY <1>1, <1>2, <1>3

\* Each step of the heap is a step of the allocator, or invisible to callers.
LEMMA StepSimulates == Inv /\ [Next]_vars => [Blocks!Next]_(Blocks!vars)
<1> SUFFICES ASSUME Inv, [Next]_vars PROVE [Blocks!Next]_(Blocks!vars)
  OBVIOUS
<1>1. Owned = {Payload(b) : b \in live} /\ Owned' = {Payload(b) : b \in live'}
  BY DEF Owned, Payload
<1>2. live \subseteq Block /\ Wanted
  BY DEF Inv, TypeOK
<1>3. ASSUME UNCHANGED <<live, want>>
      PROVE  UNCHANGED Blocks!vars
  BY <1>1, <1>3 DEF Blocks!vars
<1>4. ASSUME NEW n \in Sizes, Call(n)
      PROVE  Blocks!Next
  <2>1. want = 0 /\ want' = n /\ Owned' = Owned
    BY <1>1, <1>2, <1>4 DEF Call, Wanted
  <2> QED BY <2>1 DEF Blocks!Next, Blocks!Ask
<1>5. ASSUME Found
      PROVE  Blocks!Next
  <2>1. PICK b \in Block :
          /\ live' = live \cup {b} /\ b.size - want \in 0 .. 1
          /\ want \in Nat \ {0} /\ want' = 0
          /\ \A c \in live : Units(b) \cap Units(c) = {}
    BY <1>5, FoundEffect
  <2> DEFINE o == Payload(b)
  <2>2. o.size = b.size /\ b.size \in Nat /\ o.size >= want
    BY <2>1, PayloadInside, BlockUnits
  <2>3. Owned' = Owned \cup {o}
    BY <1>1, <2>1
  <2>4. \A c \in Owned : Blocks!Payload(o) \cap Blocks!Payload(c) = {}
    <3>1. ASSUME NEW d \in live
          PROVE  Blocks!Payload(o) \cap Blocks!Payload(Payload(d)) = {}
      <4>1. /\ Blocks!Payload(o) \subseteq Units(b)
            /\ Blocks!Payload(Payload(d)) \subseteq Units(d)
        BY <1>2, PayloadInside
      <4> QED BY <2>1, <4>1
    <3> QED BY <1>1, <3>1
  <2> HIDE DEF o
  <2> QED BY <2>1, <2>2, <2>3, <2>4 DEF Blocks!Next, Blocks!Grant
<1>6. ASSUME OutOfMemory
      PROVE  [Blocks!Next]_(Blocks!vars)
  <2>1. want' = 0 /\ live' = live
    BY <1>6 DEF OutOfMemory
  <2>2. CASE want = 0
    BY <1>3, <2>1, <2>2
  <2>3. CASE want # 0
    <3>1. Owned' = Owned
      BY <1>1, <2>1
    <3> QED BY <2>1, <2>3, <3>1 DEF Blocks!Next, Blocks!Deny
  <2> QED BY <2>2, <2>3
<1>7. ASSUME NEW b \in live, Free(b)
      PROVE  Blocks!Next
  <2>1. want = 0 /\ want' = want /\ live' = live \ {b}
    BY <1>2, <1>7 DEF Free, Wanted
  <2>2. Payload(b) \in Owned
    BY <1>1
  <2>3. Owned' = Owned \ {Payload(b)}
    <3>1. \A c \in live : Payload(c) = Payload(b) <=> c = b
      BY <1>2, PayloadInside
    <3> QED BY <1>1, <2>1, <3>1
  <2> QED BY <2>1, <2>2, <2>3 DEF Blocks!Next, Blocks!GiveBack
<1>8. ASSUME NotFound \/ Grow \/ Grown \/ TakeFrame \/ UNCHANGED vars
      PROVE  UNCHANGED Blocks!vars
  <2>1. UNCHANGED <<live, want>>
    BY <1>8 DEF NotFound, Grow, Grown, TakeFrame, vars
  <2> QED BY <1>3, <2>1
<1> QED BY <1>4, <1>5, <1>6, <1>7, <1>8 DEF Next, Kmalloc

\* Every behaviour of the heap is one of the allocator: what kmalloc gives out is
\* nobody else's and large enough, and stays its owner's until kfree.
THEOREM HeapImplementsAllocator == Spec => ImplementsAllocator
<1>1. Init => Blocks!Init
  BY DEF Init, Blocks!Init, Owned
<1> QED BY <1>1, StepSimulates, Invariance, PTL DEF Spec, ImplementsAllocator, Blocks!Spec
=============================================================================
