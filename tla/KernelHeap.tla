----------------------------- MODULE KernelHeap -----------------------------
(***************************************************************************)
(* The kernel heap (src/src/kernel/heap.c) over the page frames of pmm.c.  *)
(* kmalloc is modelled step by step: a search of the free list, then, if   *)
(* no block is large enough, one page frame at a time until heap_expand    *)
(* has what it asked for, then the search again.  Between calls the rest   *)
(* of the kernel takes frames for page tables and programs, so the frames  *)
(* of the heap need not be neighbours.  No frame ever comes back:          *)
(* pmm_free_page has no caller.                                            *)
(***************************************************************************)
EXTENDS FreeList, FiniteSets

CONSTANTS
  Frames,       \* page frames pmm_init found
  PageUnits,    \* units in a page: PAGE_SIZE / 16
  InitPages,    \* pages heap_init asks for
  Sizes         \* sizes, in units, callers ask for

ASSUME KernelHeapAssumption ==
  /\ Frames \subseteq Nat \ {0}
  /\ IsFiniteSet(Frames)
  /\ PageUnits \in Nat \ {0, 1}
  /\ InitPages \in Nat \ {0}
  /\ Sizes \subseteq Nat \ {0}

VARIABLES
  pool,         \* frames pmm.c still has
  heap,         \* frames the heap has
  free_list,
  live,         \* blocks kmalloc gave out and nobody freed
  pc,           \* where the code is: "idle", "search" or "expand"
  want,         \* the size kmalloc looks for, 0 in heap_init
  left          \* pages heap_expand has still to add

vars == <<pool, heap, free_list, live, pc, want, left>>

\* The block that fills the page of frame f.
PageBlock(f) == [addr |-> f * PageUnits, size |-> PageUnits - 1]

\* Mutant: the number of pages is rounded down.
PagesForDown(n) == (n + 1) \div PageUnits

\* Pages heap_expand adds for a request of n units and its header.
PagesFor(n) == (n + 1 + PageUnits - 1) \div PageUnits

\* pmm_alloc_page returns the lowest free frame.
Lowest == CHOOSE f \in pool : \A g \in pool : f <= g

\* heap_init: heap_expand is about to run.
Init ==
  /\ pool = Frames
  /\ heap = {}
  /\ free_list = <<>>
  /\ live = {}
  /\ pc = "expand"
  /\ want = 0
  /\ left = InitPages

-----------------------------------------------------------------------------
(* kmalloc *)

Call(n) ==
  /\ pc = "idle"
  /\ want' = n
  /\ pc' = "search"
  /\ UNCHANGED <<pool, heap, free_list, live, left>>

\* A block is large enough: kmalloc returns it.
Found ==
  LET i == FirstFit(free_list, want) IN
  /\ pc = "search"
  /\ i # 0
  /\ live' = live \cup {Taken(free_list[i], want)}
  /\ free_list' = Take(free_list, i, want)
  /\ want' = 0
  /\ pc' = "idle"
  /\ UNCHANGED <<pool, heap, left>>

NotFound ==
  /\ pc = "search"
  /\ FirstFit(free_list, want) = 0
  /\ left' = PagesFor(want)
  /\ pc' = "expand"
  /\ UNCHANGED <<pool, heap, free_list, live, want>>

-----------------------------------------------------------------------------
(* heap_expand *)

Grow ==
  /\ pc = "expand"
  /\ left > 0
  /\ pool # {}
  /\ pool' = pool \ {Lowest}
  /\ heap' = heap \cup {Lowest}
  /\ free_list' = Add(free_list, PageBlock(Lowest))
  /\ left' = left - 1
  /\ UNCHANGED <<live, pc, want>>

\* heap_expand has its pages: kmalloc searches again, heap_init is done.
Grown ==
  /\ pc = "expand"
  /\ left = 0
  /\ pc' = IF want = 0 THEN "idle" ELSE "search"
  /\ UNCHANGED <<pool, heap, free_list, live, want, left>>

\* No frame is left: kmalloc returns 0, with the pages it got on the list.
OutOfMemory ==
  /\ pc = "expand"
  /\ left > 0
  /\ pool = {}
  /\ left' = 0
  /\ want' = 0
  /\ pc' = "idle"
  /\ UNCHANGED <<pool, heap, free_list, live>>

-----------------------------------------------------------------------------
(* kfree, and the frames other parts of the kernel take *)

Free(b) ==
  /\ pc = "idle"
  /\ b \in live
  /\ live' = live \ {b}
  /\ free_list' = Add(free_list, b)
  /\ UNCHANGED <<pool, heap, pc, want, left>>

TakeFrame ==
  /\ pc = "idle"
  /\ pool # {}
  /\ pool' = pool \ {Lowest}
  /\ UNCHANGED <<heap, free_list, live, pc, want, left>>

Kmalloc == Found \/ NotFound \/ Grow \/ Grown \/ OutOfMemory

Next ==
  \/ \E n \in Sizes : Call(n)
  \/ Kmalloc
  \/ \E b \in live : Free(b)
  \/ TakeFrame

\* Nothing interrupts the kernel: once called, kmalloc runs on.
Spec == Init /\ [][Next]_vars /\ WF_vars(Kmalloc)

-----------------------------------------------------------------------------
(* Properties *)

TypeOK ==
  /\ pool \subseteq Frames
  /\ heap \subseteq Frames \ pool
  /\ free_list \in Seq(Block)
  /\ live \subseteq Block
  /\ pc \in {"idle", "search", "expand"}
  /\ want \in Sizes \cup {0}
  /\ left \in Nat

\* The list is in address order and no two of its blocks touch.
Coalesced ==
  \A i \in 1 .. Len(free_list) - 1 : After(free_list[i]) < free_list[i + 1].addr

FreeBlocks == {free_list[i] : i \in 1 .. Len(free_list)}

\* Every unit of every page of the heap is in one block, free or in use, and
\* in one only.
Tiled ==
  /\ UNION {Units(b) : b \in FreeBlocks \cup live} = UNION {Units(PageBlock(f)) : f \in heap}
  /\ \A b, c \in FreeBlocks \cup live : b # c => Units(b) \cap Units(c) = {}
  /\ FreeBlocks \cap live = {}

\* Splits, merges and expansions lose and double nothing, and what freelist_add
\* could merge is merged (heap.c).
HeapSound == TypeOK /\ Tiled /\ Coalesced

\* A request is given at most one unit more than it asked for, and a large one
\* is refused only when every page frame of the machine is gone.
Answered ==
  [][pc # "idle" /\ want # 0 /\ pc' = "idle" =>
       \/ \E b \in live' : live' = live \cup {b} /\ b \notin live /\ b.size - want \in 0 .. 1
       \/ live' = live /\ pool = {}]_vars

\* What callers own, as they see it: the payload after the header.
Owned == {[addr |-> b.addr + 1, size |-> b.size] : b \in live}

Blocks == INSTANCE Allocator WITH live <- Owned, asked <- want

\* The heap is an allocator: no two owners of a unit, nothing taken back.
ImplementsAllocator == Blocks!Spec

\* The for (;;) of kmalloc ends: each request is answered, if only by 0.
Returns == pc # "idle" ~> pc = "idle"
=============================================================================
