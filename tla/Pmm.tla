-------------------------------- MODULE Pmm --------------------------------
(***************************************************************************)
(* The physical memory manager (src/src/kernel/pmm.c): a bitmap with one   *)
(* bit per page frame below the highest usable address, kept in pages of   *)
(* its own, and a count of the clear bits.  Addresses are page numbers:    *)
(* the boot loader aligns the usable entries of the memory map to pages.   *)
(***************************************************************************)
EXTENDS Integers, Sequences, FiniteSets

CONSTANTS
  MemMaps,       \* the memory maps the boot loader may pass
  BitsPerPage,   \* bits of the bitmap one page holds: 8 * PAGE_SIZE
  MaxPages       \* pages a physical address can name

Entry == [base : Nat, length : Nat \ {0}, usable : BOOLEAN]

ASSUME PmmAssumption ==
  /\ BitsPerPage \in Nat \ {0}
  /\ MaxPages \in Nat
  /\ \A m \in MemMaps :
       /\ m \in Seq(Entry)
       /\ \A i \in 1 .. Len(m) : m[i].base + m[i].length <= MaxPages

VARIABLES
  memmap,        \* the map this machine was booted with
  bitmap,        \* the page the bitmap starts at, 0 if there is none
  bitmap_pages,  \* pages the bitmap describes
  used,          \* the pages whose bit is set
  free_count,
  held,          \* pages pmm_alloc_page returned and nobody freed
  ret            \* what the last pmm_alloc_page returned

pmmVars == <<memmap, bitmap, bitmap_pages, used, free_count, held, ret>>

-----------------------------------------------------------------------------
(* pmm_init *)

Usable(m)  == {i \in 1 .. Len(m) : m[i].usable}
End(e)     == e.base + e.length
PagesOf(e) == e.base .. End(e) - 1

\* The pages of the usable entries.
Memory(m) == UNION {PagesOf(m[i]) : i \in Usable(m)}

\* The number of pages below the highest usable address; 0: no usable memory.
Highest(m) ==
  IF Usable(m) = {} THEN 0
  ELSE CHOOSE h \in {End(m[i]) : i \in Usable(m)} :
         \A i \in Usable(m) : End(m[i]) <= h

\* Pages the bitmap itself takes.
Needed(m) == (Highest(m) + BitsPerPage - 1) \div BitsPerPage

\* The bitmap goes to the end of the first usable entry that has room for it,
\* unless that is page 0.  The second pass of pmm_init only finds an entry the
\* first refused, where the bitmap would be at page 0: no room.
Candidate(m, i) == End(m[i]) - Needed(m)
Room(m) == {i \in Usable(m) : m[i].length >= Needed(m) /\ Candidate(m, i) # 0}
Place(m) ==
  IF Room(m) = {} THEN 0
  ELSE Candidate(m, CHOOSE i \in Room(m) : \A j \in Room(m) : i <= j)

\* The bitmap's own pages, as far as the bitmap describes them.
Reserved(m) == Place(m) .. Place(m) + Needed(m) - 1

\* Mutant: the bitmap's own pages stay free.
RetakenZeroOnly(m) == {0} \cap Memory(m)

\* Bits pmm_init clears, and then sets again for the bitmap and for page 0.
Cleared(m) == Memory(m) \cap 0 .. Highest(m) - 1
Retaken(m) == (Reserved(m) \cup {0}) \cap Cleared(m)

PmmInit ==
  /\ memmap \in MemMaps
  /\ bitmap = Place(memmap)
  /\ bitmap_pages = Highest(memmap)
  /\ IF bitmap = 0
       THEN used = 0 .. bitmap_pages - 1 /\ free_count = 0
       ELSE /\ used = ((0 .. bitmap_pages - 1) \ Cleared(memmap)) \cup Retaken(memmap)
            /\ free_count = Cardinality(Cleared(memmap)) - Cardinality(Retaken(memmap))
  /\ held = {}
  /\ ret = 0

-----------------------------------------------------------------------------
(* pmm_alloc_page and pmm_free_page *)

Clear == (0 .. bitmap_pages - 1) \ used

\* The pages the loop of pmm_alloc_page looks at: page 0 is not one of them.
Available == Clear \ {0}

\* pmm_alloc_page returns 0.
Refused == bitmap = 0 \/ free_count = 0 \/ Available = {}

\* Mutant: the bit is not set.
AllocWithoutBit ==
  /\ ~Refused
  /\ ret' = CHOOSE p \in Available : \A q \in Available : p <= q
  /\ free_count' = free_count - 1
  /\ held' = held \cup {ret'}
  /\ UNCHANGED <<memmap, bitmap, bitmap_pages, used>>

AllocPage ==
  /\ ~Refused
  /\ ret' = CHOOSE p \in Available : \A q \in Available : p <= q
  /\ used' = used \cup {ret'}
  /\ free_count' = free_count - 1
  /\ held' = held \cup {ret'}
  /\ UNCHANGED <<memmap, bitmap, bitmap_pages>>

AllocFails ==
  /\ Refused
  /\ ret' = 0
  /\ UNCHANGED <<memmap, bitmap, bitmap_pages, used, free_count, held>>

\* Mutant: the count goes up for a page that is free already.
ClearBitUntested(p) ==
  /\ used' = used \ {p}
  /\ free_count' = free_count + 1

\* The body of pmm_free_page once its argument is known to be a page.
ClearBit(p) ==
  /\ used' = used \ {p}
  /\ free_count' = IF p \in used THEN free_count + 1 ELSE free_count

\* An owner gives a page back.  (No kernel code calls pmm_free_page yet.)
FreePage(p) ==
  /\ p \in held
  /\ ClearBit(p)
  /\ held' = held \ {p}
  /\ UNCHANGED <<memmap, bitmap, bitmap_pages, ret>>

\* A call with 0, with an address past the bitmap or with a page that is free.
FreeNothing(p) ==
  /\ p \notin held
  /\ p = 0 \/ p >= bitmap_pages \/ p \in Clear
  /\ IF bitmap = 0 \/ p = 0 \/ p >= bitmap_pages
       THEN UNCHANGED <<used, free_count>>
       ELSE ClearBit(p)
  /\ UNCHANGED <<memmap, bitmap, bitmap_pages, held, ret>>

PmmNext ==
  \/ AllocPage
  \/ AllocFails
  \/ \E p \in 0 .. bitmap_pages : FreePage(p) \/ FreeNothing(p)

PmmSpec == PmmInit /\ [][PmmNext]_pmmVars

-----------------------------------------------------------------------------
(* Properties *)

PmmTypeOK ==
  /\ memmap \in MemMaps
  /\ bitmap \in Nat
  /\ bitmap_pages \in Nat
  /\ used \subseteq 0 .. bitmap_pages - 1
  /\ free_count \in Nat
  /\ held \subseteq 0 .. bitmap_pages - 1
  /\ ret \in 0 .. bitmap_pages

\* The counter that pmm_alloc_page trusts, and meminfo reports, is the number
\* of clear bits.
CountExact == free_count = Cardinality(Clear)

\* Every page of usable memory is free, or with one owner, or holds the bitmap
\* or is page 0, and is only one of these; nothing else is ever given out.
Conserved ==
  bitmap # 0 =>
    /\ Clear \cup held = Memory(memmap) \ (Reserved(memmap) \cup {0})
    /\ Clear \cap held = {}

\* A page is refused only when no page is free.
RefusedOnlyWhenEmpty == Refused => bitmap = 0 \/ Clear = {}

Pool == INSTANCE PagePool WITH pool <- Clear, out <- held

\* The bitmap and its counter implement the pool of pages.
ImplementsPool == Pool!Spec
=============================================================================
