------------------------------ MODULE ElfFile ------------------------------
(***************************************************************************)
(* elf_load (src/src/kernel/elf.c) as a reader of the file: the checks it  *)
(* makes of the headers, and what it maps and copies for each segment,     *)
(* page by page.  All numbers of the headers are words that wrap around,   *)
(* and any file may be given; what is read and mapped must stay in bounds. *)
(* Frames and page tables are those of UserMemory, and do not fail here.   *)
(***************************************************************************)
EXTENDS Integers

CONSTANTS
  Word,        \* 2^64
  PageBytes,   \* PAGE_SIZE, and the lowest address of user memory
  UserLimit,   \* USER_LIMIT
  LoadBase,    \* USER_LOAD_BASE, where an ET_DYN file goes
  EhdrSize,    \* sizeof(struct elf64_ehdr)
  PhdrSize,    \* sizeof(struct elf64_phdr)
  MaxPhdrs,    \* 128
  MaxFile      \* bound: the longest file

ASSUME ElfFileAssumption ==
  /\ {Word, PageBytes, EhdrSize, PhdrSize, MaxPhdrs} \subseteq Nat \ {0}
  /\ {UserLimit, LoadBase, MaxFile} \subseteq 0 .. Word - 1
  /\ UserLimit % PageBytes = 0
  /\ UserLimit + PageBytes < Word
  /\ MaxPhdrs * PhdrSize < Word

U64 == 0 .. Word - 1

Sum64(a, b)  == (a + b) % Word
RoundDown(a) == a - (a % PageBytes)
RoundUp(a)   == RoundDown(Sum64(a, PageBytes - 1))

\* Mutant: the end of the range is computed, and wraps around.
InUserRangeWraps(va, size) ==
  PageBytes <= va /\ va < UserLimit /\ Sum64(va, size) <= UserLimit

InUserRange(va, size) ==
  PageBytes <= va /\ va < UserLimit /\ size <= UserLimit - va

\* A program header: one to load, that has memory.
Loads ==
  {ph \in [offset : U64, vaddr : U64, filesz : U64, memsz : U64] : ph.memsz # 0}

NoSegment == [offset |-> 0, vaddr |-> 0, filesz |-> 0, memsz |-> 0]

VARIABLES
  size,       \* of the file
  bias,       \* what is added to the addresses of the file
  stage,      \* "header", "between" segments, in a "segment", "loaded" or "refused"
  left,       \* program headers not looked at
  high,       \* the end of the highest segment so far
  seg,        \* the segment that is mapped
  va,         \* the page of it that is next
  bytes,      \* bytes of the file the last step has read
  pages,      \* pages mapped
  placed      \* for the bytes of seg's pages that were copied: which of the file they are

elfVars == <<size, bias, stage, left, high, seg, va, bytes, pages, placed>>

ElfInit ==
  /\ size \in 0 .. MaxFile
  /\ bias = 0
  /\ stage = "header"
  /\ left = 0
  /\ high = 0
  /\ seg = NoSegment
  /\ va = 0
  /\ bytes = {} /\ pages = {} /\ placed = {}

-----------------------------------------------------------------------------
(* The header *)

\* The table of program headers is in the file.
TableInFile(phoff, phnum) ==
  LET end == Sum64(phoff, phnum * PhdrSize) IN phoff <= end /\ end <= size

HeaderOk(phoff, phnum) ==
  /\ size >= EhdrSize
  /\ phnum # 0 /\ phnum <= MaxPhdrs
  /\ TableInFile(phoff, phnum)

\* A file whose identification is right, position-independent or not.
Header(phoff, phnum, dyn) ==
  /\ stage = "header"
  /\ HeaderOk(phoff, phnum)
  /\ bias' = IF dyn THEN LoadBase ELSE 0
  /\ left' = phnum
  /\ bytes' = 0 .. EhdrSize - 1 \cup {Sum64(phoff, i) : i \in 0 .. phnum * PhdrSize - 1}
  /\ stage' = "between"
  /\ UNCHANGED <<size, high, seg, va, pages, placed>>

-----------------------------------------------------------------------------
(* map_segment *)

Start(ph) == Sum64(ph.vaddr, bias)
End(ph)   == Sum64(Start(ph), ph.memsz)

\* What is copied is in the file.
InFile(ph) ==
  LET end == Sum64(ph.offset, ph.filesz) IN ph.offset <= end /\ end <= size

Mappable(ph) ==
  /\ InUserRange(Start(ph), ph.memsz)
  /\ ph.filesz <= ph.memsz
  /\ InFile(ph)

\* Segments that are not loaded, or have no memory, are passed.
Skip ==
  /\ stage = "between"
  /\ left > 0
  /\ left' = left - 1
  /\ UNCHANGED <<size, bias, stage, high, seg, va, bytes, pages, placed>>

Segment(ph) ==
  /\ stage = "between"
  /\ left > 0
  /\ Mappable(ph)
  /\ left' = left - 1
  /\ seg' = ph
  /\ va' = RoundDown(Start(ph))
  /\ bytes' = {}
  /\ stage' = "segment"
  /\ UNCHANGED <<size, bias, high, pages, placed>>

\* What is copied to a page: bytes of the file, and where they go.
Copied(page) ==
  LET start == Start(seg)
      end   == Sum64(start, seg.filesz)
      lo    == IF page < start THEN start ELSE page
      hi    == IF page + PageBytes > end THEN end ELSE page + PageBytes
  IN  {<<Sum64(seg.offset, b - start), b>> : b \in lo .. hi - 1}

MapOne ==
  /\ stage = "segment"
  /\ va < RoundUp(End(seg))
  /\ pages' = pages \cup {va}
  /\ placed' = placed \cup Copied(va)
  /\ bytes' = {c[1] : c \in Copied(va)}
  /\ va' = va + PageBytes
  /\ UNCHANGED <<size, bias, stage, left, high, seg>>

AllMapped == stage = "segment" /\ va >= RoundUp(End(seg))

SegmentDone ==
  /\ AllMapped
  /\ high' = IF End(seg) > high THEN End(seg) ELSE high
  /\ seg' = NoSegment /\ va' = 0 /\ bytes' = {} /\ placed' = {}
  /\ stage' = "between"
  /\ UNCHANGED <<size, bias, left, pages>>

-----------------------------------------------------------------------------
\* All segments are mapped, and the program starts in user memory.
Accept(entry) ==
  /\ stage = "between"
  /\ left = 0
  /\ InUserRange(Sum64(entry, bias), 1)
  /\ high' = RoundUp(high)
  /\ stage' = "loaded"
  /\ UNCHANGED <<size, bias, left, seg, va, bytes, pages, placed>>

\* A check fails: of the header, of the next segment, or of the entry point.
Refuse ==
  /\ \/ stage = "header"
     \/ stage = "between" /\ left > 0 /\ \E ph \in Loads : ~Mappable(ph)
     \/ stage = "between" /\ left = 0 /\ \E entry \in U64 : ~InUserRange(Sum64(entry, bias), 1)
  /\ stage' = "refused"
  /\ UNCHANGED <<size, bias, left, high, seg, va, bytes, pages, placed>>

ElfNext ==
  \/ \E phoff \in U64, phnum \in 0 .. MaxPhdrs + 1, dyn \in BOOLEAN : Header(phoff, phnum, dyn)
  \/ Skip
  \/ \E ph \in Loads : Segment(ph)
  \/ MapOne \/ SegmentDone
  \/ \E entry \in U64 : Accept(entry)
  \/ Refuse

ElfSpec == ElfInit /\ [][ElfNext]_elfVars

-----------------------------------------------------------------------------
(* Properties *)

\* Whatever the numbers of the headers are, those that wrap around included: only
\* bytes of the file are read, and only pages between page zero and the limit are
\* mapped; a segment that is done has a page for each of its bytes, those the file
\* has are copied to their place and nothing else is; and the break of a program
\* is on a page boundary above all its pages.
LoadsInBounds ==
  /\ \A b \in bytes : b < size
  /\ \A page \in pages : PageBytes <= page /\ page + PageBytes <= UserLimit
  /\ AllMapped =>
       /\ \A b \in Start(seg) .. Start(seg) + seg.memsz - 1 : RoundDown(b) \in pages
       /\ placed = {<<seg.offset + i, Start(seg) + i>> : i \in 0 .. seg.filesz - 1}
  /\ stage = "loaded" =>
       /\ high % PageBytes = 0 /\ high <= UserLimit
       /\ \A page \in pages : page + PageBytes <= high
=============================================================================
