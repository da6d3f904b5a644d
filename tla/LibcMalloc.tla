----------------------------- MODULE LibcMalloc -----------------------------
(***************************************************************************)
(* malloc, realloc and free of the C library (src/src/libc/stdlib.c) over  *)
(* sbrk (src/src/libc/unistd.c) and the break of elf_brk                   *)
(* (src/src/kernel/elf.c).  The free list is that of FreeList, in units of *)
(* 16 bytes; memory comes from sbrk in chunks, which follow each other     *)
(* unless the program moves the break itself in between.  Addresses wrap   *)
(* around, and sizes go up to those that would bring the break back into   *)
(* the heap from below: the largest, less than a heap short of the word.   *)
(***************************************************************************)
EXTENDS FreeList, FiniteSets

CONSTANTS
  PageUnits,    \* units in a page, and in the smallest chunk: 4096 / 16
  Word,         \* units in 2^64 bytes
  Limit,        \* the break stays below this unit: the bottom of the stack
  MaxFrames,    \* page frames the machine may have left
  Sizes         \* sizes, in units, programs ask for

ASSUME LibcMallocAssumption ==
  /\ PageUnits \in Nat \ {0, 1}
  /\ Limit \in Nat
  /\ Limit > PageUnits
  /\ Word \in Nat
  /\ Word > 2 * Limit
  /\ MaxFrames \in Nat
  /\ Sizes \subseteq 1 .. Word - (Limit - PageUnits) - 1

NULL  == [addr |-> 0, size |-> 0]

VARIABLES
  brk,          \* the break
  frames,       \* page frames left
  free_list,
  live,         \* blocks of the program
  taken,        \* memory the program got by calling sbrk itself
  pc,           \* where the library is: "idle", "search", "sbrk" or "copy"
  want,         \* the size malloc looks for
  moving        \* the block realloc is about to replace, or NULL

vars == <<brk, frames, free_list, live, taken, pc, want, moving>>

\* brk_start: elf_load sets the break to the start of a page.
Start == PageUnits

Init ==
  /\ brk = Start
  /\ frames \in 0 .. MaxFrames
  /\ free_list = <<>>
  /\ live = {}
  /\ taken = {}
  /\ pc = "idle"
  /\ want = 0
  /\ moving = NULL

-----------------------------------------------------------------------------
(* sbrk over elf_brk *)

PageUp(a) == (a + PageUnits - 1) \div PageUnits

\* Where sbrk wants the break, as a word: the increment is signed, and 0 asks
\* elf_brk where the break is.
NewBreak(n) == (brk + n) % Word

\* What elf_brk accepts.
IsBreak(addr) == Start <= addr /\ addr < Limit

\* The frames it takes to move the break up by n, page tables left aside.
Pages(n) == PageUp(brk + n) - PageUp(brk)

SbrkWorks(n) == IsBreak(NewBreak(n)) /\ Pages(n) <= frames

MoveBreak(n) ==
  /\ SbrkWorks(n)
  /\ brk' = NewBreak(n)
  /\ frames' = frames - Pages(n)

\* sbrk returns -1.  elf_brk refuses an address in the stack or below the heap at
\* once, and runs out of frames only when it has used them all.
BreakStays(n) ==
  /\ ~SbrkWorks(n)
  /\ frames' = IF IsBreak(NewBreak(n)) THEN 0 ELSE frames
  /\ UNCHANGED brk

-----------------------------------------------------------------------------
(* malloc *)

\* What malloc asks sbrk for: the block and its header, at least a page.
Need(n) == IF n + 1 < PageUnits THEN PageUnits ELSE n + 1

\* Mutant: the size of the new block counts its header.
ChunkWithHeader(n) == [addr |-> brk, size |-> Need(n)]

\* The free block made of what sbrk returned.
Chunk(n) == [addr |-> brk, size |-> Need(n) - 1]

Malloc(n) ==
  /\ pc = "idle"
  /\ want' = n
  /\ pc' = "search"
  /\ UNCHANGED <<brk, frames, free_list, live, taken, moving>>

\* malloc returns a block, to the program or to realloc.
Found ==
  LET i == FirstFit(free_list, want) IN
  /\ pc = "search"
  /\ i # 0
  /\ live' = live \cup {Taken(free_list[i], want)}
  /\ free_list' = Take(free_list, i, want)
  /\ want' = 0
  /\ pc' = IF moving = NULL THEN "idle" ELSE "copy"
  /\ UNCHANGED <<brk, frames, taken, moving>>

NotFound ==
  /\ pc = "search"
  /\ FirstFit(free_list, want) = 0
  /\ pc' = "sbrk"
  /\ UNCHANGED <<brk, frames, free_list, live, taken, want, moving>>

\* The chunk joins the free list, and malloc searches again.
Extend ==
  /\ pc = "sbrk"
  /\ MoveBreak(Need(want))
  /\ free_list' = Add(free_list, Chunk(want))
  /\ pc' = "search"
  /\ UNCHANGED <<live, taken, want, moving>>

\* Mutant: malloc goes back to its search.
GiveUpRetry ==
  /\ pc' = "search"
  /\ UNCHANGED <<want, moving>>

\* malloc returns 0, and so does a realloc that called it.
GiveUp ==
  /\ pc' = "idle"
  /\ want' = 0
  /\ moving' = NULL

NoMemory ==
  /\ pc = "sbrk"
  /\ BreakStays(Need(want))
  /\ GiveUp
  /\ UNCHANGED <<free_list, live, taken>>

-----------------------------------------------------------------------------
(* free, realloc, and the program's own sbrk *)

Release(b) ==
  /\ live' = live \ {b}
  /\ free_list' = Add(free_list, b)

Free(b) ==
  /\ pc = "idle"
  /\ Release(b)
  /\ UNCHANGED <<brk, frames, taken, pc, want, moving>>

\* Mutant: realloc does not look whether the block is large enough.
ReallocAlways(b, n) ==
  /\ pc = "idle"
  /\ want' = n
  /\ moving' = b
  /\ pc' = "search"
  /\ UNCHANGED <<brk, frames, free_list, live, taken>>

\* Mutant: realloc gives the old block back before it has a new one.
ReallocFreesFirst(b, n) ==
  /\ pc = "idle"
  /\ b.size < n
  /\ Release(b)
  /\ want' = n
  /\ moving' = b
  /\ pc' = "search"
  /\ UNCHANGED <<brk, frames, taken>>

\* realloc of a block that is too small; one that is large enough stays.
Realloc(b, n) ==
  /\ pc = "idle"
  /\ b.size < n
  /\ want' = n
  /\ moving' = b
  /\ pc' = "search"
  /\ UNCHANGED <<brk, frames, free_list, live, taken>>

ReallocInPlace(b, n) ==
  /\ pc = "idle"
  /\ b.size >= n
  /\ UNCHANGED vars

\* The contents are copied and the old block given back.
Moved ==
  /\ pc = "copy"
  /\ Release(moving)
  /\ moving' = NULL
  /\ pc' = "idle"
  /\ UNCHANGED <<brk, frames, taken, want>>

OwnSbrk(n) ==
  /\ pc = "idle"
  /\ MoveBreak(n)
  /\ taken' = taken \cup {[addr |-> brk, size |-> n - 1]}
  /\ UNCHANGED <<free_list, live, pc, want, moving>>

\* sbrk with a negative increment: the program gives back what it got last, and
\* its frames stay mapped, to be replaced when the break comes back.
OwnSbrkBack(b) ==
  /\ pc = "idle"
  /\ After(b) = brk
  /\ brk' = b.addr
  /\ taken' = taken \ {b}
  /\ UNCHANGED <<frames, free_list, live, pc, want, moving>>

OwnSbrkFails(n) ==
  /\ pc = "idle"
  /\ BreakStays(n)
  /\ UNCHANGED <<free_list, live, taken, pc, want, moving>>

Library == Found \/ NotFound \/ Extend \/ NoMemory \/ Moved

Next ==
  \/ \E n \in Sizes : Malloc(n) \/ OwnSbrk(n) \/ OwnSbrkFails(n)
  \/ \E b \in live, n \in Sizes : Realloc(b, n) \/ ReallocInPlace(b, n)
  \/ \E b \in live : Free(b)
  \/ \E b \in taken : OwnSbrkBack(b)
  \/ Library

\* The program has one thread: once called, the library runs on.
Spec == Init /\ [][Next]_vars /\ WF_vars(Library)

-----------------------------------------------------------------------------
(* Properties *)

TypeOK ==
  /\ brk \in Start .. Limit - 1
  /\ frames \in 0 .. MaxFrames
  /\ free_list \in Seq(Block)
  /\ live \subseteq Block
  /\ taken \subseteq [addr : Nat, size : Nat]
  /\ pc \in {"idle", "search", "sbrk", "copy"}
  /\ want \in Sizes \cup {0}
  /\ moving \in Block \cup {NULL}

\* The list is in address order and no two of its blocks touch, chunks that
\* follow each other included (freelist_add, stdlib.c:26-62).
Coalesced ==
  \A i \in 1 .. Len(free_list) - 1 : After(free_list[i]) < free_list[i + 1].addr

FreeBlocks == {free_list[i] : i \in 1 .. Len(free_list)}

\* All memory up to the break is in exactly one block, free, in use or the
\* program's own, and none is beyond it, where nothing is mapped.
Tiled ==
  LET all == FreeBlocks \cup live \cup taken IN
  /\ UNION {Units(b) : b \in all} = Start .. brk - 1
  /\ \A b, c \in all : b # c => Units(b) \cap Units(c) = {}
  /\ FreeBlocks \cap live = {}

\* No unit is lost or given out twice, and what freelist_add could merge is
\* merged, across chunks that the program's own sbrk may keep apart.
HeapSound == TypeOK /\ Tiled /\ Coalesced

\* A request gets at most one unit more than it asked for; it is refused only
\* when no block is large enough and the break cannot be moved.
Answered ==
  [][want # 0 /\ want' = 0 =>
       \/ \E b \in live' : live' = live \cup {b} /\ b \notin live /\ b.size - want \in 0 .. 1
       \/ /\ live' = live
          /\ \A b \in FreeBlocks : b.size < want
          /\ ~SbrkWorks(Need(want))]_vars

\* realloc loses nothing: the old block stays the program's until there is one
\* that is larger, to which its contents are copied, and when there is none it
\* stays for good (stdlib.c:150-155).
ReallocKeeps ==
  [][moving # NULL =>
       /\ moving \in live
       /\ IF pc = "copy"
          THEN /\ live' = live \ {moving}
               /\ \E b \in live' : b.size > moving.size
          ELSE live \subseteq live']_vars

\* What the program owns, as it sees it: the payload after the header.
Owned == {[addr |-> b.addr + 1, size |-> b.size] : b \in live}

Blocks == INSTANCE Allocator WITH live <- Owned, asked <- want

\* The library implements the same allocator as the kernel heap does.
ImplementsAllocator == Blocks!Spec

\* The for (;;) of malloc ends.
Returns == pc # "idle" ~> pc = "idle"
=============================================================================
