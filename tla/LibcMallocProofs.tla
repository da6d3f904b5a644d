-------------------------- MODULE LibcMallocProofs --------------------------
(***************************************************************************)
(* Proofs about malloc, realloc and free: whatever the page, the word, the *)
(* place of the stack and the sizes asked for, each unit up to the break   *)
(* is in one block, realloc loses nothing, and callers see an allocator.   *)
(***************************************************************************)
EXTENDS LibcMalloc, FreeListProofs

\* Memory that is not on the free list.
Used == live \cup taken

\* Blocks in use are apart from each other and from the list.
Apart ==
  /\ \A b \in Used : Units(b) \cap Covered(free_list) = {}
  /\ \A b, c \in Used : b # c => Units(b) \cap Units(c) = {}
  /\ live \cap taken = {}

\* List and used memory fill the heap up to the break.
Filled == Covered(free_list) \cup Space(Used) = Start .. brk - 1

\* What malloc looks for, and what it knows of the list when it calls sbrk.
Wanted ==
  /\ want # 0 <=> pc \in {"search", "sbrk"}
  /\ pc = "sbrk" => \A i \in 1 .. Len(free_list) : free_list[i].size < want

\* The block realloc replaces is the program's until there is a larger one.
Moving ==
  /\ pc = "idle" => moving = NULL
  /\ pc = "copy" => moving # NULL /\ \E b \in live : b.size > moving.size
  /\ moving # NULL => moving \in live /\ (want # 0 => moving.size < want)

\* The inductive invariant.
Inv == TypeOK /\ Sorted(free_list) /\ Apart /\ Filled /\ Wanted /\ Moving

-----------------------------------------------------------------------------
(* The break *)

\* A page up is no lower for a higher address.
LEMMA PageUpMonotonic ==
  ASSUME NEW a \in Nat, NEW b \in Nat, a <= b
  PROVE  PageUp(a) \in Nat /\ PageUp(b) \in Nat /\ PageUp(a) <= PageUp(b)
<1> DEFINE x == a + PageUnits - 1
           y == b + PageUnits - 1
           q == PageUp(a)
           r == PageUp(b)
<1>1. PageUnits \in Nat /\ PageUnits > 0 /\ x \in Nat /\ y \in Nat /\ x <= y
  BY LibcMallocAssumption
<1>2. q = x \div PageUnits /\ r = y \div PageUnits
  BY DEF PageUp
<1> HIDE DEF x, y, q, r
<1>3. \A p, n \in Nat : p > 0 => n \div p \in Nat /\ p * (n \div p) <= n /\ n < p * (n \div p) + p
  OBVIOUS
<1>4. /\ q \in Nat /\ PageUnits * q <= x /\ x < PageUnits * q + PageUnits
      /\ r \in Nat /\ PageUnits * r <= y /\ y < PageUnits * r + PageUnits
  BY <1>1, <1>2, <1>3
<1>5. ASSUME r < q
      PROVE  FALSE
  <2> DEFINE d == q - r - 1
  <2>1. d \in Nat /\ q = r + 1 + d
    BY <1>4, <1>5
  <2> HIDE DEF d
  <2>2. PageUnits * q = PageUnits * r + PageUnits + PageUnits * d
    BY <1>1, <1>4, <2>1
  <2>3. PageUnits * d \in Nat /\ PageUnits * r \in Nat
    BY <1>1, <1>4, <2>1
  <2> QED BY <1>1, <1>4, <2>2, <2>3
<1> QED BY <1>4, <1>5 DEF q, r

\* sbrk: the break that elf_brk accepts has not wrapped around, and the frames it
\* takes are there.
LEMMA BreakMoves ==
  ASSUME TypeOK, NEW n \in Nat, n <= Word - (Limit - PageUnits), MoveBreak(n)
  PROVE  /\ brk' = brk + n
         /\ brk' \in Start .. Limit - 1
         /\ frames' \in 0 .. MaxFrames
<1>1. /\ PageUnits \in Nat /\ PageUnits > 1 /\ Limit \in Nat /\ Limit > PageUnits
      /\ Word \in Nat /\ Word > 2 * Limit /\ MaxFrames \in Nat
  BY LibcMallocAssumption
<1>2. brk \in Nat /\ brk >= PageUnits /\ brk < Limit /\ frames \in 0 .. MaxFrames
  BY <1>1 DEF TypeOK, Start
<1>3. /\ brk' = (brk + n) % Word /\ PageUnits <= brk' /\ brk' < Limit
      /\ frames' = frames - Pages(n) /\ Pages(n) <= frames
  BY DEF MoveBreak, SbrkWorks, NewBreak, IsBreak, Start
<1>4. ASSUME NEW x \in Nat, NEW w \in Nat, w > 0
      PROVE  /\ x < w => x % w = x
             /\ w <= x /\ x < 2 * w => x % w = x - w
  OBVIOUS
<1>5. CASE brk + n < Word
  <2>1. brk' = brk + n
    BY <1>1, <1>2, <1>3, <1>4, <1>5
  <2>2. Pages(n) \in Nat
    BY <1>2, PageUpMonotonic DEF Pages
  <2> QED BY <1>1, <1>2, <1>3, <2>1, <2>2 DEF Start
<1>6. CASE brk + n >= Word
  <2> DEFINE x == brk + n
  <2>1. x \in Nat /\ Word \in Nat /\ Word > 0 /\ Word <= x /\ x < 2 * Word
    BY <1>1, <1>2, <1>6
  <2>2. brk' = x % Word
    BY <1>3
  <2> HIDE DEF x
  <2>3. brk' = x - Word
    BY <1>4, <2>1, <2>2
  <2> USE DEF x
  <2> QED BY <1>1, <1>2, <1>3, <2>3
<1> QED BY <1>1, <1>2, <1>5, <1>6

\* A failed sbrk leaves the break where it is.
LEMMA BreakFails ==
  ASSUME TypeOK, NEW n, BreakStays(n)
  PROVE  brk' = brk /\ frames' \in 0 .. MaxFrames
BY LibcMallocAssumption DEF TypeOK, BreakStays

-----------------------------------------------------------------------------
(* The blocks *)

\* A block malloc gives out: a new one, apart from the memory in use, and the
\* list without its units.
LEMMA FoundEffect ==
  ASSUME Inv, Found
  PROVE  \E b \in Block :
           /\ live' = live \cup {b} /\ b.size - want \in 0 .. 1
           /\ want \in Nat \ {0} /\ want' = 0
           /\ free_list' \in Seq(Block) /\ Sorted(free_list)'
           /\ Units(b) \cap Covered(free_list)' = {}
           /\ Covered(free_list) = Covered(free_list)' \cup Units(b)
           /\ \A c \in Used : Units(b) \cap Units(c) = {}
           /\ b \notin Used
<1> DEFINE i == FirstFit(free_list, want)
           b == Taken(free_list[i], want)
<1>1. /\ i # 0 /\ live' = live \cup {b} /\ want' = 0
      /\ free_list' = Take(free_list, i, want)
  BY DEF Found
<1>2. /\ free_list \in Seq(Block) /\ Sorted(free_list) /\ want \in Nat \ {0}
  BY LibcMallocAssumption DEF Inv, TypeOK, Wanted, Found
<1>3. i \in 1 .. Len(free_list) /\ free_list[i].size >= want
  <2>1. i \in 0 .. Len(free_list) /\ free_list[i].size >= want
    BY <1>1, <1>2, FirstFits
  <2> QED BY <1>1, <2>1
<1> HIDE DEF i
<1>4. /\ b \in Block /\ b.size - want \in 0 .. 1
      /\ free_list' \in Seq(Block)
      /\ Sorted(free_list')
      /\ Units(b) \cap Covered(free_list') = {}
      /\ Covered(free_list) = Covered(free_list') \cup Units(b)
  BY <1>1, <1>2, <1>3, TakeEffect
<1>5. Sorted(free_list)' /\ Covered(free_list') = Covered(free_list)'
  BY <1>4 DEF Sorted, Covered, Part
<1>6. \A c \in Used : Units(b) \cap Units(c) = {}
  BY <1>4 DEF Inv, Apart
<1>7. b.addr \in Units(b)
  BY <1>4, BlockUnits
<1> HIDE DEF b
<1>8. b \notin Used
  BY <1>6, <1>7
<1> QED BY <1>1, <1>2, <1>4, <1>5, <1>6, <1>8

\* A block that goes to the list, from the program or from sbrk: the list gets its
\* units, and stays apart from the rest.
LEMMA AddKeeps ==
  ASSUME Inv, NEW b \in Block, free_list' = Add(free_list, b),
         Units(b) \cap Covered(free_list) = {},
         Used' \subseteq Used, \A c \in Used' : Units(b) \cap Units(c) = {},
         live' \cap taken' = {}
  PROVE  /\ free_list' \in Seq(Block) /\ Sorted(free_list)'
         /\ Covered(free_list)' = Covered(free_list) \cup Units(b)
         /\ Apart'
<1>1. Sorted(free_list) /\ Apart /\ free_list \in Seq(Block)
  BY DEF Inv, TypeOK
<1>2. /\ free_list' \in Seq(Block)
      /\ Sorted(free_list')
      /\ Covered(free_list') = Covered(free_list) \cup Units(b)
  BY <1>1, AddEffect
<1>3. Sorted(free_list)' /\ Covered(free_list') = Covered(free_list)'
  BY <1>2 DEF Sorted, Covered, Part
<1>4. /\ \A c \in Used' : Units(c) \cap Covered(free_list)' = {}
      /\ \A c, d \in Used' : c # d => Units(c) \cap Units(d) = {}
  BY <1>1, <1>2, <1>3 DEF Apart
<1> QED BY <1>2, <1>3, <1>4 DEF Apart

\* free, and the end of a realloc: the units of the block go to the list.
LEMMA ReleaseEffect ==
  ASSUME Inv, NEW b \in live, Release(b), taken' = taken, brk' = brk
  PROVE  /\ free_list' \in Seq(Block) /\ Sorted(free_list)' /\ Apart' /\ Filled'
<1>1. Apart /\ Filled /\ live \subseteq Block /\ b \in Block
  BY DEF Inv, TypeOK
<1>2. live' = live \ {b} /\ free_list' = Add(free_list, b)
  BY DEF Release
<1>3. Used' = Used \ {b} /\ b \in Used
  BY <1>1, <1>2 DEF Used, Apart
<1>4. /\ Units(b) \cap Covered(free_list) = {}
      /\ \A c \in Used' : Units(b) \cap Units(c) = {}
      /\ live' \cap taken' = {}
  BY <1>1, <1>2, <1>3 DEF Apart
<1>5. /\ free_list' \in Seq(Block) /\ Sorted(free_list)' /\ Apart'
      /\ Covered(free_list)' = Covered(free_list) \cup Units(b)
  BY <1>1, <1>2, <1>3, <1>4, AddKeeps
<1>6. Space(Used) = Space(Used)' \cup Units(b)
  BY <1>3 DEF Space
<1> QED BY <1>1, <1>5, <1>6 DEF Filled, Start

-----------------------------------------------------------------------------
(* The invariant *)

\* Before the first call the heap is empty.
LEMMA InitInv == Init => Inv
<1> SUFFICES ASSUME Init PROVE Inv
  OBVIOUS
<1>1. TypeOK
  BY LibcMallocAssumption DEF Init, TypeOK, Start
<1>2. Len(free_list) = 0 /\ live = {} /\ taken = {} /\ brk = Start
  BY DEF Init
<1>3. Covered(free_list) = {} /\ Space(Used) = {}
  BY <1>2 DEF Covered, Part, Space, Used
<1>4. Start .. brk - 1 = {}
  BY <1>2, LibcMallocAssumption DEF Start
<1>5. Wanted /\ Moving
  BY DEF Init, Wanted, Moving
<1>6. Sorted(free_list)
  BY <1>2 DEF Sorted
<1>7. Apart
  BY <1>2 DEF Apart, Used
<1>8. Filled
  BY <1>3, <1>4 DEF Filled
<1> QED BY <1>1, <1>5, <1>6, <1>7, <1>8 DEF Inv

\* The step of each operation keeps the invariant.
LEMMA NextInv == Inv /\ [Next]_vars => Inv'
<1> SUFFICES ASSUME Inv, [Next]_vars PROVE Inv'
  OBVIOUS
<1>1. /\ TypeOK /\ Sorted(free_list) /\ Apart /\ Filled /\ Wanted /\ Moving
      /\ free_list \in Seq(Block) /\ live \subseteq Block
      /\ want \in Nat /\ brk \in Nat
      /\ Start \in Nat /\ Limit \in Nat /\ Start <= brk /\ brk < Limit
      /\ \A b \in Block : b.size \in Nat
      /\ \A n \in Sizes : n \in Nat /\ n # 0 /\ n <= Word - (Limit - PageUnits) - 1
  BY LibcMallocAssumption DEF Inv, TypeOK, Start, Block
<1>2. ASSUME UNCHANGED <<free_list, live, taken, brk>>
      PROVE  Sorted(free_list)' /\ Apart' /\ Filled'
  BY <1>1, <1>2 DEF Sorted, Apart, Filled, Covered, Part, Space, Used, Start
<1>3. ASSUME NEW n \in Sizes, Malloc(n)
      PROVE  Inv'
  <2>1. TypeOK' /\ Wanted' /\ Moving'
    BY <1>1, <1>3 DEF Malloc, TypeOK, Wanted, Moving
  <2>2. Sorted(free_list)' /\ Apart' /\ Filled'
    BY <1>2, <1>3 DEF Malloc
  <2> QED BY <2>1, <2>2 DEF Inv
<1>4. ASSUME Found
      PROVE  Inv'
  <2>1. PICK b \in Block :
          /\ live' = live \cup {b} /\ b.size - want \in 0 .. 1
          /\ want \in Nat \ {0} /\ want' = 0
          /\ free_list' \in Seq(Block) /\ Sorted(free_list)'
          /\ Units(b) \cap Covered(free_list)' = {}
          /\ Covered(free_list) = Covered(free_list)' \cup Units(b)
          /\ \A c \in Used : Units(b) \cap Units(c) = {}
          /\ b \notin Used
    BY <1>4, FoundEffect
  <2>2. UNCHANGED <<brk, frames, taken, moving>>
    BY <1>4 DEF Found
  <2>3. TypeOK' /\ Wanted'
    BY <1>1, <1>4, <2>1, <2>2 DEF Found, TypeOK, Wanted
  <2>4. Moving'
    <3>1. pc' = IF moving = NULL THEN "idle" ELSE "copy"
      BY <1>4 DEF Found
    <3>2. moving # NULL => moving \in live /\ b.size > moving.size
      BY <1>1, <2>1 DEF Moving
    <3> QED BY <2>1, <2>2, <3>1, <3>2 DEF Moving
  <2>5. Used' = Used \cup {b}
    BY <2>1, <2>2 DEF Used
  <2>6. Apart'
    <3>1. \A c \in Used' : Units(c) \cap Covered(free_list)' = {}
      BY <1>1, <2>1, <2>5 DEF Apart
    <3>2. \A c, d \in Used' : c # d => Units(c) \cap Units(d) = {}
      BY <1>1, <2>1, <2>5 DEF Apart
    <3>3. live' \cap taken' = {}
      BY <1>1, <2>1, <2>2 DEF Apart, Used
    <3> QED BY <3>1, <3>2, <3>3 DEF Apart
  <2>7. Filled'
    <3>1. Space(Used)' = Space(Used) \cup Units(b)
      BY <2>5 DEF Space
    <3> QED BY <1>1, <2>1, <2>2, <3>1 DEF Filled, Start
  <2> QED BY <2>1, <2>3, <2>4, <2>6, <2>7 DEF Inv
<1>5. ASSUME NotFound
      PROVE  Inv'
  <2>1. \A i \in 1 .. Len(free_list) : free_list[i].size < want
    BY <1>1, <1>5, FirstFits DEF NotFound
  <2>2. TypeOK' /\ Wanted' /\ Moving'
    BY <1>1, <1>5, <2>1 DEF NotFound, TypeOK, Wanted, Moving
  <2>3. Sorted(free_list)' /\ Apart' /\ Filled'
    BY <1>2, <1>5 DEF NotFound
  <2> QED BY <2>2, <2>3 DEF Inv
<1>6. ASSUME Extend
      PROVE  Inv'
  <2> DEFINE b == Chunk(want)
             n == Need(want)
  <2>1. /\ n \in Nat /\ n >= PageUnits /\ n <= Word - (Limit - PageUnits)
        /\ PageUnits > 1 /\ PageUnits \in Nat
    <3>1. want \in Sizes
      BY <1>1, <1>6 DEF Extend, Wanted, TypeOK
    <3> QED BY <1>1, <3>1, LibcMallocAssumption DEF Need
  <2>2. /\ MoveBreak(n) /\ free_list' = Add(free_list, b) /\ pc = "sbrk" /\ pc' = "search"
        /\ UNCHANGED <<live, taken, want, moving>>
    BY <1>6 DEF Extend
  <2>3. b = [addr |-> brk, size |-> n - 1]
    BY DEF Chunk
  <2> HIDE DEF n, b
  <2>4. brk' = brk + n /\ brk' \in Start .. Limit - 1 /\ frames' \in 0 .. MaxFrames
    BY <1>1, <2>1, <2>2, BreakMoves
  <2>5. b \in Block /\ Units(b) = brk .. brk' - 1
    BY <1>1, <2>1, <2>3, <2>4 DEF Block, Units, After
  <2>6. /\ Units(b) \cap Covered(free_list) = {} /\ Units(b) \cap Space(Used) = {}
        /\ Used' = Used
    <3>1. (Start .. brk - 1) \cap (brk .. brk' - 1) = {}
      BY <1>1
    <3>2. Covered(free_list) \cup Space(Used) = Start .. brk - 1
      BY <1>1 DEF Filled
    <3>3. Used' = Used
      BY <2>2 DEF Used
    <3> QED BY <2>5, <3>1, <3>2, <3>3
  <2>7. /\ \A c \in Used' : Units(b) \cap Units(c) = {}
        /\ Used' \subseteq Used /\ live' \cap taken' = {}
    BY <1>1, <2>2, <2>6 DEF Space, Apart
  <2>8. /\ free_list' \in Seq(Block) /\ Sorted(free_list)' /\ Apart'
        /\ Covered(free_list)' = Covered(free_list) \cup Units(b)
    BY <2>2, <2>5, <2>6, <2>7, AddKeeps
  <2>9. TypeOK' /\ Wanted' /\ Moving'
    BY <1>1, <2>2, <2>4, <2>8 DEF TypeOK, Wanted, Moving
  <2>10. Filled'
    <3>1. Start .. brk' - 1 = (Start .. brk - 1) \cup (brk .. brk' - 1)
      BY <1>1, <2>1, <2>4 DEF TypeOK, Start
    <3>2. Space(Used)' = Space(Used)
      BY <2>6 DEF Space
    <3> QED BY <1>1, <2>5, <2>8, <3>1, <3>2 DEF Filled, Start
  <2> QED BY <2>8, <2>9, <2>10 DEF Inv
<1>7. ASSUME NoMemory
      PROVE  Inv'
  <2>1. brk' = brk /\ frames' \in 0 .. MaxFrames
    BY <1>1, <1>7, BreakFails DEF NoMemory
  <2>2. TypeOK' /\ Wanted' /\ Moving'
    BY <1>1, <1>7, <2>1 DEF NoMemory, GiveUp, TypeOK, Wanted, Moving
  <2>3. Sorted(free_list)' /\ Apart' /\ Filled'
    BY <1>2, <1>7, <2>1 DEF NoMemory
  <2> QED BY <2>2, <2>3 DEF Inv
<1>8. ASSUME NEW b \in live, Free(b)
      PROVE  Inv'
  <2>1. free_list' \in Seq(Block) /\ Sorted(free_list)' /\ Apart' /\ Filled'
    BY <1>8, ReleaseEffect DEF Free
  <2>2. TypeOK' /\ Wanted' /\ Moving'
    BY <1>1, <1>8, <2>1 DEF Free, Release, TypeOK, Wanted, Moving
  <2> QED BY <2>1, <2>2 DEF Inv
<1>9. ASSUME NEW b \in live, NEW n \in Sizes, Realloc(b, n)
      PROVE  Inv'
  <2>1. b \in Block /\ b # NULL
    BY <1>1 DEF Block, NULL
  <2>2. TypeOK' /\ Wanted' /\ Moving'
    BY <1>1, <1>9, <2>1 DEF Realloc, TypeOK, Wanted, Moving
  <2>3. Sorted(free_list)' /\ Apart' /\ Filled'
    BY <1>2, <1>9 DEF Realloc
  <2> QED BY <2>2, <2>3 DEF Inv
<1>10. ASSUME Moved
       PROVE  Inv'
  <2>1. /\ moving \in live /\ Release(moving) /\ moving' = NULL /\ pc' = "idle" /\ pc = "copy"
        /\ UNCHANGED <<brk, frames, taken, want>>
    BY <1>1, <1>10 DEF Moved, Moving
  <2>2. free_list' \in Seq(Block) /\ Sorted(free_list)' /\ Apart' /\ Filled'
    BY <2>1, ReleaseEffect
  <2>3. TypeOK' /\ Wanted' /\ Moving'
    BY <1>1, <2>1, <2>2 DEF Release, TypeOK, Wanted, Moving
  <2> QED BY <2>2, <2>3 DEF Inv
<1>11. ASSUME NEW n \in Sizes, OwnSbrk(n)
       PROVE  Inv'
  <2> DEFINE b == [addr |-> brk, size |-> n - 1]
  <2>1. /\ MoveBreak(n) /\ taken' = taken \cup {b}
        /\ UNCHANGED <<free_list, live, pc, want, moving>>
    BY <1>11 DEF OwnSbrk
  <2>2. brk' = brk + n /\ brk' \in Start .. Limit - 1 /\ frames' \in 0 .. MaxFrames
    <3>1. n \in Nat /\ n <= Word - (Limit - PageUnits)
      BY <1>1, LibcMallocAssumption
    <3> QED BY <1>1, <2>1, <3>1, BreakMoves
  <2>3. b \in [addr : Nat, size : Nat] /\ Units(b) = brk .. brk' - 1 /\ brk \in Units(b)
    BY <1>1, <2>2 DEF Units, After
  <2> HIDE DEF b
  <2>4. /\ Units(b) \cap Covered(free_list) = {} /\ Units(b) \cap Space(Used) = {}
        /\ Used' = Used \cup {b}
    <3>1. (Start .. brk - 1) \cap (brk .. brk' - 1) = {}
      BY <1>1
    <3>2. Covered(free_list) \cup Space(Used) = Start .. brk - 1
      BY <1>1 DEF Filled
    <3>3. Used' = Used \cup {b}
      BY <2>1 DEF Used
    <3> QED BY <2>3, <3>1, <3>2, <3>3
  <2>5. \A c \in Used : Units(b) \cap Units(c) = {} /\ b # c
    BY <2>3, <2>4 DEF Space
  <2>6. TypeOK' /\ Wanted' /\ Moving'
    BY <1>1, <2>1, <2>2, <2>3 DEF TypeOK, Wanted, Moving
  <2>7. Covered(free_list)' = Covered(free_list) /\ Sorted(free_list)'
    BY <1>1, <2>1 DEF Covered, Part, Sorted
  <2>8. Apart'
    <3>1. \A c \in Used' : Units(c) \cap Covered(free_list)' = {}
      BY <1>1, <2>4, <2>7 DEF Apart
    <3>2. \A c, d \in Used' : c # d => Units(c) \cap Units(d) = {}
      BY <1>1, <2>4, <2>5 DEF Apart
    <3>3. live' \cap taken' = {}
      BY <1>1, <2>1, <2>5 DEF Apart, Used
    <3> QED BY <3>1, <3>2, <3>3 DEF Apart
  <2>9. Filled'
    <3>1. Start .. brk' - 1 = (Start .. brk - 1) \cup (brk .. brk' - 1)
      <4>1. n \in Nat /\ brk' \in Int
        BY <1>1, <2>2
      <4> QED BY <1>1, <2>2, <4>1
    <3>2. Space(Used)' = Space(Used) \cup Units(b)
      BY <2>4 DEF Space
    <3> QED BY <1>1, <2>3, <2>7, <3>1, <3>2 DEF Filled, Start
  <2> QED BY <2>6, <2>7, <2>8, <2>9 DEF Inv
<1>12. ASSUME NEW b \in taken, OwnSbrkBack(b)
       PROVE  Inv'
  <2>1. /\ After(b) = brk /\ brk' = b.addr /\ taken' = taken \ {b}
        /\ UNCHANGED <<frames, free_list, live, pc, want, moving>>
    BY <1>12 DEF OwnSbrkBack
  <2>2. b \in [addr : Nat, size : Nat] /\ Units(b) = brk' .. brk - 1 /\ b.addr \in Units(b)
    BY <1>1, <2>1 DEF TypeOK, Units, After
  <2>3. Used' = Used \ {b} /\ b \in Used
    BY <1>1, <2>1 DEF Used, Apart
  <2>4. Units(b) \subseteq Start .. brk - 1
    BY <1>1, <2>3 DEF Filled, Space
  <2>5. brk' \in Start .. Limit - 1
    <3>1. b.addr \in Start .. brk - 1
      BY <2>2, <2>4
    <3> QED BY <1>1, <2>1, <3>1
  <2>6. TypeOK' /\ Wanted' /\ Moving'
    BY <1>1, <2>1, <2>5 DEF TypeOK, Wanted, Moving
  <2>7. Covered(free_list)' = Covered(free_list) /\ Sorted(free_list)'
    BY <1>1, <2>1 DEF Covered, Part, Sorted
  <2>8. Apart'
    BY <1>1, <2>1, <2>3, <2>7 DEF Apart
  <2>9. Filled'
    <3>1. /\ Units(b) \cap Covered(free_list) = {}
          /\ \A c \in Used' : Units(b) \cap Units(c) = {}
      BY <1>1, <2>3 DEF Apart
    <3>2. Space(Used) = Space(Used)' \cup Units(b) /\ Space(Used)' \cap Units(b) = {}
      BY <2>3, <3>1 DEF Space
    <3>3. Start .. brk' - 1 = (Start .. brk - 1) \ (brk' .. brk - 1)
      BY <1>1, <2>5, <2>2, <2>4 DEF TypeOK, Start
    <3> QED BY <1>1, <2>2, <2>7, <3>1, <3>2, <3>3 DEF Filled, Start
  <2> QED BY <2>6, <2>7, <2>8, <2>9 DEF Inv
<1>13. ASSUME NEW n \in Sizes, OwnSbrkFails(n)
       PROVE  Inv'
  <2>1. brk' = brk /\ frames' \in 0 .. MaxFrames
    BY <1>1, <1>13, BreakFails DEF OwnSbrkFails
  <2>2. TypeOK' /\ Wanted' /\ Moving'
    BY <1>1, <1>13, <2>1 DEF OwnSbrkFails, TypeOK, Wanted, Moving
  <2>3. Sorted(free_list)' /\ Apart' /\ Filled'
    BY <1>2, <1>13, <2>1 DEF OwnSbrkFails
  <2> QED BY <2>2, <2>3 DEF Inv
<1>14. ASSUME UNCHANGED vars
       PROVE  Inv'
  <2>1. TypeOK' /\ Wanted' /\ Moving'
    BY <1>1, <1>14 DEF vars, TypeOK, Wanted, Moving
  <2>2. Sorted(free_list)' /\ Apart' /\ Filled'
    BY <1>2, <1>14 DEF vars
  <2> QED BY <2>1, <2>2 DEF Inv
<1> QED
  BY <1>3, <1>4, <1>5, <1>6, <1>7, <1>8, <1>9, <1>10, <1>11, <1>12, <1>13, <1>14
  DEF Next, Library, ReallocInPlace

\* The invariant holds in every state of the library.
THEOREM Invariance == Spec => []Inv
<1> QED BY InitInv, NextInv, PTL DEF Spec

-----------------------------------------------------------------------------
(* What the library promises *)

\* List, blocks in use and the program's own memory tile the heap up to the
\* break, and no two blocks of the list could be merged.
LEMMA InvHeapSound == Inv => HeapSound
<1> SUFFICES ASSUME Inv PROVE HeapSound
  OBVIOUS
<1>1. /\ TypeOK /\ Sorted(free_list) /\ Apart /\ Filled
      /\ free_list \in Seq(Block) /\ live \subseteq Block
      /\ taken \subseteq [addr : Nat, size : Nat]
  BY DEF Inv, TypeOK
<1>2. Len(free_list) \in Nat /\ \A i \in 1 .. Len(free_list) : free_list[i] \in Block
  BY <1>1, LenProperties, ElementOfSeq
<1>3. \A b \in Block : b.addr \in Units(b)
  BY BlockUnits
<1>4. Coalesced
  BY <1>1, <1>2 DEF Sorted, Coalesced
<1>5. UNION {Units(b) : b \in FreeBlocks \cup live \cup taken} = Start .. brk - 1
  <2>1. UNION {Units(b) : b \in FreeBlocks \cup live \cup taken}
          = Covered(free_list) \cup Space(Used)
    BY DEF FreeBlocks, Covered, Part, Space, Used
  <2> QED BY <1>1, <2>1 DEF Filled
<1>6. ASSUME NEW b \in FreeBlocks, NEW c \in Used
      PROVE  Units(b) \cap Units(c) = {} /\ b # c
  <2>1. Units(b) \subseteq Covered(free_list) /\ b \in Block
    BY <1>2 DEF FreeBlocks, Covered, Part
  <2>2. Units(c) \cap Covered(free_list) = {} /\ b.addr \in Units(b)
    BY <1>1, <1>3, <2>1 DEF Apart
  <2> QED BY <2>1, <2>2
<1>7. ASSUME NEW b \in FreeBlocks, NEW c \in FreeBlocks, b # c
      PROVE  Units(b) \cap Units(c) = {}
  <2>1. PICK i \in 1 .. Len(free_list) : b = free_list[i]
    BY DEF FreeBlocks
  <2>2. PICK j \in 1 .. Len(free_list) : c = free_list[j]
    BY DEF FreeBlocks
  <2>3. i < j \/ j < i
    BY <1>7, <2>1, <2>2
  <2>4. After(b) < c.addr \/ After(c) < b.addr
    BY <1>1, <2>1, <2>2, <2>3 DEF Sorted
  <2>5. /\ b \in Block /\ c \in Block
        /\ b.addr \in Nat /\ After(b) \in Nat /\ c.addr \in Nat /\ After(c) \in Nat
    BY <1>2, <2>1, <2>2, BlockUnits
  <2> QED BY <2>4, <2>5, Disjoint
<1>8. \A b, c \in FreeBlocks \cup live \cup taken : b # c => Units(b) \cap Units(c) = {}
  BY <1>1, <1>6, <1>7 DEF Apart, Used
<1>9. FreeBlocks \cap live = {}
  BY <1>6 DEF Used
<1> QED BY <1>1, <1>4, <1>5, <1>8, <1>9 DEF HeapSound, Tiled

\* stdlib.c: in every state each unit up to the break is in one block, free, in use
\* or the program's own, and in one only, and what freelist_add could merge is
\* merged.
THEOREM HeapIsSound == Spec => []HeapSound
<1> QED BY Invariance, InvHeapSound, PTL

\* malloc: a request gets a new block, at most one unit larger than it asked for;
\* it is refused only when no block is large enough and the break cannot be moved.
THEOREM RequestsAnswered == Spec => Answered
<1> DEFINE A == want # 0 /\ want' = 0 =>
       \/ \E b \in live' : live' = live \cup {b} /\ b \notin live /\ b.size - want \in 0 .. 1
       \/ /\ live' = live
          /\ \A b \in FreeBlocks : b.size < want
          /\ ~SbrkWorks(Need(want))
<1>1. Inv /\ [Next]_vars => [A]_vars
  <2> SUFFICES ASSUME Inv, Next, want # 0, want' = 0
               PROVE  \/ \E b \in live' : /\ live' = live \cup {b} /\ b \notin live
                                          /\ b.size - want \in 0 .. 1
                      \/ /\ live' = live
                         /\ \A b \in FreeBlocks : b.size < want
                         /\ ~SbrkWorks(Need(want))
    OBVIOUS
  <2>1. CASE Found
    BY <2>1, FoundEffect DEF Used
  <2>2. CASE NoMemory
    <3>1. live' = live /\ ~SbrkWorks(Need(want)) /\ pc = "sbrk"
      BY <2>2 DEF NoMemory, BreakStays
    <3>2. \A b \in FreeBlocks : b.size < want
      BY <3>1 DEF Inv, Wanted, FreeBlocks
    <3> QED BY <3>1, <3>2
  <2>3. pc \in {"search", "sbrk"}
    BY DEF Inv, Wanted
  <2>4. ~(Extend \/ NotFound)
    BY DEF Extend, NotFound
  <2> QED
    BY <2>1, <2>2, <2>3, <2>4
    DEF Next, Library, Malloc, OwnSbrk, OwnSbrkFails, Realloc, ReallocInPlace, Free,
        OwnSbrkBack, Moved
<1> QED BY <1>1, Invariance, PTL DEF Spec, Answered, A

\* realloc (stdlib.c:150-155): the old block is the program's until there is a
\* larger one, and only then given back; when there is none it stays.
THEOREM ReallocLosesNothing == Spec => ReallocKeeps
<1> DEFINE A == moving # NULL =>
       /\ moving \in live
       /\ IF pc = "copy"
          THEN /\ live' = live \ {moving}
               /\ \E b \in live' : b.size > moving.size
          ELSE live \subseteq live'
<1>1. Inv /\ [Next]_vars => [A]_vars
  <2> SUFFICES ASSUME Inv, Next, moving # NULL
               PROVE  /\ moving \in live
                      /\ IF pc = "copy"
                         THEN /\ live' = live \ {moving}
                              /\ \E b \in live' : b.size > moving.size
                         ELSE live \subseteq live'
    OBVIOUS
  <2>1. moving \in live /\ pc # "idle" /\ live \subseteq Block
    BY DEF Inv, Moving, TypeOK
  <2>2. Library
    BY <2>1 DEF Next, Malloc, OwnSbrk, OwnSbrkFails, Realloc, ReallocInPlace, Free, OwnSbrkBack
  <2>3. CASE pc = "copy"
    <3>1. live' = live \ {moving}
      BY <2>2, <2>3 DEF Library, Found, NotFound, Extend, NoMemory, Moved, Release
    <3>2. PICK b \in live : b.size > moving.size
      BY <2>3 DEF Inv, Moving
    <3>3. b # moving
      BY <2>1, <3>2 DEF Block
    <3> QED BY <2>1, <2>3, <3>1, <3>2, <3>3
  <2>4. CASE pc # "copy"
    <3>1. live \subseteq live'
      BY <2>2, <2>4 DEF Library, Found, NotFound, Extend, NoMemory, Moved
    <3> QED BY <2>1, <2>4, <3>1
  <2> QED BY <2>3, <2>4
<1> QED BY <1>1, Invariance, PTL DEF Spec, ReallocKeeps, A

-----------------------------------------------------------------------------
(* The library implements the allocator *)

\* The payload of a block, as its owner sees it.
Payload(b) == [addr |-> b.addr + 1, size |-> b.size]

\* The owner's part of a block is part of it, and names the block.
LEMMA PayloadInside ==
  ASSUME NEW b \in Block
  PROVE  /\ Blocks!Payload(Payload(b)) \subseteq Units(b)
         /\ Payload(b).size = b.size
         /\ \A c \in Block : Payload(b) = Payload(c) => b = c
<1>1. Payload(b).addr = b.addr + 1 /\ Payload(b).size = b.size
  BY DEF Payload
<1>2. Blocks!Payload(Payload(b)) \subseteq Units(b)
  BY <1>1, BlockUnits DEF Blocks!Payload
<1>3. ASSUME NEW c \in Block, Payload(b) = Payload(c)
      PROVE  b = c
  <2>1. b.addr + 1 = c.addr + 1 /\ b.size = c.size
    BY <1>1, <1>3 DEF Payload
  <2> QED BY <2>1 DEF Block
<1> QED BY <1>1, <1>2, <1>3

\* Each step of the library is a step of the allocator, or invisible to callers.
LEMMA StepSimulates == Inv /\ [Next]_vars => [Blocks!Next]_(Blocks!vars)
<1> SUFFICES ASSUME Inv, [Next]_vars PROVE [Blocks!Next]_(Blocks!vars)
  OBVIOUS
<1>1. Owned = {Payload(b) : b \in live} /\ Owned' = {Payload(b) : b \in live'}
  BY DEF Owned, Payload
<1>2. live \subseteq Block /\ Wanted /\ Moving
  BY DEF Inv, TypeOK
<1>3. ASSUME UNCHANGED <<live, want>>
      PROVE  UNCHANGED Blocks!vars
  BY <1>1, <1>3 DEF Blocks!vars
<1>4. ASSUME NEW n \in Sizes, pc = "idle", want' = n, live' = live
      PROVE  Blocks!Next
  <2>1. want = 0 /\ Owned' = Owned
    BY <1>1, <1>2, <1>4 DEF Wanted
  <2> QED BY <1>4, <2>1 DEF Blocks!Next, Blocks!Ask
<1>5. ASSUME Found
      PROVE  Blocks!Next
  <2>1. PICK b \in Block :
          /\ live' = live \cup {b} /\ b.size - want \in 0 .. 1
          /\ want \in Nat \ {0} /\ want' = 0
          /\ \A c \in live : Units(b) \cap Units(c) = {}
    BY <1>5, FoundEffect DEF Used
  <2> DEFINE o == Payload(b)
  <2>2. o.size = b.size /\ b.size \in Nat /\ o.size >= want
    BY <2>1, PayloadInside, BlockUnits
  <2>3. Owned' = Owned \cup {o}
    BY <1>1, <2>1
  <2>4. \A c \in Owned : Blocks!Payload(o) \cap Blocks!Payload(c) = {}
    <3>1. ASSUME NEW d \in live
          PROVE  Blocks!Payload(o) \cap Blocks!Payload(Payload(d)) = {}
      <4>1. /\ Blocks!Payload(o) \subseteq Units(b)
            /\ Blocks!Payload(Payload(d)) \subseteq Units(d)
        BY <1>2, PayloadInside
      <4> QED BY <2>1, <4>1
    <3> QED BY <1>1, <3>1
  <2> HIDE DEF o
  <2> QED BY <2>1, <2>2, <2>3, <2>4 DEF Blocks!Next, Blocks!Grant
<1>6. ASSUME NoMemory
      PROVE  Blocks!Next
  <2>1. want # 0 /\ want' = 0 /\ live' = live
    BY <1>2, <1>6 DEF NoMemory, GiveUp, Wanted
  <2>2. Owned' = Owned
    BY <1>1, <2>1
  <2> QED BY <2>1, <2>2 DEF Blocks!Next, Blocks!Deny
<1>7. ASSUME NEW b \in live, Release(b), pc \in {"idle", "copy"}, want' = want
      PROVE  Blocks!Next
  <2>1. want = 0 /\ live' = live \ {b}
    BY <1>2, <1>7 DEF Release, Wanted
  <2>2. Payload(b) \in Owned
    BY <1>1
  <2>3. Owned' = Owned \ {Payload(b)}
    <3>1. \A c \in live : Payload(c) = Payload(b) <=> c = b
      BY <1>2, PayloadInside
    <3> QED BY <1>1, <2>1, <3>1
  <2> QED BY <1>7, <2>1, <2>2, <2>3 DEF Blocks!Next, Blocks!GiveBack
<1>8. ASSUME NEW n \in Sizes, Malloc(n)
      PROVE  Blocks!Next
  BY <1>4, <1>8 DEF Malloc
<1>9. ASSUME NEW b \in live, NEW n \in Sizes, Realloc(b, n)
      PROVE  Blocks!Next
  BY <1>4, <1>9 DEF Realloc
<1>10. ASSUME NEW b \in live, Free(b)
       PROVE  Blocks!Next
  BY <1>7, <1>10 DEF Free
<1>11. ASSUME Moved
       PROVE  Blocks!Next
  <2>1. moving \in live
    BY <1>2, <1>11 DEF Moved, Moving
  <2> QED BY <1>7, <1>11, <2>1 DEF Moved
<1>12. ASSUME UNCHANGED <<live, want>>
       PROVE  [Blocks!Next]_(Blocks!vars)
  BY <1>3, <1>12
<1>13. ASSUME NEW n, OwnSbrk(n) \/ OwnSbrkFails(n)
       PROVE  UNCHANGED <<live, want>>
  BY <1>13 DEF OwnSbrk, OwnSbrkFails
<1>14. ASSUME NEW b, OwnSbrkBack(b) \/ (\E n \in Sizes : ReallocInPlace(b, n))
       PROVE  UNCHANGED <<live, want>>
  BY <1>14 DEF OwnSbrkBack, ReallocInPlace, vars
<1>15. ASSUME NotFound \/ Extend \/ UNCHANGED vars
       PROVE  UNCHANGED <<live, want>>
  BY <1>15 DEF NotFound, Extend, vars
<1> QED
  BY <1>5, <1>6, <1>8, <1>9, <1>10, <1>11, <1>12, <1>13, <1>14, <1>15 DEF Next, Library

\* Every behaviour of the library is one of the allocator, that of the kernel
\* heap: what malloc gives out is nobody else's and large enough, and stays its
\* owner's until it is freed or has been copied.
THEOREM MallocImplementsAllocator == Spec => ImplementsAllocator
<1>1. Init => Blocks!Init
  BY DEF Init, Blocks!Init, Owned
<1> QED BY <1>1, StepSimulates, Invariance, PTL DEF Spec, ImplementsAllocator, Blocks!Spec
=============================================================================
