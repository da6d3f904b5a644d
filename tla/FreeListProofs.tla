--------------------------- MODULE FreeListProofs ---------------------------
(***************************************************************************)
(* What the operators of FreeList do to the memory a list covers, for      *)
(* every list in address order: freelist_add and the split of kmalloc and  *)
(* malloc keep the order, and add or remove exactly the units of the block *)
(* that is put back or given out.                                          *)
(***************************************************************************)
EXTENDS FreeList, TLAPS, SequenceTheorems, WellFoundedInduction

\* Blocks are in address order and no two of them touch, not only neighbours.
Sorted(list) ==
  \A i, j \in 1 .. Len(list) : i < j => After(list[i]) < list[j].addr

\* The units of the blocks from lo to hi of a list, and of all its blocks.
Part(list, lo, hi) == UNION {Units(list[i]) : i \in lo .. hi}
Covered(list) == Part(list, 1, Len(list))

\* The units of a set of blocks.
Space(blocks) == UNION {Units(b) : b \in blocks}

\* The list with the blocks between lo and hi replaced by m.
Spliced(list, lo, m, hi) ==
  SubSeq(list, 1, lo) \o <<m>> \o SubSeq(list, hi, Len(list))

-----------------------------------------------------------------------------
(* Blocks *)

\* A nonempty set of natural numbers has a least element.
LEMMA LeastNumber ==
  ASSUME NEW S \in SUBSET Nat, S # {}
  PROVE  \E x \in S : \A y \in S : x <= y
<1> DEFINE R == OpToRel(<, Nat)
<1>1. IsWellFoundedOn(R, Nat)
  BY NatLessThanWellFounded, Zenon DEF R
<1>2. \A x, y \in Nat : <<y, x>> \in R <=> y < x
  BY DEF OpToRel
<1> HIDE DEF R
<1>3. PICK x \in S : \A y \in S : ~(<<y, x>> \in R)
  BY <1>1, WFMin, Zenon
<1>4. \A y \in S : ~(y < x)
  BY <1>2, <1>3
<1> QED BY <1>4

\* A block covers its address, and the units up to the first one after it.
LEMMA BlockUnits ==
  ASSUME NEW b \in Block
  PROVE  /\ b.addr \in Nat /\ b.size \in Nat /\ b.size > 0
         /\ After(b) = b.addr + 1 + b.size /\ After(b) \in Nat
         /\ Units(b) = b.addr .. After(b) - 1
         /\ b.addr \in Units(b)
BY DEF Block, After, Units

\* Two blocks have no unit in common if and only if one comes after the other.
LEMMA Disjoint ==
  ASSUME NEW b \in Block, NEW c \in Block
  PROVE  Units(b) \cap Units(c) = {} <=> After(b) <= c.addr \/ After(c) <= b.addr
<1>1. /\ b.addr \in Nat /\ After(b) \in Nat /\ b.addr < After(b)
      /\ c.addr \in Nat /\ After(c) \in Nat /\ c.addr < After(c)
      /\ Units(b) = b.addr .. After(b) - 1 /\ Units(c) = c.addr .. After(c) - 1
      /\ b.addr \in Units(b) /\ c.addr \in Units(c)
  BY BlockUnits, SMT
<1>2. ASSUME After(b) <= c.addr \/ After(c) <= b.addr
      PROVE  Units(b) \cap Units(c) = {}
  BY <1>1, <1>2
<1>3. ASSUME ~(After(b) <= c.addr \/ After(c) <= b.addr)
      PROVE  b.addr \in Units(c) \/ c.addr \in Units(b)
  BY <1>1, <1>3
<1> QED BY <1>1, <1>2, <1>3

\* A block that ends where another begins becomes one with it.
LEMMA JoinedUnits ==
  ASSUME NEW b \in Block, NEW c \in Block, After(b) = c.addr
  PROVE  /\ Joined(b, c) \in Block
         /\ Joined(b, c).addr = b.addr /\ After(Joined(b, c)) = After(c)
         /\ Units(Joined(b, c)) = Units(b) \cup Units(c)
<1>1. /\ Joined(b, c).addr = b.addr
      /\ Joined(b, c).size = b.size + 1 + c.size
      /\ Joined(b, c) \in Block
  BY DEF Joined, Block
<1> QED BY <1>1 DEF Block, After, Units

-----------------------------------------------------------------------------
(* Lists *)

\* The units of a run of blocks are those of its two parts.
LEMMA PartSplit ==
  ASSUME NEW list, NEW lo \in Int, NEW mid \in Int, NEW rest \in Int, NEW hi \in Int,
         lo <= rest, mid <= hi, rest = mid + 1
  PROVE  Part(list, lo, hi) = Part(list, lo, mid) \cup Part(list, rest, hi)
<1>1. \A i \in Int : i \in lo .. hi <=> i \in lo .. mid \/ i \in rest .. hi
  OBVIOUS
<1> QED BY <1>1 DEF Part

\* The units of a run of one block are those of the block.
LEMMA PartOne ==
  ASSUME NEW list, NEW i \in Int
  PROVE  Part(list, i, i) = Units(list[i])
<1>1. i .. i = {i}
  OBVIOUS
<1> QED BY <1>1 DEF Part

\* What a spliced list consists of.
LEMMA SplicedList ==
  ASSUME NEW list \in Seq(Block), NEW m \in Block,
         NEW lo \in 0 .. Len(list), NEW hi \in lo + 1 .. Len(list) + 1
  PROVE  LET s == Spliced(list, lo, m, hi) IN
         /\ s \in Seq(Block)
         /\ Len(s) = lo + 1 + (Len(list) - hi + 1)
         /\ \A i \in 1 .. Len(s) :
              s[i] = IF i <= lo THEN list[i]
                     ELSE IF i = lo + 1 THEN m ELSE list[hi + (i - lo - 2)]
<1> DEFINE front == SubSeq(list, 1, lo)
           back  == SubSeq(list, hi, Len(list))
           s     == Spliced(list, lo, m, hi)
<1>1. Len(list) \in Nat /\ \A i \in 1 .. Len(list) : list[i] \in Block
  BY LenProperties, ElementOfSeq
<1>2. /\ front \in Seq(Block) /\ Len(front) = lo
      /\ \A i \in 1 .. lo : front[i] = list[i]
  <2>1. \A i \in 1 .. lo : list[i] \in Block
    BY <1>1
  <2> QED BY <1>1, <2>1, SubSeqProperties
<1>3. /\ back \in Seq(Block) /\ Len(back) = Len(list) - hi + 1
      /\ \A i \in 1 .. Len(list) - hi + 1 : back[i] = list[hi + i - 1]
  <2>1. \A i \in hi .. Len(list) : list[i] \in Block
    BY <1>1
  <2> QED BY <1>1, <2>1, SubSeqProperties
<1>4. <<m>> \in Seq(Block) /\ Len(<<m>>) = 1 /\ <<m>>[1] = m
  OBVIOUS
<1> HIDE DEF front, back
<1>5. /\ front \o <<m>> \in Seq(Block) /\ Len(front \o <<m>>) = lo + 1
      /\ \A i \in 1 .. lo + 1 : (front \o <<m>>)[i] = IF i <= lo THEN front[i] ELSE m
  <2>1. /\ front \o <<m>> \in Seq(Block)
        /\ Len(front \o <<m>>) = Len(front) + Len(<<m>>)
        /\ \A i \in 1 .. Len(front) + Len(<<m>>) :
             (front \o <<m>>)[i] = IF i <= Len(front) THEN front[i] ELSE <<m>>[i - Len(front)]
    BY <1>2, <1>4, ConcatProperties
  <2> QED BY <1>2, <1>4, <2>1
<1> DEFINE head == front \o <<m>>
<1> HIDE DEF head
<1>6. /\ s \in Seq(Block)
      /\ Len(s) = lo + 1 + (Len(list) - hi + 1)
      /\ \A i \in 1 .. Len(s) : s[i] = IF i <= lo + 1 THEN head[i] ELSE back[i - (lo + 1)]
  <2>1. s = head \o back
    BY DEF Spliced, head, front, back
  <2>2. head \in Seq(Block) /\ Len(head) = lo + 1
    BY <1>5 DEF head
  <2> HIDE DEF s
  <2>3. /\ head \o back \in Seq(Block)
        /\ Len(head \o back) = Len(head) + Len(back)
        /\ \A i \in 1 .. Len(head) + Len(back) :
             (head \o back)[i] = IF i <= Len(head) THEN head[i] ELSE back[i - Len(head)]
    BY <1>3, <2>2, ConcatProperties
  <2> QED BY <1>3, <2>1, <2>2, <2>3
<1>7. ASSUME NEW i \in 1 .. Len(s)
      PROVE  s[i] = IF i <= lo THEN list[i]
                    ELSE IF i = lo + 1 THEN m ELSE list[hi + (i - lo - 2)]
  <2> HIDE DEF s
  <2>1. CASE i <= lo
    BY <1>2, <1>5, <1>6, <2>1 DEF head
  <2>2. CASE i = lo + 1
    BY <1>5, <1>6, <2>2 DEF head
  <2>3. CASE i > lo + 1
    <3>1. i - (lo + 1) \in 1 .. Len(list) - hi + 1
      BY <1>1, <1>6, <2>3
    <3>2. s[i] = back[i - (lo + 1)]
      BY <1>6, <2>3
    <3>3. back[i - (lo + 1)] = list[hi + (i - (lo + 1)) - 1]
      BY <1>3, <3>1
    <3>4. hi + (i - (lo + 1)) - 1 = hi + (i - lo - 2)
      BY <1>1
    <3> QED BY <2>3, <3>2, <3>3, <3>4
  <2> QED BY <2>1, <2>2, <2>3
<1> QED BY <1>6, <1>7

\* A spliced list is in address order if its new block fits where it is put.
LEMMA SplicedSorted ==
  ASSUME NEW list \in Seq(Block), NEW m \in Block,
         NEW lo \in 0 .. Len(list), NEW hi \in lo + 1 .. Len(list) + 1,
         Sorted(list),
         \A i \in 1 .. lo : After(list[i]) < m.addr,
         \A i \in hi .. Len(list) : After(m) < list[i].addr
  PROVE  /\ Sorted(Spliced(list, lo, m, hi))
         /\ Covered(Spliced(list, lo, m, hi))
              = Part(list, 1, lo) \cup Units(m) \cup Part(list, hi, Len(list))
<1> DEFINE s == Spliced(list, lo, m, hi)
           old(i) == hi + (i - lo - 2)
<1>1. /\ Len(list) \in Nat
      /\ Len(s) = lo + 1 + (Len(list) - hi + 1) /\ Len(s) \in Nat
      /\ \A i \in 1 .. Len(s) :
           s[i] = IF i <= lo THEN list[i] ELSE IF i = lo + 1 THEN m ELSE list[old(i)]
  BY SplicedList, LenProperties
<1> HIDE DEF s
<1>2. ASSUME NEW i \in 1 .. Len(s), NEW j \in 1 .. Len(s), i < j
      PROVE  After(s[i]) < s[j].addr
  <2>1. CASE j <= lo
    <3>1. s[i] = list[i] /\ s[j] = list[j] /\ i \in 1 .. Len(list) /\ j \in 1 .. Len(list)
      BY <1>1, <1>2, <2>1
    <3> QED BY <1>2, <3>1 DEF Sorted
  <2>2. CASE j = lo + 1
    <3>1. s[i] = list[i] /\ s[j] = m /\ i \in 1 .. lo
      BY <1>1, <1>2, <2>2
    <3> QED BY <3>1
  <2>3. CASE j > lo + 1
    <3>1. s[j] = list[old(j)] /\ old(j) \in hi .. Len(list)
      BY <1>1, <2>3
    <3>2. CASE i = lo + 1
      BY <1>1, <3>1, <3>2
    <3>3. CASE i <= lo
      <4>1. s[i] = list[i] /\ i \in 1 .. Len(list) /\ old(j) \in 1 .. Len(list) /\ i < old(j)
        BY <1>1, <3>1, <3>3
      <4> QED BY <3>1, <4>1 DEF Sorted
    <3>4. CASE i > lo + 1
      <4>1. /\ s[i] = list[old(i)] /\ old(i) \in 1 .. Len(list)
            /\ old(j) \in 1 .. Len(list) /\ old(i) < old(j)
        BY <1>1, <1>2, <3>1, <3>4
      <4> QED BY <3>1, <4>1 DEF Sorted
    <3> QED BY <1>1, <3>2, <3>3, <3>4
  <2> QED BY <1>1, <2>1, <2>2, <2>3
<1>3. ASSUME NEW u
      PROVE  u \in Covered(s) <=>
               \/ \E i \in 1 .. lo : u \in Units(list[i])
               \/ u \in Units(m)
               \/ \E i \in hi .. Len(list) : u \in Units(list[i])
  <2>1. u \in Covered(s) <=> \E i \in 1 .. Len(s) : u \in Units(s[i])
    BY DEF Covered, Part
  <2>2. ASSUME NEW i \in 1 .. Len(s), u \in Units(s[i])
        PROVE  \/ \E k \in 1 .. lo : u \in Units(list[k])
               \/ u \in Units(m)
               \/ \E k \in hi .. Len(list) : u \in Units(list[k])
    <3>1. CASE i <= lo
      BY <1>1, <2>2, <3>1
    <3>2. CASE i = lo + 1
      BY <1>1, <2>2, <3>2
    <3>3. CASE i > lo + 1
      <4>1. s[i] = list[old(i)] /\ old(i) \in hi .. Len(list)
        BY <1>1, <3>3
      <4> QED BY <2>2, <4>1
    <3> QED BY <1>1, <3>1, <3>2, <3>3
  <2>3. ASSUME NEW k \in 1 .. lo, u \in Units(list[k])
        PROVE  \E i \in 1 .. Len(s) : u \in Units(s[i])
    <3>1. k \in 1 .. Len(s) /\ s[k] = list[k]
      BY <1>1
    <3> QED BY <2>3, <3>1
  <2>4. ASSUME u \in Units(m)
        PROVE  \E i \in 1 .. Len(s) : u \in Units(s[i])
    <3>1. lo + 1 \in 1 .. Len(s) /\ s[lo + 1] = m
      BY <1>1
    <3> QED BY <2>4, <3>1
  <2>5. ASSUME NEW k \in hi .. Len(list), u \in Units(list[k])
        PROVE  \E i \in 1 .. Len(s) : u \in Units(s[i])
    <3>1. k - hi + lo + 2 \in 1 .. Len(s) /\ old(k - hi + lo + 2) = k
          /\ k - hi + lo + 2 > lo + 1
      BY <1>1
    <3>2. s[k - hi + lo + 2] = list[k]
      BY <1>1, <3>1
    <3> QED BY <2>5, <3>1, <3>2
  <2> QED BY <2>1, <2>2, <2>3, <2>4, <2>5
<1>4. Sorted(s)
  BY <1>2 DEF Sorted
<1>5. Covered(s) = Part(list, 1, lo) \cup Units(m) \cup Part(list, hi, Len(list))
  <2>1. \A p, q, u : u \in Part(list, p, q) <=> \E i \in p .. q : u \in Units(list[i])
    BY DEF Part
  <2> QED BY <1>3, <2>1
<1> QED BY <1>4, <1>5 DEF s

\* The walk of freelist_add ends between the blocks below an address and the others.
LEMMA AheadPlace ==
  ASSUME NEW list \in Seq(Block), NEW a \in Nat, Sorted(list)
  PROVE  /\ Ahead(list, a) \in 0 .. Len(list)
         /\ \A i \in 1 .. Ahead(list, a) : list[i].addr < a
         /\ \A i \in Ahead(list, a) + 1 .. Len(list) : a <= list[i].addr
<1> DEFINE Stops(k) == /\ \A i \in 1 .. k : list[i].addr < a
                       /\ k < Len(list) => list[k + 1].addr >= a
           above == {i \in 1 .. Len(list) : list[i].addr >= a}
<1>1. Len(list) \in Nat /\ \A i \in 1 .. Len(list) : list[i] \in Block
  BY LenProperties, ElementOfSeq
<1>2. \A i \in 1 .. Len(list) : list[i].addr \in Nat /\ After(list[i]) > list[i].addr
  BY <1>1, BlockUnits
<1>3. \E k \in 0 .. Len(list) : Stops(k)
  <2>1. CASE above = {}
    <3>1. Stops(Len(list))
      BY <1>1, <1>2, <2>1
    <3> QED BY <1>1, <3>1
  <2>2. CASE above # {}
    <3>1. PICK n \in above : \A i \in above : n <= i
      <4>1. above \in SUBSET Nat
        OBVIOUS
      <4> HIDE DEF above
      <4> QED BY <2>2, <4>1, LeastNumber
    <3>2. Stops(n - 1)
      BY <1>1, <1>2, <3>1
    <3>3. n - 1 \in 0 .. Len(list)
      BY <1>1, <3>1
    <3> QED BY <3>2, <3>3
  <2> QED BY <2>1, <2>2
<1>4. Ahead(list, a) \in 0 .. Len(list) /\ Stops(Ahead(list, a))
  <2>1. Ahead(list, a) = CHOOSE k \in 0 .. Len(list) : Stops(k)
    BY DEF Ahead
  <2> HIDE DEF Stops
  <2> QED BY <1>3, <2>1
<1>5. ASSUME NEW i \in Ahead(list, a) + 1 .. Len(list)
      PROVE  a <= list[i].addr
  <2>1. /\ Ahead(list, a) + 1 \in 1 .. Len(list) /\ i \in 1 .. Len(list)
        /\ a <= list[Ahead(list, a) + 1].addr
    BY <1>1, <1>2, <1>4
  <2>2. CASE i = Ahead(list, a) + 1
    BY <2>1, <2>2
  <2>3. CASE i > Ahead(list, a) + 1
    <3>1. After(list[Ahead(list, a) + 1]) < list[i].addr
      BY <1>4, <2>1, <2>3 DEF Sorted
    <3>2. /\ list[Ahead(list, a) + 1].addr \in Nat /\ list[i].addr \in Nat
          /\ After(list[Ahead(list, a) + 1]) \in Nat
          /\ After(list[Ahead(list, a) + 1]) > list[Ahead(list, a) + 1].addr
      <4>1. list[Ahead(list, a) + 1] \in Block /\ list[i] \in Block
        BY <1>1, <2>1
      <4> HIDE DEF Stops
      <4> QED BY <4>1, BlockUnits
    <3> QED BY <2>1, <3>1, <3>2
  <2> QED BY <1>4, <2>2, <2>3
<1> QED BY <1>4, <1>5

\* freelist_add: a block that has no unit in common with the list is inserted or
\* merged; the list stays in address order and gets the units of the block.
LEMMA AddEffect ==
  ASSUME NEW list \in Seq(Block), NEW b \in Block, Sorted(list),
         Units(b) \cap Covered(list) = {}
  PROVE  /\ Add(list, b) \in Seq(Block)
         /\ Sorted(Add(list, b))
         /\ Covered(Add(list, b)) = Covered(list) \cup Units(b)
<1> DEFINE k    == Ahead(list, b.addr)
           next == k < Len(list) /\ After(b) = list[k + 1].addr
           prev == k > 0 /\ After(list[k]) = b.addr
           mine == IF next THEN Joined(b, list[k + 1]) ELSE b
           m    == IF prev THEN Joined(list[k], mine) ELSE mine
           lo   == IF prev THEN k - 1 ELSE k
           hi   == IF next THEN k + 2 ELSE k + 1
<1>1. /\ Len(list) \in Nat
      /\ \A i \in 1 .. Len(list) : list[i] \in Block
      /\ \A i \in 1 .. Len(list) : list[i].addr \in Nat /\ After(list[i]) \in Nat
                                   /\ list[i].addr < After(list[i])
      /\ b.addr \in Nat /\ After(b) \in Nat /\ b.addr < After(b)
  BY LenProperties, ElementOfSeq, BlockUnits
<1>2. /\ k \in 0 .. Len(list)
      /\ \A i \in 1 .. k : list[i].addr < b.addr
      /\ \A i \in k + 1 .. Len(list) : b.addr <= list[i].addr
  BY <1>1, AheadPlace
<1>3. \A p, q, u : u \in Part(list, p, q) <=> \E i \in p .. q : u \in Units(list[i])
  BY DEF Part
<1>4. ASSUME NEW i \in 1 .. Len(list)
      PROVE  After(list[i]) <= b.addr \/ After(b) <= list[i].addr
  <2>1. Units(list[i]) \cap Units(b) = {}
    BY <1>3 DEF Covered
  <2> QED BY <1>1, <2>1, Disjoint
<1>5. /\ \A i \in 1 .. k : After(list[i]) <= b.addr
      /\ \A i \in k + 1 .. Len(list) : After(b) <= list[i].addr
  <2> HIDE DEF k
  <2>1. ASSUME NEW i \in 1 .. k
        PROVE  After(list[i]) <= b.addr
    <3>1. i \in 1 .. Len(list) /\ list[i].addr < b.addr
      BY <1>1, <1>2
    <3> QED BY <1>1, <1>4, <3>1
  <2>2. ASSUME NEW i \in k + 1 .. Len(list)
        PROVE  After(b) <= list[i].addr
    <3>1. i \in 1 .. Len(list) /\ b.addr <= list[i].addr
      BY <1>1, <1>2
    <3> QED BY <1>1, <1>4, <3>1
  <2> QED BY <2>1, <2>2
<1>6. \A i, j \in 1 .. Len(list) : i < j => After(list[i]) < list[j].addr
  BY DEF Sorted
<1> HIDE DEF k
<1>7. /\ mine \in Block /\ mine.addr = b.addr
      /\ hi \in k + 1 .. Len(list) + 1
      /\ \A i \in hi .. Len(list) : After(mine) < list[i].addr
      /\ Units(mine) \cup Part(list, hi, Len(list))
           = Units(b) \cup Part(list, k + 1, Len(list))
  <2>1. CASE next
    <3>1. k + 1 \in 1 .. Len(list) /\ list[k + 1] \in Block /\ After(b) = list[k + 1].addr
      BY <1>1, <1>2, <2>1
    <3>2. /\ mine = Joined(b, list[k + 1]) /\ hi = k + 2
          /\ mine \in Block /\ mine.addr = b.addr /\ After(mine) = After(list[k + 1])
          /\ Units(mine) = Units(b) \cup Units(list[k + 1])
      BY <2>1, <3>1, JoinedUnits
    <3> HIDE DEF mine, hi
    <3>3. ASSUME NEW i \in hi .. Len(list)
          PROVE  After(mine) < list[i].addr
      <4>1. k + 1 \in 1 .. Len(list) /\ i \in 1 .. Len(list) /\ k + 1 < i
        BY <1>1, <1>2, <3>1, <3>2
      <4>2. After(list[k + 1]) < list[i].addr
        BY <1>6, <4>1
      <4> QED BY <3>2, <4>2
    <3>4. Part(list, k + 1, Len(list)) = Units(list[k + 1]) \cup Part(list, hi, Len(list))
      <4> DEFINE j == k + 1
      <4>1. j \in Int /\ hi \in Int /\ Len(list) \in Int /\ j <= Len(list) /\ hi = j + 1
        BY <1>1, <1>2, <3>1, <3>2
      <4> HIDE DEF j
      <4>2. Part(list, j, Len(list)) = Part(list, j, j) \cup Part(list, hi, Len(list))
        BY <4>1, PartSplit
      <4>3. Part(list, j, j) = Units(list[j])
        BY <4>1, PartOne
      <4> QED BY <4>2, <4>3 DEF j
    <3> QED BY <1>1, <1>2, <3>1, <3>2, <3>3, <3>4
  <2>2. CASE ~next
    <3>1. mine = b /\ hi = k + 1
      BY <2>2
    <3>2. ASSUME NEW i \in k + 1 .. Len(list)
          PROVE  After(b) < list[i].addr
      <4>1. /\ k + 1 \in 1 .. Len(list) /\ i \in 1 .. Len(list) /\ k < Len(list)
            /\ After(b) <= list[k + 1].addr /\ After(b) # list[k + 1].addr
        BY <1>1, <1>2, <1>5, <2>2
      <4>2. CASE i = k + 1
        BY <1>1, <4>1, <4>2
      <4>3. CASE i > k + 1
        BY <1>1, <1>6, <4>1, <4>3
      <4> QED BY <1>2, <4>2, <4>3
    <3> HIDE DEF mine, hi
    <3> QED BY <1>1, <1>2, <3>1, <3>2
  <2> QED BY <2>1, <2>2
<1> HIDE DEF mine, hi
<1>8. /\ m \in Block /\ After(m) = After(mine)
      /\ lo \in 0 .. k
      /\ \A i \in 1 .. lo : After(list[i]) < m.addr
      /\ Units(m) \cup Part(list, 1, lo) = Units(mine) \cup Part(list, 1, k)
  <2>1. CASE prev
    <3>1. k \in 1 .. Len(list) /\ list[k] \in Block /\ After(list[k]) = mine.addr
      BY <1>1, <1>2, <1>7, <2>1
    <3>2. /\ m = Joined(list[k], mine) /\ lo = k - 1
          /\ m \in Block /\ m.addr = list[k].addr /\ After(m) = After(mine)
          /\ Units(m) = Units(list[k]) \cup Units(mine)
      BY <1>7, <2>1, <3>1, JoinedUnits
    <3> HIDE DEF m, lo
    <3>3. \A i \in 1 .. lo : After(list[i]) < m.addr
      BY <1>1, <1>2, <1>6, <3>1, <3>2
    <3>4. Part(list, 1, k) = Units(list[k]) \cup Part(list, 1, lo)
      <4>1. k \in Int /\ lo \in Int /\ 1 <= k /\ k = lo + 1 /\ lo <= k
        BY <1>1, <1>2, <3>1, <3>2
      <4>2. Part(list, 1, k) = Part(list, 1, lo) \cup Part(list, k, k)
        BY <4>1, PartSplit
      <4>3. Part(list, k, k) = Units(list[k])
        BY <4>1, PartOne
      <4> QED BY <4>2, <4>3
    <3> QED BY <1>1, <1>2, <3>1, <3>2, <3>3, <3>4
  <2>2. CASE ~prev
    <3>1. m = mine /\ lo = k
      BY <2>2
    <3>2. ASSUME NEW i \in 1 .. k
          PROVE  After(list[i]) < b.addr
      <4>1. /\ k \in 1 .. Len(list) /\ i \in 1 .. Len(list) /\ k > 0
            /\ After(list[k]) <= b.addr /\ After(list[k]) # b.addr
        BY <1>1, <1>2, <1>5, <2>2
      <4>2. CASE i = k
        BY <1>1, <4>1, <4>2
      <4>3. CASE i < k
        BY <1>1, <1>6, <4>1, <4>3
      <4> QED BY <1>2, <4>2, <4>3
    <3> HIDE DEF m, lo
    <3> QED BY <1>1, <1>2, <1>7, <3>1, <3>2
  <2> QED BY <2>1, <2>2
<1>9. Add(list, b) = Spliced(list, lo, m, hi)
  <2>1. Add(list, b)
          = IF prev THEN SubSeq(list, 1, k - 1) \o <<Joined(list[k], mine)>>
                           \o SubSeq(list, hi, Len(list))
            ELSE SubSeq(list, 1, k) \o <<mine>> \o SubSeq(list, hi, Len(list))
    BY DEF Add, k, mine, hi
  <2> QED BY <2>1 DEF Spliced
<1> HIDE DEF m, lo
<1>10. lo \in 0 .. Len(list) /\ hi \in lo + 1 .. Len(list) + 1
  BY <1>1, <1>2, <1>7, <1>8
<1>11. /\ Spliced(list, lo, m, hi) \in Seq(Block)
       /\ Sorted(Spliced(list, lo, m, hi))
       /\ Covered(Spliced(list, lo, m, hi))
            = Part(list, 1, lo) \cup Units(m) \cup Part(list, hi, Len(list))
  <2>1. \A i \in hi .. Len(list) : After(m) < list[i].addr
    BY <1>7, <1>8
  <2>2. m \in Block /\ \A i \in 1 .. lo : After(list[i]) < m.addr
    BY <1>8
  <2>3. Spliced(list, lo, m, hi) \in Seq(Block)
    BY <1>10, <2>2, SplicedList
  <2> QED BY <1>10, <2>1, <2>2, <2>3, SplicedSorted
<1>12. Covered(list) = Part(list, 1, k) \cup Part(list, k + 1, Len(list))
  <2>1. k \in Int /\ Len(list) \in Int /\ 1 <= k + 1 /\ k <= Len(list)
    BY <1>1, <1>2
  <2>2. Part(list, 1, Len(list)) = Part(list, 1, k) \cup Part(list, k + 1, Len(list))
    BY <2>1, PartSplit
  <2> QED BY <2>2 DEF Covered
<1> QED BY <1>7, <1>8, <1>9, <1>11, <1>12

-----------------------------------------------------------------------------
(* The block given out *)

\* A block that is split becomes two, which follow each other.
LEMMA SplitUnits ==
  ASSUME NEW b \in Block, NEW n \in Nat \ {0}, Splits(b, n)
  PROVE  LET t == Taken(b, n)
             r == Remainder(b, n)
         IN  /\ t \in Block /\ t.addr = b.addr /\ t.size = n
             /\ r \in Block /\ r.addr = b.addr + 1 + n /\ After(r) = After(b)
             /\ Units(b) = Units(t) \cup Units(r) /\ Units(t) \cap Units(r) = {}
<1> DEFINE t == Taken(b, n)
           r == Remainder(b, n)
<1>1. b.addr \in Nat /\ b.size \in Nat /\ b.size >= n + 2
  BY DEF Block, Splits
<1>2. t \in Block /\ t.addr = b.addr /\ t.size = n
  BY DEF Taken, Block
<1>3. r \in Block /\ r.addr = b.addr + 1 + n /\ r.size = b.size - n - 1
  BY <1>1 DEF Remainder, Block
<1> HIDE DEF t, r
<1>4. After(t) = r.addr /\ After(r) = After(b)
  BY <1>1, <1>2, <1>3 DEF After
<1>5. Units(b) = Units(t) \cup Units(r) /\ Units(t) \cap Units(r) = {}
  BY <1>1, <1>2, <1>3 DEF After, Units
<1> QED BY <1>2, <1>3, <1>4, <1>5 DEF t, r

\* A list without its block i: what is left is in address order, and covers the
\* rest.
LEMMA Removed ==
  ASSUME NEW list \in Seq(Block), NEW i \in 1 .. Len(list), Sorted(list)
  PROVE  LET s == SubSeq(list, 1, i - 1) \o <<>> \o SubSeq(list, i + 1, Len(list)) IN
         /\ s \in Seq(Block)
         /\ Sorted(s)
         /\ Covered(s) = Part(list, 1, i - 1) \cup Part(list, i + 1, Len(list))
<1> DEFINE front == SubSeq(list, 1, i - 1)
           back  == SubSeq(list, i + 1, Len(list))
           s     == front \o <<>> \o back
           old(j) == IF j < i THEN j ELSE j + 1
<1>1. Len(list) \in Nat /\ \A j \in 1 .. Len(list) : list[j] \in Block
  BY LenProperties, ElementOfSeq
<1>2. /\ front \in Seq(Block) /\ Len(front) = i - 1
      /\ \A j \in 1 .. i - 1 : front[j] = list[j]
  <2>1. \A j \in 1 .. i - 1 : list[j] \in Block
    BY <1>1
  <2> QED BY <1>1, <2>1, SubSeqProperties
<1>3. /\ back \in Seq(Block) /\ Len(back) = Len(list) - i
      /\ \A j \in 1 .. Len(list) - i : back[j] = list[j + i]
  <2>1. \A j \in i + 1 .. Len(list) : list[j] \in Block
    BY <1>1
  <2> QED BY <1>1, <2>1, SubSeqProperties
<1> HIDE DEF front, back
<1>4. front \o <<>> = front
  BY <1>2, ConcatEmptySeq
<1>5. /\ front \o back \in Seq(Block)
      /\ Len(front \o back) = Len(front) + Len(back)
      /\ \A j \in 1 .. Len(front) + Len(back) :
           (front \o back)[j] = IF j <= Len(front) THEN front[j] ELSE back[j - Len(front)]
  BY <1>2, <1>3, ConcatProperties
<1>6. s = front \o back
  BY <1>4
<1> HIDE DEF s
<1>7. /\ s \in Seq(Block)
      /\ Len(s) = Len(list) - 1 /\ Len(s) \in Nat
      /\ \A j \in 1 .. Len(s) : s[j] = list[old(j)] /\ old(j) \in 1 .. Len(list)
  <2>1. /\ Len(s) = Len(list) - 1 /\ Len(s) \in Nat
        /\ \A j \in 1 .. Len(s) : s[j] = IF j <= i - 1 THEN front[j] ELSE back[j - (i - 1)]
    <3>1. Len(s) = Len(front) + Len(back)
      BY <1>5, <1>6
    <3>2. Len(front) = i - 1 /\ Len(front) + Len(back) = Len(list) - 1
      BY <1>1, <1>2, <1>3
    <3>3. \A j \in 1 .. Len(front) + Len(back) :
            s[j] = IF j <= Len(front) THEN front[j] ELSE back[j - Len(front)]
      BY <1>5, <1>6
    <3> QED BY <1>1, <3>1, <3>2, <3>3
  <2>2. ASSUME NEW j \in 1 .. Len(s)
        PROVE  s[j] = list[old(j)] /\ old(j) \in 1 .. Len(list)
    <3>1. CASE j < i
      BY <1>1, <1>2, <2>1, <3>1
    <3>2. CASE j >= i
      <4>1. j - (i - 1) \in 1 .. Len(list) - i /\ (j - (i - 1)) + i = j + 1
        BY <1>1, <2>1, <3>2
      <4>2. back[j - (i - 1)] = list[j + 1]
        BY <1>3, <4>1
      <4> QED BY <1>1, <2>1, <3>2, <4>2
    <3> QED BY <1>1, <2>1, <3>1, <3>2
  <2> QED BY <1>5, <1>6, <2>1, <2>2
<1>8. Sorted(s)
  <2> SUFFICES ASSUME NEW j \in 1 .. Len(s), NEW k \in 1 .. Len(s), j < k
               PROVE  After(s[j]) < s[k].addr
    BY DEF Sorted
  <2>1. old(j) < old(k)
    BY <1>7
  <2>2. /\ s[j] = list[old(j)] /\ old(j) \in 1 .. Len(list)
        /\ s[k] = list[old(k)] /\ old(k) \in 1 .. Len(list)
    BY <1>7
  <2> HIDE DEF old
  <2> QED BY <2>1, <2>2 DEF Sorted
<1>9. Covered(s) = Part(list, 1, i - 1) \cup Part(list, i + 1, Len(list))
  <2>1. \A t, p, q, u : u \in Part(t, p, q) <=> \E j \in p .. q : u \in Units(t[j])
    BY DEF Part
  <2>2. ASSUME NEW u, u \in Covered(s)
        PROVE  u \in Part(list, 1, i - 1) \/ u \in Part(list, i + 1, Len(list))
    <3>1. PICK j \in 1 .. Len(s) : u \in Units(s[j])
      BY <2>1, <2>2 DEF Covered
    <3>2. s[j] = list[old(j)] /\ (old(j) \in 1 .. i - 1 \/ old(j) \in i + 1 .. Len(list))
      BY <1>7
    <3> HIDE DEF old
    <3> QED BY <2>1, <3>1, <3>2
  <2>3. ASSUME NEW u, NEW j \in Int, u \in Units(list[j]),
               j \in 1 .. i - 1 \/ j \in i + 1 .. Len(list)
        PROVE  u \in Covered(s)
    <3> DEFINE new == IF j < i THEN j ELSE j - 1
    <3>1. new \in 1 .. Len(s) /\ old(new) = j
      BY <1>1, <1>7, <2>3
    <3>2. s[new] = list[j]
      BY <1>7, <3>1
    <3> HIDE DEF new
    <3> QED BY <2>1, <2>3, <3>1, <3>2 DEF Covered
  <2>4. ASSUME NEW u, u \in Part(list, 1, i - 1) \/ u \in Part(list, i + 1, Len(list))
        PROVE  u \in Covered(s)
    <3>1. PICK j \in Int : /\ u \in Units(list[j])
                           /\ j \in 1 .. i - 1 \/ j \in i + 1 .. Len(list)
      BY <1>1, <2>1, <2>4
    <3> QED BY <2>3, <3>1
  <2> QED BY <2>2, <2>4
<1> QED BY <1>7, <1>8, <1>9 DEF s, front, back

\* kmalloc and malloc look at the blocks in order, and find none only when all
\* are too small.
LEMMA FirstFits ==
  ASSUME NEW list \in Seq(Block), NEW n \in Nat
  PROVE  /\ FirstFit(list, n) \in 0 .. Len(list)
         /\ FirstFit(list, n) # 0 => list[FirstFit(list, n)].size >= n
         /\ FirstFit(list, n) = 0 => \A i \in 1 .. Len(list) : list[i].size < n
<1> DEFINE fits == {i \in 1 .. Len(list) : list[i].size >= n}
<1>1. Len(list) \in Nat /\ \A i \in 1 .. Len(list) : list[i].size \in Nat
  BY LenProperties, ElementOfSeq, BlockUnits
<1>2. FirstFit(list, n) = IF fits = {} THEN 0 ELSE CHOOSE i \in fits : \A j \in fits : i <= j
  BY DEF FirstFit
<1>3. CASE fits = {}
  BY <1>1, <1>2, <1>3
<1>4. CASE fits # {}
  <2>1. fits \in SUBSET Nat
    OBVIOUS
  <2>2. \A i \in fits : i \in 1 .. Len(list) /\ list[i].size >= n
    OBVIOUS
  <2> HIDE DEF fits
  <2>3. \E i \in fits : \A j \in fits : i <= j
    BY <1>4, <2>1, LeastNumber
  <2>4. FirstFit(list, n) \in fits
    BY <1>2, <1>4, <2>3
  <2> QED BY <1>1, <2>2, <2>4
<1> QED BY <1>3, <1>4

\* kmalloc and malloc: the block given out is large enough, at most one unit too
\* large, and its units are exactly those the list loses.
LEMMA TakeEffect ==
  ASSUME NEW list \in Seq(Block), Sorted(list), NEW i \in 1 .. Len(list),
         NEW n \in Nat \ {0}, list[i].size >= n
  PROVE  LET t == Taken(list[i], n)
             s == Take(list, i, n)
         IN  /\ t \in Block /\ t.size - n \in 0 .. 1
             /\ s \in Seq(Block)
             /\ Sorted(s)
             /\ Units(t) \cap Covered(s) = {}
             /\ Covered(list) = Covered(s) \cup Units(t)
<1> DEFINE b == list[i]
           t == Taken(b, n)
           r == Remainder(b, n)
           s == Take(list, i, n)
           front == Part(list, 1, i - 1)
           back  == Part(list, i + 1, Len(list))
<1>1. /\ Len(list) \in Nat
      /\ \A j \in 1 .. Len(list) : list[j] \in Block
      /\ \A j \in 1 .. Len(list) : list[j].addr \in Nat /\ After(list[j]) \in Nat
                                   /\ list[j].addr < After(list[j])
  BY LenProperties, ElementOfSeq, BlockUnits
<1>2. Covered(list) = front \cup Units(b) \cup back
  <2> DEFINE p == i - 1
             q == i + 1
  <2>1. /\ p \in Int /\ i \in Int /\ q \in Int /\ Len(list) \in Int
        /\ i = p + 1 /\ q = i + 1 /\ 1 <= i /\ i <= Len(list) /\ p <= Len(list) /\ i <= q
    BY <1>1
  <2> HIDE DEF p, q
  <2>2. Part(list, 1, Len(list)) = Part(list, 1, p) \cup Part(list, i, Len(list))
    BY <2>1, PartSplit
  <2>3. Part(list, i, Len(list)) = Part(list, i, i) \cup Part(list, q, Len(list))
    BY <2>1, PartSplit
  <2>4. Part(list, i, i) = Units(b)
    BY <2>1, PartOne
  <2> QED BY <2>2, <2>3, <2>4 DEF Covered, p, q
<1>3. Units(b) \cap front = {} /\ Units(b) \cap back = {}
  <2>1. \A p, q, u : u \in Part(list, p, q) <=> \E j \in p .. q : u \in Units(list[j])
    BY DEF Part
  <2>2. ASSUME NEW j \in 1 .. Len(list), j # i
        PROVE  Units(b) \cap Units(list[j]) = {}
    <3>1. After(list[j]) < b.addr \/ After(b) < list[j].addr
      BY <1>1, <2>2 DEF Sorted
    <3> QED BY <1>1, <3>1, Disjoint
  <2> QED BY <1>1, <2>1, <2>2
<1>4. /\ b \in Block /\ b.addr \in Nat /\ b.size \in Nat /\ b.size >= n
      /\ After(b) = b.addr + 1 + b.size
      /\ Units(b) = b.addr .. After(b) - 1
  BY <1>1, BlockUnits
<1>5. CASE Splits(b, n)
  <2>1. /\ t \in Block /\ t.addr = b.addr /\ t.size = n
        /\ r \in Block /\ r.addr = b.addr + 1 + n
    BY <1>4, <1>5, SplitUnits
  <2>2. After(r) = After(b)
    BY <1>4, <1>5, SplitUnits
  <2>3. Units(b) = Units(t) \cup Units(r) /\ Units(t) \cap Units(r) = {}
    BY <1>4, <1>5, SplitUnits
  <2>4. s = Spliced(list, i - 1, r, i + 1)
    BY <1>5 DEF Take, Spliced
  <2>5. /\ i - 1 \in 0 .. Len(list) /\ i + 1 \in (i - 1) + 1 .. Len(list) + 1
        /\ \A j \in 1 .. i - 1 : After(list[j]) < r.addr
        /\ \A j \in i + 1 .. Len(list) : After(r) < list[j].addr
    <3>1. ASSUME NEW j \in 1 .. i - 1
          PROVE  After(list[j]) < r.addr
      <4>1. j \in 1 .. Len(list) /\ j < i
        BY <1>1
      <4>2. After(list[j]) < b.addr
        BY <4>1 DEF Sorted
      <4>3. b.addr < r.addr
        BY <1>4, <2>1
      <4> QED BY <1>1, <1>4, <2>1, <4>1, <4>2, <4>3
    <3>2. ASSUME NEW j \in i + 1 .. Len(list)
          PROVE  After(r) < list[j].addr
      BY <1>1, <2>2 DEF Sorted
    <3> QED BY <1>1, <3>1, <3>2
  <2> HIDE DEF t, r, s
  <2>6. s \in Seq(Block) /\ Sorted(s) /\ Covered(s) = front \cup Units(r) \cup back
    <3> DEFINE lo == i - 1
               hi == i + 1
    <3>1. lo \in 0 .. Len(list) /\ hi \in lo + 1 .. Len(list) + 1 /\ r \in Block
      BY <2>1, <2>5
    <3>2. /\ \A j \in 1 .. lo : After(list[j]) < r.addr
          /\ \A j \in hi .. Len(list) : After(r) < list[j].addr
      BY <2>5
    <3>3. s = Spliced(list, lo, r, hi)
      BY <2>4
    <3>4. front = Part(list, 1, lo) /\ back = Part(list, hi, Len(list))
      OBVIOUS
    <3> HIDE DEF lo, hi, front, back
    <3>5. s \in Seq(Block)
      BY <3>1, <3>3, SplicedList
    <3>6. Sorted(s) /\ Covered(s) = Part(list, 1, lo) \cup Units(r) \cup Part(list, hi, Len(list))
      BY <3>1, <3>2, <3>3, SplicedSorted
    <3> QED BY <3>4, <3>5, <3>6
  <2>7. t.size - n \in 0 .. 1
    BY <2>1
  <2> HIDE DEF b, front, back
  <2> QED BY <1>2, <1>3, <2>1, <2>3, <2>6, <2>7 DEF t, s, b
<1>6. CASE ~Splits(b, n)
  <2>1. t = b /\ t.size - n \in 0 .. 1
    BY <1>4, <1>6 DEF Taken, Splits
  <2>2. s = SubSeq(list, 1, i - 1) \o <<>> \o SubSeq(list, i + 1, Len(list))
    BY <1>6 DEF Take
  <2>3. s \in Seq(Block) /\ Sorted(s) /\ Covered(s) = front \cup back
    BY <2>2, Removed
  <2> HIDE DEF s, front, back
  <2>4. Units(b) \cap Covered(s) = {} /\ Covered(list) = Covered(s) \cup Units(b)
    BY <1>2, <1>3, <2>3
  <2> QED BY <1>4, <2>1, <2>3, <2>4 DEF s
<1> QED BY <1>5, <1>6
=============================================================================
