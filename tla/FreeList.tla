------------------------------ MODULE FreeList ------------------------------
(***************************************************************************)
(* The address-ordered free list of the kernel heap                        *)
(* (src/src/kernel/heap.c).  The unit of length and of address is 16       *)
(* bytes: a block is one unit of header (struct block) and size units of   *)
(* payload.  The list is a sequence of blocks.                             *)
(***************************************************************************)
EXTENDS Integers, Sequences

\* A block has room for a header and at least one unit.
Block == [addr : Nat, size : Nat \ {0}]

\* The first unit after a block.
After(b) == b.addr + 1 + b.size

\* The units of a block, header included.
Units(b) == b.addr .. After(b) - 1

\* How many blocks the walk passes: those in front whose address is below a.
Ahead(list, a) ==
  CHOOSE k \in 0 .. Len(list) :
    /\ \A i \in 1 .. k : list[i].addr < a
    /\ k < Len(list) => list[k + 1].addr >= a

\* Block b swallows the block that starts where it ends.
Joined(b, c) == [b EXCEPT !.size = @ + 1 + c.size]

\* Mutant: b is not merged with the block in front of it.
AddWithoutPrev(list, b) ==
  LET k    == Ahead(list, b.addr)
      next == k < Len(list) /\ After(b) = list[k + 1].addr
      mine == IF next THEN Joined(b, list[k + 1]) ELSE b
      rest == SubSeq(list, IF next THEN k + 2 ELSE k + 1, Len(list))
  IN  SubSeq(list, 1, k) \o <<mine>> \o rest

\* freelist_add: insert b in address order, merged with the blocks it touches.
Add(list, b) ==
  LET k    == Ahead(list, b.addr)
      next == k < Len(list) /\ After(b) = list[k + 1].addr
      prev == k > 0 /\ After(list[k]) = b.addr
      mine == IF next THEN Joined(b, list[k + 1]) ELSE b
      rest == SubSeq(list, IF next THEN k + 2 ELSE k + 1, Len(list))
  IN  IF prev
        THEN SubSeq(list, 1, k - 1) \o <<Joined(list[k], mine)>> \o rest
        ELSE SubSeq(list, 1, k) \o <<mine>> \o rest

\* Mutant: the header counts as payload.
FirstFitHeader(list, n) ==
  LET fits == {i \in 1 .. Len(list) : list[i].size + 1 >= n}
  IN  IF fits = {} THEN 0 ELSE CHOOSE i \in fits : \A j \in fits : i <= j

\* The block a request of n units takes: the first that is large enough, 0 if none.
FirstFit(list, n) ==
  LET fits == {i \in 1 .. Len(list) : list[i].size >= n}
  IN  IF fits = {} THEN 0 ELSE CHOOSE i \in fits : \A j \in fits : i <= j

\* A block is split when a header and a payload of one unit remain.
Splits(b, n) == b.size >= n + 2

\* Mutant: the remainder starts where the payload of the block given out ends,
\* one unit early.
RemainderEarly(b, n) == [addr |-> b.addr + n, size |-> b.size - n]

\* The block given out for n units of payload, and the list without it.
Taken(b, n) == IF Splits(b, n) THEN [b EXCEPT !.size = n] ELSE b
Remainder(b, n) == [addr |-> b.addr + 1 + n, size |-> b.size - n - 1]

Take(list, i, n) ==
  SubSeq(list, 1, i - 1)
    \o (IF Splits(list[i], n) THEN <<Remainder(list[i], n)>> ELSE <<>>)
    \o SubSeq(list, i + 1, Len(list))
=============================================================================
