----------------------------- MODULE FileProofs -----------------------------
(***************************************************************************)
(* Proofs about the two readers of files.  The ext2 reader gives back      *)
(* every buffer on every way out, for any file system at all, those whose  *)
(* blocks make no sense included.  On one that is stored as ext2 does it,  *)
(* it returns what the file holds, and refuses only what it cannot read,   *)
(* unless something else has failed.  The ELF loader stays inside its file *)
(* and inside user memory for every word a header may hold: a sum that     *)
(* wraps around is refused or never computed.                              *)
(***************************************************************************)
EXTENDS Ext2, ElfFile, TLAPS, SequenceTheorems, WellFoundedInduction

-----------------------------------------------------------------------------
(* ext2.c *)

\* The buffers in use at each point of a call.
Held ==
  CASE pc \in {"unmounted", "no_rootfs"}                    -> {}
    [] pc = "read_bgd"                                      -> {"fs", "bgd"}
    [] pc = "read_ino"                                      -> {"fs", "ino"}
    [] pc \in {"next", "alloc_ind", "block", "alloc_data"}  -> {"fs", target}
    [] pc = "read_ind"                                      -> {"fs", target, "ind"}
    [] pc = "read_data"                                     -> {"fs", target, "data"}
    [] pc = "done"                                          -> {"fs", "file"}
    [] OTHER                                                -> {"fs"}

Points == {"unmounted", "no_rootfs", "idle", "done", "alloc_bgd", "read_bgd",
           "alloc_ino", "read_ino", "inode", "alloc_buf", "next", "alloc_ind",
           "read_ind", "block", "alloc_data", "read_data"}

HeldInv ==
  /\ pc \in Points
  /\ target \in {"dir", "file"}
  /\ bufs = Held

\* Every point of every call holds its buffers and no others.
LEMMA HeldInvariance == Spec => []HeldInv
<1>1. Init => HeldInv
  BY DEF Init, HeldInv, Held, Points
<1>2. HeldInv /\ [Next]_vars => HeldInv'
  <2> SUFFICES ASSUME HeldInv, [Next]_vars PROVE HeldInv'
    OBVIOUS
  <2> USE DEF HeldInv, Held, Points
  <2>1. CASE UNCHANGED vars
    BY <2>1 DEF vars
  <2>2. CASE Mount \/ MountFails \/ NoRootfs \/ Consume
    BY <2>2 DEF Mount, MountFails, NoRootfs, Consume, vars, call, node, reading
  <2>3. ASSUME NEW p \in Paths, Call(p) PROVE HeldInv'
    BY <2>3 DEF Call
  <2>4. CASE AllocBgd \/ AllocIno
    BY <2>4 DEF AllocBgd, AllocIno, Alloc, reading
  <2>5. CASE ReadBgd \/ ReadIno
    BY <2>5 DEF ReadBgd, ReadIno, reading
  <2>6. CASE AllocBuf
    BY <2>6 DEF AllocBuf, Alloc, reading
  <2>7. CASE DirectBlock \/ IndirectBlock \/ NoHole
    BY <2>7 DEF DirectBlock, IndirectBlock, NoHole, reading
  <2>8. CASE TooLarge \/ Hole \/ WrongKind \/ NotFound
    BY <2>8 DEF TooLarge, Hole, WrongKind, NotFound, Fail, Unwound, reading
  <2>9. CASE AllocInd \/ AllocData
    BY <2>9 DEF AllocInd, AllocData, Alloc, reading
  <2>10. CASE ReadInd \/ ReadData
    BY <2>10 DEF ReadInd, ReadData
  <2>11. CASE OpenDir \/ OpenFile
    BY <2>11 DEF OpenDir, OpenFile
  <2>12. CASE Descend \/ Return
    BY <2>12 DEF Descend, Return, reading
  <2>13. CASE AllocFails
    BY <2>13 DEF AllocFails, Fail, Unwound, reading
  <2>14. CASE ReadFails
    BY <2>14 DEF ReadFails, ReadBuffer, Fail, Unwound, reading
  <2> QED BY <2>1, <2>2, <2>3, <2>4, <2>5, <2>6, <2>7, <2>8, <2>9, <2>10, <2>11,
             <2>12, <2>13, <2>14 DEF Next, ReadFile
<1> QED BY <1>1, <1>2, PTL DEF Spec

\* Whatever is on the disk and whatever fails, between calls the reader holds no
\* buffer, and after a call that worked its caller holds exactly the file's.
THEOREM BuffersComeBack == Spec => []NothingLeaks
<1>1. HeldInv => NothingLeaks
  BY DEF HeldInv, Held, NothingLeaks
<1> QED BY <1>1, HeldInvariance, PTL
-----------------------------------------------------------------------------
(* A loop over a directory, by induction *)

\* A nonempty set of natural numbers has a least element.
LEMMA FirstNumber ==
  ASSUME NEW S \in SUBSET Nat, S # {}
  PROVE  \E x \in S : \A y \in S : x <= y
<1> DEFINE R == OpToRel(<, Nat)
<1>1. IsWellFoundedOn(R, Nat)
  BY NatLessThanWellFounded, Zenon DEF R
<1>2. \A x, y \in Nat : <<y, x>> \in R <=> y < x
  BY DEF OpToRel
<1> HIDE DEF R
<1>3. PICK x \in S : \A y \in S : ~(<<y, x>> \in R)
  BY <1>1, WFMin, Zenon
<1>4. \A y \in S : ~(y < x)
  BY <1>2, <1>3
<1> QED BY <1>4

\* What holds at a position whenever it holds at all behind it holds at all.
LEMMA FromTheEnd ==
  ASSUME NEW hi \in Nat, NEW S,
         \A n \in 0 .. hi : (\A m \in n + 1 .. hi : m \in S) => n \in S
  PROVE  \A n \in 0 .. hi : n \in S
<1> SUFFICES ASSUME NEW k \in 0 .. hi, k \notin S PROVE FALSE
  OBVIOUS
<1> DEFINE T == {m \in Nat : m <= hi /\ hi - m \notin S}
<1>1. hi - k \in T /\ T \in SUBSET Nat
  OBVIOUS
<1>2. PICK m \in T : \A j \in T : m <= j
  BY <1>1, FirstNumber
<1>3. m \in Nat /\ m <= hi /\ hi - m \notin S
  BY <1>2
<1>4. ASSUME NEW j \in (hi - m) + 1 .. hi PROVE j \in S
  <2>1. hi - j \in Nat /\ hi - j <= hi /\ ~(m <= hi - j) /\ hi - (hi - j) = j
    BY <1>3
  <2> QED BY <1>2, <2>1
<1>5. hi - m \in 0 .. hi
  BY <1>3
<1> QED BY <1>3, <1>4, <1>5

-----------------------------------------------------------------------------
(* The walk over a directory *)

\* One step of lookup_in_dir at pos, where at says what the steps behind it find.
Walk(cells, name, at, pos) ==
  IF pos >= Len(cells) THEN 0
  ELSE LET de == cells[pos + 1] IN
       IF de.rec_len = 0 THEN 0
       ELSE IF Matches(de, name) THEN de.inode
       ELSE at[pos + de.rec_len]

\* The recursion ends: the walk has a result at every position.
LEMMA WalkEnds ==
  ASSUME NEW cells, Len(cells) \in Nat, \A i \in 1 .. Len(cells) : cells[i].rec_len \in Nat,
         NEW name
  PROVE  \E at : at = [pos \in Nat |-> Walk(cells, name, at, pos)]
<1> DEFINE length == Len(cells)
           W(g, pos) == Walk(cells, name, g, pos)
           Solves(g, n) == /\ g = [pos \in Nat |-> g[pos]]
                           /\ \A pos \in Nat : n <= pos => g[pos] = W(g, pos)
           S == {n \in 0 .. length : \E g : Solves(g, n)}
<1>1. length \in S
  <2> DEFINE g == [pos \in Nat |-> 0]
  <2>1. ASSUME NEW pos \in Nat, length <= pos PROVE g[pos] = W(g, pos)
    BY <2>1 DEF Walk
  <2>2. Solves(g, length)
    BY <2>1
  <2> QED BY <2>2
<1>2. ASSUME NEW n \in 0 .. length, \A m \in n + 1 .. length : m \in S PROVE n \in S
  <2>1. CASE n = length
    BY <1>1, <2>1
  <2>2. CASE n # length
    <3>1. n + 1 \in n + 1 .. length
      BY <2>2
    <3>2. PICK g : Solves(g, n + 1)
      BY <1>2, <3>1
    <3> DEFINE h == [pos \in Nat |-> IF pos = n THEN W(g, n) ELSE g[pos]]
    <3>3. ASSUME NEW pos \in Nat, n <= pos PROVE h[pos] = W(h, pos)
      <4> DEFINE len == cells[pos + 1].rec_len
      <4>1. pos < length /\ len # 0 => /\ len \in Nat /\ pos + len \in Nat
                                       /\ n + 1 <= pos + len /\ h[pos + len] = g[pos + len]
        <5> SUFFICES ASSUME pos < length, len # 0
                     PROVE  /\ len \in Nat /\ pos + len \in Nat
                            /\ n + 1 <= pos + len /\ h[pos + len] = g[pos + len]
          OBVIOUS
        <5>1. pos + 1 \in 1 .. length
          OBVIOUS
        <5>2. len \in Nat
          BY <5>1
        <5> HIDE DEF len
        <5>3. pos + len \in Nat /\ n + 1 <= pos + len /\ pos + len # n
          BY <3>3, <5>2
        <5> QED BY <5>2, <5>3
      <4>2. W(h, pos) = W(g, pos)
        <5>1. pos >= length \/ pos < length
          OBVIOUS
        <5> HIDE DEF h
        <5> QED BY <4>1, <5>1 DEF Walk
      <4>3. CASE pos = n
        BY <4>2, <4>3
      <4>4. CASE pos # n
        <5>1. n + 1 <= pos /\ h[pos] = g[pos]
          BY <3>3, <4>4
        <5>2. g[pos] = W(g, pos)
          BY <3>2, <5>1
        <5> QED BY <4>2, <5>1, <5>2
      <4> QED BY <4>3, <4>4
    <3>4. h = [pos \in Nat |-> h[pos]]
      OBVIOUS
    <3> HIDE DEF h
    <3>5. Solves(h, n)
      BY <3>3, <3>4
    <3> QED BY <3>5
  <2> QED BY <2>1, <2>2
<1>3. 0 \in S
  <2> HIDE DEF S
  <2>1. length \in Nat /\ 0 \in 0 .. length
    OBVIOUS
  <2>2. \A n \in 0 .. length : n \in S
    BY <1>2, <2>1, FromTheEnd
  <2> QED BY <2>1, <2>2
<1>4. PICK g : Solves(g, 0)
  BY <1>3
<1>5. \A pos \in Nat : g[pos] = W(g, pos)
  BY <1>4
<1>6. g = [pos \in Nat |-> W(g, pos)]
  <2> HIDE DEF W
  <2> QED BY <1>4, <1>5
<1> QED BY <1>6

\* The entries that match a name.
Hits(cells, starts, name) == {s \in starts \ {Len(cells)} : Matches(cells[s + 1], name)}

\* What is looked up is found where it is, and only there.
LEMMA LookupFinds ==
  ASSUME NEW cells, Len(cells) \in Nat, \A i \in 1 .. Len(cells) : cells[i].rec_len \in Nat,
         NEW starts \in SUBSET (0 .. Len(cells)), Entries(cells, starts), NEW name
  PROVE  /\ Hits(cells, starts, name) = {} => Lookup(cells, name) = 0
         /\ Hits(cells, starts, name) # {} =>
              Lookup(cells, name) \in {cells[s + 1].inode : s \in Hits(cells, starts, name)}
<1> DEFINE length == Len(cells)
           Found(pos) == {s \in starts \ {length} : pos <= s /\ Matches(cells[s + 1], name)}
           at == CHOOSE f : f = [pos \in Nat |-> Walk(cells, name, f, pos)]
           Right(pos) == /\ Found(pos) = {} => at[pos] = 0
                         /\ Found(pos) # {} => at[pos] \in {cells[s + 1].inode : s \in Found(pos)}
           S == {pos \in 0 .. length : pos \in starts => Right(pos)}
<1>1. Lookup(cells, name) = at[0]
  BY DEF Lookup, Walk
<1>2. at = [pos \in Nat |-> Walk(cells, name, at, pos)]
  BY WalkEnds, Zenon
<1> HIDE DEF at
<1>3. \A pos \in Nat : at[pos] = Walk(cells, name, at, pos)
  BY <1>2
<1>4. ASSUME NEW n \in 0 .. length, \A m \in n + 1 .. length : m \in S, n \in starts PROVE Right(n)
  <2>1. at[n] = Walk(cells, name, at, n)
    BY <1>3
  <2>2. CASE n = length
    <3>1. Found(n) = {}
      <4>1. \A s \in starts : s <= length
        OBVIOUS
      <4>2. \A s \in starts \ {length} : ~(length <= s)
        <5>1. \A s \in starts : s \in Nat /\ length \in Nat
          OBVIOUS
        <5> QED BY <4>1, <5>1
      <4> QED BY <2>2, <4>2
    <3>2. at[n] = 0
      BY <2>1, <2>2 DEF Walk
    <3> QED BY <3>1, <3>2
  <2>3. CASE n # length
    <3> DEFINE de == cells[n + 1]
    <3>1. /\ n < length /\ n + 1 \in 1 .. length
          /\ de.rec_len \in Nat /\ de.rec_len # 0 /\ n + de.rec_len \in starts
          /\ \A t \in starts : t <= n \/ n + de.rec_len <= t
      <4>1. n < length /\ n + 1 \in 1 .. length /\ n \in starts \ {length}
        BY <2>3, <1>4
      <4>2. de.rec_len \in Nat
        BY <4>1
      <4>3. LET next == n + de.rec_len IN
            next # n /\ next \in starts /\ \A t \in starts : t <= n \/ next <= t
        BY <4>1 DEF Entries
      <4> HIDE DEF de
      <4> QED BY <4>1, <4>2, <4>3
    <3>2. CASE Matches(de, name)
      <4>1. at[n] = de.inode
        BY <2>1, <3>1, <3>2 DEF Walk
      <4>2. n \in Found(n)
        BY <3>1, <3>2, <1>4
      <4> QED BY <4>1, <4>2
    <3>3. CASE ~Matches(de, name)
      <4> DEFINE next == n + de.rec_len
      <4>1. at[n] = at[next]
        BY <2>1, <3>1, <3>3 DEF Walk
      <4>2. next \in n + 1 .. length /\ next \in starts
        <5>1. next \in 0 .. length
          BY <3>1
        <5> HIDE DEF de
        <5> QED BY <3>1, <5>1
      <4>3. Right(next)
        BY <1>4, <4>2
      <4>4. ASSUME NEW s \in starts PROVE n <= s /\ Matches(cells[s + 1], name) <=>
                                          next <= s /\ Matches(cells[s + 1], name)
        <5>1. s \in 0 .. length /\ (s <= n \/ next <= s)
          BY <3>1
        <5>2. s = n => ~Matches(cells[s + 1], name)
          BY <3>3
        <5> HIDE DEF next
        <5> QED BY <4>2, <5>1, <5>2
      <4>5. Found(n) = Found(next)
        <5> HIDE DEF next
        <5> QED BY <4>4
      <4> HIDE DEF Found, next
      <4> QED BY <4>1, <4>3, <4>5
    <3> QED BY <3>2, <3>3
  <2> QED BY <2>2, <2>3
<1>5. 0 \in starts /\ length \in Nat /\ 0 \in 0 .. length
  BY DEF Entries
<1>6. Right(0)
  <2>1. \A n \in 0 .. length : (\A m \in n + 1 .. length : m \in S) => n \in S
    <3> HIDE DEF Right
    <3> QED BY <1>4
  <2> HIDE DEF S
  <2>2. 0 \in S
    BY <1>5, <2>1, FromTheEnd
  <2> HIDE DEF Right
  <2> QED BY <1>5, <2>2 DEF S
<1>7. Found(0) = Hits(cells, starts, name)
  <2>1. \A s \in starts : 0 <= s
    OBVIOUS
  <2> QED BY <2>1 DEF Hits
<1> HIDE DEF Found
<1> QED BY <1>1, <1>6, <1>7

-----------------------------------------------------------------------------
(* What the reader has found so far *)

\* The points of a call, those where an inode has been opened, and those where a
\* block of it is wanted.
Calling == {"alloc_bgd", "read_bgd", "alloc_ino", "read_ino", "inode", "alloc_buf", "next",
            "alloc_ind", "read_ind", "block", "alloc_data", "read_data", "done"}
Opened  == {"alloc_buf", "next", "alloc_ind", "read_ind", "block", "alloc_data", "read_data",
            "done"}
Wanted  == {"alloc_ind", "read_ind", "block", "alloc_data", "read_data"}

\* The part of the path that has been looked up, and the file there.
Reached  == SubSeq(asked, 1, Len(asked) - Len(path))
Found == image.files[Reached]

\* The rest of the path is left, and ino is the file where it begins.
OnTheWay ==
  /\ asked \in Paths
  /\ Len(path) \in 0 .. Len(asked)
  /\ path = SubSeq(asked, Len(asked) - Len(path) + 1, Len(asked))
  /\ Reached \in DOMAIN image.files
  /\ ino = Found.ino

\* The data is the beginning of the file, up to a whole block or the end.
CopiedPart ==
  /\ data \in Seq(Elements(Found.contents))
  /\ Len(data) <= Len(Found.contents)
  /\ \A i \in 1 .. Len(data) : data[i] = Found.contents[i]
  /\ Len(data) < Len(Found.contents) => Len(data) = BlockIdx * BlockSize

ReaderTypes ==
  /\ image \in Images
  /\ pc \in Calling \cup {"unmounted", "no_rootfs", "idle"}
  /\ ino \in Nat /\ table \in Nat /\ block \in Nat
  /\ target \in {"dir", "file"}
  /\ bufs \subseteq {"fs", "bgd", "ino", "dir", "file", "ind", "data"}
  /\ asked \in Paths \cup {<<>>}
  /\ trouble \in BOOLEAN

ReaderInv ==
  /\ ReaderTypes
  /\ pc \in Calling => OnTheWay
  /\ pc \in {"alloc_ino", "read_ino"} => table = TableOf(image, ino)
  /\ pc \in Opened \cup {"inode"} => inode = InodeOf(image, ino)
  /\ pc \in Opened =>
       /\ CopiedPart
       /\ IF path = <<>> THEN target = "file" ELSE target = "dir" /\ IsDir(inode.mode)
  /\ pc \in Wanted => Left > 0 /\ (IsDirect \/ IsIndirect)
  /\ pc \in {"alloc_ind", "read_ind"} => IsIndirect
  /\ pc \in {"block", "alloc_data", "read_data"} => block = NumberOf(image, inode, BlockIdx)
  /\ pc \in {"alloc_data", "read_data"} => block # 0
  /\ pc = "alloc_buf" => data = <<>>
  /\ pc = "done" => Left = 0 /\ path = <<>>

-----------------------------------------------------------------------------
(* Blocks *)

LEMMA WholeBlocks ==
  /\ \A x \in Nat : x \div BlockSize \in Nat /\ (x \div BlockSize) * BlockSize <= x
  /\ \A k \in Nat : k * BlockSize \in Nat /\ (k * BlockSize) \div BlockSize = k
  /\ \A k \in Nat : (k + 1) * BlockSize = k * BlockSize + BlockSize
  /\ \A k, l \in Nat : k <= l => k * BlockSize <= l * BlockSize
<1>1. \A b \in Nat \ {0} :
        /\ \A x \in Nat : x \div b \in Nat /\ (x \div b) * b <= x
        /\ \A k \in Nat : k * b \in Nat /\ (k * b) \div b = k
        /\ \A k \in Nat : (k + 1) * b = k * b + b
        /\ \A k, l \in Nat : k <= l => k * b <= l * b
  <2> SUFFICES ASSUME NEW b \in Nat \ {0}
               PROVE  /\ \A x \in Nat : x \div b \in Nat /\ (x \div b) * b <= x
                      /\ \A k \in Nat : k * b \in Nat /\ (k * b) \div b = k
                      /\ \A k \in Nat : (k + 1) * b = k * b + b
                      /\ \A k, l \in Nat : k <= l => k * b <= l * b
    OBVIOUS
  <2>1. \A x \in Nat : x \div b \in Nat /\ (x \div b) * b <= x
    OBVIOUS
  <2>2. \A k \in Nat : k * b \in Nat /\ (k * b) \div b = k
    OBVIOUS
  <2>3. \A k \in Nat : (k + 1) * b = k * b + b
    OBVIOUS
  <2>4. \A k, l \in Nat : k <= l => k * b <= l * b
    OBVIOUS
  <2> QED BY <2>1, <2>2, <2>3, <2>4
<1> QED BY <1>1, Ext2Assumption

\* The paths of the files, and the files themselves.
LEMMA FilesStored ==
  ASSUME NEW im \in Images, NEW p \in DOMAIN im.files
  PROVE  /\ \E q \in Paths : \E n \in 0 .. Len(q) : p = SubSeq(q, 1, n)
         /\ Stored(im, im.files[p])
         /\ IsDir(im.files[p].mode) => Listed(im, p)
         /\ \A n \in 0 .. Len(p) - 1 : /\ SubSeq(p, 1, n) \in DOMAIN im.files
                                       /\ IsDir(im.files[SubSeq(p, 1, n)].mode)
<1>1. WellFormed(im)
  BY ImagesAssumption
<1>2. p \in Steps
  BY <1>1 DEF WellFormed
<1> QED BY <1>1, <1>2 DEF WellFormed, Steps

\* The inode of the file that has been found.
LEMMA FoundStored ==
  ASSUME ReaderInv, pc \in Calling
  PROVE  /\ ino \in Nat \ {0} /\ TableOf(image, ino) \in Nat
         /\ Found.contents \in Seq(Elements(Found.contents)) /\ Len(Found.contents) \in Nat
         /\ InodeOf(image, ino).mode = Found.mode /\ Found.mode \in Nat
         /\ InodeOf(image, ino).size = Len(Found.contents)
         /\ Len(Found.contents) > Direct * BlockSize => InodeOf(image, ino).blocks[Direct + 1] # 0
         /\ Found.holes <=> \E k \in 0 .. MaxBlocks - 1 :
              k * BlockSize < Len(Found.contents) /\ NumberOf(image, InodeOf(image, ino), k) = 0
         /\ \A k \in 0 .. MaxBlocks - 1 : k * BlockSize < Len(Found.contents) =>
              LET b == NumberOf(image, InodeOf(image, ino), k) IN
              b \in Nat /\ (b # 0 => Holds(image, b, k, Found.contents))
<1>1. image \in Images /\ Reached \in DOMAIN image.files /\ ino = Found.ino
  BY DEF ReaderInv, ReaderTypes, OnTheWay
<1>2. Stored(image, Found)
  BY <1>1, FilesStored DEF Found
<1>3. Len(Found.contents) \in Nat
  BY <1>2 DEF Stored
<1> HIDE DEF Found
<1> QED BY <1>1, <1>2, <1>3 DEF Stored

\* The block that is wanted is one of the file's.
LEMMA BlockWanted ==
  ASSUME ReaderInv, pc \in Opened, Left > 0
  PROVE  /\ inode = InodeOf(image, ino) /\ inode.size = Len(Found.contents) /\ Left \in Nat
         /\ BlockIdx \in Nat /\ Len(data) \in Nat /\ Len(data) = BlockIdx * BlockSize
         /\ BlockIdx * BlockSize < Len(Found.contents)
         /\ IsDirect \/ IsIndirect <=> BlockIdx \in 0 .. MaxBlocks - 1
<1>1. pc \in Calling /\ inode = InodeOf(image, ino) /\ CopiedPart
  BY DEF ReaderInv, Calling, Opened
<1>2. inode.size = Len(Found.contents) /\ Len(Found.contents) \in Nat
  BY <1>1, FoundStored
<1>3. Len(data) \in Nat /\ Left \in Nat /\ Len(data) < Len(Found.contents)
  <2>1. Len(data) \in Nat /\ Len(data) <= Len(Found.contents)
    BY <1>1 DEF CopiedPart
  <2> QED BY <2>1, <1>2 DEF Left
<1>4. Len(data) = BlockIdx * BlockSize
  BY <1>1, <1>3 DEF CopiedPart
<1>5. BlockIdx \in Nat
  BY <1>3, WholeBlocks DEF BlockIdx
<1>6. IsDirect \/ IsIndirect <=> BlockIdx \in 0 .. MaxBlocks - 1
  BY <1>5, Ext2Assumption DEF IsDirect, IsIndirect, MaxBlocks
<1>7. BlockIdx * BlockSize < Len(Found.contents)
  BY <1>3, <1>4
<1> QED BY <1>1, <1>2, <1>3, <1>4, <1>5, <1>6, <1>7

-----------------------------------------------------------------------------
(* The steps keep it *)

LEMMA CallKeeps ==
  ASSUME ReaderInv, NEW p \in Paths, Call(p)
  PROVE  ReaderInv'
<1>1. p \in Seq(Elements(p)) /\ Len(p) \in Nat
  BY ImagesAssumption
<1>2. WellFormed(image)
  BY ImagesAssumption DEF ReaderInv, ReaderTypes
<1>3. /\ path' = p /\ asked' = p /\ ino' = ROOT_INO /\ pc' = "alloc_bgd" /\ image' = image
      /\ UNCHANGED <<table, block, target, bufs>> /\ trouble' = FALSE
  BY DEF Call
<1>4. OnTheWay'
  <2>1. Len(path') = Len(asked') /\ Len(path') \in 0 .. Len(asked')
    BY <1>1, <1>3
  <2>2. path' = SubSeq(asked', Len(asked') - Len(path') + 1, Len(asked'))
    <3>1. SubSeq(p, 1, Len(p)) = p
      BY <1>1, SubSeqFull
    <3>2. Len(p) - Len(p) + 1 = 1
      BY <1>1
    <3> QED BY <3>1, <3>2, <1>3
  <2>3. Reached' = <<>>
    <3>1. Len(p) - Len(p) = 0 /\ SubSeq(p, 1, 0) = <<>>
      BY <1>1
    <3> QED BY <3>1, <1>3 DEF Reached
  <2> QED BY <1>2, <1>3, <2>1, <2>2, <2>3 DEF OnTheWay, Found, WellFormed
<1>5. ReaderTypes'
  BY <1>3 DEF ReaderInv, ReaderTypes, Calling, ROOT_INO
<1> QED BY <1>3, <1>4, <1>5 DEF ReaderInv, Opened, Wanted

\* Steps that end a call, or are outside of one.
LEMMA EndKeeps ==
  ASSUME ReaderInv,
         \/ Mount \/ MountFails \/ NoRootfs \/ Consume \/ TooLarge \/ Hole \/ WrongKind
         \/ NotFound \/ AllocFails \/ ReadFails
  PROVE  ReaderInv'
<1>1. pc' \in {"idle", "no_rootfs"}
  BY DEF Mount, MountFails, NoRootfs, Consume, TooLarge, Hole, WrongKind, NotFound, AllocFails,
         ReadFails, Fail, vars
<1>2. UNCHANGED <<image, ino, table, block, target, asked>>
  BY DEF Mount, MountFails, NoRootfs, Consume, TooLarge, Hole, WrongKind, NotFound, AllocFails,
         ReadFails, vars, call, node, reading
<1>3. trouble' \in BOOLEAN
  BY DEF Mount, MountFails, NoRootfs, Consume, TooLarge, Hole, WrongKind, NotFound, AllocFails,
         ReadFails, vars, ReaderInv, ReaderTypes
<1>4. bufs' \subseteq bufs \cup {"fs"}
  BY DEF Mount, MountFails, NoRootfs, Consume, TooLarge, Hole, WrongKind, NotFound, AllocFails,
         ReadFails, vars, Fail, Unwound
<1>5. ReaderTypes'
  BY <1>1, <1>2, <1>3, <1>4 DEF ReaderInv, ReaderTypes
<1> QED BY <1>1, <1>5 DEF ReaderInv, Calling, Opened, Wanted

\* OnTheWay and CopiedPart are about what most steps leave alone.
LEMMA SameWay ==
  ASSUME UNCHANGED call, ino' = ino
  PROVE  Reached' = Reached /\ Found' = Found /\ (OnTheWay => OnTheWay')
BY DEF call, Reached, Found, OnTheWay

LEMMA SameData ==
  ASSUME UNCHANGED call, ino' = ino, UNCHANGED data
  PROVE  CopiedPart => CopiedPart'
BY SameWay DEF CopiedPart, BlockIdx

LEMMA AllocKeeps ==
  ASSUME ReaderInv, AllocBgd \/ AllocIno \/ AllocInd \/ AllocData
  PROVE  ReaderInv'
<1>1. UNCHANGED <<call, node, reading, trouble>>
  BY DEF AllocBgd, AllocIno, AllocInd, AllocData, Alloc
<1>2. UNCHANGED <<image, asked, path, ino, table, inode, target, data, block, trouble>>
  BY <1>1 DEF call, node, reading
<1>3. OnTheWay => OnTheWay'
  BY <1>1, <1>2, SameWay
<1>4. CopiedPart => CopiedPart'
  BY <1>1, <1>2, SameData
<1>5. Left' = Left /\ BlockIdx' = BlockIdx /\ IsDirect' = IsDirect /\ IsIndirect' = IsIndirect
  BY <1>2 DEF Left, BlockIdx, IsDirect, IsIndirect
<1>6. ReaderTypes'
  BY <1>2 DEF ReaderInv, ReaderTypes, Calling, AllocBgd, AllocIno, AllocInd, AllocData, Alloc
<1>7. CASE AllocBgd
  BY <1>2, <1>3, <1>6, <1>7 DEF ReaderInv, Calling, Opened, Wanted, AllocBgd, Alloc
<1>8. CASE AllocIno
  BY <1>2, <1>3, <1>6, <1>8 DEF ReaderInv, Calling, Opened, Wanted, AllocIno, Alloc
<1>9. CASE AllocInd
  BY <1>2, <1>3, <1>4, <1>5, <1>6, <1>9 DEF ReaderInv, Calling, Opened, Wanted, AllocInd, Alloc
<1>10. CASE AllocData
  BY <1>2, <1>3, <1>4, <1>5, <1>6, <1>10 DEF ReaderInv, Calling, Opened, Wanted, AllocData, Alloc
<1> QED BY <1>7, <1>8, <1>9, <1>10

LEMMA ReadInodeKeeps ==
  ASSUME ReaderInv, ReadBgd \/ ReadIno
  PROVE  ReaderInv'
<1>1. pc \in Calling
  BY DEF ReadBgd, ReadIno, Calling
<1>2. UNCHANGED call /\ ino' = ino /\ UNCHANGED <<image, asked, path, target, data, block, trouble>>
  BY DEF ReadBgd, ReadIno, call, reading
<1>3. OnTheWay'
  BY <1>1, <1>2, SameWay DEF ReaderInv
<1>4. CASE ReadBgd
  <2>1. table' = TableOf(image, ino) /\ pc' = "alloc_ino" /\ bufs' \subseteq bufs
    BY <1>4 DEF ReadBgd, TableOf, Disk, Group
  <2>2. table' \in Nat
    BY <2>1, <1>1, FoundStored
  <2>3. ReaderTypes'
    BY <2>1, <2>2, <1>2 DEF ReaderInv, ReaderTypes, Calling
  <2>4. TableOf(image, ino)' = TableOf(image, ino)
    BY <1>2 DEF TableOf
  <2> QED BY <2>1, <2>3, <2>4, <1>3 DEF ReaderInv, Calling, Opened, Wanted
<1>5. CASE ReadIno
  <2>1. inode' = Disk[TableBlock][TableCell + 1] /\ pc' = "inode" /\ bufs' \subseteq bufs
        /\ table' = table /\ pc = "read_ino"
    BY <1>5 DEF ReadIno
  <2>2. table = TableOf(image, ino)
    BY <2>1 DEF ReaderInv
  <2>3. inode' = InodeOf(image, ino)
    BY <2>1, <2>2 DEF InodeOf, TableBlock, TableCell, Offset, Disk
  <2>4. ReaderTypes'
    BY <2>1, <1>2 DEF ReaderInv, ReaderTypes, Calling
  <2>5. InodeOf(image, ino)' = InodeOf(image, ino)
    BY <1>2 DEF InodeOf, TableOf
  <2> QED BY <2>1, <2>3, <2>4, <2>5, <1>3 DEF ReaderInv, Calling, Opened, Wanted
<1> QED BY <1>4, <1>5

LEMMA OpenKeeps ==
  ASSUME ReaderInv, OpenDir \/ OpenFile
  PROVE  ReaderInv'
<1>1. /\ pc = "inode" /\ pc' = "alloc_buf" /\ data' = <<>>
      /\ UNCHANGED call /\ ino' = ino
      /\ UNCHANGED <<image, asked, path, table, inode, block, bufs, trouble>>
      /\ IF path = <<>> THEN target' = "file" ELSE target' = "dir" /\ IsDir(inode.mode)
  BY DEF OpenDir, OpenFile, call, node
<1>2. pc \in Calling
  BY <1>1 DEF Calling
<1>3. OnTheWay' /\ Found' = Found
  BY <1>1, <1>2, SameWay DEF ReaderInv
<1>4. CopiedPart'
  <2>1. Len(Found.contents) \in Nat
    BY <1>2, FoundStored
  <2>2. 0 \div BlockSize = 0 /\ 0 * BlockSize = 0
    BY WholeBlocks, Ext2Assumption
  <2> QED BY <1>1, <1>3, <2>1, <2>2 DEF CopiedPart, BlockIdx
<1>5. ReaderTypes'
  BY <1>1 DEF ReaderInv, ReaderTypes, Calling
<1>6. inode' = InodeOf(image, ino)'
  BY <1>1 DEF ReaderInv, InodeOf, TableOf
<1> QED BY <1>1, <1>3, <1>4, <1>5, <1>6 DEF ReaderInv, Calling, Opened, Wanted

\* Steps that only choose what is read next.
LEMMA ChooseKeeps ==
  ASSUME ReaderInv, AllocBuf \/ IndirectBlock \/ NoHole \/ Return
  PROVE  ReaderInv'
<1>1. UNCHANGED <<image, asked, path, ino, table, inode, target, data, block, trouble>>
  BY DEF AllocBuf, Alloc, IndirectBlock, NoHole, Return, call, node, reading
<1>2. UNCHANGED call /\ ino' = ino /\ UNCHANGED data
  BY <1>1 DEF call
<1>3. OnTheWay => OnTheWay'
  BY <1>2, SameWay
<1>4. CopiedPart => CopiedPart'
  BY <1>2, SameData
<1>5. Left' = Left /\ BlockIdx' = BlockIdx /\ IsDirect' = IsDirect /\ IsIndirect' = IsIndirect
  BY <1>1 DEF Left, BlockIdx, IsDirect, IsIndirect
<1>6. ReaderTypes'
  BY <1>1 DEF ReaderInv, ReaderTypes, Calling, AllocBuf, Alloc, IndirectBlock, NoHole, Return
<1>7. CASE AllocBuf
  BY <1>1, <1>3, <1>4, <1>6, <1>7 DEF ReaderInv, Calling, Opened, Wanted, AllocBuf, Alloc
<1>8. CASE IndirectBlock
  BY <1>1, <1>3, <1>4, <1>5, <1>6, <1>8 DEF ReaderInv, Calling, Opened, Wanted, IndirectBlock
<1>9. CASE NoHole
  BY <1>1, <1>3, <1>4, <1>5, <1>6, <1>9 DEF ReaderInv, Calling, Opened, Wanted, NoHole
<1>10. CASE Return
  BY <1>1, <1>3, <1>4, <1>5, <1>6, <1>10 DEF ReaderInv, Calling, Opened, Wanted, Return
<1> QED BY <1>7, <1>8, <1>9, <1>10

LEMMA BlockKeeps ==
  ASSUME ReaderInv, DirectBlock \/ ReadInd
  PROVE  ReaderInv'
<1>1. /\ UNCHANGED <<image, asked, path, ino, table, inode, target, data, trouble>>
      /\ bufs' \subseteq bufs
      /\ pc \in Calling /\ pc \in Opened /\ pc' = "block"
  BY DEF DirectBlock, ReadInd, call, node, Calling, Opened
<1>2. UNCHANGED call /\ ino' = ino /\ UNCHANGED data
  BY <1>1 DEF call
<1>3. OnTheWay'
  BY <1>1, <1>2, SameWay DEF ReaderInv
<1>4. CopiedPart'
  BY <1>1, <1>2, SameData DEF ReaderInv
<1>5. Left' = Left /\ BlockIdx' = BlockIdx /\ IsDirect' = IsDirect /\ IsIndirect' = IsIndirect
  BY <1>1 DEF Left, BlockIdx, IsDirect, IsIndirect
<1>6. Left > 0 /\ (IsDirect \/ IsIndirect)
  BY DEF DirectBlock, ReadInd, ReaderInv, Wanted
<1>7. /\ inode = InodeOf(image, ino) /\ BlockIdx \in Nat
      /\ BlockIdx * BlockSize < Len(Found.contents) /\ BlockIdx \in 0 .. MaxBlocks - 1
  BY <1>1, <1>6, BlockWanted
<1>8. block' = NumberOf(image, inode, BlockIdx)
  <2>1. CASE DirectBlock
    BY <2>1 DEF DirectBlock, IsDirect, NumberOf
  <2>2. CASE ReadInd
    <3>1. IsIndirect
      BY <2>2 DEF ReadInd, ReaderInv
    <3>2. ~(BlockIdx < Direct) /\ Direct <= BlockIdx
      BY <3>1, <1>7, Ext2Assumption DEF IsIndirect, IsDirect
    <3>3. Direct * BlockSize < Len(Found.contents)
      <4>1. Direct * BlockSize <= BlockIdx * BlockSize
        BY <3>2, <1>7, WholeBlocks, Ext2Assumption
      <4>2. /\ Direct * BlockSize \in Nat /\ BlockIdx * BlockSize \in Nat
            /\ Len(Found.contents) \in Nat
        BY <1>1, <1>7, WholeBlocks, Ext2Assumption, FoundStored
      <4> QED BY <4>1, <4>2, <1>7
    <3>4. inode.blocks[Direct + 1] # 0
      <4>1. Len(Found.contents) > Direct * BlockSize
        <5>1. Direct * BlockSize \in Nat /\ Len(Found.contents) \in Nat
          BY <1>1, WholeBlocks, Ext2Assumption, FoundStored
        <5> QED BY <3>3, <5>1
      <4> QED BY <4>1, <1>1, <1>7, FoundStored
    <3> QED BY <2>2, <3>2, <3>4 DEF ReadInd, NumberOf, Disk
  <2> QED BY <2>1, <2>2
<1>9. block' \in Nat
  BY <1>1, <1>7, <1>8, FoundStored
<1>10. ReaderTypes'
  BY <1>1, <1>9 DEF ReaderInv, ReaderTypes, Calling
<1>11. NumberOf(image, inode, BlockIdx)' = NumberOf(image, inode, BlockIdx)
  BY <1>1, <1>5 DEF NumberOf
<1>12. /\ inode' = InodeOf(image, ino)'
       /\ IF path' = <<>> THEN target' = "file" ELSE target' = "dir" /\ IsDir(inode'.mode)
  BY <1>1, <1>7 DEF ReaderInv, InodeOf, TableOf
<1> QED BY <1>1, <1>3, <1>4, <1>5, <1>6, <1>8, <1>10, <1>11, <1>12
        DEF ReaderInv, Calling, Opened, Wanted

\* A block is read where the file has it, and what is copied of it is the file's.
LEMMA ReadDataKeeps ==
  ASSUME ReaderInv, ReadData
  PROVE  ReaderInv'
<1>1. /\ pc = "read_data" /\ pc' = "next" /\ data' = data \o ChunkOf(block)
      /\ UNCHANGED <<image, asked, path, ino, table, inode, target, block, trouble>>
      /\ bufs' \subseteq bufs
  BY DEF ReadData, call, node
<1>2. UNCHANGED call /\ ino' = ino /\ pc \in Calling /\ pc \in Opened
  BY <1>1 DEF call, Calling, Opened
<1>3. OnTheWay' /\ Found' = Found
  BY <1>2, SameWay DEF ReaderInv
<1>4. /\ Left > 0 /\ (IsDirect \/ IsIndirect) /\ CopiedPart
      /\ block = NumberOf(image, inode, BlockIdx) /\ block # 0
  BY <1>1, <1>2 DEF ReaderInv, Wanted
<1> DEFINE C == Found.contents
           k == BlockIdx
           b == BlockSize
           n == IF Left < b THEN Left ELSE b
<1>5. /\ inode = InodeOf(image, ino) /\ inode.size = Len(C) /\ Left \in Nat
      /\ k \in Nat /\ Len(data) \in Nat /\ Len(data) = k * b /\ k * b < Len(C)
      /\ k \in 0 .. MaxBlocks - 1
  BY <1>2, <1>4, BlockWanted
<1>6. Holds(image, block, k, C)
  BY <1>2, <1>4, <1>5, FoundStored
<1>7. b \in Nat \ {0} /\ Len(C) \in Nat /\ C \in Seq(Elements(C)) /\ k * b \in Nat
  BY <1>2, <1>5, Ext2Assumption, FoundStored, WholeBlocks
<1>8. Left = Len(C) - k * b
  BY <1>5 DEF Left
<1> HIDE DEF C, k, b
<1>9. n \in Nat /\ n <= b /\ k * b + n <= Len(C) /\ n # 0 /\ (n = b \/ k * b + n = Len(C))
  <2> DEFINE m == k * b
             c == Len(C)
  <2>1. m \in Nat /\ c \in Nat /\ b \in Nat \ {0} /\ Left = c - m /\ Left \in Nat /\ Left > 0
    BY <1>4, <1>5, <1>7, <1>8
  <2> HIDE DEF m, c
  <2>2. n \in Nat /\ n <= b /\ m + n <= c /\ n # 0 /\ (n = b \/ m + n = c)
    BY <2>1
  <2> QED BY <2>2 DEF m, c
<1>10. /\ \A i \in 1 .. n : image.disk[block][i] = C[k * b + i] /\ C[k * b + i] \in Elements(C)
       /\ Len(image.disk[block]) = b
  <2>1. ASSUME NEW i \in 1 .. n
        PROVE  image.disk[block][i] = C[k * b + i] /\ C[k * b + i] \in Elements(C)
    <3>1. i \in 1 .. b /\ k * b + i <= Len(C) /\ k * b + i \in 1 .. Len(C)
      BY <1>7, <1>9
    <3>2. image.disk[block][i] = C[k * b + i]
      BY <1>6, <3>1 DEF Holds, b
    <3>3. DOMAIN C = 1 .. Len(C)
      BY <1>7
    <3> QED BY <3>1, <3>2, <3>3 DEF Elements
  <2> QED BY <2>1, <1>6 DEF Holds, b
<1> DEFINE chunk == SubSeq(image.disk[block], 1, n)
<1>11. chunk = ChunkOf(block)
  BY DEF ChunkOf, Disk, b
<1> HIDE DEF n
<1>12. /\ chunk \in Seq(Elements(C)) /\ Len(chunk) = n
       /\ \A i \in 1 .. n : chunk[i] = C[k * b + i]
  <2>1. \A i \in 1 .. n : image.disk[block][i] \in Elements(C)
    BY <1>10
  <2>2. 1 \in Int /\ n \in Int /\ 1 <= n /\ n - 1 + 1 = n /\ \A i \in 1 .. n : 1 + i - 1 = i
    BY <1>9
  <2>3. /\ chunk \in Seq(Elements(C))
        /\ Len(chunk) = IF 1 <= n THEN n - 1 + 1 ELSE 0
        /\ \A i \in 1 .. n - 1 + 1 : chunk[i] = image.disk[block][1 + i - 1]
    BY <2>1, <2>2, SubSeqProperties
  <2> HIDE DEF chunk
  <2> QED BY <2>2, <2>3, <1>10
<1> HIDE DEF chunk
<1>13. data \in Seq(Elements(C)) /\ \A i \in 1 .. Len(data) : data[i] = C[i]
  BY <1>4 DEF CopiedPart, C
<1>14. /\ data' \in Seq(Elements(C)) /\ Len(data') = k * b + n
       /\ \A i \in 1 .. Len(data') : data'[i] = C[i]
  <2>1. data' = data \o chunk
    BY <1>1, <1>11
  <2>2. /\ data \o chunk \in Seq(Elements(C))
        /\ Len(data \o chunk) = Len(data) + Len(chunk)
        /\ \A i \in 1 .. Len(data) + Len(chunk) :
             (data \o chunk)[i] = IF i <= Len(data) THEN data[i] ELSE chunk[i - Len(data)]
    BY <1>12, <1>13, ConcatProperties, Zenon
  <2>3. ASSUME NEW i \in 1 .. Len(data) + Len(chunk) PROVE (data \o chunk)[i] = C[i]
    <3>1. \/ i \in 1 .. Len(data)
          \/ ~(i <= Len(data)) /\ i - Len(data) \in 1 .. n /\ k * b + (i - Len(data)) = i
      BY <1>5, <1>9, <1>12, <1>7
    <3> QED BY <3>1, <2>2, <1>12, <1>13
  <2> QED BY <2>1, <2>2, <2>3, <1>12, <1>5
<1>15. Len(data') < Len(C) => Len(data') = (Len(data') \div b) * b
  <2> SUFFICES ASSUME Len(data') < Len(C) PROVE Len(data') = (Len(data') \div b) * b
    OBVIOUS
  <2>1. n = b
    BY <1>9, <1>14, <1>7
  <2>2. k + 1 \in Nat /\ (k + 1) * b = k * b + b
    BY <1>5, <1>7, WholeBlocks DEF b
  <2>3. ((k + 1) * b) \div b = k + 1
    BY <2>2, WholeBlocks DEF b
  <2> QED BY <2>1, <2>2, <2>3, <1>14
<1>16. CopiedPart'
  <2>1. Len(data') <= Len(C)
    BY <1>9, <1>14
  <2> QED BY <2>1, <1>3, <1>14, <1>15 DEF CopiedPart, BlockIdx, C, b
<1>17. ReaderTypes'
  BY <1>1 DEF ReaderInv, ReaderTypes, Calling
<1>18. /\ inode' = InodeOf(image, ino)'
       /\ IF path' = <<>> THEN target' = "file" ELSE target' = "dir" /\ IsDir(inode'.mode)
  BY <1>1, <1>2, <1>5 DEF ReaderInv, InodeOf, TableOf
<1> QED BY <1>1, <1>3, <1>16, <1>17, <1>18 DEF ReaderInv, Calling, Opened, Wanted

\* When nothing is left the whole file has been copied.
LEMMA AllCopied ==
  ASSUME ReaderInv, pc \in Opened, Left = 0
  PROVE  data = Found.contents
<1>1. pc \in Calling /\ CopiedPart /\ inode = InodeOf(image, ino)
  BY DEF ReaderInv, Calling, Opened
<1>2. inode.size = Len(Found.contents) /\ Found.contents \in Seq(Elements(Found.contents))
      /\ Len(Found.contents) \in Nat
  BY <1>1, FoundStored
<1>3. Len(data) = Len(Found.contents)
  <2>1. Len(data) \in Nat
    BY <1>1 DEF CopiedPart
  <2> QED BY <2>1, <1>2 DEF Left
<1> QED BY <1>1, <1>2, <1>3, SeqEqual, Zenon DEF CopiedPart

\* The next component of the path.
LEMMA NextOnTheWay ==
  ASSUME ReaderInv, pc \in Calling, path # <<>>
  PROVE  LET n == Len(asked) - Len(path) IN
         /\ n \in 0 .. Len(asked) - 1 /\ Len(asked) \in Nat /\ Len(path) \in Nat
         /\ asked \in Seq(Elements(asked))
         /\ Head(path) = asked[n + 1] /\ Tail(path) = SubSeq(asked, n + 2, Len(asked))
         /\ Len(Tail(path)) = Len(path) - 1
         /\ SubSeq(asked, 1, n + 1) = Append(Reached, Head(path))
         /\ SubSeq(asked, 1, n + 1) \in Steps /\ SubSeq(asked, 1, n + 1) # <<>>
         /\ Len(SubSeq(asked, 1, n + 1)) = n + 1
         /\ SubSeq(asked, 1, n + 1)[n + 1] = Head(path)
         /\ SubSeq(SubSeq(asked, 1, n + 1), 1, n) = Reached
<1> DEFINE n == Len(asked) - Len(path)
<1>1. OnTheWay
  BY DEF ReaderInv
<1>2. /\ asked \in Paths /\ asked \in Seq(Elements(asked)) /\ Len(asked) \in Nat
      /\ Len(path) \in 0 .. Len(asked) /\ path = SubSeq(asked, n + 1, Len(asked))
      /\ n \in 0 .. Len(asked)
  <2>1. asked \in Paths /\ asked \in Seq(Elements(asked))
    BY <1>1, ImagesAssumption DEF OnTheWay
  <2>2. Len(asked) \in Nat
    BY <2>1
  <2> QED BY <2>1, <2>2, <1>1 DEF OnTheWay
<1>3. n # Len(asked)
  <2> SUFFICES ASSUME n = Len(asked) PROVE FALSE
    OBVIOUS
  <2>1. Len(path) = 0
    BY <1>2
  <2>2. path \in Seq(Elements(asked))
    BY <1>2
  <2> QED BY <2>1, <2>2
<1>4. n \in 0 .. Len(asked) - 1 /\ n + 1 \in 1 .. Len(asked) /\ Len(asked) \in n + 1 .. Len(asked)
      /\ n + 1 \in 1 .. n + 1 /\ 1 \in 1 .. Len(asked)
  BY <1>2, <1>3
<1>5. Head(path) = asked[n + 1] /\ Tail(path) = SubSeq(asked, n + 2, Len(asked))
  <2>1. (n + 1) + 1 = n + 2
    BY <1>2
  <2> QED BY <2>1, <1>2, <1>4, HeadTailOfSubSeq
<1>6. Len(Tail(path)) = Len(path) - 1
  <2>1. Len(SubSeq(asked, n + 2, Len(asked))) = Len(asked) - (n + 2) + 1
    BY <1>2, <1>4
  <2> QED BY <2>1, <1>2, <1>5
<1> DEFINE q == SubSeq(asked, 1, n + 1)
<1>7. q \in Seq(Elements(asked)) /\ Len(q) = n + 1 /\ \A i \in 1 .. n + 1 : q[i] = asked[i]
  BY <1>2, <1>4
<1>8. Reached = SubSeq(asked, 1, n) /\ Reached \in Seq(Elements(asked)) /\ Len(Reached) = n
      /\ \A i \in 1 .. n : Reached[i] = asked[i]
  BY <1>2, <1>4 DEF Reached
<1>9. asked[n + 1] \in Elements(asked)
  <2>1. DOMAIN asked = 1 .. Len(asked)
    BY <1>2
  <2> QED BY <2>1, <1>4 DEF Elements
<1> HIDE DEF q
<1>10. q = Append(Reached, Head(path))
  <2> DEFINE r == Append(Reached, asked[n + 1])
  <2>1. /\ r \in Seq(Elements(asked)) /\ Len(r) = n + 1 /\ r[n + 1] = asked[n + 1]
        /\ \A i \in 1 .. n : r[i] = asked[i]
    BY <1>2, <1>8, <1>9
  <2> HIDE DEF r
  <2>2. \A i \in 1 .. n + 1 : q[i] = r[i]
    BY <2>1, <1>2, <1>7
  <2>3. q = r
    BY <2>1, <2>2, <1>7, SeqEqual
  <2> QED BY <2>3, <1>5 DEF r
<1>11. SubSeq(q, 1, n) = Reached
  <2>1. SubSeq(q, 1, n) \in Seq(Elements(asked)) /\ Len(SubSeq(q, 1, n)) = n
        /\ \A i \in 1 .. n : SubSeq(q, 1, n)[i] = asked[i]
    BY <1>2, <1>7
  <2> QED BY <2>1, <1>8, SeqEqual
<1>12. q \in Steps
  <2>1. n + 1 \in 0 .. Len(asked)
    BY <1>2, <1>4
  <2> QED BY <2>1, <1>2 DEF Steps, q
<1>13. q # <<>>
  BY <1>2, <1>7
<1>14. q[n + 1] = Head(path)
  BY <1>4, <1>5, <1>7
<1> QED BY <1>2, <1>4, <1>5, <1>6, <1>7, <1>10, <1>11, <1>12, <1>13, <1>14 DEF q

-----------------------------------------------------------------------------
(* From a directory to what is in it *)

\* The directory that was read is searched as it is, and what it holds is a file
\* of the path or is not asked for.
LEMMA DirectorySearched ==
  ASSUME ReaderInv, pc = "next", Left = 0, target = "dir"
  PROVE  LET q == SubSeq(asked, 1, Len(asked) - Len(path) + 1) IN
         /\ path # <<>>
         /\ Lookup(data, Head(path)) # 0 => /\ q \in DOMAIN image.files
                                            /\ Lookup(data, Head(path)) = image.files[q].ino
         /\ q \in DOMAIN image.files => Lookup(data, Head(path)) # 0
<1> DEFINE n    == Len(asked) - Len(path)
           q    == SubSeq(asked, 1, n + 1)
           name == Head(path)
           C    == Found.contents
<1>1. /\ pc \in Calling /\ pc \in Opened /\ path # <<>> /\ IsDir(inode.mode)
      /\ inode = InodeOf(image, ino) /\ image \in Images /\ Reached \in DOMAIN image.files
  BY DEF ReaderInv, ReaderTypes, Calling, Opened, OnTheWay
<1>2. data = C
  BY <1>1, AllCopied
<1>3. /\ n \in Nat /\ q = Append(Reached, name) /\ q \in Steps /\ q # <<>> /\ Len(q) = n + 1
      /\ q[n + 1] = name /\ SubSeq(q, 1, n) = Reached
  <2>1. /\ n \in 0 .. Len(asked) - 1 /\ Len(asked) \in Nat /\ q = Append(Reached, name) /\ q \in Steps
        /\ q # <<>> /\ Len(q) = n + 1 /\ q[n + 1] = name /\ SubSeq(q, 1, n) = Reached
    BY <1>1, NextOnTheWay
  <2> HIDE DEF n, q, name
  <2> QED BY <2>1
<1>4. Len(C) \in Nat /\ inode.mode = Found.mode
  BY <1>1, FoundStored
<1>5. Listed(image, Reached)
  BY <1>1, <1>4, FilesStored DEF Found
<1> HIDE DEF n, q, name, C
<1>6. /\ \A i \in 1 .. Len(C) : C[i].rec_len \in Nat
      /\ \E starts \in SUBSET (0 .. Len(C)) :
           /\ Entries(C, starts)
           /\ \A s \in starts \ {Len(C)} : LET de == C[s + 1]
                                               p  == Append(Reached, de.name) IN
                de.inode # 0 /\ p \in Steps =>
                  p \in DOMAIN image.files /\ image.files[p].ino = de.inode
           /\ \A p \in DOMAIN image.files : p # <<>> /\ SubSeq(p, 1, Len(p) - 1) = Reached =>
                \E s \in starts \ {Len(C)} : Matches(C[s + 1], p[Len(p)])
  BY <1>5 DEF Listed, C, Found
<1>7. PICK starts \in SUBSET (0 .. Len(C)) :
           /\ Entries(C, starts)
           /\ \A s \in starts \ {Len(C)} : LET de == C[s + 1]
                                               p  == Append(Reached, de.name) IN
                de.inode # 0 /\ p \in Steps =>
                  p \in DOMAIN image.files /\ image.files[p].ino = de.inode
           /\ \A p \in DOMAIN image.files : p # <<>> /\ SubSeq(p, 1, Len(p) - 1) = Reached =>
                \E s \in starts \ {Len(C)} : Matches(C[s + 1], p[Len(p)])
  BY <1>6
<1> DEFINE found == Hits(C, starts, name)
<1>8. /\ found = {} => Lookup(C, name) = 0
      /\ found # {} => Lookup(C, name) \in {C[s + 1].inode : s \in found}
  <2>1. Len(C) \in Nat
    BY <1>4
  <2>2. \A i \in 1 .. Len(C) : C[i].rec_len \in Nat
    BY <1>6
  <2>3. starts \in SUBSET (0 .. Len(C)) /\ Entries(C, starts)
    BY <1>7
  <2> QED BY <2>1, <2>2, <2>3, LookupFinds, Zenon
<1>9. ASSUME NEW s \in found
      PROVE  q \in DOMAIN image.files /\ image.files[q].ino = C[s + 1].inode /\ C[s + 1].inode # 0
  <2>1. C[s + 1].inode # 0 /\ C[s + 1].name = name /\ s \in starts \ {Len(C)}
    BY DEF Matches, Hits
  <2> QED BY <2>1, <1>3, <1>7
<1>10. q \in DOMAIN image.files => found # {}
  <2> SUFFICES ASSUME q \in DOMAIN image.files PROVE found # {}
    OBVIOUS
  <2>1. Len(q) - 1 = n
    BY <1>3
  <2>2. \E s \in starts \ {Len(C)} : Matches(C[s + 1], q[Len(q)])
    BY <1>3, <1>7, <2>1
  <2> QED BY <2>2, <1>3 DEF Hits
<1> HIDE DEF found
<1>11. Lookup(C, name) # 0 => q \in DOMAIN image.files /\ Lookup(C, name) = image.files[q].ino
  BY <1>8, <1>9
<1>12. q \in DOMAIN image.files => Lookup(C, name) # 0
  BY <1>8, <1>9, <1>10
<1> QED BY <1>1, <1>2, <1>11, <1>12 DEF q, n, name

LEMMA DescendKeeps ==
  ASSUME ReaderInv, Descend
  PROVE  ReaderInv'
<1> DEFINE n == Len(asked) - Len(path)
           q == SubSeq(asked, 1, n + 1)
<1>1. /\ pc = "next" /\ pc' = "alloc_bgd" /\ Left = 0 /\ target = "dir"
      /\ UNCHANGED <<image, asked, table, inode, target, data, block, trouble>>
      /\ bufs' \subseteq bufs
      /\ path' = Tail(path) /\ ino' = Lookup(data, Head(path)) /\ Lookup(data, Head(path)) # 0
  BY DEF Descend, reading
<1>2. path # <<>> /\ q \in DOMAIN image.files /\ ino' = image.files[q].ino
  BY <1>1, DirectorySearched
<1>3. pc \in Calling /\ image \in Images /\ asked \in Paths
  BY <1>1 DEF ReaderInv, ReaderTypes, Calling, OnTheWay
<1>4. /\ n \in 0 .. Len(asked) - 1 /\ Len(asked) \in Nat /\ Len(path) \in Nat
      /\ path' = SubSeq(asked, n + 2, Len(asked)) /\ Len(path') = Len(path) - 1
  BY <1>1, <1>2, <1>3, NextOnTheWay
<1>5. ino' \in Nat
  BY <1>2, <1>3, FilesStored DEF Stored
<1>6. OnTheWay'
  <2>1. Len(path') \in 0 .. Len(asked) /\ Len(asked) - Len(path') = n + 1 /\ (n + 1) + 1 = n + 2
    <3> DEFINE a == Len(asked)
               l == Len(path)
               m == Len(path')
    <3>1. a \in Nat /\ l \in Nat /\ m = l - 1 /\ a - l \in 0 .. a - 1
      BY <1>4
    <3> HIDE DEF a, l, m
    <3>2. m \in 0 .. a /\ a - m = (a - l) + 1 /\ ((a - l) + 1) + 1 = (a - l) + 2
      BY <3>1
    <3> QED BY <3>2 DEF a, l, m
  <2>2. Reached' = q
    BY <1>1, <2>1 DEF Reached
  <2> HIDE DEF n, q
  <2> QED BY <1>1, <1>2, <1>3, <1>4, <2>1, <2>2 DEF OnTheWay, Found
<1>7. ReaderTypes'
  BY <1>1, <1>5 DEF ReaderInv, ReaderTypes, Calling
<1> QED BY <1>1, <1>6, <1>7 DEF ReaderInv, Calling, Opened, Wanted

LEMMA ReaderStarts == Init => ReaderInv
<1> SUFFICES ASSUME Init PROVE ReaderInv
  OBVIOUS
<1>1. ReaderTypes
  BY DEF Init, ReaderTypes
<1>2. pc = "unmounted"
  BY DEF Init
<1> QED BY <1>1, <1>2 DEF ReaderInv, Calling, Opened, Wanted

LEMMA ReaderNext == ReaderInv /\ [Next]_vars => ReaderInv'
<1> SUFFICES ASSUME ReaderInv, [Next]_vars PROVE ReaderInv'
  OBVIOUS
<1>1. CASE UNCHANGED vars
  BY <1>1 DEF vars, ReaderInv, ReaderTypes, OnTheWay, Reached, Found, TableOf, InodeOf, CopiedPart,
              BlockIdx, Left, IsDirect, IsIndirect, NumberOf
<1>2. ASSUME NEW p \in Paths, Call(p) PROVE ReaderInv'
  BY <1>2, CallKeeps
<1>3. CASE Mount \/ MountFails \/ NoRootfs \/ Consume \/ TooLarge \/ Hole \/ WrongKind \/ NotFound
           \/ AllocFails \/ ReadFails
  BY <1>3, EndKeeps
<1>4. CASE AllocBgd \/ AllocIno \/ AllocInd \/ AllocData
  BY <1>4, AllocKeeps
<1>5. CASE ReadBgd \/ ReadIno
  BY <1>5, ReadInodeKeeps
<1>6. CASE OpenDir \/ OpenFile
  BY <1>6, OpenKeeps
<1>7. CASE AllocBuf \/ IndirectBlock \/ NoHole \/ Return
  BY <1>7, ChooseKeeps
<1>8. CASE DirectBlock \/ ReadInd
  BY <1>8, BlockKeeps
<1>9. CASE ReadData
  BY <1>9, ReadDataKeeps
<1>10. CASE Descend
  BY <1>10, DescendKeeps
<1> QED BY <1>1, <1>2, <1>3, <1>4, <1>5, <1>6, <1>7, <1>8, <1>9, <1>10 DEF Next, ReadFile

\* On every file system the reader follows the path: what it has read is what
\* the files on the way hold.
THEOREM ReaderInvariance == Spec => []ReaderInv
BY ReaderStarts, ReaderNext, PTL DEF Spec

-----------------------------------------------------------------------------
(* What a call returns, and when it does not *)

\* A call returns the contents of the file its path names: for every size of the
\* file, in blocks of every size and inode tables of every group.
THEOREM TheFileIsRead == Spec => []ReadsTheFile
<1>1. ASSUME ReaderInv PROVE ReadsTheFile
  <2>1. pc \in Opened => Left \in 0 .. inode.size
    <3> SUFFICES ASSUME pc \in Opened PROVE Left \in 0 .. inode.size
      OBVIOUS
    <3>1. pc \in Calling /\ CopiedPart /\ inode = InodeOf(image, ino)
      BY <1>1 DEF ReaderInv, Calling, Opened
    <3>2. inode.size = Len(Found.contents) /\ Len(Found.contents) \in Nat
      BY <1>1, <3>1, FoundStored
    <3>3. Len(data) \in Nat /\ Len(data) <= Len(Found.contents)
      BY <3>1 DEF CopiedPart
    <3> QED BY <3>2, <3>3 DEF Left
  <2>2. TypeOK
    BY <1>1, <2>1 DEF TypeOK, ReaderInv, ReaderTypes, Calling, Opened
  <2>3. ASSUME pc = "done" PROVE asked \in DOMAIN image.files /\ data = image.files[asked].contents
    <3>1. Left = 0 /\ path = <<>> /\ OnTheWay /\ pc \in Opened
      BY <1>1, <2>3 DEF ReaderInv, Calling, Opened
    <3>2. data = Found.contents
      BY <1>1, <3>1, AllCopied
    <3>3. Reached = asked
      <4>1. asked \in Seq(Elements(asked)) /\ Len(path) = 0
        BY <3>1, ImagesAssumption DEF OnTheWay
      <4>2. Len(asked) - 0 = Len(asked)
        BY <4>1
      <4> QED BY <4>1, <4>2, SubSeqFull DEF Reached
    <3> QED BY <3>1, <3>2, <3>3 DEF OnTheWay, Found
  <2> QED BY <2>2, <2>3 DEF ReadsTheFile
<1> QED BY <1>1, ReaderInvariance, PTL

\* The files on the way to one that can be read can be read too.
LEMMA OnTheWayFits ==
  ASSUME ReaderInv, pc \in Calling, Readable(asked)
  PROVE  /\ ~Found.holes /\ Len(Found.contents) \in 1 .. MaxBlocks * BlockSize
         /\ IF path = <<>> THEN IsReg(Found.mode) ELSE IsDir(Found.mode)
         /\ path # <<>> => SubSeq(asked, 1, Len(asked) - Len(path) + 1) \in DOMAIN image.files
<1> DEFINE n == Len(asked) - Len(path)
<1>1. OnTheWay /\ image \in Images
  BY DEF ReaderInv, ReaderTypes
<1>2. asked \in Seq(Elements(asked)) /\ Len(asked) \in Nat
  BY <1>1, ImagesAssumption DEF OnTheWay
<1>3. n \in 0 .. Len(asked)
  BY <1>1, <1>2 DEF OnTheWay
<1>4. Fits(Found)
  BY <1>3 DEF Readable, Found, Reached
<1>5. ASSUME path = <<>> PROVE IsReg(Found.mode)
  <2>1. Len(path) = 0 /\ Len(asked) - 0 = Len(asked)
    BY <1>2, <1>5
  <2>2. Reached = asked
    BY <1>2, <2>1, SubSeqFull DEF Reached
  <2>3. IsRegular(Found.mode) /\ Found.mode \in Nat
    BY <2>2, FoundStored DEF Readable, Found
  <2>4. \A mode \in Nat : mode \div 4096 = 8 => (mode \div 32768) % 2 = 1
    OBVIOUS
  <2> QED BY <2>3, <2>4 DEF IsRegular, IsReg, Has
<1>6. ASSUME path # <<>>
      PROVE  IsDir(Found.mode) /\ SubSeq(asked, 1, n + 1) \in DOMAIN image.files
  <2>1. n \in 0 .. Len(asked) - 1
    BY <1>6, NextOnTheWay
  <2>2. asked \in DOMAIN image.files
    BY DEF Readable
  <2>3. IsDir(Found.mode)
    BY <1>1, <2>1, <2>2, FilesStored DEF Found, Reached
  <2>4. CASE n + 1 = Len(asked)
    <3>1. SubSeq(asked, 1, n + 1) = asked
      BY <1>2, <2>4, SubSeqFull
    <3> QED BY <2>2, <2>3, <3>1
  <2>5. CASE n + 1 # Len(asked)
    <3>1. n + 1 \in 0 .. Len(asked) - 1
      BY <1>2, <2>1, <2>5
    <3> HIDE DEF n
    <3> QED BY <1>1, <2>2, <2>3, <3>1, FilesStored
  <2> QED BY <2>4, <2>5
<1> QED BY <1>4, <1>5, <1>6 DEF Fits

\* A call fails only because a kmalloc or a read of the disk failed, or because
\* the file or a directory before it cannot be read.
THEOREM TheFileIsFound == Spec => FindsTheFile
<1>1. ASSUME ReaderInv, ReaderInv', [Next]_vars, Running, pc' = "idle", Readable(asked)
      PROVE  trouble'
  <2> DEFINE length == Len(Found.contents)
  <2>1. pc \in Calling /\ pc # "done"
    BY <1>1 DEF ReaderInv, ReaderTypes, Calling, Running
  <2>2. TooLarge \/ Hole \/ WrongKind \/ NotFound \/ AllocFails \/ ReadFails
    BY <1>1, <2>1 DEF Next, ReadFile, Mount, MountFails, NoRootfs, Call, AllocBgd, ReadBgd,
      AllocIno, ReadIno, AllocBuf, DirectBlock, IndirectBlock, AllocInd, ReadInd, NoHole, AllocData, ReadData,
      OpenDir, OpenFile, Descend, Return, Consume, Alloc, vars, Calling
  <2>3. ~Found.holes /\ length \in 1 .. MaxBlocks * BlockSize
    BY <1>1, <2>1, OnTheWayFits
  <2>4. /\ InodeOf(image, ino).size = length /\ InodeOf(image, ino).mode = Found.mode
        /\ Found.holes <=> \E k \in 0 .. MaxBlocks - 1 :
              k * BlockSize < length /\ NumberOf(image, InodeOf(image, ino), k) = 0
    BY <1>1, <2>1, FoundStored
  <2> HIDE DEF length
  <2>5. CASE TooLarge
    <3>1. pc \in Opened /\ Left > 0 /\ ~(IsDirect \/ IsIndirect)
      BY <2>5 DEF TooLarge, Opened
    <3>2. BlockIdx \in Nat /\ BlockIdx * BlockSize < length /\ BlockIdx \notin 0 .. MaxBlocks - 1
      BY <1>1, <3>1, BlockWanted DEF length
    <3>3. MaxBlocks \in Nat /\ MaxBlocks <= BlockIdx
      BY <3>2, Ext2Assumption DEF MaxBlocks
    <3>4. /\ MaxBlocks * BlockSize <= BlockIdx * BlockSize
          /\ MaxBlocks * BlockSize \in Nat /\ BlockIdx * BlockSize \in Nat
      BY <3>2, <3>3, WholeBlocks
    <3> QED BY <2>3, <3>2, <3>4
  <2>6. CASE Hole
    <3>1. /\ pc \in Opened /\ Left > 0 /\ (IsDirect \/ IsIndirect)
          /\ NumberOf(image, inode, BlockIdx) = 0
      BY <1>1, <2>6 DEF Hole, Opened, Wanted, ReaderInv
    <3>2. /\ inode = InodeOf(image, ino)
          /\ BlockIdx * BlockSize < length /\ BlockIdx \in 0 .. MaxBlocks - 1
      BY <1>1, <3>1, BlockWanted DEF length
    <3> QED BY <2>3, <2>4, <3>1, <3>2
  <2>7. CASE WrongKind
    <3>1. /\ inode = InodeOf(image, ino)
          /\ IF path = <<>> THEN ~IsReg(inode.mode) ELSE ~IsDir(inode.mode)
      BY <1>1, <2>7 DEF WrongKind, ReaderInv
    <3> QED BY <1>1, <2>1, <2>4, <3>1, OnTheWayFits
  <2>8. CASE NotFound
    <3>1. pc = "next" /\ Left = 0 /\ target = "dir" /\ Lookup(data, Head(path)) = 0
      BY <2>8 DEF NotFound
    <3>2. /\ path # <<>>
          /\ SubSeq(asked, 1, Len(asked) - Len(path) + 1) \in DOMAIN image.files =>
               Lookup(data, Head(path)) # 0
      BY <1>1, <3>1, DirectorySearched
    <3> QED BY <1>1, <2>1, <3>1, <3>2, OnTheWayFits
  <2>9. CASE AllocFails
    <3>1. pc = "alloc_buf" => inode = InodeOf(image, ino)
      BY <1>1 DEF ReaderInv, Opened
    <3>2. pc = "alloc_buf" => inode.size # 0
      BY <2>3, <2>4, <3>1
    <3> QED BY <2>9, <3>2 DEF AllocFails
  <2>10. CASE ReadFails
    BY <2>10 DEF ReadFails
  <2> QED BY <2>2, <2>5, <2>6, <2>7, <2>8, <2>9, <2>10
<1>2. ReaderInv /\ ReaderInv' /\ [Next]_vars
        => [Running /\ pc' = "idle" => trouble' \/ ~Readable(asked)]_vars
  BY <1>1
<1> QED BY <1>2, ReaderInvariance, PTL DEF Spec, FindsTheFile

-----------------------------------------------------------------------------
(* elf.c *)

\* Multiples of the page size lie a page apart.
LEMMA Multiples ==
  ASSUME NEW a \in Nat, NEW b \in Nat, a % PageBytes = 0, b % PageBytes = 0, a < b
  PROVE  a + PageBytes <= b /\ (a + PageBytes) % PageBytes = 0
<1>1. \A p \in Nat \ {0}, x, y \in Nat :
        x % p = 0 /\ y % p = 0 /\ x < y => x + p <= y /\ (x + p) % p = 0
  <2> SUFFICES ASSUME NEW p \in Nat \ {0}, NEW x \in Nat, NEW y \in Nat,
                      x % p = 0, y % p = 0, x < y
               PROVE  x + p <= y /\ (x + p) % p = 0
    OBVIOUS
  <2> DEFINE k == x \div p
             l == y \div p
  <2>1. k \in Nat /\ l \in Nat /\ x = p * k /\ y = p * l
    OBVIOUS
  <2> HIDE DEF k, l
  <2>2. k < l
    BY <2>1
  <2>3. p * k + p <= p * l
    BY <2>1, <2>2
  <2>4. x + p = p * (k + 1) /\ (p * (k + 1)) % p = 0
    BY <2>1
  <2> QED BY <2>1, <2>3, <2>4
<1>2. PageBytes \in Nat \ {0}
  BY ElfFileAssumption
<1> QED BY <1>1, <1>2

\* A sum is right, or it wraps around and is less than what was added to.
LEMMA Wraps ==
  ASSUME NEW a \in U64, NEW n \in 0 .. Word - 1
  PROVE  /\ Sum64(a, n) \in U64
         /\ a <= Sum64(a, n) => Sum64(a, n) = a + n
         /\ a + n < Word => Sum64(a, n) = a + n
<1>1. \A w \in Nat \ {0}, x, y \in Nat : x < w /\ y < w =>
        IF x + y < w THEN (x + y) % w = x + y ELSE (x + y) % w = x + y - w
  OBVIOUS
<1>2. Word \in Nat \ {0} /\ a \in Nat /\ n \in Nat /\ a < Word /\ n < Word
  BY ElfFileAssumption DEF U64
<1>3. IF a + n < Word THEN Sum64(a, n) = a + n ELSE Sum64(a, n) = a + n - Word
  BY <1>1, <1>2 DEF Sum64
<1> QED BY <1>2, <1>3 DEF U64

\* Rounding an address of user memory down.
LEMMA RoundsDown ==
  ASSUME NEW a \in Nat
  PROVE  /\ RoundDown(a) \in Nat /\ RoundDown(a) % PageBytes = 0
         /\ RoundDown(a) <= a /\ a < RoundDown(a) + PageBytes
<1>1. \A p \in Nat \ {0}, x \in Nat :
        /\ x - (x % p) \in Nat /\ (x - (x % p)) % p = 0
        /\ x - (x % p) <= x /\ x < x - (x % p) + p
  OBVIOUS
<1>2. PageBytes \in Nat \ {0}
  BY ElfFileAssumption
<1> QED BY <1>1, <1>2 DEF RoundDown

\* Rounding one up does not wrap around, and stays below the limit.
LEMMA RoundsUp ==
  ASSUME NEW a \in 0 .. UserLimit
  PROVE  /\ RoundUp(a) \in Nat /\ RoundUp(a) % PageBytes = 0
         /\ a <= RoundUp(a) /\ RoundUp(a) < a + PageBytes
         /\ RoundUp(a) <= UserLimit
<1>1. /\ PageBytes \in Nat \ {0} /\ UserLimit \in Nat /\ a \in Nat /\ Word \in Nat
      /\ UserLimit + PageBytes < Word /\ UserLimit % PageBytes = 0 /\ a <= UserLimit
  BY ElfFileAssumption
<1>2. Sum64(a, PageBytes - 1) = a + (PageBytes - 1)
  <2>1. a \in U64 /\ PageBytes - 1 \in 0 .. Word - 1
    BY <1>1 DEF U64
  <2> QED BY <1>1, <2>1, Wraps
<1> DEFINE s == a + (PageBytes - 1)
<1>3. RoundUp(a) = RoundDown(s) /\ s \in Nat
  BY <1>1, <1>2 DEF RoundUp
<1>4. /\ RoundDown(s) \in Nat /\ RoundDown(s) % PageBytes = 0
      /\ RoundDown(s) <= s /\ s < RoundDown(s) + PageBytes
  BY <1>3, RoundsDown
<1>5. a <= RoundDown(s) /\ RoundDown(s) < a + PageBytes
  BY <1>1, <1>4
<1>6. RoundDown(s) <= UserLimit
  <2>1. CASE UserLimit < RoundDown(s)
    <3>1. UserLimit + PageBytes <= RoundDown(s)
      BY <1>1, <1>4, <2>1, Multiples
    <3> QED BY <1>1, <1>4, <1>5, <3>1
  <2> QED BY <1>1, <1>4, <2>1
<1> QED BY <1>3, <1>4, <1>5, <1>6

\* The end of a later segment is on a page that ends no earlier.
LEMMA RoundsInOrder ==
  ASSUME NEW a \in 0 .. UserLimit, NEW b \in 0 .. UserLimit, a <= b
  PROVE  RoundUp(a) <= RoundUp(b)
<1>1. PageBytes \in Nat
  BY ElfFileAssumption
<1>2. CASE RoundUp(b) < RoundUp(a)
  <2>1. RoundUp(b) + PageBytes <= RoundUp(a)
    BY <1>2, RoundsUp, Multiples
  <2> QED BY <1>1, <2>1, RoundsUp
<1> QED BY <1>2, RoundsUp

\* A segment that passes the checks: nothing that is computed of it wraps around.
LEMMA SegmentFits ==
  ASSUME NEW ph \in Loads, Mappable(ph), bias \in {0, LoadBase}
  PROVE  /\ ph.memsz \in Nat \ {0} /\ ph.filesz \in Nat /\ ph.offset \in Nat
         /\ Start(ph) \in Nat /\ PageBytes <= Start(ph)
         /\ End(ph) = Start(ph) + ph.memsz /\ End(ph) <= UserLimit
         /\ ph.filesz <= ph.memsz
         /\ size \in Nat => ph.offset + ph.filesz <= size
         /\ Sum64(Start(ph), ph.filesz) = Start(ph) + ph.filesz
         /\ ph.offset + ph.filesz < Word
<1>1. /\ ph.memsz \in U64 /\ ph.memsz # 0 /\ ph.filesz \in U64 /\ ph.offset \in U64
      /\ ph.vaddr \in U64
  BY DEF Loads
<1>2. /\ Word \in Nat \ {0} /\ UserLimit \in Nat /\ UserLimit < Word /\ PageBytes \in Nat
      /\ bias \in 0 .. Word - 1
  BY ElfFileAssumption
<1>3. Start(ph) \in U64
  BY <1>1, <1>2, Wraps DEF Start
<1>4. /\ PageBytes <= Start(ph) /\ Start(ph) < UserLimit
      /\ ph.memsz <= UserLimit - Start(ph) /\ ph.filesz <= ph.memsz
      /\ ph.offset <= Sum64(ph.offset, ph.filesz) /\ Sum64(ph.offset, ph.filesz) <= size
  BY DEF Mappable, InUserRange, InFile
<1>5. Sum64(ph.offset, ph.filesz) = ph.offset + ph.filesz
  BY <1>1, <1>4, Wraps DEF U64
<1>6. ph.offset + ph.filesz < Word
  <2>1. ph.filesz \in 0 .. Word - 1
    BY <1>1 DEF U64
  <2>2. Sum64(ph.offset, ph.filesz) \in U64
    BY <1>1, <2>1, Wraps
  <2> QED BY <1>2, <1>5, <2>2 DEF U64
<1>7. End(ph) = Start(ph) + ph.memsz /\ Sum64(Start(ph), ph.filesz) = Start(ph) + ph.filesz
  <2>1. /\ Start(ph) \in Nat /\ ph.memsz \in 0 .. Word - 1 /\ ph.filesz \in 0 .. Word - 1
        /\ Start(ph) + ph.memsz < Word /\ Start(ph) + ph.filesz < Word
    BY <1>1, <1>2, <1>3, <1>4 DEF U64
  <2> QED BY <1>3, <2>1, Wraps DEF End
<1> QED BY <1>1, <1>2, <1>3, <1>4, <1>5, <1>6, <1>7 DEF U64

-----------------------------------------------------------------------------
(* The loader's invariant *)

\* What is mapped ends with the last segment that is done, or with the part of
\* the segment at hand that is.
PagesIn ==
  \A p \in pages :
    /\ p \in Nat /\ p % PageBytes = 0 /\ PageBytes <= p
    /\ \/ p + PageBytes <= RoundUp(high)
       \/ stage = "segment" /\ p + PageBytes <= va

\* The part of the segment below va is mapped, and its bytes are in their places.
Placed ==
  {<<seg.offset + i, Start(seg) + i>> : i \in {j \in 0 .. seg.filesz - 1 : Start(seg) + j < va}}

InSegment ==
  /\ seg \in Loads /\ Mappable(seg)
  /\ va \in Nat /\ va % PageBytes = 0
  /\ RoundDown(Start(seg)) <= va /\ va <= RoundUp(End(seg))
  /\ \A b \in Start(seg) .. Start(seg) + seg.memsz - 1 :
       RoundDown(b) < va => RoundDown(b) \in pages
  /\ placed = Placed

ElfInv ==
  /\ size \in 0 .. MaxFile
  /\ bias \in {0, LoadBase}
  /\ high \in 0 .. UserLimit
  /\ stage \in {"header", "between", "segment", "loaded", "refused"}
  /\ \A b \in bytes : b < size
  /\ PagesIn
  /\ stage \in {"header", "between"} => placed = {}
  /\ IF stage = "segment" THEN InSegment ELSE TRUE
  /\ stage = "loaded" => RoundUp(high) = high

LEMMA InitElfInv == ElfInit => ElfInv
BY ElfFileAssumption DEF ElfInit, ElfInv, PagesIn

\* The table of program headers that is read lies in the file.
LEMMA HeaderReads ==
  ASSUME ElfInv, NEW phoff \in U64, NEW phnum \in 0 .. MaxPhdrs + 1, HeaderOk(phoff, phnum)
  PROVE  \A b \in 0 .. EhdrSize - 1 \cup {Sum64(phoff, i) : i \in 0 .. phnum * PhdrSize - 1} :
           b < size
<1> DEFINE n == phnum * PhdrSize
<1>1. /\ EhdrSize \in Nat /\ PhdrSize \in Nat \ {0} /\ MaxPhdrs \in Nat /\ Word \in Nat \ {0}
      /\ MaxPhdrs * PhdrSize < Word /\ size \in Nat /\ EhdrSize <= size
      /\ phnum \in Nat /\ phnum <= MaxPhdrs /\ phoff \in Nat
  BY ElfFileAssumption DEF ElfInv, HeaderOk, U64
<1>2. n \in Nat /\ n < Word
  <2>1. \A x, y, z \in Nat : x <= y => x * z \in Nat /\ x * z <= y * z
    OBVIOUS
  <2>2. n \in Nat /\ n <= MaxPhdrs * PhdrSize /\ MaxPhdrs * PhdrSize \in Nat
    BY <1>1, <2>1
  <2> HIDE DEF n
  <2> QED BY <1>1, <2>2
<1>3. phoff <= Sum64(phoff, n) /\ Sum64(phoff, n) <= size
  BY DEF HeaderOk, TableInFile
<1> HIDE DEF n
<1>4. n \in 0 .. Word - 1
  BY <1>1, <1>2
<1>5. phoff + n <= size /\ phoff + n < Word
  <2>1. Sum64(phoff, n) = phoff + n /\ Sum64(phoff, n) \in U64
    BY <1>3, <1>4, Wraps
  <2> QED BY <1>1, <1>3, <2>1 DEF U64
<1>6. ASSUME NEW i \in 0 .. n - 1
      PROVE  Sum64(phoff, i) < size
  <2>1. i \in 0 .. Word - 1 /\ phoff + i < Word /\ phoff + i < size
    BY <1>1, <1>2, <1>5
  <2>2. Sum64(phoff, i) = phoff + i
    BY <2>1, Wraps
  <2> QED BY <2>1, <2>2
<1> QED BY <1>1, <1>6 DEF n

\* A page of a segment: the bytes of the file that belong there.
LEMMA CopiedRight ==
  ASSUME ElfInv, stage = "segment", va < RoundUp(End(seg))
  PROVE  /\ Copied(va) = {<<seg.offset + i, Start(seg) + i>> :
              i \in {j \in 0 .. seg.filesz - 1 :
                       va <= Start(seg) + j /\ Start(seg) + j < va + PageBytes}}
         /\ \A c \in Copied(va) : c[1] < size
<1> DEFINE start == Start(seg)
           o == seg.offset
           n == seg.filesz
           lo == IF va < start THEN start ELSE va
           hi == IF va + PageBytes > start + n THEN start + n ELSE va + PageBytes
           Here == {j \in 0 .. n - 1 : va <= start + j /\ start + j < va + PageBytes}
<1>1. /\ n \in Nat /\ o \in Nat /\ start \in Nat /\ o + n <= size /\ o + n < Word
      /\ Sum64(start, n) = start + n /\ va \in Nat /\ size \in Nat
      /\ PageBytes \in Nat /\ Word \in Nat
  BY SegmentFits, ElfFileAssumption DEF ElfInv, InSegment
<1>2. Copied(va) = {<<Sum64(o, b - start), b>> : b \in lo .. hi - 1}
  BY <1>1 DEF Copied
<1> HIDE DEF start, o, n
<1>3. ASSUME NEW b \in lo .. hi - 1
      PROVE  b - start \in Here /\ Sum64(o, b - start) = o + (b - start) /\ b = start + (b - start)
  <2>1. b - start \in 0 .. n - 1 /\ va <= b /\ b < va + PageBytes /\ b \in Int
    BY <1>1
  <2>2. o + (b - start) < Word /\ b - start \in 0 .. Word - 1 /\ o \in 0 .. Word - 1
    BY <1>1, <2>1
  <2>3. Sum64(o, b - start) = o + (b - start)
    BY <2>2, Wraps DEF U64
  <2> QED BY <1>1, <2>1, <2>3
<1>4. ASSUME NEW j \in Here
      PROVE  start + j \in lo .. hi - 1
  BY <1>1
<1> HIDE DEF lo, hi, Here
<1>5. Copied(va) = {<<o + i, start + i>> : i \in Here}
  <2>1. ASSUME NEW c \in Copied(va) PROVE c \in {<<o + i, start + i>> : i \in Here}
    <3>1. PICK b \in lo .. hi - 1 : c = <<Sum64(o, b - start), b>>
      BY <1>2
    <3>2. c = <<o + (b - start), start + (b - start)>>
      BY <1>3, <3>1
    <3> QED BY <1>3, <3>2
  <2>2. ASSUME NEW j \in Here PROVE <<o + j, start + j>> \in Copied(va)
    <3>1. (start + j) - start = j
      BY <1>1 DEF Here
    <3>2. Sum64(o, (start + j) - start) = o + j
      BY <1>3, <1>4, <3>1
    <3> QED BY <1>2, <1>4, <3>2
  <2> QED BY <2>1, <2>2
<1>6. \A c \in Copied(va) : c[1] < size
  <2>1. \A i \in Here : o + i < size
    BY <1>1 DEF Here
  <2> QED BY <1>5, <2>1
<1> QED BY <1>5, <1>6 DEF Here, start, o, n

\* What the loader knows of the segment it is at.
LEMMA SegmentAt ==
  ASSUME ElfInv, stage = "segment"
  PROVE  /\ Start(seg) \in Nat /\ PageBytes <= Start(seg)
         /\ End(seg) = Start(seg) + seg.memsz /\ End(seg) \in 0 .. UserLimit
         /\ seg.memsz \in Nat \ {0} /\ seg.filesz \in Nat /\ seg.filesz <= seg.memsz
         /\ va \in Nat /\ va % PageBytes = 0 /\ PageBytes <= va
         /\ va <= RoundUp(End(seg))
<1>1. /\ Start(seg) \in Nat /\ PageBytes <= Start(seg)
      /\ End(seg) = Start(seg) + seg.memsz /\ End(seg) <= UserLimit
      /\ seg.memsz \in Nat \ {0} /\ seg.filesz \in Nat /\ seg.filesz <= seg.memsz
  BY SegmentFits DEF ElfInv, InSegment
<1>2. /\ va \in Nat /\ va % PageBytes = 0 /\ RoundDown(Start(seg)) <= va
      /\ va <= RoundUp(End(seg))
  BY DEF ElfInv, InSegment
<1>3. PageBytes \in Nat \ {0} /\ PageBytes % PageBytes = 0 /\ UserLimit \in Nat
  <2>1. \A p \in Nat \ {0} : p % p = 0
    OBVIOUS
  <2> QED BY <2>1, ElfFileAssumption
<1>4. PageBytes <= RoundDown(Start(seg))
  <2>1. /\ RoundDown(Start(seg)) \in Nat /\ RoundDown(Start(seg)) % PageBytes = 0
        /\ Start(seg) < RoundDown(Start(seg)) + PageBytes
    BY <1>1, RoundsDown
  <2>2. CASE RoundDown(Start(seg)) < PageBytes
    <3>1. RoundDown(Start(seg)) + PageBytes <= PageBytes
      BY <1>3, <2>1, <2>2, Multiples
    <3> QED BY <1>1, <1>3, <2>1, <3>1
  <2> QED BY <1>3, <2>1, <2>2
<1>5. PageBytes <= va
  <2>1. RoundDown(Start(seg)) \in Nat
    BY <1>1, RoundsDown
  <2> QED BY <1>2, <1>3, <1>4, <2>1
<1> QED BY <1>1, <1>2, <1>3, <1>5

LEMMA HeaderKeeps ==
  ASSUME ElfInv, NEW phoff \in U64, NEW phnum \in 0 .. MaxPhdrs + 1, NEW dyn \in BOOLEAN,
         Header(phoff, phnum, dyn)
  PROVE  ElfInv'
<1>1. \A b \in bytes' : b < size
  BY HeaderReads DEF Header
<1>2. PagesIn'
  BY DEF ElfInv, PagesIn, Header
<1> QED BY <1>1, <1>2 DEF ElfInv, Header

LEMMA SegmentKeeps ==
  ASSUME ElfInv, NEW ph \in Loads, Segment(ph)
  PROVE  ElfInv'
<1>1. /\ stage = "between" /\ Mappable(ph) /\ seg' = ph /\ va' = RoundDown(Start(ph))
      /\ bytes' = {} /\ stage' = "segment" /\ size' = size /\ bias' = bias /\ high' = high
      /\ pages' = pages /\ placed' = {}
  BY DEF Segment, ElfInv
<1>2. /\ Start(ph) \in Nat /\ End(ph) = Start(ph) + ph.memsz /\ End(ph) <= UserLimit
      /\ ph.memsz \in Nat \ {0} /\ ph.filesz \in Nat /\ UserLimit \in Nat
  BY <1>1, SegmentFits, ElfFileAssumption DEF ElfInv
<1>3. /\ RoundDown(Start(ph)) \in Nat /\ RoundDown(Start(ph)) % PageBytes = 0
      /\ RoundDown(Start(ph)) <= Start(ph)
  BY <1>2, RoundsDown
<1>4. Start(ph) <= RoundUp(End(ph)) /\ RoundUp(End(ph)) \in Nat
  BY <1>2, RoundsUp
<1>5. PagesIn'
  BY <1>1 DEF ElfInv, PagesIn
<1>6. Start(seg)' = Start(ph) /\ End(seg)' = End(ph) /\ Mappable(seg)'
  BY <1>1 DEF Start, End, Mappable, InFile
<1>7. \A b \in Start(ph) .. Start(ph) + ph.memsz - 1 : ~(RoundDown(b) < RoundDown(Start(ph)))
  <2> SUFFICES ASSUME NEW b \in Start(ph) .. Start(ph) + ph.memsz - 1,
                      RoundDown(b) < RoundDown(Start(ph))
               PROVE  FALSE
    OBVIOUS
  <2>1. b \in Nat /\ Start(ph) <= b
    BY <1>2
  <2>2. PageBytes \in Nat
    BY ElfFileAssumption
  <2>3. RoundDown(b) \in Nat /\ RoundDown(b) % PageBytes = 0 /\ b < RoundDown(b) + PageBytes
    BY <2>1, RoundsDown
  <2>4. RoundDown(b) + PageBytes <= RoundDown(Start(ph))
    BY <1>3, <2>3, Multiples
  <2> QED BY <1>2, <1>3, <2>1, <2>2, <2>3, <2>4
<1>8. Placed' = {}
  <2>1. \A j \in 0 .. ph.filesz - 1 : ~(Start(ph) + j < RoundDown(Start(ph)))
    BY <1>2, <1>3
  <2> QED BY <1>1, <1>6, <2>1 DEF Placed
<1>9. InSegment'
  <2>1. RoundDown(Start(ph)) <= RoundUp(End(ph))
    BY <1>2, <1>3, <1>4
  <2>2. RoundDown(Start(seg)') <= va' /\ va' <= RoundUp(End(seg)')
    BY <1>1, <1>3, <1>6, <2>1
  <2> QED BY <1>1, <1>3, <1>6, <1>7, <1>8, <2>2 DEF InSegment
<1> QED BY <1>1, <1>5, <1>9 DEF ElfInv

LEMMA MapOneKeeps ==
  ASSUME ElfInv, MapOne
  PROVE  ElfInv'
<1>1. /\ stage = "segment" /\ va < RoundUp(End(seg)) /\ pages' = pages \cup {va}
      /\ placed' = placed \cup Copied(va) /\ bytes' = {c[1] : c \in Copied(va)}
      /\ va' = va + PageBytes /\ size' = size /\ bias' = bias /\ stage' = stage
      /\ high' = high /\ seg' = seg
  BY DEF MapOne
<1>2. /\ Start(seg) \in Nat /\ End(seg) \in 0 .. UserLimit /\ va \in Nat
      /\ seg.memsz \in Nat \ {0} /\ seg.filesz \in Nat
      /\ va % PageBytes = 0 /\ PageBytes <= va /\ PageBytes \in Nat \ {0}
  BY <1>1, SegmentAt, ElfFileAssumption
<1>3. RoundUp(End(seg)) \in Nat /\ RoundUp(End(seg)) % PageBytes = 0
  BY <1>2, RoundsUp
<1>4. va + PageBytes <= RoundUp(End(seg)) /\ (va + PageBytes) % PageBytes = 0
  BY <1>1, <1>2, <1>3, Multiples
<1>5. \A b \in bytes' : b < size
  BY <1>1, CopiedRight
<1>6. PagesIn'
  BY <1>1, <1>2 DEF ElfInv, PagesIn
<1>7. Start(seg)' = Start(seg) /\ End(seg)' = End(seg) /\ Mappable(seg)'
  BY <1>1 DEF ElfInv, InSegment, Start, End, Mappable, InFile
<1>8. ASSUME NEW b \in Start(seg) .. Start(seg) + seg.memsz - 1, RoundDown(b) < va + PageBytes
      PROVE  RoundDown(b) \in pages'
  <2>1. RoundDown(b) \in Nat /\ RoundDown(b) % PageBytes = 0
    BY <1>2, RoundsDown
  <2>2. CASE RoundDown(b) < va
    BY <1>1, <2>2 DEF ElfInv, InSegment
  <2>3. CASE va < RoundDown(b)
    <3>1. va + PageBytes <= RoundDown(b)
      BY <1>2, <2>1, <2>3, Multiples
    <3> QED BY <1>2, <1>8, <2>1, <3>1
  <2>4. CASE va = RoundDown(b)
    BY <1>1, <2>4
  <2> QED BY <1>2, <2>1, <2>2, <2>3, <2>4
<1>9. placed' = Placed'
  <2> DEFINE start == Start(seg)
             o == seg.offset
             All == 0 .. seg.filesz - 1
             Below(v) == {j \in All : start + j < v}
             Here == {j \in All : va <= start + j /\ start + j < va + PageBytes}
  <2>1. placed = {<<o + i, start + i>> : i \in Below(va)}
    BY <1>1 DEF ElfInv, InSegment, Placed
  <2>2. Copied(va) = {<<o + i, start + i>> : i \in Here}
    BY <1>1, CopiedRight
  <2>3. Placed' = {<<o + i, start + i>> : i \in Below(va + PageBytes)}
    BY <1>1, <1>7 DEF Placed
  <2>4. Below(va + PageBytes) = Below(va) \cup Here
    BY <1>2
  <2> HIDE DEF start, o, Below, Here
  <2>5. \A X, Y : {<<o + i, start + i>> : i \in X \cup Y}
                    = {<<o + i, start + i>> : i \in X} \cup {<<o + i, start + i>> : i \in Y}
    OBVIOUS
  <2> QED BY <1>1, <2>1, <2>2, <2>3, <2>4, <2>5
<1>10. RoundDown(Start(seg)) <= va + PageBytes
  <2>1. RoundDown(Start(seg)) \in Nat
    BY <1>2, RoundsDown
  <2> QED BY <1>1, <1>2, <2>1 DEF ElfInv, InSegment
<1>11. InSegment'
  <2>1. RoundDown(Start(seg)') <= va' /\ va' <= RoundUp(End(seg)')
    BY <1>1, <1>4, <1>7, <1>10
  <2> QED BY <1>1, <1>2, <1>4, <1>7, <1>8, <1>9, <2>1 DEF ElfInv, InSegment
<1> QED BY <1>1, <1>5, <1>6, <1>11 DEF ElfInv

LEMMA SegmentDoneKeeps ==
  ASSUME ElfInv, SegmentDone
  PROVE  ElfInv'
<1>1. /\ stage = "segment" /\ va >= RoundUp(End(seg)) /\ pages' = pages
      /\ placed' = {} /\ bytes' = {} /\ size' = size /\ bias' = bias /\ stage' = "between"
      /\ high' = IF End(seg) > high THEN End(seg) ELSE high
  BY DEF SegmentDone, AllMapped
<1>2. /\ End(seg) \in 0 .. UserLimit /\ high \in 0 .. UserLimit /\ va \in Nat
      /\ va <= RoundUp(End(seg)) /\ PageBytes \in Nat /\ UserLimit \in Nat
  BY <1>1, SegmentAt, ElfFileAssumption DEF ElfInv
<1>3. high' \in 0 .. UserLimit /\ high <= high' /\ End(seg) <= high'
  BY <1>1, <1>2
<1>4. /\ RoundUp(high) <= RoundUp(high') /\ RoundUp(End(seg)) <= RoundUp(high')
      /\ RoundUp(high) \in Nat /\ RoundUp(End(seg)) \in Nat /\ RoundUp(high') \in Nat
  BY <1>2, <1>3, RoundsInOrder, RoundsUp
<1>5. PagesIn'
  <2> SUFFICES ASSUME NEW p \in pages
               PROVE  /\ p \in Nat /\ p % PageBytes = 0 /\ PageBytes <= p
                      /\ p + PageBytes <= RoundUp(high')
    BY <1>1 DEF PagesIn
  <2>1. /\ p \in Nat /\ p % PageBytes = 0 /\ PageBytes <= p
        /\ p + PageBytes <= RoundUp(high) \/ p + PageBytes <= va
    BY DEF ElfInv, PagesIn
  <2> QED BY <1>1, <1>2, <1>4, <2>1
<1> QED BY <1>1, <1>3, <1>5 DEF ElfInv

LEMMA AcceptKeeps ==
  ASSUME ElfInv, NEW entry \in U64, Accept(entry)
  PROVE  ElfInv'
<1>1. /\ stage = "between" /\ stage' = "loaded" /\ high' = RoundUp(high)
      /\ size' = size /\ bias' = bias /\ bytes' = bytes /\ pages' = pages
  BY DEF Accept
<1>2. high \in 0 .. UserLimit /\ UserLimit \in Nat /\ PageBytes \in Nat \ {0}
  BY ElfFileAssumption DEF ElfInv
<1> DEFINE h == RoundUp(high)
<1>3. h \in 0 .. UserLimit /\ h % PageBytes = 0
  BY <1>2, RoundsUp
<1> HIDE DEF h
<1>4. RoundUp(h) = h
  <2>1. /\ RoundUp(h) \in Nat /\ RoundUp(h) % PageBytes = 0 /\ h <= RoundUp(h)
        /\ RoundUp(h) < h + PageBytes
    BY <1>3, RoundsUp
  <2>2. CASE h < RoundUp(h)
    <3>1. h + PageBytes <= RoundUp(h)
      BY <1>2, <1>3, <2>1, <2>2, Multiples
    <3> QED BY <1>2, <1>3, <2>1, <3>1
  <2> QED BY <1>2, <1>3, <2>1, <2>2
<1>5. high' = h
  BY <1>1 DEF h
<1>6. PagesIn'
  BY <1>1, <1>4, <1>5 DEF ElfInv, PagesIn, h
<1> QED BY <1>1, <1>3, <1>4, <1>5, <1>6 DEF ElfInv

\* What a loader knows stays true for any headers.
LEMMA ElfInvariance == ElfSpec => []ElfInv
<1>1. ElfInv /\ [ElfNext]_elfVars => ElfInv'
  <2> SUFFICES ASSUME ElfInv, [ElfNext]_elfVars PROVE ElfInv'
    OBVIOUS
  <2>1. CASE UNCHANGED elfVars
    BY <2>1 DEF elfVars, ElfInv, PagesIn, InSegment, Placed, Mappable, InFile, Start, End
  <2>2. CASE Skip
    BY <2>2 DEF Skip, ElfInv, PagesIn
  <2>3. CASE Refuse
    BY <2>3 DEF Refuse, ElfInv, PagesIn
  <2> QED BY <2>1, <2>2, <2>3, HeaderKeeps, SegmentKeeps, MapOneKeeps, SegmentDoneKeeps,
             AcceptKeeps DEF ElfNext
<1> QED BY <1>1, InitElfInv, PTL DEF ElfSpec

\* Whatever words the headers hold, only bytes of the file are read, only user
\* pages are mapped, each byte of a segment is where it belongs, and the break
\* is above all that was mapped.
THEOREM LoaderStaysInBounds == ElfSpec => []LoadsInBounds
<1>1. ElfInv => LoadsInBounds
  <2> SUFFICES ASSUME ElfInv PROVE LoadsInBounds
    OBVIOUS
  <2>1. PageBytes \in Nat /\ UserLimit \in Nat /\ high \in 0 .. UserLimit
    BY ElfFileAssumption DEF ElfInv
  <2>2. RoundUp(high) \in Nat /\ RoundUp(high) <= UserLimit /\ RoundUp(high) % PageBytes = 0
    BY <2>1, RoundsUp
  <2>3. stage = "segment" => va \in Nat /\ va <= UserLimit
    <3> SUFFICES ASSUME stage = "segment" PROVE va \in Nat /\ va <= UserLimit
      OBVIOUS
    <3>1. va \in Nat /\ va <= RoundUp(End(seg)) /\ End(seg) \in 0 .. UserLimit
      BY SegmentAt
    <3>2. RoundUp(End(seg)) \in Nat /\ RoundUp(End(seg)) <= UserLimit
      BY <3>1, RoundsUp
    <3> QED BY <2>1, <3>1, <3>2
  <2>4. \A page \in pages : PageBytes <= page /\ page + PageBytes <= UserLimit
    BY <2>1, <2>2, <2>3 DEF ElfInv, PagesIn
  <2>5. ASSUME AllMapped
        PROVE  /\ \A b \in Start(seg) .. Start(seg) + seg.memsz - 1 : RoundDown(b) \in pages
               /\ placed = {<<seg.offset + i, Start(seg) + i>> : i \in 0 .. seg.filesz - 1}
    <3>1. stage = "segment" /\ va >= RoundUp(End(seg))
      BY <2>5 DEF AllMapped
    <3>2. /\ Start(seg) \in Nat /\ End(seg) = Start(seg) + seg.memsz
          /\ End(seg) \in 0 .. UserLimit /\ seg.filesz \in Nat
          /\ seg.filesz <= seg.memsz /\ seg.memsz \in Nat /\ va \in Nat
      BY <3>1, SegmentAt
    <3>3. RoundUp(End(seg)) \in Nat /\ End(seg) <= RoundUp(End(seg))
      BY <3>2, RoundsUp
    <3>4. ASSUME NEW b \in Start(seg) .. Start(seg) + seg.memsz - 1
          PROVE  RoundDown(b) \in pages
      <4>1. RoundDown(b) \in Nat /\ RoundDown(b) <= b /\ b < va
        BY <3>1, <3>2, <3>3, RoundsDown
      <4>2. RoundDown(b) < va
        BY <3>2, <4>1
      <4> QED BY <3>1, <4>2 DEF ElfInv, InSegment
    <3>5. placed = {<<seg.offset + i, Start(seg) + i>> : i \in 0 .. seg.filesz - 1}
      <4>1. {j \in 0 .. seg.filesz - 1 : Start(seg) + j < va} = 0 .. seg.filesz - 1
        BY <3>1, <3>2, <3>3
      <4> QED BY <3>1, <4>1 DEF ElfInv, InSegment, Placed
    <3> QED BY <3>4, <3>5
  <2>6. stage = "loaded" => /\ high % PageBytes = 0 /\ high <= UserLimit
                            /\ \A page \in pages : page + PageBytes <= high
    BY <2>1, <2>2 DEF ElfInv, PagesIn
  <2>7. \A b \in bytes : b < size
    BY DEF ElfInv
  <2> QED BY <2>4, <2>5, <2>6, <2>7 DEF LoadsInBounds
<1> QED BY <1>1, ElfInvariance, PTL
=============================================================================
