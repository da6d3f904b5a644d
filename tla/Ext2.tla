-------------------------------- MODULE Ext2 --------------------------------
(***************************************************************************)
(* The ext2 reader (src/src/kernel/fs/ext2.c): mounting, and reading a     *)
(* whole file by its path.  Every kmalloc and every read of the disk is a  *)
(* step of its own and may fail; the buffers in use are followed through   *)
(* all the returns.  A block is a sequence of cells: a cell of a directory *)
(* is a struct ext2_dirent or the space one covers, one of the inode table *)
(* an inode or the space it covers, a cell of any other block is a word.   *)
(* Names are no longer than the component buffer of 63 characters.         *)
(***************************************************************************)
EXTENDS Integers, Sequences

CONSTANTS
  Images,          \* file systems: each with its disk, a function from block numbers
  Paths,           \* paths callers ask for, as sequences of names
  BlockSize,       \* cells in a block
  Direct,          \* block numbers in the inode before the indirect one: 12
  InodesPerGroup,
  InodeSize,       \* cells an inode takes in the inode table
  FirstDataBlock

ASSUME Ext2Assumption ==
  /\ BlockSize \in Nat \ {0}
  /\ Direct \in Nat
  /\ InodesPerGroup \in Nat \ {0}
  /\ InodeSize \in Nat \ {0}
  /\ FirstDataBlock \in Nat
  /\ Paths # {}

ROOT_INO == 2

VARIABLES
  image,      \* the file system on the disk
  pc,         \* the point ext2_read_file or a function it calls has come to
  path,       \* the components still to be looked up
  ino,        \* the inode being read
  table,      \* the block its group's inode table starts at
  inode,      \* the inode read last
  target,     \* the buffer read_inode_data fills: "dir" or "file"
  data,       \* what it holds so far
  block,      \* the block read_inode_data wants next
  bufs,       \* buffers allocated and not given back
  asked,      \* the path of the call
  trouble     \* whether a kmalloc or a read has failed in this call

vars == <<image, pc, path, ino, table, inode, target, data, block, bufs, asked, trouble>>

call    == <<image, asked, path>>
node    == <<ino, table, inode>>
reading == <<target, data, block>>

Disk    == image.disk
NoInode == [mode |-> 0, size |-> 0, blocks |-> <<>>]

-----------------------------------------------------------------------------
(* What the code computes from the numbers it has read *)

Group == (ino - 1) \div InodesPerGroup

\* Where in the table: the inode starts at cell TableCell of block TableBlock.
Offset     == ((ino - 1) % InodesPerGroup) * InodeSize
TableBlock == table + Offset \div BlockSize
TableCell  == Offset % BlockSize

\* mode & flag, of one bit
Has(mode, flag) == (mode \div flag) % 2 = 1

\* i_mode & EXT2_S_IFDIR, i_mode & EXT2_S_IFREG
IsDir(mode) == Has(mode, 16384)
IsReg(mode) == Has(mode, 32768)

BlockIdx == Len(data) \div BlockSize

\* Mutant: one more block number is taken from the inode.
IsDirectOneMore == BlockIdx <= Direct

IsDirect   == BlockIdx < Direct

\* Mutant: the last word of the indirect block is not used.
IsIndirectOneLess == ~IsDirect /\ BlockIdx < Direct + BlockSize - 1

IsIndirect == ~IsDirect /\ BlockIdx < Direct + BlockSize

Left == inode.size - Len(data)

\* Mutant: the chunk is the rest of a division.
ChunkOfRest(b) == SubSeq(Disk[b], 1, Left % BlockSize)

\* The part of block b that is copied: all of it, or what is left of the file.
ChunkOf(b) == SubSeq(Disk[b], 1, IF Left < BlockSize THEN Left ELSE BlockSize)

Matches(de, name) == de.inode # 0 /\ de.name = name

\* lookup_in_dir's walk over the entries of a directory: an inode number or 0.
Lookup(cells, name) ==
  LET at[pos \in Nat] ==
        IF pos >= Len(cells) THEN 0
        ELSE LET de == cells[pos + 1] IN
             IF de.rec_len = 0 THEN 0
             ELSE IF Matches(de, name) THEN de.inode
             ELSE at[pos + de.rec_len]
  IN  at[0]

-----------------------------------------------------------------------------
(* Failure *)

\* Mutant: lookup_in_dir keeps its buffer when reading fails.
UnwoundKeepsDir(held) == held \ {"file"}

\* The buffer of read_inode_data's caller is freed on its way out.
Unwound(held) == held \ {"dir", "file"}

Fail(held) ==
  /\ bufs' = Unwound(held)
  /\ pc' = "idle"

\* kmalloc returns 0; it always does for a size of 0.
AllocFails ==
  /\ pc \in {"alloc_bgd", "alloc_ino", "alloc_buf", "alloc_ind", "alloc_data"}
  /\ Fail(bufs)
  /\ trouble' = (pc = "alloc_buf" => inode.size # 0)
  /\ UNCHANGED <<call, node, reading>>

\* The buffer that each read fills, and that is freed when it fails.
ReadBuffer ==
  CASE pc = "read_bgd"  -> {"bgd"}
    [] pc = "read_ino"  -> {"ino"}
    [] pc = "read_ind"  -> {"ind"}
    [] pc = "read_data" -> {"data"}

ReadFails ==
  /\ pc \in {"read_bgd", "read_ino", "read_ind", "read_data"}
  /\ Fail(bufs \ ReadBuffer)
  /\ trouble' = TRUE
  /\ UNCHANGED <<call, node, reading>>

-----------------------------------------------------------------------------
(* ext2_mount *)

Mount ==
  /\ pc = "unmounted"
  /\ pc' = "idle"
  /\ bufs' = {"fs"}
  /\ UNCHANGED <<call, node, reading, trouble>>

\* No superblock, a bad magic number or no memory: there is no file system.
MountFails ==
  /\ pc = "unmounted"
  /\ pc' = "no_rootfs"
  /\ UNCHANGED <<call, node, reading, bufs, trouble>>

-----------------------------------------------------------------------------
(* read_inode *)

Alloc(from, to, b) ==
  /\ pc = from
  /\ pc' = to
  /\ bufs' = bufs \cup {b}
  /\ UNCHANGED <<call, node, reading, trouble>>

AllocBgd == Alloc("alloc_bgd", "read_bgd", "bgd")

ReadBgd ==
  /\ pc = "read_bgd"
  /\ table' = Disk[FirstDataBlock + 1][Group + 1]
  /\ bufs' = bufs \ {"bgd"}
  /\ pc' = "alloc_ino"
  /\ UNCHANGED <<call, reading, ino, inode, trouble>>

AllocIno == Alloc("alloc_ino", "read_ino", "ino")

ReadIno ==
  /\ pc = "read_ino"
  /\ inode' = Disk[TableBlock][TableCell + 1]
  /\ bufs' = bufs \ {"ino"}
  /\ pc' = "inode"
  /\ UNCHANGED <<call, reading, ino, table, trouble>>

-----------------------------------------------------------------------------
(* read_inode_data *)

AllocBuf ==
  /\ inode.size # 0
  /\ Alloc("alloc_buf", "next", target)

\* The block number is in the inode.
DirectBlock ==
  /\ pc = "next"
  /\ Left > 0
  /\ IsDirect
  /\ block' = inode.blocks[BlockIdx + 1]
  /\ pc' = "block"
  /\ UNCHANGED <<call, node, target, data, bufs, trouble>>

IndirectBlock ==
  /\ pc = "next"
  /\ Left > 0
  /\ IsIndirect
  /\ pc' = "alloc_ind"
  /\ UNCHANGED <<call, node, reading, bufs, trouble>>

\* Double indirect blocks are not supported.
TooLarge ==
  /\ pc = "next"
  /\ Left > 0
  /\ ~IsDirect /\ ~IsIndirect
  /\ Fail(bufs)
  /\ UNCHANGED <<call, node, reading, trouble>>

AllocInd == Alloc("alloc_ind", "read_ind", "ind")

ReadInd ==
  /\ pc = "read_ind"
  /\ block' = Disk[inode.blocks[Direct + 1]][BlockIdx - Direct + 1]
  /\ bufs' = bufs \ {"ind"}
  /\ pc' = "block"
  /\ UNCHANGED <<call, node, target, data, trouble>>

\* A block that was never written.
Hole ==
  /\ pc = "block"
  /\ block = 0
  /\ Fail(bufs)
  /\ UNCHANGED <<call, node, reading, trouble>>

NoHole ==
  /\ pc = "block"
  /\ block # 0
  /\ pc' = "alloc_data"
  /\ UNCHANGED <<call, node, reading, bufs, trouble>>

AllocData == Alloc("alloc_data", "read_data", "data")

ReadData ==
  /\ pc = "read_data"
  /\ data' = data \o ChunkOf(block)
  /\ bufs' = bufs \ {"data"}
  /\ pc' = "next"
  /\ UNCHANGED <<call, node, target, block, trouble>>

-----------------------------------------------------------------------------
(* ext2_read_file and lookup_in_dir *)

Call(p) ==
  /\ pc = "idle"
  /\ path' = p
  /\ asked' = p
  /\ ino' = ROOT_INO
  /\ inode' = NoInode
  /\ data' = <<>>
  /\ trouble' = FALSE
  /\ pc' = "alloc_bgd"
  /\ UNCHANGED <<image, table, target, block, bufs>>

\* There is a component left: the directory is read into a buffer.
OpenDir ==
  /\ pc = "inode"
  /\ path # <<>>
  /\ IsDir(inode.mode)
  /\ target' = "dir"
  /\ data' = <<>>
  /\ pc' = "alloc_buf"
  /\ UNCHANGED <<call, node, block, bufs, trouble>>

OpenFile ==
  /\ pc = "inode"
  /\ path = <<>>
  /\ IsReg(inode.mode)
  /\ target' = "file"
  /\ data' = <<>>
  /\ pc' = "alloc_buf"
  /\ UNCHANGED <<call, node, block, bufs, trouble>>

WrongKind ==
  /\ pc = "inode"
  /\ IF path = <<>> THEN ~IsReg(inode.mode) ELSE ~IsDir(inode.mode)
  /\ Fail(bufs)
  /\ UNCHANGED <<call, node, reading, trouble>>

\* The directory has been read: its buffer is searched and given back.
Descend ==
  /\ pc = "next" /\ Left = 0 /\ target = "dir"
  /\ Lookup(data, Head(path)) # 0
  /\ ino' = Lookup(data, Head(path))
  /\ path' = Tail(path)
  /\ bufs' = bufs \ {"dir"}
  /\ pc' = "alloc_bgd"
  /\ UNCHANGED <<reading, image, table, inode, asked, trouble>>

NotFound ==
  /\ pc = "next" /\ Left = 0 /\ target = "dir"
  /\ Lookup(data, Head(path)) = 0
  /\ Fail(bufs)
  /\ UNCHANGED <<call, node, reading, trouble>>

\* The file is returned; its buffer is the caller's.
Return ==
  /\ pc = "next" /\ Left = 0 /\ target = "file"
  /\ pc' = "done"
  /\ UNCHANGED <<call, node, reading, bufs, trouble>>

\* The caller takes the file: sys_exec and sys_spawn free the buffer once they have
\* loaded the program, kmain keeps that of /bin/init for good.  Either way it is no
\* longer the reader's.
Consume ==
  /\ pc = "done"
  /\ bufs' = bufs \ {"file"}
  /\ pc' = "idle"
  /\ UNCHANGED <<call, node, reading, trouble>>

\* Without a file system sys_exec and sys_spawn do not get here.
NoRootfs ==
  /\ pc = "no_rootfs"
  /\ UNCHANGED vars

Init ==
  /\ image \in Images
  /\ pc = "unmounted"
  /\ path = <<>> /\ asked = <<>>
  /\ ino = 0 /\ table = 0 /\ inode = NoInode
  /\ target = "dir" /\ data = <<>> /\ block = 0
  /\ bufs = {}
  /\ trouble = FALSE

ReadFile ==
  \/ AllocBgd \/ ReadBgd \/ AllocIno \/ ReadIno
  \/ AllocBuf \/ DirectBlock \/ IndirectBlock \/ TooLarge
  \/ AllocInd \/ ReadInd \/ Hole \/ NoHole \/ AllocData \/ ReadData
  \/ OpenDir \/ OpenFile \/ WrongKind \/ Descend \/ NotFound \/ Return
  \/ AllocFails \/ ReadFails

Next ==
  \/ Mount \/ MountFails \/ NoRootfs
  \/ \E p \in Paths : Call(p)
  \/ ReadFile
  \/ Consume

\* The kernel is not interrupted while it reads a file.
Spec == Init /\ [][Next]_vars /\ WF_vars(ReadFile)

-----------------------------------------------------------------------------
(* What a file system is.  image.files says what it holds: for each path a    *)
(* caller can come to, the number of its inode, its mode, its contents and    *)
(* whether it has holes; image.disk is how ext2 stores this.                  *)

MaxBlocks == Direct + BlockSize

Elements(s) == {s[i] : i \in DOMAIN s}

\* The paths a caller can come to.
Steps == UNION {{SubSeq(p, 1, n) : n \in 0 .. Len(p)} : p \in Paths}

TableOf(im, i) == im.disk[FirstDataBlock + 1][(i - 1) \div InodesPerGroup + 1]

\* The inode of number i, in the table of its group.
InodeOf(im, i) ==
  LET cell == ((i - 1) % InodesPerGroup) * InodeSize
  IN  im.disk[TableOf(im, i) + cell \div BlockSize][(cell % BlockSize) + 1]

\* The number of the k-th block of a file, or 0 where it has a hole.
NumberOf(im, n, k) ==
  IF k < Direct THEN n.blocks[k + 1]
  ELSE IF n.blocks[Direct + 1] = 0 THEN 0
  ELSE im.disk[n.blocks[Direct + 1]][k - Direct + 1]

\* Block b is the k-th of a file with these contents.
Holds(im, b, k, contents) ==
  /\ im.disk[b] \in Seq(Elements(im.disk[b]))
  /\ Len(im.disk[b]) = BlockSize
  /\ \A j \in 1 .. BlockSize : k * BlockSize + j <= Len(contents) =>
       im.disk[b][j] = contents[k * BlockSize + j]

\* The file f is stored, where the code looks for it: the descriptor of its group
\* is in the first block of these, and its indirect block, if it needs one, is not
\* gone in a hole, for which the code would take block 0.
Stored(im, f) ==
  LET n    == InodeOf(im, f.ino)
      size == Len(f.contents)
      used == {k \in 0 .. MaxBlocks - 1 : k * BlockSize < size}
  IN  /\ f.ino \in Nat \ {0}
      /\ (f.ino - 1) \div InodesPerGroup < BlockSize
      /\ f.contents \in Seq(Elements(f.contents))
      /\ TableOf(im, f.ino) \in Nat
      /\ n.mode = f.mode /\ n.size = size
      /\ f.mode \in Nat
      /\ size > Direct * BlockSize => n.blocks[Direct + 1] # 0
      /\ f.holes <=> \E k \in used : NumberOf(im, n, k) = 0
      /\ \A k \in used : LET b == NumberOf(im, n, k) IN
           b \in Nat /\ (b # 0 => Holds(im, b, k, f.contents))

\* starts are where the entries of a directory begin, one behind the other, and
\* where the last one ends.
Entries(cells, starts) ==
  /\ {0, Len(cells)} \subseteq starts
  /\ \A s \in starts \ {Len(cells)} : LET next == s + cells[s + 1].rec_len IN
       /\ next # s /\ next \in starts
       /\ \A t \in starts : t <= s \/ next <= t

\* The entries of the directory p in use are the files in it.
Listed(im, p) ==
  LET cells == im.files[p].contents
      size  == Len(cells)
  IN  /\ \A i \in 1 .. size : cells[i].rec_len \in Nat
      /\ \E starts \in SUBSET (0 .. size) :
           /\ Entries(cells, starts)
           /\ \A s \in starts \ {size} : LET de == cells[s + 1]
                                             q  == Append(p, de.name) IN
                de.inode # 0 /\ q \in Steps =>
                  q \in DOMAIN im.files /\ im.files[q].ino = de.inode
           /\ \A q \in DOMAIN im.files : q # <<>> /\ SubSeq(q, 1, Len(q) - 1) = p =>
                \E s \in starts \ {size} : Matches(cells[s + 1], q[Len(q)])

WellFormed(im) ==
  /\ <<>> \in DOMAIN im.files /\ DOMAIN im.files \subseteq Steps
  /\ im.files[<<>>].ino = ROOT_INO
  /\ \A p \in DOMAIN im.files :
       /\ Stored(im, im.files[p])
       /\ IsDir(im.files[p].mode) => Listed(im, p)
       /\ \A n \in 0 .. Len(p) - 1 :
            /\ SubSeq(p, 1, n) \in DOMAIN im.files
            /\ IsDir(im.files[SubSeq(p, 1, n)].mode)

ASSUME ImagesAssumption ==
  /\ \A p \in Paths : p \in Seq(Elements(p))
  /\ \A im \in Images : WellFormed(im)

-----------------------------------------------------------------------------
(* Properties *)

Running == pc \notin {"unmounted", "no_rootfs", "idle", "done"}

TypeOK ==
  /\ image \in Images
  /\ pc \in {"unmounted", "no_rootfs", "idle", "done", "alloc_bgd", "read_bgd",
             "alloc_ino", "read_ino", "inode", "alloc_buf", "next", "alloc_ind",
             "read_ind", "block", "alloc_data", "read_data"}
  /\ ino \in Nat /\ table \in Nat /\ block \in Nat
  /\ target \in {"dir", "file"}
  /\ bufs \subseteq {"fs", "bgd", "ino", "dir", "file", "ind", "data"}
  /\ asked \in Paths \cup {<<>>}
  /\ trouble \in BOOLEAN
  /\ pc \in {"next", "alloc_ind", "read_ind", "block", "alloc_data", "read_data", "done"}
       => Left \in 0 .. inode.size

\* Whatever fails and wherever, between calls the reader holds no buffer, and
\* the caller of a call that worked holds exactly the file's.
NothingLeaks ==
  /\ pc = "idle" => bufs = {"fs"}
  /\ pc = "done" => bufs = {"fs", "file"}

\* What a call returns is the contents of the file the path names, through
\* inode tables of every group, and direct and indirect blocks.
ReadsTheFile ==
  /\ TypeOK
  /\ pc = "done" => /\ asked \in DOMAIN image.files
                    /\ data = image.files[asked].contents

IsRegular(mode) == mode \div 4096 = 8

\* What the reader can read: what is not empty, without holes, and no larger than
\* what the inode and one indirect block can point to.
Fits(f) == ~f.holes /\ Len(f.contents) \in 1 .. MaxBlocks * BlockSize

\* A regular file that fits, in directories that do.
Readable(p) ==
  /\ p \in DOMAIN image.files
  /\ IsRegular(image.files[p].mode)
  /\ \A n \in 0 .. Len(p) : Fits(image.files[SubSeq(p, 1, n)])

\* Such a file is refused only because a kmalloc or a read of the disk failed.
FindsTheFile ==
  [][Running /\ pc' = "idle" => trouble' \/ ~Readable(asked)]_vars

\* Every call returns.
Ends == Running ~> ~Running
=============================================================================
