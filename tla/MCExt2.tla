------------------------------- MODULE MCExt2 -------------------------------
(***************************************************************************)
(* File systems of two groups of four inodes, two inodes to a block, blocks *)
(* of four cells and two direct block numbers.  /bin/init has every size   *)
(* at which the reader changes its way; the directory /bin takes two       *)
(* blocks and has an unused entry with a name that is looked up.           *)
(***************************************************************************)
EXTENDS Ext2

DIR == 16384 + 493
REG == 32768 + 493
LNK == 40960 + 511

Dirent(i, len, n) == [inode |-> i, rec_len |-> len, name |-> n]
Gap               == [inode |-> 0, rec_len |-> 0, name |-> ""]
Byte(i)           == 100 + i
Bytes(from, n)    == [i \in 1 .. n |-> Byte(from + i)]

Node(mode, size, blocks) == [mode |-> mode, size |-> size, blocks |-> blocks]
Free       == Node(0, 0, <<0, 0, 0>>)
Pair(a, b) == <<a, Free, b, Free>>

RootDir == <<Dirent(2, 1, "."), Dirent(3, 1, "bin"), Dirent(8, 2, "link"), Gap>>
BinDir  == <<Dirent(3, 1, "."), Dirent(0, 1, "init"), Dirent(5, 2, "none"), Gap,
             Dirent(7, 2, "init"), Gap, Dirent(6, 2, "sparse"), Gap>>

\* Blocks 20 .. 25 hold /bin/init, as many of them as it has.
Blocks(n) == (n + BlockSize - 1) \div BlockSize
InitBlock(n, i) == IF i <= Blocks(n) THEN 19 + i ELSE 0

\* Block 0 is the boot block, 1 the superblock, 2 the group descriptors.
DiskOf(n) ==
  [b \in 0 .. 26 |->
     CASE b = 2  -> <<3, 5>>
       [] b = 3  -> Pair(Free, Node(DIR, 4, <<10, 0, 0>>))
       [] b = 4  -> Pair(Node(DIR, 8, <<11, 12, 0>>), Free)
       [] b = 5  -> Pair(Node(REG, 0, <<0, 0, 0>>), Node(REG, 8, <<13, 0, 0>>))
       [] b = 6  -> Pair(Node(REG, n, <<InitBlock(n, 1), InitBlock(n, 2), 15>>),
                       Node(LNK, 3, <<14, 0, 0>>))
       [] b = 10 -> RootDir
       [] b = 11 -> SubSeq(BinDir, 1, 4)
       [] b = 12 -> SubSeq(BinDir, 5, 8)
       [] b = 15 -> [i \in 1 .. 4 |-> InitBlock(n, i + 2)]
       [] b \in {13, 14} \cup 20 .. 26 -> Bytes(4 * b, 4)
       [] OTHER  -> [i \in 1 .. 4 |-> 0]]

File(ino_of, mode, contents) ==
  [ino |-> ino_of, mode |-> mode, contents |-> contents, holes |-> FALSE]

FilesOf(n) ==
  [p \in {<<>>, <<"bin">>, <<"bin", "init">>, <<"bin", "none">>, <<"bin", "sparse">>,
          <<"bin", ".">>, <<"bin", ".", "init">>, <<"link">>} |->
     CASE p = <<>>                  -> File(2, DIR, RootDir)
       [] p \in {<<"bin">>, <<"bin", ".">>} -> File(3, DIR, BinDir)
       [] p \in {<<"bin", "init">>, <<"bin", ".", "init">>} -> File(7, REG, Bytes(80, n))
       [] p = <<"bin", "none">>     -> File(5, REG, <<>>)
       [] p = <<"bin", "sparse">>   ->
            [File(6, REG, Bytes(52, 4) \o [i \in 1 .. 4 |-> 0]) EXCEPT !.holes = TRUE]
       [] p = <<"link">>            -> File(8, LNK, Bytes(56, 3))]

MCImages == {[disk |-> DiskOf(n), files |-> FilesOf(n)] : n \in {1, 4, 5, 8, 9, 23, 24, 25}}

MCPaths == {<<>>, <<"bin">>, <<"bin", "init">>, <<"bin", "none">>, <<"bin", "sparse">>,
            <<"bin", ".", "init">>, <<"bin", "init", "x">>, <<"bin", "absent">>, <<"link">>,
            <<"absent", "init">>}
=============================================================================
