------------------------------- MODULE Ext4Img -------------------------------
(* make_ext4_img.py: several block groups, whose tables are together at the *)
(* start of the image (flex_bg), files mapped by extents, checksums.  Every *)
(* inode is written as soon as its file is.                                 *)
EXTENDS ExtBuild

CONSTANTS BLOCKS_PER_GROUP, NUM_GROUPS, INODES_PER_GROUP, JOURNAL_BLOCKS,
          MAX_EXTENT_LEN, MAX_EXTENTS_IN_INODE

TOTAL_BLOCKS == BLOCKS_PER_GROUP * NUM_GROUPS
TOTAL_INODES == INODES_PER_GROUP * NUM_GROUPS

\* Inode tables have one block each here.
BB_START == 2
IB_START == BB_START + NUM_GROUPS
IT_START == IB_START + NUM_GROUPS
METADATA_END == IT_START + NUM_GROUPS

-----------------------------------------------------------------------------
(* Functions.                                                              *)

Full(f) == f.next_block > TOTAL_BLOCKS \/ f.next_inode > TOTAL_INODES + 1

\* A checksum stands for everything it is computed from.
inode_checksum(inode, ino) == <<"inode", ino, inode>>
bgd_checksum(bgd, g) == <<"bgd", g, bgd>>

inode_table_offset(ino) ==
    <<IT_START + ((ino - 1) \div INODES_PER_GROUP), (ino - 1) % INODES_PER_GROUP>>

\* The common end of write_inode_ext4 and of the code for the journal inode.
Store(f, ino, inode) ==
    PutInode(f, inode_table_offset(ino), inode @@ [csum |-> inode_checksum(inode, ino)])

\* The loop of make_extent_iblock: runs of blocks as <<logical, length,
\* physical>>.
extents(blocks) ==
    LET add(x, b) ==
            IF x # <<>> /\ b = Last(x)[3] + Last(x)[2] /\ Last(x)[2] < MAX_EXTENT_LEN
            THEN [x EXCEPT ![Len(x)][2] = @ + 1]
            ELSE Append(x, <<IF x = <<>> THEN 0 ELSE Last(x)[1] + Last(x)[2], 1, b>>)
    IN  FoldLeft(add, <<>>, blocks)

\* With more runs than the inode has room for, a leaf block is allocated.
make_extent_iblock(f, blocks) ==
    LET x == extents(blocks)
        leaf == f.next_block
    IN  IF Len(x) <= MAX_EXTENTS_IN_INODE
        THEN [fs |-> f, map |-> [t |-> "ext", x |-> x, leaf |-> 0]]
        ELSE [fs |-> Put(Take(f, 1), leaf :> Pointers(x)),
              map |-> [t |-> "ext", x |-> <<>>, leaf |-> leaf]]

\* i_blocks is the number of data blocks; a leaf is not counted.
write_inode_ext4(f, ino, ft, blocks, nlink) ==
    LET m == make_extent_iblock(f, blocks)
    IN  Store(m.fs, ino, [ft |-> ft, size |-> Len(blocks), i_blocks |-> Len(blocks),
                          nlink |-> nlink, map |-> m.map])

\* A full block is padded by an unused entry, if there is room for one.
Flush(cur, used) ==
    IF BLOCK_SIZE - used >= 12
    THEN [es |-> Append(cur, Packed(Entry(0, "", 0), BLOCK_SIZE - used)), len |-> BLOCK_SIZE]
    ELSE [es |-> cur, len |-> used]

write_dir_blocks(es) ==
    LET p == PackDir(es)
    IN  [i \in DOMAIN p |-> IF i < Len(p) THEN Flush(p[i].es, p[i].len) ELSE p[i]]

alloc_file_blocks(f, n) == [i \in 1 .. n |-> f.next_block + i - 1]
write_file_data(f, path, blocks) ==
    Put(Take(f, Len(blocks)),
        [b \in Range(blocks) |-> Data(path, b - blocks[1])])

\* The body of add_tree for a file and for a directory; programs, scripts
\* and the larger directories of main are written the same way.
NewFile(f, path, n) ==
    LET blocks == alloc_file_blocks(f, n)
    IN  write_inode_ext4(write_file_data(TakeInodes(f, 1), path, blocks),
                         f.next_inode, FT_REG, blocks, 1)
PackedDir(f, ino, packed, nlink) ==
    write_inode_ext4(PutDir(f, packed), ino, FT_DIR,
                     [i \in 1 .. Len(packed) |-> f.next_block + i - 1], nlink)
NewDir(f, ino, parent, es) ==
    PackedDir(f, ino, write_dir_blocks(Dots(ino, parent) \o es), 2 + SubDirs(es))

\* Files and directories of one block each.
OneBlockInode(item, b) ==
    LET inode == [ft |-> item.ft, size |-> 1, i_blocks |-> 1, nlink |-> item.nlink,
                  map |-> [t |-> "ext", x |-> extents(<<b>>), leaf |-> 0]]
    IN  inode @@ [csum |-> inode_checksum(inode, item.ino)]
Items(f, items) ==
    LET inodes == ItemInodes(items, [i \in DOMAIN items |-> OneBlockInode(items[i], Base(f) + i - 1)])
        at(ino) == inode_table_offset(ino)
    IN  [PutItems(f, items) EXCEPT !.itab =
            [a \in {at(ino) : ino \in DOMAIN inodes} |->
                inodes[CHOOSE ino \in DOMAIN inodes : at(ino) = a]] @@ @]

-----------------------------------------------------------------------------
(* The phases of main.                                                     *)

\* The journal is mapped by pointers.  Behind its blocks come the indirect
\* block, the double-indirect block and the blocks that one lists.
WriteJournal(f) ==
    LET start == f.next_block
        blocks == [i \in 1 .. JOURNAL_BLOCKS |-> start + i - 1]
        rest == SubSeq(blocks, NDirect + ADDRS_PER_INDIRECT + 1, JOURNAL_BLOCKS)
        ind == start + JOURNAL_BLOCKS
        subs == Ceil(Len(rest), ADDRS_PER_INDIRECT)
        dind == IF rest = <<>> THEN 0 ELSE ind + 1
        group(g) == SubSeq(rest, (g - 1) * ADDRS_PER_INDIRECT + 1,
                           Min2(Len(rest), g * ADDRS_PER_INDIRECT))
        meta == 1 + (IF rest = <<>> THEN 0 ELSE 1) + subs
        g == Put(Take(f, JOURNAL_BLOCKS + meta),
                 (start :> [k |-> "jsb", v |-> [seq |-> 1, maxlen |-> JOURNAL_BLOCKS, first |-> 1]])
                 @@ (ind :> Pointers(SubSeq(blocks, NDirect + 1, NDirect + ADDRS_PER_INDIRECT)))
                 @@ [b \in ind + 2 .. ind + 1 + subs |-> Pointers(group(b - ind - 1))]
                 @@ (IF rest = <<>> THEN <<>>
                     ELSE dind :> Pointers([i \in 1 .. subs |-> ind + 1 + i])))
    IN  Store(g, 8, [ft |-> FT_REG, size |-> JOURNAL_BLOCKS, nlink |-> 1,
                     i_blocks |-> JOURNAL_BLOCKS + meta,
                     map |-> [t |-> "ind", d |-> SubSeq(blocks, 1, NDirect),
                              ind |-> ind, dind |-> dind]])

\* Inodes 12 to 24 have the order they have in the ext2 image.
TestFiles ==
    LET file(ino, path) == [OneBlockFile(ino, path) EXCEPT !.nlink = 1]
    IN  <<file(12, <<"hello.txt">>), file(14, <<"testdir", "test2.txt">>),
          file(16, <<"etc", "motd">>), file(17, <<"etc", "passwd">>),
          file(22, <<"www", "index.html">>), file(24, <<"hello.zig">>)>>

WriteTestFiles(f) == Items(TakeInodes(f, 13), TestFiles)

\* lost+found, root, home/user, tmp.
EmptyDirs ==
    <<OneBlockDir(11, 2, <<>>, 2), OneBlockDir(18, 2, <<>>, 2),
      OneBlockDir(20, 19, <<>>, 2), OneBlockDir(23, 2, <<>>, 2)>>

\* testdir, etc, www, home.
SmallDirs ==
    <<OneBlockDir(13, 2, <<Entry(14, "test2.txt", FT_REG)>>, 2),
      OneBlockDir(15, 2, <<Entry(16, "motd", FT_REG), Entry(17, "passwd", FT_REG)>>, 2),
      OneBlockDir(21, 2, <<Entry(22, "index.html", FT_REG)>>, 2),
      OneBlockDir(19, 2, <<Entry(20, "user", FT_DIR)>>, 3)>>

WriteBin(f) ==
    IF HasBin THEN PackedDir(f, bin.ino, write_dir_blocks(Dots(bin.ino, 2) \o bin.es), 2) ELSE f

WriteRoot(f) ==
    LET es == <<Entry(11, "lost+found", FT_DIR), Entry(12, "hello.txt", FT_REG),
                Entry(24, "hello.zig", FT_REG), Entry(13, "testdir", FT_DIR),
                Entry(15, "etc", FT_DIR), Entry(18, "root", FT_DIR),
                Entry(19, "home", FT_DIR), Entry(21, "www", FT_DIR),
                Entry(23, "tmp", FT_DIR)>>
              \o scripts
              \o (IF HasBin THEN <<Entry(bin.ino, "bin", FT_DIR)>> ELSE <<>>)
              \o roots
    IN  PackedDir(f, 2, write_dir_blocks(Dots(2, 2) \o es),
                  9 + (IF HasBin THEN 1 ELSE 0) + Len(roots))

\* allocated_blocks: alloc_block adds each block it hands out to the tables.
allocated_blocks(f) == 0 .. f.next_block - 1

Local(used, g, size, first) ==
    {b - g * size : b \in {b \in used : b >= g * size + first /\ b < (g + 1) * size + first}}

Bitmaps(f) ==
    [b \in BB_START .. BB_START + NUM_GROUPS - 1 |->
        [k |-> "bits", v |-> Local(allocated_blocks(f), b - BB_START, BLOCKS_PER_GROUP, 0)]]
    @@ [b \in IB_START .. IB_START + NUM_GROUPS - 1 |->
        [k |-> "bits", v |-> Local(1 .. f.next_inode - 1, b - IB_START, INODES_PER_GROUP, 1)]]

\* Blocks and inodes of group g in use, counted as main counts them.
UsedBlocks(f, g) == Cardinality(Local(allocated_blocks(f), g, BLOCKS_PER_GROUP, 0))
\* Mutant: the last inode of a group is counted in the next one.
UsedInodesShort(f, g) ==
    LET end == Min2(f.next_inode, (g + 1) * INODES_PER_GROUP)
    IN  IF g = 0 THEN end - 1 ELSE Max2(0, end - (g * INODES_PER_GROUP + 1))

UsedInodes(f, g) ==
    LET end == Min2(f.next_inode, (g + 1) * INODES_PER_GROUP + 1)
    IN  IF g = 0 THEN end - 1 ELSE Max2(0, end - (g * INODES_PER_GROUP + 1))

GroupDescriptors(f) ==
    LET desc(g) == [block_bitmap |-> BB_START + g, inode_bitmap |-> IB_START + g,
                    inode_table |-> IT_START + g,
                    free_blocks |-> (BLOCKS_PER_GROUP - UsedBlocks(f, g)) % U16,
                    free_inodes |-> (INODES_PER_GROUP - UsedInodes(f, g)) % U16,
                    used_dirs |-> IF g > 0 THEN 0
                                  ELSE 9 + (IF HasBin THEN 1 ELSE 0)
                                         + (IF \E i \in DOMAIN roots : roots[i].name = "zig"
                                            THEN 1 + dirs ELSE 0)]
    IN  1 :> [k |-> "bgd", v |-> [i \in 1 .. NUM_GROUPS |->
                 desc(i - 1) @@ [csum |-> bgd_checksum(desc(i - 1), i - 1)]]]

SuperBlock(f) ==
    LET total(used(_, _), size) ==
            FoldSet(LAMBDA g, n : n + size - used(f, g), 0, 0 .. NUM_GROUPS - 1)
    IN  0 :> [k |-> "sb", v |-> [inodes_count |-> TOTAL_INODES, blocks_count |-> TOTAL_BLOCKS,
              free_blocks |-> total(UsedBlocks, BLOCKS_PER_GROUP),
              free_inodes |-> total(UsedInodes, INODES_PER_GROUP),
              blocks_per_group |-> BLOCKS_PER_GROUP, inodes_per_group |-> INODES_PER_GROUP]]

-----------------------------------------------------------------------------
(* The program.                                                            *)

\* What the image holds besides the host's files.
FixedHost ==
    [p \in {TestFiles[i].cell.v[1] : i \in DOMAIN TestFiles} |-> 1]
    @@ [p \in {<<"lost+found">>, <<"testdir">>, <<"etc">>, <<"root">>, <<"home">>,
               <<"home", "user">>, <<"www">>, <<"tmp">>} |-> Dir]

Init ==
    /\ pc = "start" /\ fs = EmptyFs(METADATA_END, TOTAL_BLOCKS)
    /\ bin = [ino |-> 0, must |-> FALSE, es |-> <<>>]
    /\ scripts = <<>> /\ tree = <<>> /\ roots = <<>> /\ dirs = 0
    /\ left = MaxHost /\ host = FixedHost

Start == LET f == WriteJournal(fs) IN Fixed("start", f, Full(f), "files")
Files == LET f == WriteTestFiles(fs) IN Fixed("files", f, Full(f), "bin")

Programs ==
    \/ \E n \in Sizes \cup {None} :
           LET d == TakeInodes(fs, 1)
               g == IF n > 0 THEN NewFile(d, Shell, n) ELSE d
           IN  StartBin(n, g, Full(g))
    \/ NoBin
    \/ \E n \in Sizes : LET g == NewFile(fs, <<"bin", NextBin>>, n) IN ExtraBin(n, g, Full(g))
    \/ EndBin(fs)

RootScripts ==
    \/ \E n \in Sizes : LET g == NewFile(fs, <<NextScript>>, n) IN Script(n, g, Full(g))
    \/ EndScripts

\* The directory whose entries add_tree has listed.
CallDir == NewDir(fs, Call.ino, Caller, Call.es)

ZigTree ==
    \/ LET g == TakeInodes(fs, 1) IN StartTree("zig", "zig", g, Full(g))
    \/ NoTree("zig", "zigix")
    \/ LET g == CallDir IN TreeEnd("zig", g, Full(g), "zigix")

KernelTree ==
    \/ LET g == TakeInodes(fs, 1) IN StartTree("zigix", "zigix", g, Full(g))
    \/ NoTree("zigix", "dirs")
    \/ LET g == CallDir IN TreeEnd("zigix", g, Full(g), "dirs")

add_tree ==
    \/ \E n \in Sizes : LET g == NewFile(fs, NextPath, n) IN TreeFile(n, g, Full(g))
    \/ LET g == TakeInodes(fs, 1) IN TreeDir(g, Full(g))
    \/ LET g == CallDir IN TreeReturn(g, Full(g))

Directories ==
    LET f == Items(fs, EmptyDirs \o SmallDirs) IN Fixed("dirs", f, Full(f), "bindir")
BinDir == LET f == WriteBin(fs) IN Fixed("bindir", f, Full(f), "root")
RootDir == LET f == WriteRoot(fs) IN Fixed("root", f, Full(f), "meta")

Metadata ==
    Fixed("meta", Put(fs, SuperBlock(fs) @@ GroupDescriptors(fs) @@ Bitmaps(fs)), FALSE, "done")

Next == \/ Start \/ Files \/ Programs \/ RootScripts \/ ZigTree \/ KernelTree \/ add_tree
        \/ Directories \/ BinDir \/ RootDir \/ Metadata \/ Ended
=============================================================================
