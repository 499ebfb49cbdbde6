------------------------------- MODULE Ext3Img -------------------------------
(* make_ext3_img.py: one block group and one zone.  The journal comes       *)
(* first.  The bitmap tracks BITMAP_CAPACITY blocks; the image may be       *)
(* larger.                                                                  *)
EXTENDS IndirectFile

CONSTANTS TOTAL_BLOCKS, FIRST_DATA_BLOCK, INODES_PER_GROUP, JOURNAL_BLOCKS

-----------------------------------------------------------------------------
(* Functions.  alloc_file_blocks, write_file_data and write_inode are the  *)
(* ones of IndirectFile.                                                   *)

Full(f) == f.next_block > TOTAL_BLOCKS \/ f.next_inode > INODES_PER_GROUP + 1

\* Mutant: the block is not padded.
FlushUnpadded(cur, used) == [es |-> cur, len |-> used]

\* A full block is padded by an unused entry, if there is room for one.
Flush(cur, used) ==
    IF BLOCK_SIZE - used >= 12
    THEN [es |-> Append(cur, Packed(Entry(0, "", 0), BLOCK_SIZE - used)), len |-> BLOCK_SIZE]
    ELSE [es |-> cur, len |-> used]

write_dir_blocks(es) ==
    LET p == PackDir(es)
    IN  [i \in DOMAIN p |-> IF i < Len(p) THEN Flush(p[i].es, p[i].len) ELSE p[i]]

Store(f, ino, inode) == PutInode(f, <<4, ino - 1>>, inode)

\* A file whose inode main writes at the end.
LaterFile(f, path, n) ==
    LET w == WriteFile(TakeInodes(f, 1), path, n) IN Keep(w.fs, f.next_inode, w.inode)

\* The body of add_tree for a file, and for a directory once the recursive
\* call has returned its entries.
NewFile(f, path, n) ==
    LET w == WriteFile(TakeInodes(f, 1), path, n) IN Store(w.fs, f.next_inode, w.inode)
NewDir(f, ino, parent, es) ==
    LET w == WriteDir(f, write_dir_blocks(Dots(ino, parent) \o es), 2 + SubDirs(es))
    IN  Store(w.fs, ino, w.inode)

-----------------------------------------------------------------------------
(* The phases of main.                                                     *)

\* The journal's blocks, and behind them the pointer block for all of them
\* that the inode has no room for.
WriteJournal(f) ==
    LET start == f.next_block
        blocks == [i \in 1 .. JOURNAL_BLOCKS |-> start + i - 1]
        rest == SubSeq(blocks, NDirect + 1, JOURNAL_BLOCKS)
        g == Put(Take(f, JOURNAL_BLOCKS + 1),
                 (start :> [k |-> "jsb", v |-> [seq |-> 1, maxlen |-> JOURNAL_BLOCKS, first |-> 1]])
                 @@ (start + JOURNAL_BLOCKS :> Pointers(rest)))
    IN  Store(g, 8, write_inode(FT_REG, JOURNAL_BLOCKS, JOURNAL_BLOCKS, blocks,
                                start + JOURNAL_BLOCKS, 0, 1))

\* Inodes 12 to 24 have the order they have in the ext2 image.
TestFiles ==
    <<OneBlockFile(12, <<"hello.txt">>), OneBlockFile(14, <<"testdir", "test2.txt">>),
      OneBlockFile(16, <<"etc", "motd">>), OneBlockFile(17, <<"etc", "passwd">>),
      OneBlockFile(22, <<"www", "index.html">>), OneBlockFile(24, <<"hello.zig">>)>>

WriteTestFiles(f) == LaterItems(TakeInodes(f, 13), TestFiles)

\* tmp, www, root, home and home/user.
WriteHomes(f) ==
    LaterItems(f, <<OneBlockDir(23, 2, <<>>, 0),
                    OneBlockDir(21, 2, <<Entry(22, "index.html", FT_REG)>>, 0),
                    OneBlockDir(18, 2, <<>>, 0),
                    OneBlockDir(19, 2, <<Entry(20, "user", FT_DIR)>>, 0),
                    OneBlockDir(20, 19, <<>>, 0)>>)

\* lost+found, testdir and etc.
WriteDirs(f) ==
    LaterItems(f, <<OneBlockDir(11, 2, <<>>, 0),
                    OneBlockDir(13, 2, <<Entry(14, "test2.txt", FT_REG)>>, 0),
                    OneBlockDir(15, 2, <<Entry(16, "motd", FT_REG),
                                         Entry(17, "passwd", FT_REG)>>, 0)>>)

WriteBin(f) ==
    LET w == WriteDir(f, write_dir_blocks(Dots(bin.ino, 2) \o bin.es), 0)
    IN  IF HasBin THEN Keep(w.fs, bin.ino, w.inode) ELSE f

WriteRoot(f) ==
    LET es == <<Entry(11, "lost+found", FT_DIR), Entry(12, "hello.txt", FT_REG),
                Entry(24, "hello.zig", FT_REG), Entry(13, "testdir", FT_DIR),
                Entry(15, "etc", FT_DIR), Entry(18, "root", FT_DIR),
                Entry(19, "home", FT_DIR), Entry(21, "www", FT_DIR),
                Entry(23, "tmp", FT_DIR)>>
              \o scripts
              \o (IF HasBin THEN <<Entry(bin.ino, "bin", FT_DIR)>> ELSE <<>>)
              \o roots
        w == WriteDir(f, write_dir_blocks(Dots(2, 2) \o es), 0)
    IN  Keep(w.fs, 2, w.inode)

\* The write_inode calls main has put off, with the link counts they pass.
WriteInodes(f) ==
    LET links == (2 :> 9 + (IF HasBin THEN 1 ELSE 0) + Len(roots)) @@ (11 :> 2) @@ (13 :> 3)
                 @@ (15 :> 2) @@ (18 :> 2) @@ (19 :> 3) @@ (20 :> 2) @@ (21 :> 2)
                 @@ (23 :> 2) @@ (bin.ino :> 2)
    IN  StorePending(f, links)

\* Mutant: the last block handed out is not marked.
BitmapsShort(f) ==
    (2 :> [k |-> "bits", v |-> 0 .. Min2(f.next_block - 1, BITMAP_CAPACITY) - 1])
    @@ (3 :> [k |-> "bits", v |-> 1 .. f.next_inode - 1])

\* Blocks above BITMAP_CAPACITY have no bit.
Bitmaps(f) ==
    (2 :> [k |-> "bits", v |-> 0 .. Min2(f.next_block, BITMAP_CAPACITY) - 1])
    @@ (3 :> [k |-> "bits", v |-> 1 .. f.next_inode - 1])

GroupDescriptor(f) ==
    1 :> [k |-> "bgd", v |-> <<[block_bitmap |-> 2, inode_bitmap |-> 3, inode_table |-> 4,
              free_blocks |-> (TOTAL_BLOCKS - f.next_block) % U16,
              free_inodes |-> (INODES_PER_GROUP - f.next_inode + 1) % U16,
              used_dirs |-> 9 + (IF HasBin THEN 1 ELSE 0)
                              + (IF roots # <<>> THEN 1 + dirs ELSE 0)]>>]

SuperBlock(f) ==
    0 :> [k |-> "sb", v |-> [inodes_count |-> INODES_PER_GROUP, blocks_count |-> TOTAL_BLOCKS,
              free_blocks |-> TOTAL_BLOCKS - f.next_block,
              free_inodes |-> INODES_PER_GROUP - f.next_inode + 1,
              blocks_per_group |-> TOTAL_BLOCKS, inodes_per_group |-> INODES_PER_GROUP]]

-----------------------------------------------------------------------------
(* The program.                                                            *)

\* What the image holds besides the host's files.
FixedHost ==
    [p \in {TestFiles[i].cell.v[1] : i \in DOMAIN TestFiles} |-> 1]
    @@ [p \in {<<"lost+found">>, <<"testdir">>, <<"etc">>, <<"root">>, <<"home">>,
               <<"home", "user">>, <<"www">>, <<"tmp">>} |-> Dir]

Init ==
    /\ pc = "start" /\ fs = EmptyFs(FIRST_DATA_BLOCK, TOTAL_BLOCKS)
    /\ bin = [ino |-> 0, must |-> FALSE, es |-> <<>>]
    /\ scripts = <<>> /\ tree = <<>> /\ roots = <<>> /\ dirs = 0
    /\ left = MaxHost /\ host = FixedHost

Start == LET f == WriteJournal(fs) IN Fixed("start", f, Full(f), "files")
Files == LET f == WriteTestFiles(fs) IN Fixed("files", f, Full(f), "homes")
Homes == LET f == WriteHomes(fs) IN Fixed("homes", f, Full(f), "bin")

Programs ==
    \/ \E n \in Sizes \cup {None} :
           LET d == TakeInodes(fs, 1)
               g == IF n > 0 THEN LaterFile(d, Shell, n) ELSE d
           IN  StartBin(n, g, Full(g))
    \/ NoBin
    \/ \E n \in Sizes : LET g == LaterFile(fs, <<"bin", NextBin>>, n) IN ExtraBin(n, g, Full(g))
    \/ EndBin(fs)

RootScripts ==
    \/ \E n \in Sizes : LET g == LaterFile(fs, <<NextScript>>, n) IN Script(n, g, Full(g))
    \/ EndScripts

\* The directory whose entries add_tree has listed.
CallDir == NewDir(fs, Call.ino, Caller, Call.es)

ZigTree ==
    \/ LET g == TakeInodes(fs, 1) IN StartTree("zig", "zig", g, Full(g))
    \/ NoTree("zig", "dirs")
    \/ LET g == CallDir IN TreeEnd("zig", g, Full(g), "dirs")

add_tree ==
    \/ \E n \in Sizes : LET g == NewFile(fs, NextPath, n) IN TreeFile(n, g, Full(g))
    \/ LET g == TakeInodes(fs, 1) IN TreeDir(g, Full(g))
    \/ LET g == CallDir IN TreeReturn(g, Full(g))

Directories == LET f == WriteBin(WriteDirs(fs)) IN Fixed("dirs", f, Full(f), "root")
RootDir == LET f == WriteRoot(fs) IN Fixed("root", f, Full(f), "inodes")
AllInodes == Fixed("inodes", WriteInodes(fs), FALSE, "meta")

Metadata ==
    Fixed("meta", Put(fs, SuperBlock(fs) @@ GroupDescriptor(fs) @@ Bitmaps(fs)), FALSE, "done")

Next == \/ Start \/ Files \/ Homes \/ Programs \/ RootScripts \/ ZigTree \/ add_tree
        \/ Directories \/ RootDir \/ AllInodes \/ Metadata \/ Ended
=============================================================================
