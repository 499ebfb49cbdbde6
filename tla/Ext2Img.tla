------------------------------- MODULE Ext2Img -------------------------------
(* make_ext2_img.py: one block group.  Blocks below BITMAP_CAPACITY are the *)
(* bitmap zone, which the kernel allocates from; the blocks above it are    *)
(* the overflow zone, for programs, the Zig tree and the journal.           *)
EXTENDS IndirectFile

CONSTANTS TOTAL_BLOCKS, FIRST_DATA_BLOCK, INODES_PER_GROUP, SWAP_BLOCKS, JOURNAL_BLOCKS

-----------------------------------------------------------------------------
(* Functions.                                                              *)

\* Mutant: a block behind the bitmap zone is handed out.
FullOffByOne(f) ==
    \/ f.next_block > BITMAP_CAPACITY + 1
    \/ f.high_block > TOTAL_BLOCKS
    \/ f.next_inode > INODES_PER_GROUP + 1

\* alloc_block and alloc_inode count first and then exit if what they got
\* is beyond the end.
Full(f) ==
    \/ f.next_block > BITMAP_CAPACITY
    \/ f.high_block > TOTAL_BLOCKS
    \/ f.next_inode > INODES_PER_GROUP + 1

\* The block is padded by the rec_len of its last entry.
Flush(cur, used) ==
    [es |-> [cur EXCEPT ![Len(cur)].rec = @ + BLOCK_SIZE - used], len |-> BLOCK_SIZE]

write_dir_blocks(es) ==
    LET p == PackDir(es)
    IN  [i \in DOMAIN p |-> IF i < Len(p) THEN Flush(p[i].es, p[i].len) ELSE p[i]]

\* The table of the only group starts at block 4.
Store(f, ino, inode) == PutInode(f, <<4, ino - 1>>, inode)

\* A file whose inode main writes at the end.
LaterFile(f, path, n) ==
    LET w == WriteFile(TakeInodes(f, 1), path, n) IN Keep(w.fs, f.next_inode, w.inode)

\* The body of add_tree for a file, and for a directory once the recursive
\* call has returned its entries.
NewFile(f, path, n) ==
    LET w == WriteFile(TakeInodes(f, 1), path, n) IN Store(w.fs, f.next_inode, w.inode)
NewDir(f, ino, parent, es) ==
    LET w == WriteDir(f, write_dir_blocks(Dots(ino, parent) \o es), 2 + SubDirs(es))
    IN  Store(w.fs, ino, w.inode)

-----------------------------------------------------------------------------
(* The fixed part of the image.                                            *)

\* Inodes 12 to 24 in order: hello.txt testdir test2.txt etc motd passwd root
\* home user www index.html tmp hello.zig.
TestFiles ==
    <<OneBlockFile(12, <<"hello.txt">>), OneBlockFile(14, <<"testdir", "test2.txt">>),
      OneBlockFile(16, <<"etc", "motd">>), OneBlockFile(17, <<"etc", "passwd">>),
      OneBlockFile(22, <<"www", "index.html">>), OneBlockFile(24, <<"hello.zig">>)>>

WriteTestFiles(f) == LaterItems(TakeInodes(f, 13), TestFiles)

ZigGlobal == <<"b", "h", "p", "tmp", "o">>
ZigCache == <<"b", "h", "p", "tmp", "z", "o">>

make_empty_dir(ino, parent) == OneBlockDir(ino, parent, <<>>, 2)

\* The cache directories of the compiler, inodes 25 to 37.  Their inodes are
\* written at once.
CacheDirs ==
    LET sub(first, names) ==
            [i \in DOMAIN names |-> Entry(first + i, names[i], FT_DIR)]
        empty(first, names) == [i \in DOMAIN names |-> make_empty_dir(first + i, first)]
    IN  empty(25, ZigGlobal) \o empty(31, ZigCache)
        \o <<OneBlockDir(25, 23, sub(25, ZigGlobal), 7), OneBlockDir(31, 23, sub(31, ZigCache), 8)>>
WriteCacheDirs(f) ==
    LET inodes == BlockInodes(f, CacheDirs)
    IN  [TakeInodes(PutItems(f, CacheDirs), 13)
         EXCEPT !.itab = [at \in {<<4, ino - 1>> : ino \in DOMAIN inodes} |-> inodes[at[2] + 1]] @@ @]

WriteTmp(f) ==
    LaterItems(f, <<OneBlockDir(23, 2, <<Entry(25, "zig-global", FT_DIR),
                                         Entry(31, "zig-cache", FT_DIR)>>, 0)>>)

WriteHomes(f) ==
    LaterItems(f, <<OneBlockDir(21, 2, <<Entry(22, "index.html", FT_REG)>>, 0),
                    OneBlockDir(18, 2, <<>>, 0),
                    OneBlockDir(19, 2, <<Entry(20, "user", FT_DIR)>>, 0),
                    OneBlockDir(20, 19, <<>>, 0)>>)

\* lost+found, testdir and etc.
WriteDirs(f) ==
    LaterItems(f, <<OneBlockDir(11, 2, <<>>, 0),
                    OneBlockDir(13, 2, <<Entry(14, "test2.txt", FT_REG)>>, 0),
                    OneBlockDir(15, 2, <<Entry(16, "motd", FT_REG),
                                         Entry(17, "passwd", FT_REG)>>, 0)>>)

\* /bin, by the writer of large directories.
WriteBin(f) ==
    LET w == WriteDir(f, write_dir_blocks(Dots(bin.ino, 2) \o bin.es), 0)
    IN  IF HasBin THEN Keep(w.fs, bin.ino, w.inode) ELSE f

WriteSwap(f) == LaterFile(f, <<"swapfile">>, SWAP_BLOCKS)

WriteRoot(f) ==
    LET es == <<Entry(11, "lost+found", FT_DIR), Entry(12, "hello.txt", FT_REG),
                Entry(24, "hello.zig", FT_REG), Entry(13, "testdir", FT_DIR),
                Entry(15, "etc", FT_DIR), Entry(18, "root", FT_DIR),
                Entry(19, "home", FT_DIR), Entry(21, "www", FT_DIR),
                Entry(23, "tmp", FT_DIR), Entry(f.next_inode - 1, "swapfile", FT_REG)>>
              \o scripts
              \o (IF HasBin THEN <<Entry(bin.ino, "bin", FT_DIR)>> ELSE <<>>)
              \o roots
        w == WriteDir(f, write_dir_blocks(Dots(2, 2) \o es), 0)
    IN  Keep(w.fs, 2, w.inode)

\* Mutant: bin/.. is not counted.
WriteInodesNoBin(f) ==
    LET links == (2 :> 9 + Len(roots)) @@ (11 :> 2) @@ (13 :> 3)
                 @@ (15 :> 2) @@ (18 :> 2) @@ (19 :> 3) @@ (20 :> 2) @@ (21 :> 2)
                 @@ (23 :> 4) @@ (bin.ino :> 2)
    IN  StorePending(f, links)

\* The write_inode calls main has put off, with the link counts they pass.
WriteInodes(f) ==
    LET links == (2 :> 9 + (IF HasBin THEN 1 ELSE 0) + Len(roots)) @@ (11 :> 2) @@ (13 :> 3)
                 @@ (15 :> 2) @@ (18 :> 2) @@ (19 :> 3) @@ (20 :> 2) @@ (21 :> 2)
                 @@ (23 :> 4) @@ (bin.ino :> 2)
    IN  StorePending(f, links)

\* The journal lies in the overflow zone.  Its inode has one pointer.
WriteJournal(f) ==
    LET start == f.high_block
        g == Put([f EXCEPT !.high_block = @ + JOURNAL_BLOCKS],
                 start :> [k |-> "jsb", v |-> [seq |-> 0, maxlen |-> JOURNAL_BLOCKS, first |-> 1]])
    IN  Store(g, 8, write_inode(FT_REG, JOURNAL_BLOCKS, JOURNAL_BLOCKS, <<start>>, 0, 0, 1))

Bitmaps(f) ==
    (2 :> [k |-> "bits", v |-> 0 .. Min2(f.next_block, BITMAP_CAPACITY) - 1])
    @@ (3 :> [k |-> "bits", v |-> 1 .. f.next_inode - 1])

GroupDescriptor(f) ==
    1 :> [k |-> "bgd", v |-> <<[block_bitmap |-> 2, inode_bitmap |-> 3, inode_table |-> 4,
              free_blocks |-> (BITMAP_CAPACITY - f.next_block) % U16,
              free_inodes |-> (INODES_PER_GROUP - f.next_inode + 1) % U16,
              used_dirs |-> 9 + (IF HasBin THEN 1 ELSE 0)
                              + (IF roots # <<>> THEN 1 + dirs ELSE 0)]>>]

SuperBlock(f) ==
    0 :> [k |-> "sb", v |-> [inodes_count |-> INODES_PER_GROUP, blocks_count |-> TOTAL_BLOCKS,
              free_blocks |-> BITMAP_CAPACITY - f.next_block,
              free_inodes |-> INODES_PER_GROUP - f.next_inode + 1,
              blocks_per_group |-> BITMAP_CAPACITY, inodes_per_group |-> INODES_PER_GROUP]]

-----------------------------------------------------------------------------
(* The program.                                                            *)

\* What the image holds besides the host's files.
FixedHost ==
    [p \in {TestFiles[i].cell.v[1] : i \in DOMAIN TestFiles} |-> 1]
    @@ (<<"swapfile">> :> SWAP_BLOCKS)
    @@ [p \in {<<"lost+found">>, <<"testdir">>, <<"etc">>, <<"root">>, <<"home">>,
               <<"home", "user">>, <<"www">>, <<"tmp">>, <<"tmp", "zig-global">>,
               <<"tmp", "zig-cache">>}
              \cup {<<"tmp", "zig-global", n>> : n \in Range(ZigGlobal)}
              \cup {<<"tmp", "zig-cache", n>> : n \in Range(ZigCache)} |-> Dir]

Init ==
    /\ pc = "start" /\ fs = EmptyFs(FIRST_DATA_BLOCK, BITMAP_CAPACITY)
    /\ bin = [ino |-> 0, must |-> FALSE, es |-> <<>>]
    /\ scripts = <<>> /\ tree = <<>> /\ roots = <<>> /\ dirs = 0
    /\ left = MaxHost /\ host = FixedHost

Start == LET f == WriteTestFiles(fs) IN Fixed("start", f, Full(f), "cache")
Caches == LET f == WriteCacheDirs(fs) IN Fixed("cache", f, Full(f), "homes")
Homes == LET f == WriteHomes(WriteTmp(fs)) IN Fixed("homes", f, Full(f), "bin")

\* Programs go to the overflow zone, scripts to the bitmap zone, the Zig
\* tree to the overflow zone again.
Programs ==
    \/ \E n \in Sizes \cup {None} :
           LET d == TakeInodes([fs EXCEPT !.use_high_zone = TRUE], 1)
               g == IF n > 0 THEN LaterFile(d, Shell, n) ELSE d
           IN  StartBin(n, g, Full(g))
    \/ NoBin
    \/ \E n \in Sizes : LET g == LaterFile(fs, <<"bin", NextBin>>, n) IN ExtraBin(n, g, Full(g))
    \/ EndBin([fs EXCEPT !.use_high_zone = FALSE])

RootScripts ==
    \/ \E n \in Sizes : LET g == LaterFile(fs, <<NextScript>>, n) IN Script(n, g, Full(g))
    \/ EndScripts

\* The directory whose entries add_tree has listed.
CallDir == NewDir(fs, Call.ino, Caller, Call.es)

ZigTree ==
    \/ LET g == TakeInodes([fs EXCEPT !.use_high_zone = TRUE], 1)
       IN  StartTree("zig", "zig", g, Full(g))
    \/ NoTree("zig", "dirs")
    \/ LET g == CallDir IN TreeEnd("zig", g, Full(g), "dirs")

add_tree ==
    \/ \E n \in Sizes : LET g == NewFile(fs, NextPath, n) IN TreeFile(n, g, Full(g))
    \/ LET g == TakeInodes(fs, 1) IN TreeDir(g, Full(g))
    \/ LET g == CallDir IN TreeReturn(g, Full(g))

Directories == LET f == WriteBin(WriteDirs(fs)) IN Fixed("dirs", f, Full(f), "swap")
Swapfile == LET f == WriteSwap(fs) IN Fixed("swap", f, Full(f), "root")
RootDir == LET f == WriteRoot(fs) IN Fixed("root", f, Full(f), "inodes")
AllInodes == Fixed("inodes", WriteInodes(fs), FALSE, "journal")
Journal == LET f == WriteJournal(fs) IN Fixed("journal", f, Full(f), "meta")

Metadata ==
    Fixed("meta", Put(fs, SuperBlock(fs) @@ GroupDescriptor(fs) @@ Bitmaps(fs)), FALSE, "done")

Next == \/ Start \/ Caches \/ Homes \/ Programs \/ RootScripts \/ ZigTree \/ add_tree
        \/ Directories \/ Swapfile \/ RootDir \/ AllInodes \/ Journal \/ Metadata \/ Ended
=============================================================================
