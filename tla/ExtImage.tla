------------------------------ MODULE ExtImage ------------------------------
(* What the three image builders make_ext2_img.py, make_ext3_img.py and    *)
(* make_ext4_img.py have in common: the state of a build, the format of    *)
(* the image, and the way the kernel reads it.  Ext2Img, Ext3Img and       *)
(* Ext4Img extend this module with what each program does.                 *)
(*                                                                         *)
(* A build runs through the phases of main, named by pc.  Its inputs (the  *)
(* shell, the other programs, the scripts, the source trees) are chosen    *)
(* while it runs.  Files are measured in blocks.  The block i of the file  *)
(* with path p holds <<p, i>>, so that a reader can tell what it got.      *)
EXTENDS Integers, FiniteSets, Sequences, SequencesExt, FiniteSetsExt, TLC

CONSTANTS
    BLOCK_SIZE,           \* bytes in a block, as far as directories go
    NDirect,              \* direct pointers of an inode (12)
    ADDRS_PER_INDIRECT,   \* pointers in an indirect block (1024)
    BITMAP_CAPACITY,      \* bits in a block (32768)
    U16,                  \* the 16-bit counters of a descriptor wrap here
    Sizes,                \* sizes of host files, in blocks
    HostNames,            \* names of the entries of a host directory, sorted
    MaxHost               \* bound on the host files and directories

VARIABLES
    kind,      \* the program that runs
    pc,        \* the phase of main
    fs,        \* the image and the allocation counters
    bin,       \* /bin: its inode (0: there is none) and its entries
    scripts,   \* entries of the root scripts
    tree,      \* frames of the recursive calls of add_tree
    roots,     \* entries of the trees that are complete
    dirs,      \* tree_dirs_created
    left,      \* host files and directories that may still come
    host       \* what the image has to hold: path -> blocks, or Dir

vars == <<kind, pc, fs, bin, scripts, tree, roots, dirs, left, host>>

Dir == -1
None == -1                  \* no shell binary
FT_REG == 1
FT_DIR == 2

Ceil(a, b) == (a + b - 1) \div b
Min2(a, b) == IF a < b THEN a ELSE b
Max2(a, b) == IF a > b THEN a ELSE b

-----------------------------------------------------------------------------
(* The state of a build.                                                   *)

\* Nothing but the counters is set: the image is a bytearray of zeros.
EmptyFs(first, over) ==
    [next_block |-> first, high_block |-> over, use_high_zone |-> FALSE,
     next_inode |-> 12, disk |-> <<>>, itab |-> <<>>, pend |-> <<>>,
     whole |-> TRUE]

Entry(ino, name, ft) == [ino |-> ino, name |-> name, ft |-> ft]
Dots(ino, parent) == <<Entry(ino, ".", FT_DIR), Entry(parent, "..", FT_DIR)>>
SubDirs(es) == Cardinality({i \in DOMAIN es : es[i].ft = FT_DIR})

\* The block an allocation gets, and the state after n of them.
Base(f) == IF f.use_high_zone THEN f.high_block ELSE f.next_block
Take(f, n) == IF f.use_high_zone THEN [f EXCEPT !.high_block = @ + n]
              ELSE [f EXCEPT !.next_block = @ + n]
TakeInodes(f, n) == [f EXCEPT !.next_inode = @ + n]

Put(f, new) == [f EXCEPT !.disk = new @@ @]
PutInode(f, at, inode) == [f EXCEPT !.itab = (at :> inode) @@ @]

\* The arguments of a write_inode call that main makes at the end.
Keep(f, ino, inode) == [f EXCEPT !.pend = (ino :> inode) @@ @]

Data(path, i) == [k |-> "data", v |-> <<path, i>>]
Pointers(s) == [k |-> "ptr", v |-> s]

-----------------------------------------------------------------------------
(* Directory blocks.                                                       *)

\* make_dir_entry: the smallest rec_len, and the bytes an entry takes when
\* its rec_len is given.
MinSize(name) == ((8 + Len(name) + 3) \div 4) * 4
Bytes(name, rec_len) == Max2(rec_len, 8 + Len(name))

Packed(e, rec_len) == [ino |-> e.ino, name |-> e.name, ft |-> e.ft, rec |-> rec_len]

\* The loop of write_dir_blocks, which gives the blocks with their entries and
\* lengths in bytes.  cur, used: current_block_data.  A block that is full is
\* padded by Flush of each builder, where they differ.
PackDir(es) ==
    LET n == Len(es)
        step(s, e) ==
            LET fl == IF s.used + MinSize(e.name) > BLOCK_SIZE /\ s.used > 0
                      THEN [s EXCEPT !.full = Append(@, [es |-> s.cur, len |-> s.used]),
                                     !.cur = <<>>, !.used = 0]
                      ELSE s
            IN  [fl EXCEPT !.cur = Append(@, Packed(e, MinSize(e.name))),
                           !.used = @ + MinSize(e.name)]
        p == FoldLeft(step, [full |-> <<>>, cur |-> <<>>, used |-> 0], Front(es))
        rest == BLOCK_SIZE - p.used
    IN  Append(p.full, [es |-> Append(p.cur, Packed(es[n], rest)),
                        len |-> p.used + Bytes(es[n].name, rest)])

\* write_block: data longer than a block replaces more bytes of the image
\* than it brings, so everything behind it moves.
PutDir(f, packed) ==
    [Put(Take(f, Len(packed)),
         [b \in Base(f) .. Base(f) + Len(packed) - 1 |->
             [k |-> "dir", v |-> packed[b - Base(f) + 1].es]])
     EXCEPT !.whole = @ /\ \A i \in DOMAIN packed : packed[i].len <= BLOCK_SIZE]

-----------------------------------------------------------------------------
(* The kernel's view of an image.                                          *)

Zero == [k |-> "zero", v |-> <<>>]
At(b) == IF b \in DOMAIN fs.disk THEN fs.disk[b] ELSE Zero

Superblock == At(0).v
Descriptors == At(1).v

Groups == 0 .. Len(Descriptors) - 1
Descriptor(g) == Descriptors[g + 1]

\* An inode is found through the descriptor of its group.
Inode(ino) ==
    LET g == (ino - 1) \div Superblock.inodes_per_group
    IN  fs.itab[<<Descriptor(g).inode_table, (ino - 1) % Superblock.inodes_per_group>>]
Inodes == {ino \in 1 .. Superblock.inodes_count :
              LET g == (ino - 1) \div Superblock.inodes_per_group
              IN  <<Descriptor(g).inode_table, (ino - 1) % Superblock.inodes_per_group>>
                      \in DOMAIN fs.itab}

Pointer(b, i) == LET p == At(b).v IN IF b # 0 /\ i \in DOMAIN p THEN p[i] ELSE 0

\* getFileBlock: block i (from 0) of a file; 0 is a hole.
Extents(m) == IF m.leaf = 0 THEN m.x ELSE At(m.leaf).v
ExtentBlock(m, i) ==
    LET x == Extents(m)
        in == {k \in DOMAIN x : x[k][1] <= i /\ i < x[k][1] + x[k][2]}
    IN  IF in = {} THEN 0 ELSE LET k == CHOOSE k \in in : TRUE IN x[k][3] + i - x[k][1]
IndirectBlock(m, i) ==
    IF i < NDirect THEN IF i + 1 \in DOMAIN m.d THEN m.d[i + 1] ELSE 0
    ELSE IF i < NDirect + ADDRS_PER_INDIRECT THEN Pointer(m.ind, i - NDirect + 1)
    ELSE LET j == i - NDirect - ADDRS_PER_INDIRECT
         IN  Pointer(Pointer(m.dind, (j \div ADDRS_PER_INDIRECT) + 1), (j % ADDRS_PER_INDIRECT) + 1)
getFileBlock(m, i) == IF m.t = "ext" THEN ExtentBlock(m, i) ELSE IndirectBlock(m, i)

\* The blocks that hold the map of a file.
MapBlocks(m) ==
    (IF m.t = "ext" THEN {m.leaf}
     ELSE {m.ind, m.dind} \cup {Pointer(m.dind, i) : i \in 1 .. ADDRS_PER_INDIRECT}) \ {0}

\* The content of a file or directory as a sequence of blocks.
Content(ino) ==
    [i \in 1 .. Inode(ino).size |->
        LET b == getFileBlock(Inode(ino).map, i - 1) IN IF b = 0 THEN Zero ELSE At(b)]

\* readdir and lookup go from entry to entry by rec_len and give up at a
\* rec_len of zero, which is what follows the last entry of a block whose
\* entries do not fill it.
RecSum(es) == FoldLeft(LAMBDA n, e : n + e.rec, 0, es)
Listed(ino) ==
    LET c == Content(ino)
        reached == {k \in DOMAIN c : \A j \in 1 .. k - 1 :
                       c[j].k = "dir" /\ RecSum(c[j].v) = BLOCK_SIZE}
    IN  UNION {{c[k].v[i] : i \in {j \in DOMAIN c[k].v : c[k].v[j].ino # 0}} :
                   k \in {k \in reached : c[k].k = "dir"}}
Children(ino) == {e \in Listed(ino) : e.name \notin {".", ".."}}

\* All paths of the image with the inodes they lead to.  No host tree is
\* deeper than MaxHost below /zig.
Paths ==
    LET level[d \in 0 .. MaxHost + 2] ==
            IF d = 0 THEN {<<<<>>, 2>>}
            ELSE UNION {{<<Append(p[1], e.name), e.ino>> : e \in Children(p[2])} :
                            p \in {p \in level[d - 1] : Inode(p[2]).ft = FT_DIR}}
    IN  UNION {level[d] : d \in 1 .. MaxHost + 2}

\* What belongs to the journal: the blocks the kernel logs to, which are
\* the s_maxlen blocks from i_block[0], and the map of inode 8.
JournalStart == getFileBlock(Inode(8).map, 0)
JournalBlocks == JournalStart .. JournalStart + At(JournalStart).v.maxlen - 1

Owned(ino) ==
    MapBlocks(Inode(ino).map) \cup
        (IF ino = 8 THEN JournalBlocks
         ELSE {getFileBlock(Inode(ino).map, i - 1) : i \in 1 .. Inode(ino).size})

Used == UNION {Owned(ino) : ino \in Inodes}

\* Superblock, descriptors, bitmaps and inode tables (of one block each).
Tables == {0, 1} \cup UNION {{Descriptor(g).block_bitmap, Descriptor(g).inode_bitmap,
                              Descriptor(g).inode_table} : g \in Groups}

\* The blocks of a group that allocBlockFromGroup can find in its bitmap.
Group(g) ==
    LET first == g * Superblock.blocks_per_group
    IN  first .. first + Min2(Superblock.blocks_per_group, BITMAP_CAPACITY) - 1

-----------------------------------------------------------------------------
(* Properties.                                                             *)

\* An image was written, and no directory block was longer than a block (see
\* BlocksFit).
Written == pc = "done" /\ fs.whole

\* The types of the counters and of the inputs.  Every inode number that is
\* kept was allocated by alloc_inode.
TypeOK ==
    /\ kind \in {"ext2", "ext3", "ext4"}
    /\ fs.next_block \in Nat /\ fs.high_block \in Nat /\ fs.next_inode \in Nat
    /\ fs.use_high_zone \in BOOLEAN /\ fs.whole \in BOOLEAN
    /\ DOMAIN fs.disk \subseteq Nat
    /\ \/ pc = "exit"
       \/ /\ DOMAIN fs.pend \cup {bin.ino} \subseteq 0 .. fs.next_inode - 1
          /\ \A i \in DOMAIN tree : tree[i].ino \in 12 .. fs.next_inode - 1
    /\ left \in 0 .. MaxHost
    /\ \A p \in DOMAIN host : host[p] \in Nat \cup {Dir}

\* A kernel that mounts the image finds exactly the files and directories
\* that were to be copied, each under one inode; every file has the bytes of
\* its host file in order, and ".." leads from each directory to its parent.
HostTree ==
    Written =>
        LET ps == Paths
            dots(ino) == {<<e.name, e.ino>> : e \in Listed(ino) \ Children(ino)}
        IN  /\ Cardinality(ps) = Cardinality(DOMAIN host)
            /\ dots(2) = {<<".", 2>>, <<"..", 2>>}
            /\ \A p \in ps :
                /\ p[1] \in DOMAIN host
                /\ IF host[p[1]] = Dir
                   THEN /\ Inode(p[2]).ft = FT_DIR
                        /\ \E up \in ps \cup {<<<<>>, 2>>} :
                               up[1] = Front(p[1]) /\ dots(p[2]) = {<<".", p[2]>>, <<"..", up[2]>>}
                   ELSE /\ Inode(p[2]).ft = FT_REG
                        /\ Content(p[2]) = [i \in 1 .. host[p[1]] |-> Data(p[1], i - 1)]

\* No block has two uses: the blocks of an inode, with its pointer blocks,
\* are apart from those of every other inode and from the tables, and all of
\* them lie in the image.  This is what alloc_block promises its callers.
OneOwner ==
    Written =>
        /\ FoldSet(LAMBDA ino, n : n + Cardinality(Owned(ino)), 0, Inodes) = Cardinality(Used)
        /\ Used \cap Tables = {}
        /\ Used \subseteq 1 .. Superblock.blocks_count - 1

\* The bitmaps the kernel allocates from have the bits of the blocks and
\* inodes in use, and no others, so that nothing is handed out twice and
\* nothing is lost.  Inodes 1 to 10 are reserved.
BitmapsExact ==
    Written => \A g \in Groups :
        /\ At(Descriptor(g).block_bitmap).v =
               {b - g * Superblock.blocks_per_group :
                   b \in (Tables \cup Used) \cap Group(g)}
        /\ At(Descriptor(g).inode_bitmap).v =
               {ino - g * Superblock.inodes_per_group :
                   ino \in (Inodes \cup 1 .. 10) \cap
                       (g * Superblock.inodes_per_group + 1 .. (g + 1) * Superblock.inodes_per_group)}

\* The free counts of the superblock are the blocks and inodes nothing uses.
\* The ext3 builder counts the blocks behind the bitmap too, the others
\* only what the kernel can allocate.  A descriptor has the counts of its
\* group, in 16 bits, which is less than what is free in the one group of an
\* ext3 image; but a group with a block that the kernel can allocate never
\* claims to be full, which would stop it from looking at the bitmap.
FreeCounts ==
    Written =>
        LET tracked == UNION {Group(g) : g \in Groups}
            counted == IF kind = "ext3" THEN 0 .. Superblock.blocks_count - 1 ELSE tracked
            unused == counted \ (Tables \cup Used)
            spare == (1 .. Superblock.inodes_count) \ (Inodes \cup 1 .. 10)
        IN  /\ Superblock.free_blocks = Cardinality(unused)
            /\ Superblock.free_inodes = Cardinality(spare)
            /\ \A g \in Groups :
                   /\ Descriptor(g).free_blocks = Cardinality(
                          {b \in unused : b \div Superblock.blocks_per_group = g}) % U16
                   /\ Descriptor(g).free_inodes = Cardinality(
                          {i \in spare : (i - 1) \div Superblock.inodes_per_group = g}) % U16
                   /\ Group(g) \ (Tables \cup Used) # {} => Descriptor(g).free_blocks > 0

\* A directory has as many links as its own two names and the ".." of its
\* subdirectories, a file has one; /testdir is the exception (its inode is written with nlink=3 by the ext2 and
\* ext3 builders).
LinkCounts ==
    Written => \A p \in Paths \cup {<<<<>>, 2>>} :
        p[1] = <<"testdir">> \/ Inode(p[2]).nlink =
            IF Inode(p[2]).ft = FT_DIR
            THEN 2 + Cardinality({e \in Children(p[2]) : e.ft = FT_DIR}) ELSE 1

\* i_blocks of an inode mapped by pointers, the journal's included, counts each
\* block the inode owns: its data, and the pointer blocks, whose number
\* write_inode computes anew after write_file_data has allocated them one at
\* a time.  Of an inode mapped by extents it counts the data alone: the leaf
\* block of a file with more extents than fit the inode is owned and not
\* counted (write_inode_ext4 takes len(blocks)).
SectorCounts ==
    Written => \A ino \in Inodes :
        LET map == Inode(ino).map
        IN  Inode(ino).i_blocks =
                Cardinality(IF map.t = "ext" THEN Owned(ino) \ MapBlocks(map) ELSE Owned(ino))

\* initJournal finds a journal superblock at i_block[0] of inode 8, and the
\* blocks the inode maps are the ones the kernel logs to.
JournalSound ==
    Written =>
        /\ At(JournalStart).k = "jsb"
        /\ At(JournalStart).v.first < At(JournalStart).v.maxlen
        /\ Inode(8).size = At(JournalStart).v.maxlen
        /\ \A i \in 0 .. Inode(8).size - 1 :
               getFileBlock(Inode(8).map, i) \in {0, JournalStart + i}

\* verifyChecksum accepts every inode and descriptor of an ext4 image: the
\* sum was computed last, from the same number and fields.
ChecksumsValid ==
    Written /\ kind = "ext4" =>
        LET plain(r) == [x \in DOMAIN r \ {"csum"} |-> r[x]]
        IN  /\ \A ino \in Inodes : Inode(ino).csum = <<"inode", ino, plain(Inode(ino))>>
            /\ \A g \in Groups : Descriptor(g).csum = <<"bgd", g, plain(Descriptor(g))>>

\* No builder writes a block or an inode twice: what one phase has written
\* is never overwritten by a later one.
NoRewrite ==
    [][/\ \A b \in DOMAIN fs.disk : fs'.disk[b] = fs.disk[b]
       /\ \A at \in DOMAIN fs.itab : fs'.itab[at] = fs.itab[at]]_vars

\* write_dir_blocks means to "pad last entry to fill block" when it starts
\* another block, so that rec_len leads the kernel to the end of the block
\* and on to the next one.
DirBlocksFilled ==
    \A b \in DOMAIN fs.disk : fs.disk[b].k = "dir" => RecSum(fs.disk[b].v) = BLOCK_SIZE

\* It says of the last entry of a directory that it "fills remaining space
\* in current block", and does not ask whether the entry fits.
BlocksFit == fs.whole

\* alloc_block, alloc_inode: the counters stay within the image, and what they
\* hand out has one owner.
BlocksApart == TypeOK /\ OneOwner

\* What the kernel trusts before it reads a file: bitmaps, the journal and the
\* checksums.
MetadataSound == BitmapsExact /\ JournalSound /\ ChecksumsValid
=============================================================================
