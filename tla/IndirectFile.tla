---------------------------- MODULE IndirectFile ----------------------------
(* Files of ext2 and ext3: direct, indirect and double-indirect pointers.  *)
(* Blocks are allocated one after the other, so the block numbers follow   *)
(* from the first one and the order of the alloc_block calls.              *)
EXTENDS ExtBuild

\* alloc_file_blocks: the direct blocks, the indirect block before the blocks
\* it lists, the double-indirect block before the remaining ones.
alloc_file_blocks(first, n) ==
    LET single == NDirect + ADDRS_PER_INDIRECT
        skip(i) == (IF i > NDirect THEN 1 ELSE 0) + (IF i > single THEN 1 ELSE 0)
    IN  [blocks |-> [i \in 1 .. n |-> first + i - 1 + skip(i)],
         indirect |-> IF n > NDirect THEN first + NDirect ELSE 0,
         dindirect |-> IF n > single THEN first + single + 1 ELSE 0,
         next |-> first + n + skip(n)]

\* write_file_data: the data, the indirect block, and behind everything else
\* the indirect blocks that the double-indirect block lists.
write_file_data(path, a) ==
    LET single == NDirect + ADDRS_PER_INDIRECT
        n == Len(a.blocks)
        groups == IF a.dindirect = 0 THEN 0 ELSE Ceil(n - single, ADDRS_PER_INDIRECT)
        group(g) == SubSeq(a.blocks, single + (g - 1) * ADDRS_PER_INDIRECT + 1,
                           Min2(n, single + g * ADDRS_PER_INDIRECT))
        sub(g) == a.next + g - 1
        data == [b \in Range(a.blocks) |->
                    Data(path, (CHOOSE i \in 1 .. n : a.blocks[i] = b) - 1)]
        ind == IF a.indirect = 0 THEN <<>>
               ELSE a.indirect :> Pointers(SubSeq(a.blocks, NDirect + 1, Min2(n, single)))
        subs == [b \in {sub(g) : g \in 1 .. groups} |-> Pointers(group(b - a.next + 1))]
        dind == IF a.dindirect = 0 THEN <<>>
                ELSE a.dindirect :> Pointers([g \in 1 .. groups |-> sub(g)])
    IN  [disk |-> data @@ ind @@ subs @@ dind, next |-> a.next + groups]

\* Mutant: the blocks behind the double-indirect one are not counted.
write_inode_flat(ft, size, blocks, ptrs, indirect, dindirect, nlink) ==
    [ft |-> ft, size |-> size, nlink |-> nlink,
     i_blocks |-> blocks + (IF indirect # 0 THEN 1 ELSE 0) + (IF dindirect # 0 THEN 1 ELSE 0),
     map |-> [t |-> "ind", d |-> SubSeq(ptrs, 1, Min2(NDirect, Len(ptrs))),
              ind |-> indirect, dind |-> dindirect]]

\* write_inode: i_blocks counts the data and recomputes how many blocks of
\* pointers there are.
write_inode(ft, size, blocks, ptrs, indirect, dindirect, nlink) ==
    LET beyond == Max2(0, blocks - NDirect - ADDRS_PER_INDIRECT)
        total == blocks + (IF indirect # 0 THEN 1 ELSE 0)
                 + (IF dindirect # 0 THEN 1 + Ceil(beyond, ADDRS_PER_INDIRECT) ELSE 0)
    IN  [ft |-> ft, size |-> size, i_blocks |-> total, nlink |-> nlink,
         map |-> [t |-> "ind", d |-> SubSeq(ptrs, 1, Min2(NDirect, Len(ptrs))),
                  ind |-> indirect, dind |-> dindirect]]

\* Mutant: the blocks write_file_data allocates are not counted.
WriteFileShort(f, path, n) ==
    LET a == alloc_file_blocks(Base(f), n)
        w == write_file_data(path, a)
    IN  [fs |-> Put(Take(f, a.next - Base(f)), w.disk),
         inode |-> write_inode(FT_REG, n, n, a.blocks, a.indirect, a.dindirect, 1)]

\* A file written with the two functions above, and its inode.
WriteFile(f, path, n) ==
    LET a == alloc_file_blocks(Base(f), n)
        w == write_file_data(path, a)
    IN  [fs |-> Put(Take(f, w.next - Base(f)), w.disk),
         inode |-> write_inode(FT_REG, n, n, a.blocks, a.indirect, a.dindirect, 1)]

\* A directory written with write_dir_blocks.  Its inode has no indirect
\* block.
WriteDir(f, packed, nlink) ==
    [fs |-> PutDir(f, packed),
     inode |-> write_inode(FT_DIR, Len(packed), Len(packed),
                           [i \in 1 .. Len(packed) |-> Base(f) + i - 1], 0, 0, nlink)]

\* The inodes of items are written at the end of main.
OneBlockInode(item, b) == write_inode(item.ft, 1, 1, <<b>>, 0, 0, item.nlink)
BlockInodes(f, items) ==
    ItemInodes(items, [i \in DOMAIN items |-> OneBlockInode(items[i], Base(f) + i - 1)])
LaterItems(f, items) == [PutItems(f, items) EXCEPT !.pend = BlockInodes(f, items) @@ @]

\* The put-off write_inode calls; the inode table starts at block 4.
StorePending(f, links) ==
    [f EXCEPT !.itab = [at \in {<<4, ino - 1>> : ino \in DOMAIN f.pend} |->
                            [f.pend[at[2] + 1] EXCEPT !.nlink =
                                IF at[2] + 1 \in DOMAIN links THEN links[at[2] + 1] ELSE 1]] @@ @,
              !.pend = <<>>]
=============================================================================
