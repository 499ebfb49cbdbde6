------------------------------ MODULE MCExtImg ------------------------------
(* The three builders on small images.                                     *)
EXTENDS ExtImage

CONSTANT Kinds

E2 == INSTANCE Ext2Img WITH
    TOTAL_BLOCKS <- 80, FIRST_DATA_BLOCK <- 5, 
    INODES_PER_GROUP <- 43, SWAP_BLOCKS <- 4, JOURNAL_BLOCKS <- 5

E3 == INSTANCE Ext3Img WITH
    TOTAL_BLOCKS <- 80, FIRST_DATA_BLOCK <- 5, INODES_PER_GROUP <- 29, JOURNAL_BLOCKS <- 5

E4 == INSTANCE Ext4Img WITH
    BLOCKS_PER_GROUP <- 20, NUM_GROUPS <- 3, INODES_PER_GROUP <- 25, JOURNAL_BLOCKS <- 7,
    MAX_EXTENT_LEN <- 2, MAX_EXTENTS_IN_INODE <- 2

Init == kind \in Kinds /\ 
    (\/ kind = "ext2" /\ E2!Init
     \/ kind = "ext3" /\ E3!Init
     \/ kind = "ext4" /\ E4!Init)

Next == \/ kind = "ext2" /\ E2!Next
        \/ kind = "ext3" /\ E3!Next
        \/ kind = "ext4" /\ E4!Next

Spec == Init /\ [][Next]_vars

MCHostNames == <<
    "a1234567890123456789012345678901234567890123456789012345678901234567890123456789012345678901234567890123456789012345678901",
    "b1234567890123456789012345678901234567890123456789012345678901234567890123456789012345678901234567890123456789012345678901",
    "c">>
=============================================================================
