SPECIFICATION Spec
CONSTANTS
  Kinds = {"ext2", "ext3", "ext4"}
  BLOCK_SIZE = 256
  NDirect = 3
  ADDRS_PER_INDIRECT = 2
  BITMAP_CAPACITY = 40
  U16 = 40
  Sizes = {0, 4, 9}
  HostNames <- MCHostNames
  MaxHost = 3
INVARIANTS HostTree BlocksApart MetadataSound FreeCounts LinkCounts SectorCounts
PROPERTY NoRewrite
