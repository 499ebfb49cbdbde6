SPECIFICATION Spec
CONSTANTS
  Kinds = {"ext3", "ext4"}
  BLOCK_SIZE = 164
  NDirect = 3
  ADDRS_PER_INDIRECT = 2
  BITMAP_CAPACITY = 40
  U16 = 40
  Sizes = {0, 4, 6}
  HostNames <- MCHostNames
  MaxHost = 3
INVARIANT DirBlocksFilled
