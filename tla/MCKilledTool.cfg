SPECIFICATION ToolSpec
CONSTANTS
    block_count = 10
    MAP_BITS = 12
    INODES_PER_BLOCK = 4
    UNUSED_SPACE = UNUSED_SPACE
    DIR_BYTES = 61
    NameLengths = {1}
    MaxKills = 1
INVARIANTS
    AllocatedIsWritten
