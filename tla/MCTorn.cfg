SPECIFICATION TornSpec
CONSTANTS
    BLOCK_SIZE = 2
    FAT_SIZE = 6
    DISK_BLOCKS = 6
    DIR_SIZE = 2
    HANDLETABLE_SIZE = 1
    Name = {n1}
    NoName = NoName
    Byte = {0}
    ZeroByte = 0
    Count = {1, 3}
INVARIANTS
    StartsOnDataBlock
