SPECIFICATION ScanSpec
CONSTANTS
    BLOCK_SIZE = 1
    FAT_SIZE = 6
    DISK_BLOCKS = 6
    DIR_SIZE = 3
    HANDLETABLE_SIZE = 1
    Name = {n1, n2, n3}
    NoName = NoName
    Byte = {0}
    ZeroByte = 0
    Count = {}
INVARIANT ScanReportsEachOnce
PROPERTY ScanEndsComplete
