SPECIFICATION CrashSpec
CONSTANTS
    BLOCK_SIZE = 2
    FAT_SIZE = 5
    DISK_BLOCKS = 5
    DIR_SIZE = 2
    HANDLETABLE_SIZE = 1
    Name = {n1, n2}
    NoName = NoName
    Byte = {0}
    ZeroByte = 0
    Count = {1, 3}
INVARIANTS
    RestartIsChecked StaysConsistent
