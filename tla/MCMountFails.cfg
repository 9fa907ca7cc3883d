SPECIFICATION DriverSpec
CONSTANTS
    block_count = 10
    MAP_BITS = 12
    INODES_PER_BLOCK = 4
    UNUSED_SPACE = UNUSED_SPACE
    DIR_BYTES = 31
    NameLengths = {1}
    UINT_VALUES = 16
    MaxKills = 0
    MaxCaches = 1
INVARIANTS
    ZeroMeansMounted
