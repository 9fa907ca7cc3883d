SPECIFICATION DriverSpec
CONSTANTS
    block_count = 10
    MAP_BITS = 9
    INODES_PER_BLOCK = 7
    UNUSED_SPACE = UNUSED_SPACE
    DIR_BYTES = 51
    NameLengths = {1, 11}
    MaxKills = 2
    UINT_VALUES = 16
    MaxCaches = 2
INVARIANTS
    VerifySilent NoBlockTwice EntriesOwnInodes OneBlockPerKill ToolInv
    DriverInv MountHoldsItsOwn MountedIsInitialized ListingComplete StatfsCountsFree
