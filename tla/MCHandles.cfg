SPECIFICATION Spec
CONSTANTS
    BLOCK_SIZE = 2
    FAT_SIZE = 6
    DISK_BLOCKS = 6
    DIR_SIZE = 2
    HANDLETABLE_SIZE = 2
    Name = {n1, n2}
    NoName = NoName
    Byte = {0}
    ZeroByte = 0
    Count = {1, 3}
SYMMETRY NameSymmetry
CONSTRAINT Remounts
INVARIANTS
    FullInv CheckSilent
    FATConsistent SizeMatchesChain NamesUnique WritersAtEnd ReadersInPlace BlockExpected
