SPECIFICATION ShellSpec
CONSTANTS
    BLOCK_SIZE = 2
    FAT_SIZE = 6
    DISK_BLOCKS = 6
    DIR_SIZE = 2
    HANDLETABLE_SIZE = 2
    Name = {n1, n2}
    NoName = NoName
    Byte = {0}
    ZeroByte = 0
    Count = {3}
    CHUNK = 3
    HostSizes = {1, 4}
INVARIANTS CheckAccepts CopyIsComplete ProblemMeansFull NextRunIsChecked
PROPERTIES OthersUntouched CommandTerminates
