SPECIFICATION Spec
CONSTANTS
    Strings = {s1, s2, s3}
    Nodes = {m1, m2, m3}
    Threads = {t1, t2}
    Char = {x}
    MaxLength = 2
    NoText = NoText
    NoNode = NoNode
    NoString = NoString
    NoThread = NoThread
INVARIANTS
    CountsOwners IInv
PROPERTIES
    ImplementsStringValues LockComesBack
