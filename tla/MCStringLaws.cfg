SPECIFICATION Spec
CONSTANTS
    Char = {a, b, sp}
    NUL = NUL
    Outside = Outside
    Blank = {sp}
    Default = Default
    IntMax = 15
    MaxText = 5
INVARIANTS
    BuffersFit PaddingExact EraseUndoesInsert SearchesAgree StripIsComplete WordsAreRuns
