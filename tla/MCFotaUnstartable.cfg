SPECIFICATION Spec
CONSTANTS
    Image = {a, u}
    Bad = {}
    NoStart = {u}
    N = 2
    Rollback = TRUE
    ManualRollback = FALSE
    Ymodem = FALSE
    InstallRestart = FALSE
    ReadErrors = FALSE
    NoImage = NoImage
    Erased = Erased
    Torn = Torn
INVARIANTS Recoverable
