SPECIFICATION FairSpec
CONSTANTS
    Image = {a, b, x}
    Bad = {x}
    NoStart = {}
    N = 2
    Rollback = TRUE
    ManualRollback = FALSE
    Ymodem = FALSE
    InstallRestart = TRUE
    ReadErrors = FALSE
    NoImage = NoImage
    Erased = Erased
    Torn = Torn
INVARIANTS Recoverable MarkedInstalled
PROPERTIES EventuallyRuns PendingInstalled
