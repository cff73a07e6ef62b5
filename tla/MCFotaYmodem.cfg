SPECIFICATION FairSpec
CONSTANTS
    Image = {a, u, x}
    Bad = {x}
    NoStart = {u}
    N = 1
    Rollback = TRUE
    ManualRollback = TRUE
    Ymodem = TRUE
    InstallRestart = FALSE
    ReadErrors = TRUE
    NoImage = NoImage
    Erased = Erased
    Torn = Torn
INVARIANTS
    RunsIntact
    NoRejectedCode
PROPERTIES YmodemRecovers
