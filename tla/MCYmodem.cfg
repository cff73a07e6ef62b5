SPECIFICATION FairSpec
CONSTANTS
    Files <- MCFiles
    Unit = 2
    Mod = 3
    MaxErrors = 4
    Announce = TRUE
    Faults = {"corrupt", "renumber", "packet", "reply", "late", "cut", "flash"}
    MaxFaults = 3
CHECK_DEADLOCK FALSE
INVARIANTS
    Delivered
    CountRight
    FlashErrorAborts
    AckedInOrder
PROPERTIES
    Finishes
    Succeeds
