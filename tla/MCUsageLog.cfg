SPECIFICATION FairSpec
CONSTANTS
    FlushAt = 2
    BatchLimit = 2
    MaxEntries <- MCEntries
    MaxFailures <- MCFailures
INVARIANTS
    TypeOK
    PendingInOrder
    NothingLost
    CopiesBounded
    TimerArmed
PROPERTIES
    ImplementsDurablePrefix
\* After the last entry is stored nothing is left to do.
CHECK_DEADLOCK FALSE
