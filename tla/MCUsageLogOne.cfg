SPECIFICATION FairSpec
CONSTANTS
    FlushAt = 1
    BatchLimit = 1
    MaxEntries <- MCEntries
    MaxFailures = 0
PROPERTIES
    EventuallyStored
CHECK_DEADLOCK FALSE
