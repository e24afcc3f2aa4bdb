\* Three requests, batches of two, two signals at any time.
SPECIFICATION FairSpec
CONSTANTS
    FlushAt = 2
    BatchLimit = 2
    MaxEntries = 3
    MaxFailures = 1
    MaxSignals = 2
    Files <- MCFiles
    Names = {"injector", "logger"}
    Exports <- MCExports
    NoName = NoName
    NoFile = NoFile
    NoPromise = NoPromise
INVARIANTS
    TypeOK
    ServesUntilSignalled
    ExitsIdle
    KeptOnExit
PROPERTIES
    SignalEndsProcess
CHECK_DEADLOCK FALSE
