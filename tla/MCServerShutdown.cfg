\* The README on usage entries, against a shutdown without any failure.
SPECIFICATION Spec
CONSTANTS
    FlushAt = 2
    BatchLimit = 2
    MaxEntries = 3
    MaxFailures = 1
    MaxSignals = 2
    Files <- MCFiles
    Names = {"injector", "logger"}
    Exports <- MCExports
    NoName = NoName
    NoFile = NoFile
    NoPromise = NoPromise
INVARIANTS
    EntriesPersisted
CHECK_DEADLOCK FALSE
