SPECIFICATION FairSpec
CONSTANTS
    Wide = {}
    Narrow = {n1, n2}
    Eraser = {}
    Commit <- MCCommit
    Key <- MCKey
    Writes <- MCWrites
    Deletes = {}
    NoCommit = NoCommit
    Free = Free
    Torn = Torn
    Snapshotter = {s1}
    Async = TRUE
    FsyncModes = {"never", "interval"}
    BatchSize = 2
    Faults = {"append", "snapshot"}
    MaxCrashes = 1
    MaxSnapshots = 1
INVARIANTS
    AckedRecoverable
PROPERTY QueueDrains
CHECK_DEADLOCK FALSE
