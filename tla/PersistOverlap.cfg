SPECIFICATION Spec
CONSTANTS
    Wide = {}
    Narrow = {n1, n2}
    Eraser = {}
    Commit <- MCCommit
    Key <- MCKey
    Writes <- MCWrites
    Deletes = {}
    NoCommit = NoCommit
    Free = Free
    Torn = Torn
    Snapshotter = {s1, s2}
    Async = FALSE
    FsyncModes = {"every"}
    BatchSize = 1
    Faults = {}
    MaxCrashes = 0
    MaxSnapshots = 2
INVARIANTS
    AckedRecoverable
CHECK_DEADLOCK FALSE
