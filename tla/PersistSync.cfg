SPECIFICATION Spec
CONSTANTS
    Wide = {w1}
    Narrow = {}
    Eraser = {e1}
    Commit <- MCCommit
    Key <- MCKey
    Writes <- MCWrites
    Deletes = {e1}
    NoCommit = NoCommit
    Free = Free
    Torn = Torn
    Snapshotter = {s1}
    Async = FALSE
    FsyncModes = {"every"}
    BatchSize = 1
    Faults = {"power", "append"}
    MaxCrashes = 1
    MaxSnapshots = 2
INVARIANTS
    TypeOK
    AckedRecoverable
    AckedOnMedium
    RecoveryExact
CHECK_DEADLOCK FALSE
