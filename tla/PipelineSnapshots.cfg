SPECIFICATION Spec
CONSTANTS
    Tx = {t1, t2, t3}
    NoTx = NoTx
    MaxNow = 2
    MaxGets = 2
    Plans <- SnapshotPlans
    Key <- MCKey
    Now <- MCNow
    Time <- MCTime
    Slot <- MCSlot
SYMMETRY Symmetry
INVARIANTS
    
    
    PublishedVisible
    
PROPERTY VersionsFollowCommits
