SPECIFICATION Spec
CONSTANTS
    Tx = {t1, t2, t3}
    Collector = {g1}
    Node = {n1, n2, n3}
    NoNode = NoNode
    Value = {a, b}
    None = None
    MaxTime = 3
    Time <- MCTime
SYMMETRY Symmetry
INVARIANTS
    SnapshotReadsIntact
    ReadsLinearizable
    ChainsWellFormed
    InFlightAboveWatermark
CHECK_DEADLOCK FALSE
