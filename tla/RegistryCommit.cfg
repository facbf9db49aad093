SPECIFICATION Spec
CONSTANTS
    Tx = {t1, t2, t3}
    Collector = {g1}
    Counter = {c1, c2, c3, c4}
    NoCounter = NoCounter
    MaxTime = 2
    Time <- MCTime
    Tombstone <- MCTombstone
    HasFloor = FALSE
SYMMETRY Symmetry
INVARIANT BelowFallbackNotMissed
