SPECIFICATION FairSpec
CONSTANTS
    Tx = {t1, t2}
    Collector = {g1}
    Counter = {c1, c2, c3}
    NoCounter = NoCounter
    MaxTime = 1
    Time <- MCTime
    Tombstone <- MCTombstone
    HasFloor = TRUE
PROPERTY RegistrationCompletes
INVARIANTS
    TypeOK
    WatermarkBelowSnapshots
    FloorNotAhead
    LiveCounterLinked
    NoLeakedEntry
