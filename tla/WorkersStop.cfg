SPECIFICATION FairSpec
CONSTANTS
    Tx = {t1}
    Modes <- MCModes
    BatchSize = 2
    MaxQueue = 2
INVARIANTS
    StoppedBeforeRelease
    NoWorkBeforeLoad
    StolenAreWritten
    
PROPERTIES
    DropReturns
    QueueServed
    AppendReturns
    ThreadsEnd
