SPECIFICATION FairSpec
CONSTANTS
    Tx = {m1, m2}
    NoTx = NoTx
    MaxNow = 2
    MaxGets = 2
    Plans <- SkewPlans
    Key <- MCKey
    Now <- MCNow
    Time <- MCTime
    Slot <- MCSlot

    
PROPERTY CommitReturns
