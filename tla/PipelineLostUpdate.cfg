SPECIFICATION Spec
CONSTANTS
    Tx = {w1, w2}
    NoTx = NoTx
    MaxNow = 1
    MaxGets = 0
    Plans <- WritePlans
    Key <- MCKey
    Now <- MCNow
    Time <- MCTime
    Slot <- MCSlot
SYMMETRY Symmetry
INVARIANT NoLostUpdate
