SPECIFICATION FrontSpec
CONSTANTS
    Client = {c1, c2}
    Obj = {o1, o2}
    NoObj = NoObj
    Key = {k1}
    Value = {a, b}
    None = None
    Unset = Unset
    PoolSize = 1
    Ways <- MCWays
SYMMETRY Symmetry
INVARIANTS
    ReadYourWrites
    ReadsTracked
    ObjectsExclusive
    
    
 
