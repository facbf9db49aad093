SPECIFICATION Spec
CONSTANTS
    Key <- MCKey
    Modulus <- MCModulus
    Bits <- MCBits
    HashFns <- MCHashFns
    MaxLives = 1
INVARIANTS
    VerdictExact
    NoFalseNegative
