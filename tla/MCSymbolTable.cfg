SPECIFICATION Spec
SYMMETRY Addresses
CONSTANTS
    Name <- MCNames
    Bucket <- MCBucket
    Ptr = {p1, p2, p3}
    NULL = NULL
    NR_BLOCK = 2
    Features = {}
INVARIANTS
    ListsOrdered
    Innermost
    TokenCurrent
PROPERTY
    ImplementsScopes
