SPECIFICATION FairSpec
CONSTANTS
    NALLOC = 4
    HSize = 4
    SIZE_MAX = 63
    HeapStart = 2
    HeapEnd = 13
    Requests = {0, 3, 7, 8, 17, 63}
    Members = {0, 5, 13}
INVARIANTS
    TypeOK
    Tiled
    Linked
    Coalesced
    Intact
PROPERTIES
    NoFitWhenNull
    CallsReturn
    ImplementsHeap
