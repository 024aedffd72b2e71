SPECIFICATION Spec
CONSTANTS
    NoId = NoId
    WireMax = 100
    AddrBits = 4
    First = 0
    Last = 12
    Counts = {1}
    Sets <- MCSets
    MaxFree = 2
INVARIANTS
    TypeInvariant
    TreeBalanced
    SearchFinds
    FreeListIsRing
PROPERTY KeepsBlocks
CHECK_DEADLOCK FALSE
