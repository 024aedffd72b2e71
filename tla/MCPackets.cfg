SPECIFICATION Spec
CONSTANTS
    NoId = NoId
    None = None
    WireMax = 3
    AddrBits = 4
    Ranges <- MCRanges
    Kinds <- MCKinds
    Letters <- MCLetters
    Stations = {None, "a", "bc", "long"}
    Networks = {None, "long"}
    Vendors = {None, "a", "long"}
    Lifetimes = {0, 1}
    MaxClaim = 5
INVARIANTS
    Understood
    ReadBack
    SetsArrive
    TakenByItsAsker
    DissectorAgrees
