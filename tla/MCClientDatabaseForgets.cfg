SPECIFICATION ClientSpec
CONSTANTS
  NoId = NoId
  WireMax = 2
  AddrBits = 3
  First = 0
  Last = 3
  Ids = {p}
  Counts <- MCCounts
  Lifetimes <- MCLifetimes
INVARIANTS AnnouncedIsNotFree
