SPECIFICATION Spec
CONSTANTS
  NoId = NoId
  Ids = {}
  WireMax = 8
  AddrBits = 5
  Clients = {c, d}
  First = 1
  Last = 3
  SelfRange <- MCSelfRange
  Multicast = FALSE
  MinClaim = 1
  MaxClaim = 2
  SelfMax = 3
  RandomAssign = TRUE
  Renewal = TRUE
  Preassigned <- MCRoaming
  Known <- Nobody
  Probes = {42, 43}
  Mcast = 62
  LowBits = 1
  CardFilters = FALSE
  Offers <- Nobody
  Acks <- Nobody
  Retries = 2
  MaxMember = 2
  MaxInFlight = 1
CHECK_DEADLOCK FALSE
PROPERTIES ConflictsAreSettled
