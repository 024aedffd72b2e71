SPECIFICATION Spec
CONSTANTS
  NoId = NoId
  Ids = {}
  WireMax = 8
  AddrBits = 5
  Clients = {c, d}
  First = 1
  Last = 4
  SelfRange <- MCSelfRange
  Multicast = FALSE
  MinClaim = 2
  MaxClaim = 2
  SelfMax = 3
  RandomAssign = TRUE
  Renewal = TRUE
  Preassigned <- MCOneRoaming
  Known <- Nobody
  Probes = {42, 43}
  Mcast = 62
  LowBits = 1
  CardFilters = FALSE
  Offers <- MCOffers
  Acks <- MCAcks
  Retries = 2
  MaxMember = 2
  MaxInFlight = 0
CHECK_DEADLOCK FALSE
INVARIANTS TypeInvariant TimersOfState MembershipsStand NeverTooFew
PROPERTIES AsksNotForEver
