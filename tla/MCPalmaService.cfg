SPECIFICATION Spec
CONSTANTS
  NoId = NoId
  WireMax = 2
  AddrBits = 4
  Sessions = {"m", "u", "v", "k"}
  Kinds = {"unicast", "multicast"}
  Pool <- MCPool
  MaxAddr <- MCMaxAddr
  Lifetime <- MCLifetime
  ReserveLife = 1
  ProbeSrc = 30
  SelfSources = {40}
  Late = 1
  Sizes <- MCSizes
  Wants <- MCWants
  OwnAddr <- MCOwnAddr
  Known <- MCKnown
  MaxClaim <- MCMaxClaim
CHECK_DEADLOCK FALSE
INVARIANTS TypeInvariant PoolsTiled PromisesKept SourcesKept OffersKept ReservedWasOffered ContainerHolds
PROPERTIES LeasesEnd
