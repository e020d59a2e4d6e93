\* A map-file entry for one address of the pool whose lease is dormant.
CONSTANTS
  V4 <- MCV4
  V6 <- MCV6
  NoAddr <- None
  Maps <- MCMaps
  Conf <- MCConf
  FileVersions <- InsideFiles
  Map4 <- Range4
  Map6 <- Range6
  To6 <- MCTo6
  From6 <- MCFrom6
  Kind <- MCKind
  Pair <- MCPair
  Pool <- MCPool
  Reserved = "p0"
  Workers = {w1}
  Main = main
  NoThread = nobody
  Slots = {c1}
  NoSlot = nil
  Ask4 <- PoolLookups4
  Ask6 <- TwoClients
  CacheMaxAge = 0
  MinLease = 1
  MaxLease = 2
  MaxTime = 3
SPECIFICATION Spec
INVARIANTS
  RoundTrip
