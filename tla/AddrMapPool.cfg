\* Three clients compete for two leasable addresses; one cache entry.  Fair
\* locks and a main loop that goes on.
CONSTANTS
  V4 <- MCV4
  V6 <- MCV6
  NoAddr <- None
  Maps <- MCMaps
  Conf <- MCConf
  FileVersions <- NoFiles
  Map4 <- Range4
  Map6 <- Range6
  To6 <- MCTo6
  From6 <- MCFrom6
  Kind <- MCKind
  Pair <- MCPair
  Pool <- MCPool
  Reserved = "p0"
  Workers = {w1}
  Main = main
  NoThread = nobody
  Slots = {c1}
  NoSlot = nil
  Ask4 <- PoolLookups4
  Ask6 <- PoolLookups6
  CacheMaxAge = 0
  MinLease = 0
  MaxLease = 1
  MaxTime = 2
SPECIFICATION LiveSpec
INVARIANTS
  OneLease
  LastUseKnown
PROPERTIES
  LeaseProtected
  ImplementsLeaseTable
  IdleLeaseReleased
