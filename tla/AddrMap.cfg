\* Two threads, static and leased addresses, map-file reloads, two cache entries.
CONSTANTS
  V4 <- MCV4
  V6 <- MCV6
  NoAddr <- None
  Maps <- MCMaps
  Conf <- MCConf
  FileVersions <- OutsideFiles
  Map4 <- Range4
  Map6 <- Range6
  To6 <- MCTo6
  From6 <- MCFrom6
  Kind <- MCKind
  Pair <- MCPair
  Pool <- MCPool
  Reserved = "p0"
  Workers = {w1}
  Main = main
  NoThread = nobody
  Slots = {c1, c2}
  NoSlot = nil
  Ask4 <- Lookups4
  Ask6 <- Lookups6
  CacheMaxAge = 0
  MinLease = 0
  MaxLease = 1
  MaxTime = 2
SYMMETRY SlotSymmetry
SPECIFICATION Spec
INVARIANTS
  TypeOK
  CacheCoherent
  RoundTrip
  TablesDisjoint
  LeaseTracked
