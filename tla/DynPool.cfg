\* Two usable addresses for four hosts: exhaustion and reassignment.
CONSTANTS
  N = 5
  Hosts <- FourHosts
  NoHost <- NoOne
  Home <- Homes
  Configs <- Overrides
  Boot = {0}
  NoEntry = NoEntry
  MinLease = 1
  MaxLease = 3
  MaxTime = 6
SPECIFICATION Spec
INVARIANTS
  TypeOK
  RunsPartition
  SearchIsCircular
PROPERTIES
  PassComplete
  ImplementsLeaseTable
