\* Two addresses, two hosts, restarts with another tayga.conf and clock.
CONSTANTS
  N = 3
  Hosts <- TwoHosts
  NoHost <- NoOne
  Home <- DbHomes
  Configs <- Edited
  Boot <- EarlyOrLate
  NoEntry = NoEntry
  MinLease = 1
  MaxLease = 1
  MaxTime = 3
  NoRows = NoRows
  MaxCommit = 1
SPECIFICATION DbLiveSpec
INVARIANTS
  SavedOrPending
  DatabaseConsistent
PROPERTIES
  RestartKeepsLeases
  SavedInTheEnd
