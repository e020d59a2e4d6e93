\* What the daemon saves when it is told to stop.
CONSTANTS
  N = 3
  Hosts <- TwoHosts
  NoHost <- NoOne
  Home <- DbHomes
  Configs <- Unedited
  Boot = {2}
  NoEntry = NoEntry
  MinLease = 1
  MaxLease = 1
  MaxTime = 3
  NoRows = NoRows
  MaxCommit = 1
SPECIFICATION DbSpec
PROPERTIES
  StopSaves
