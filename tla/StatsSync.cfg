\* Two events out of packets, a report of the main loop and an export.
CONSTANTS
  W = 1
  Batch = 2
  Offload = FALSE
  Quota <- OneAndTwo
  MaxReports = 1
  MaxExports = 1
  MaxEvents = 2
SPECIFICATION LiveSpec
INVARIANTS
  SyncedSeesCounted
  StoppedIsExact
PROPERTIES
  StatusMovesOn
  CallsEnd
  ShutdownEnds
