\* A daemon with two workers, an administrator, four networks.
CONSTANTS
  daemon = daemon
  admin = admin
  Processes = {daemon, admin}
  Modes <- MCModes
  Networks <- MCNetworks
  V4 = {"a4", "b4"}
  V6 = {"a6"}
  Dests = {"d1", "d2"}
  Conf <- MCConf
  Queues = 2
  Able <- MCAble
  Offload = "auto"
  Vnet = TRUE
  Nobody = nobody
  Writers = {1, 2}
  Slots = 2
  NoSlot = none
  NoData = empty
  Results = {"full", "lost", "fatal"}
  Submitted = {"taken", "unknown"}
  Daemon = daemon
  Quota <- MCQuota
SPECIFICATION LiveSpec
INVARIANTS
  KernelOwnsFrame
  PacketsCounted
  WireInOrder
PROPERTIES
  SetupIsTransaction
  EndsInTheEnd
