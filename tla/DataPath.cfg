\* Two workers, two frames, three packets.
CONSTANTS
  W = 2
  Frames = {1, 2}
  Reserve = 1
  MaxHeld = 2
  Lifetime = 1
  Packets <- MCPackets
  Buckets = {"bA", "bB"}
  BucketOf <- MCBucketOf
  Cells = {1}
  CellOf <- MCCellOf
  NoDatagram = None
  NoPacket = None
  MaxPackets = 3
  MaxTime = 1
  NoFrame = NoFrame
  NoFlow = NoFlow
  None = None
SPECIFICATION Spec
INVARIANTS
  TypeOK
  FrameOwnedOnce
  EveryPacketOnce
  DatagramTogether
  NoLostWakeup
PROPERTIES
  ImplementsOrderedLink
