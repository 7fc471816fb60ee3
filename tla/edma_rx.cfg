SPECIFICATION FairSpec
CONSTANTS
  Buffer = {b1, b2}
  RxfillCount = 2
  RxdescCount = 3
  Budget = 2
  OneCpu = TRUE
  None = None
INVARIANTS
  HardwareWritesLive
  StoreIsOwner
  NoBufferLost
  NoLostWake
PROPERTIES
  PacketsTaken
  BuffersComeBack
