SPECIFICATION FairSpec
CONSTANTS
  Cpu = {c1, c2}
  Packet = {p1, p2, p3}
  TxdescCount = 2
  TxcmplCount = 3
  None = None
INVARIANTS
  HardwareReadsLive
  StoreIsOwner
  ReportsMatch
PROPERTY Leaves
