SPECIFICATION Spec
CONSTANTS
  Caller = {t1}
  Count = {4, 6}
  Initial = 2
  FwDefault = 1
  Quantum = 2
  MinConn = 2
  MaxTotal = 8
  MaxMsg = 4
INVARIANT TotalWithinLimit
CHECK_DEADLOCK FALSE
