SPECIFICATION Spec
CONSTANTS
  Total = 6
  PoolLba = 2
  Main = 2
  Pages = 2
  Data = {x}
  FactoryBad = {1}
  MaxRetry = 1
  MaxOp = 3
  MaxFault = 2
  MaxCrash = 1
  NoTable = NoTable
  Torn = Torn
  x = x
INVARIANTS
  BmtTypeOK
  TableSound
  TablePersisted
  DataKept
CHECK_DEADLOCK FALSE
