CONSTANTS
  Thread = {t1, t2}
  Conn = {c1, c2}
  Inst = {i1, i2, i3, i4}
  None = None
  Types = 3
  MARK = 1
  MaxJobs = 4
SPECIFICATION Spec
INVARIANTS RefsExact ListIsLive OnePerType FullIsComplete
SYMMETRY Symmetry
CHECK_DEADLOCK FALSE
