SPECIFICATION SysctlSpec
CONSTANTS
  Caller = {t1, t2}
  MaxReq = 3
  WithCb = TRUE
  Value = {v0, v1}
  First = v0
  v0 = v0
  v1 = v1
INVARIANTS
  MapMirrorsNss
  ModeMirrorsNss
  CallbackIsOwn
SYMMETRY Writers
CONSTRAINT NoneLate
CHECK_DEADLOCK FALSE
