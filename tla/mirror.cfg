CONSTANTS
  Caller = {w1, w2}
  MaxReq = 2
  WithCb = FALSE
  Port = {eth}
  Mirror = {mir}
  NoDev = NoDev
  MaxWrites = 2
  MaxArgs = 2
SPECIFICATION MirrorFairSpec
INVARIANTS OwnAnswer StraysBounded HoldsExact
PROPERTY CallReturns
CHECK_DEADLOCK FALSE
