SPECIFICATION Spec
CONSTANTS
  Cpu = {c1, c2, c3}
  Mark = {m0, m1}
  DENY = m1
  m0 = m0
  m1 = m1
  Inst = {i1}
  NoInst = NoInst
  Modes = {0}
  Enables = {TRUE}
  ExternalCb = FALSE
INVARIANT DeceleratedIsSlow
