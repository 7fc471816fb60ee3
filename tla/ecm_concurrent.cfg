SPECIFICATION Spec
CONSTANTS
  Cpu = {c1, c2}
  Mark = {m0, m1}
  DENY = m1
  m0 = m0
  m1 = m1
  Inst = {i1, i2}
  NoInst = NoInst
  Modes = {1}
  Enables = {FALSE}
  ExternalCb = FALSE
SYMMETRY Symmetry
INVARIANTS
  DenyHasCause
  AccelHasCause
PROPERTIES
  SlowPathHolds
  DecisionIsFinal
  SealedIsFinal
