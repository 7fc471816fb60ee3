SPECIFICATION Spec
CONSTANTS
  Cpu = {c1, c2, c3}
  Mark = {m1}
  DENY = m1
  m1 = m1
  Inst = {i1}
  NoInst = NoInst
  Modes = {2}
  Enables = {TRUE}
  ExternalCb = TRUE
SYMMETRY Symmetry
INVARIANT TeardownExact
PROPERTY ImplementsDecision
