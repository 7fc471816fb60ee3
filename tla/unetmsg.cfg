CONSTANTS
  Client = {a, b}
  Topic = {p, q}
  Published = {p}
  Conn = {c1, c2}
  NoConn = NoConn
  MaxOps = 3
  MaxTrouble = 2
SPECIFICATION FairSpec
INVARIANTS ListsAgree InSync RetryPending
PROPERTY Converges
CHECK_DEADLOCK FALSE
