SPECIFICATION Spec
CONSTANTS
  Creds = {c1, c2}
  Managers = {u1}
  Requests = {r1}
  Loops <- TwoLoops
  Workers = {w1}
  QueueCap = 1
  MaxOps = 2
  None = None
  Later = Later
  Stale = Stale
SYMMETRY Symmetry
CONSTRAINT Cast
INVARIANTS
  JobsAccounted
  TokensOfNewest
CHECK_DEADLOCK FALSE
