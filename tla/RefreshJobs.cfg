SPECIFICATION FairSpec
CONSTANTS
  Creds = {c1}
  Managers = {u1}
  Requests = {}
  Loops <- OneLoop
  Workers = {w1}
  QueueCap = 1
  MaxOps = 1
  None = None
  Later = Later
  Stale = Stale
PROPERTIES
  JobsEnd
CHECK_DEADLOCK FALSE
