SPECIFICATION FairSpec
CONSTANTS
  Creds = {c1}
  Managers = {}
  Requests = {}
  Loops <- OneLoop
  Workers = {w1}
  QueueCap = 1
  MaxOps = 1
  None = None
  Later = Later
  Stale = Stale
PROPERTIES
  DueIsRefreshed
CHECK_DEADLOCK FALSE
