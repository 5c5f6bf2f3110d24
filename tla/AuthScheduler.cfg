SPECIFICATION Spec
CONSTANTS
  Models = {m1, m2}
  Callers = {p1, p2}
  MaxOps = 3
  MaxSyncs = 1
  MaxTime = 1
  Absent = Absent
  Unbuilt = Unbuilt
SYMMETRY Symmetry
CONSTRAINT Cast
INVARIANTS
  RemovedStaysOut
  SchedulerCurrent
  ShardsCurrent
CHECK_DEADLOCK FALSE
