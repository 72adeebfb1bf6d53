SPECIFICATION Spec
CONSTANTS
  Replicas = {r1, r2}
  Walkers = {w1, w2}
  Keys = {k1}
  Values = {"match", "other"}
  Graphs <- MCGraphs
  Start = "t"
  WaitIds = {i1, i2, i3}
  BATCH_SIZE = 1
  None = None
  MaxEvents = 3
CHECK_DEADLOCK FALSE
INVARIANTS TypeOK WithinReach FullWalk RepeatsTraced
PROPERTIES AuthorGone Settles
