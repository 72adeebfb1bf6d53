SPECIFICATION Spec
CONSTANTS
  Replicas = {r1}
  Walkers = {w1}
  Keys = {k1}
  Values = {"match"}
  Graphs <- MCReminding
  Start = "t"
  WaitIds = {i1}
  BATCH_SIZE = 1
  None = None
  MaxEvents = 1
CHECK_DEADLOCK FALSE
PROPERTIES ViewKept
