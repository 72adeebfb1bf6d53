SPECIFICATION Spec
CONSTANTS
  offset = offset
  interval = interval
  ann = ann
  r1 = r1
  r2 = r2
  Reminder <- MCBoth
  Recurring <- MCInterval
  DueBound <- MCOffset
  User <- MCUser
  Replica <- MCReplicas
  MaxFaults = 1
INVARIANTS TypeOK SentAtMostOnce
PROPERTY DueIsHandled
