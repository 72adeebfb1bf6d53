SPECIFICATION Spec
CONSTANTS
  LastDay = 3
  Schedules <- MCSchedules
  BACKFILL_CAP = 2
  MaxEvents = 2
INVARIANTS TypeOK NoGap OneUpcoming
PROPERTIES CatchesUp
