CONSTANTS
  k1 = k1
  k2 = k2
  None = None
  Replicas = {k1}
  RETRY_SCHEDULE_DAYS <- ShortSchedule
  Period = 2
  FreePeriod = 2
  WarnAfter = 1
  PurgeAfter = 3
  MaxDays = 4
  MaxActs = 2
SPECIFICATION Spec
CHECK_DEADLOCK FALSE
PROPERTY
  CancelledIsNotCharged
