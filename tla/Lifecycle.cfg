CONSTANTS
  k1 = k1
  k2 = k2
  None = None
  Replicas = {k1, k2}
  RETRY_SCHEDULE_DAYS <- ShortSchedule
  Period = 2
  FreePeriod = 2
  WarnAfter = 1
  PurgeAfter = 2
  MaxDays = 2
  MaxActs = 2
SPECIFICATION FairSpec
CHECK_DEADLOCK FALSE
INVARIANTS
  RenewedWhenOver
PROPERTIES
  PaidIsKept
  PurgedWasWarned
  TrialEnds
  PastDueEnds
