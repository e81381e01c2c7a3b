CONSTANTS
  None = None
  Handlers = {r1}
  Replicas = {k1, k2}
  Shifts = {1}
  Trips = {}
  LastTime = 6
SPECIFICATION Spec
PROPERTIES
  TimerSparesClockIns
