CONSTANTS
  r1 = r1
  k1 = k1
  k2 = k2
  m1 = m1
  m2 = m2
  None = None
  Requests = {r1}
  Replicas = {k1, k2}
  Methods = {m1}
  MaxEmployees = 2
  Period = 4
  Overdue = 2
  GatewayAnswers = {"paid", "declined", "lost", "crash"}
SPECIFICATION Spec
SYMMETRY ReplicaSymmetry
INVARIANTS
  ChargeIsCurrent
  OneChargeAtATime
  SeatsArePaid
  BillingDateFollowsPeriod
