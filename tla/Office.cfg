CONSTANTS
  i1 = i1
  i2 = i2
  p1 = p1
  p2 = p2
  n1 = n1
  n2 = n2
  x1 = x1
  None = None
  Handlers = {h1, h2}
  VacationIds = {i1, i2}
  Days = {1, 2}
  Totals = {2, 3}
  MaxCrashes = 1
  Users = {p1, p2}
  Shifts = {n1, n2}
  Swaps = {i1, i2}
  Invites = {x1}
  Emails = {p1, p2}
  Limits = {1}
  Employees = {p1, p2}
  Deadlines = {n1, n2}
  Categories = {i1, i2}
  Scores = {1, 4}
  TeamIds = {i1, i2}
  People = {p1, p2}
  Names = {n1, n2}
  Duties = {i1, i2}
  Titles = {n1, n2}
  MessageIds = {i1, i2}
  Readers = {p1, p2}
  ModuleIds = {"tasks", "payroll"}
  Plans = {"starter", "pro"}
  ModulesOf <- MCModulesOf
  Presets = {{"tasks"}, {"tasks", "payroll"}}
  ShareIds = {i1, i2}
  RequestIds = {p1, p2}
  LocationIds = {i1, i2, x1}
  Staff = {"one"}
  LocationQuota = 1
  PaymentIds = {i1, i2, x1}
  CouponLimit = 1
  OrderTotal = 20
  Amounts = {2, 10}
CHECK_DEADLOCK FALSE
SPECIFICATION Spec
SYMMETRY Symmetry
CONSTRAINT Alone
INVARIANTS
  TypeOK
  UsedIsApproved
  ReadyForApproval
  OfferedOnce
  LimitRespected
  RowsAgree
  TeamsInStep
PROPERTIES
  MovesWithApproval
  CanceledStaysCanceled
  NothingUndone
  DecidedOnce
