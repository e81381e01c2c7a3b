CONSTANTS
  c1 = c1
  c2 = c2
  u1 = u1
  u2 = u2
  r1 = r1
  r2 = r2
  r3 = r3
  Companies = {c1}
  Users = {u1, u2}
  CompanyOf <- OneCompany
  Requests = {r1, r2}
  k1 = k1
  k2 = k2
  Replicas = {k1}
  None = None
  DAILY_USER_LIMIT = 2
  FreeGrant = 5
  Packages = {2}
  MaxTx = 2
SPECIFICATION Spec
SYMMETRY RequestSymmetry
INVARIANTS
  TypeOK
  ReadsAreCurrent
  BalanceNeverNegative
  LedgerAddsUp
  DailyOvershootBounded
PROPERTIES
  ImplementsWallet
