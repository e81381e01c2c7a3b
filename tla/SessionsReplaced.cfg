CONSTANTS
  t1 = t1
  t2 = t2
  c1 = c1
  c2 = c2
  c3 = c3
  b1 = b1
  b2 = b2
  None = None
  Tabs = {t1, t2}
  Browsers = {b1, b2}
  Calls = {c1, c2, c3}
  TabOf <- MCTabOf
  MaxActs = 2
SPECIFICATION MCSpec
CHECK_DEADLOCK FALSE
PROPERTIES
  ReplacedIsOver
