SPECIFICATION DispatchSpec
CONSTANTS
  None = None
  p1 = p1
  p2 = p2
  r1 = r1
  r2 = r2
  t1 = t1
  t2 = t2
  Preflights = {p1, p2}
  Slots = {r1, r2}
  Tabs = {t1, t2}
  Providers = {pa, pb}
  pa = pa
  pb = pb
  Transactions = {x, y}
  x = x
  y = y
  Blocks = {b1}
  b1 = b1
  ExpiresAt = 1
  MaxTime = 2
  HandleSeconds = 1
  RequestSeconds = 1
  ReportGrace = 1
  Skew = 0
  RateWindow = 4
  RateLimit = 4
SYMMETRY Symmetry
CONSTRAINTS Quiet Rivals
CHECK_DEADLOCK FALSE
INVARIANTS AskedOnce OutcomeTrue FinalizedBacked HaltExplained
