SPECIFICATION Spec
CONSTANTS
  Settlements = {1, 2, 3}
  Unmatched = {3}
  MaxSettlementsPerCycle = 2
  p1 = p1
  p2 = p2
  p3 = p3
  Processes = {p1, p2, p3}
  LeaseStaleSeconds = 1
  MaxTime = 3
CHECK_DEADLOCK FALSE
INVARIANTS OneLateEffect OneEffectAfterRevocation ReportAccepted
PROPERTIES StopCompletes
