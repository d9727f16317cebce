SPECIFICATION CycleSpec
CONSTANTS
  Settlements = {1, 2}
  Unmatched = {}
  MaxSettlementsPerCycle = 2
CHECK_DEADLOCK FALSE
INVARIANTS HaltIsReported
