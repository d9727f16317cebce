SPECIFICATION FairHostSpec
CONSTANTS
  FailureWindowSeconds = 2
  MaximumFailures = 2
  MaxClock = 3
  MaxRuns = 4
  JobCount = 2
  RecoverFrom = {"BLOCKED", "NEVER_STARTED"}
INVARIANTS JournalSound HostDrained
PROPERTY HostStops
