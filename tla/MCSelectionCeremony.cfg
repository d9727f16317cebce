SPECIFICATION CeremonySpec
CONSTANTS
  Requests = {"q1", "q2"}
  Identity <- MCIdentity
  PricingExpiry <- MCPricingExpiry
  AuthorizationExpiry <- MCAuthorizationExpiry
  MaximumRequestLifetime = 4
  MaximumAuthorizationTtl = 4
  Plan <- MCPlan
  PathKind <- MCPathKind
  Envelopes <- MCEnvelopes
  MinimumRelayPaths = 1
  MinimumDirectSolverPaths = 1
  MinimumIndependentSolvers = 2
  MaxOffersPerRequest = 2
  QuotaWindow = 2
  RequestsPerWindow = 2
  RequestsPerIdentityWindow = 2
  MaximumLiveRequests = 2
  SessionsPerIdentity = 1
  MaxTime = 4
  MaxRestarts = 1
  Calls = {c1, c2}
  MaterialCalls = {m1}
  LeaseSeconds = 1
  MaterialTtl = 2
  SigningWindow = 2
  MaxCrashes = 1
  MaximumPendingSelections = 1
  RequestTtl = 2
INVARIANTS CollectedPerWindow BestReceived AgreedResponse
PROPERTY TerminalRecords
CONSTRAINTS Focus OneFault
SYMMETRY Interchangeable
CHECK_DEADLOCK FALSE
