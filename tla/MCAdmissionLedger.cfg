SPECIFICATION MCSpec
CONSTANTS
  i1 = i1
  i2 = i2
  r1 = r1
  r2 = r2
  r3 = r3
  s1 = s1
  s2 = s2
  o1 = o1
  o2 = o2
  o3 = o3
  Identities = {i1, i2}
  RequestIds = {r1, r2, r3}
  SolverIds = {s1, s2}
  OfferIds = {o1, o2, o3}
  RequestTerms <- MCRequests
  OfferTerms <- MCOffers
  Snapshots <- MCSnapshots
  CancellationSequences = {1}
  MaxTime = 2
  SweepLimit = 1
  MaxRfqTtl = 3
  MaxActiveRequests = 2
  MaxRequestsPerWindow = 1
  MaxCancellationsPerWindow = 2
  QuotaWindow = 2
  MaxFirmQuoteTtl = 3
  MaxCapacityAge = 2
  MaxActiveFirmQuotes = 2
  MaxConsecutiveFailures = 1
  MinReliabilitySample = 1
  MinReliabilityBps = 5000
  EstablishedFills = 1
  UnknownCap = 3
  EstablishedCap = 4
  GlobalCap = 6
CHECK_DEADLOCK FALSE
INVARIANTS AccountingExact OwnershipCausal CancelHolds SettlementDecidesOffer
