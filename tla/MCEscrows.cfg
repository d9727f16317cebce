SPECIFICATION FairEscrowsSpec
CONSTANTS
  u1 = u1
  u2 = u2
  l1 = l1
  h1 = h1
  h2 = h2
  q1 = q1
  q2 = q2
  d1 = d1
  RiskDigests = {d1}
  ResumeDelay = 1
  MaxOpenDuration = 1
  MaxTime = 5
  Contracts = {"vault", "escrow"}
  Hashes = {h1, h2}
  Users = {u1, u2}
  Solvers = {l1}
  QuoteIds = {q1, q2}
  VaultQuotes <- MCVaultQuotes
  EscrowQuotes <- MCEscrowQuotes
  InitialBit = 40
  DepositAmounts = {20}
  MaxFeeBps = 500
  MaxPriceDeviationBps = 1000
  ReferenceSatsPerBit = 1
  BitScale = 1
  EpochDuration = 2
  MinSettlementWindow = 1
  MinClaimBuffer = 1
  MaxLockDuration = 4
  MaxSwapAmount = 30
  MaxEpochVolume = 30
CHECK_DEADLOCK FALSE
INVARIANTS Solvent LiabilitiesExact
PROPERTIES LockedIsReleased ExitExclusive
