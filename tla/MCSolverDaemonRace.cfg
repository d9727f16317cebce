SPECIFICATION DaemonSpec
CONSTANTS
  s1 = s1
  h1 = h1
  b1 = b1
  b2 = b2
  w1 = w1
  w2 = w2
  Settlements = {s1}
  PaymentHashes = {h1}
  Blocks = {b1, b2}
  PlannedMethods = {"SettleInvoice", "SendPaymentV2", "evm:claim"}
  HaltCodes = {"DAEMON_ORDERING", "DAEMON_AUTH_MISMATCH", "DAEMON_ASSET_MISMATCH", "DAEMON_RESERVATION_EVIDENCE"}
  BroadcastLimit = 2
  Workers = {w1, w2}
  ActiveWorkers = {w1, w2}
  LightningActionDeadline = 1
  EvmRefundAt = 2
  MinimumEvmSafety = 1
  AuthorizationLifetime = 3
  MaxClock = 3
CHECK_DEADLOCK FALSE
SYMMETRY Symmetry
INVARIANTS ExecutedOnce VerdictTrue
PROPERTIES  ImplementsSwap
