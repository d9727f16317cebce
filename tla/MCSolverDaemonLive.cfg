SPECIFICATION FairDaemonSpec
CONSTANTS
  s1 = s1
  h1 = h1
  b1 = b1
  b2 = b2
  w1 = w1
  w2 = w2
  Settlements = {s1}
  PaymentHashes = {h1}
  Blocks = {b1}
  PlannedMethods = {"SettleInvoice", "SendPaymentV2", "evm:claim"}
  HaltCodes = {"DAEMON_ORDERING", "DAEMON_AUTH_MISMATCH", "DAEMON_ASSET_MISMATCH", "DAEMON_RESERVATION_EVIDENCE"}
  BroadcastLimit = 1
  Workers = {w1, w2}
  ActiveWorkers = {w1}
  LightningActionDeadline = 1
  EvmRefundAt = 2
  MinimumEvmSafety = 1
  AuthorizationLifetime = 2
  MaxClock = 2
CHECK_DEADLOCK FALSE
PROPERTIES PaidIsLearned PaidIsClaimed
