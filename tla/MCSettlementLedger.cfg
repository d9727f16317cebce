SPECIFICATION LedgerSpec
CONSTANTS
  s1 = s1
  s2 = s2
  h1 = h1
  b1 = b1
  b2 = b2
  Settlements = {s1, s2}
  PaymentHashes = {h1}
  Blocks = {b1, b2}
  PlannedMethods = {"AddHoldInvoice", "SettleInvoice", "CancelInvoice", "SendPaymentV2", "evm:claim"}
  HaltCodes = {"DAEMON_ORDERING", "DAEMON_AUTH_MISMATCH"}
  BroadcastLimit = 2
SYMMETRY Symmetry
CHECK_DEADLOCK FALSE
INVARIANTS AtMostOneDispatch TerminalIsSettled ReservedBeforeMoney
