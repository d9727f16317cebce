SPECIFICATION Spec
CONSTANTS
    c1 = c1
    c2 = c2
    hash = hash
    NoRequest = NoRequest
    add1 = add1
    settle = settle
    send1 = send1
    send2 = send2
    add2 = add2
    other = other
    Calls <- MCCalls
    Requests = {add1, add2, settle, send1, send2}
    Method <- MCMethod
    HashOf <- MCHashOf
    Amount <- MCAmount
    ExpiresAt <- MCExpiresAt
    Hashes = {hash, other}
    MaxPaymentSats = 2
    MaxDailyValueSats = 3
    MaxInFlightSats = 4
    Liquidity = 4
    SafetyBlocks = 1
    HtlcBlocks = 2
    MaxNoProgress = 0
    DayLength = 1
    MaxTime = 1
    MaxHeight = 2
SYMMETRY CallSymmetry
INVARIANTS JournalTruthful ExposureLimited SettledInTime
CHECK_DEADLOCK FALSE
