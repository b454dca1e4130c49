SPECIFICATION ServicesSpec
SYMMETRY Symmetry
CONSTANTS
    Workers = {w1, w2}
    Others = {o1, o2}
    Items = {i1, i2, i3}
    Handlers = {w1, w2}
    Signatures = {o1, o2}
    Transactions = {1}
    Keys = {k1, k2, k3}
    FirstSigners = {k1, k2}
    FirstThreshold = 2
    MaxCount = 1
    MaxFaults = 1
    NoTransaction = Nobody
    NoSignature = Nobody
    Hourly = {hourly}
    Nobody = Nobody
    MaxExceptions = 2
    MaxPayloadAge = 2
    PolicyHorizon = 5
    Verifications = {1, 2}
    Powers = {1, 2}
    Quorum = 2
    MaxStats = 2
    Minimum = 2
    Ttl = 1
    MaxKeys = 2
    Allowed = 2
    Window = 1
    LimiterHorizon = 4
    MaxRestarts = 1
    Deposits = {3, 4}
    Sizes = {1, 2}
    UnitsPerByte = 2
    MaxDeposits = 4
    Amounts = {1, 2}
    Limit = 3
    Decimals = 1
    WalletFunds = 30
    MaxHour = 1
    MaxCalls = 3
    maxTransactionAmount = 2
    maxHourlySpend = 2
    maxDailySpend = 3
    HourTicks = 2
    DayTicks = 4
    MaxTransfers = 3

INVARIANTS ServicesTypeOK WalletSound  EndsOnce KeptUntilSettled
    BuysAtMost RefundsCovered  LimitsHold RecordsExact RootsTell
CHECK_DEADLOCK FALSE
