SPECIFICATION Spec
CONSTANTS
    Wallets = {w1}
    ServiceKeys = {k1}
    StakeAmounts = {3}
    FraudAmounts = {}
    Amounts = {10}
    RatingValues = {}
    Prices = {1}
    MinStake = 2
    MidStake = 3
    TopStake = 4
    MinFraud = 1
    CreditThreshold = 6150
    TxGap = 1
    SlashCooldown = 1
    RestakeCooldown = 1
    UnstakeLock = 2
    RatingCooldown = 1
    MaxDeposited = 3
    MaxTx = 2
    Audited = {k1}
    KeyReuse = FALSE
    NoOwner = NoOwner

INVARIANT CreditNeedsReputation
