SPECIFICATION Spec
CONSTANTS
    Wallets = {w1, w2, w3}
    ServiceKeys = {k1}
    StakeAmounts = {3}
    FraudAmounts = {}
    Amounts = {10}
    RatingValues = {1, 500}
    Prices = {1}
    MinStake = 2
    MidStake = 3
    TopStake = 4
    MinFraud = 1
    CreditThreshold = 6000
    TxGap = 1
    SlashCooldown = 1
    RestakeCooldown = 0
    UnstakeLock = 0
    RatingCooldown = 1
    MaxDeposited = 9
    MaxTx = 1
    Audited = {k1}
    KeyReuse = FALSE
    NoOwner = NoOwner

SYMMETRY Symmetry
INVARIANTS RatingAggregate CreditBacked
