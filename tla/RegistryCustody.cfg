SPECIFICATION Spec
CONSTANTS
    Wallets = {w1, w2}
    ServiceKeys = {k1, k2}
    StakeAmounts = {2, 3}
    FraudAmounts = {1, 3}
    Amounts = {10}
    RatingValues = {}
    Prices = {1}
    MinStake = 2
    MidStake = 3
    TopStake = 4
    MinFraud = 1
    CreditThreshold = 9000
    TxGap = 1
    SlashCooldown = 1
    RestakeCooldown = 1
    UnstakeLock = 2
    RatingCooldown = 1
    MaxDeposited = 7
    MaxTx = 0
    Audited = {}
    KeyReuse = TRUE
    NoOwner = NoOwner

SYMMETRY Symmetry
INVARIANTS TypeOK EscrowSolvent PausedHoldsNothing ServiceCountExact
PROPERTY FrozenStake
