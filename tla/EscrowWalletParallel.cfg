SPECIFICATION Spec
CONSTANTS
    Users = {u1}
    Deposits = {d1}
    Payments = {p1, p2}
    Withdrawals = {}
    DepositTxs = {x1, x2}
    Amounts = {1}
    MaxFaults = 0
    NoUser = NoUser
    NoTx = NoTx

INVARIANT PaidFromBalance
CHECK_DEADLOCK FALSE
