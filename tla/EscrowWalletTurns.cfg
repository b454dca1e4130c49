SPECIFICATION PatientSpec
CONSTANTS
    Users = {u1, u2}
    Deposits = {d1, d2}
    Payments = {p1, p2}
    Withdrawals = {w1, w2}
    DepositTxs = {x1, x2}
    Amounts = {1, 2}
    MaxFaults = 2
    NoUser = NoUser
    NoTx = NoTx

SYMMETRY Symmetry
INVARIANTS TypeOK  SpentExact
 
CHECK_DEADLOCK FALSE
