SPECIFICATION Spec
CONSTANTS
    Txs = {t1, t2}
    Requests = {q1}
    Runs = {r1}
    Settlements = {s1, s2, s3}
    MinCount = 1
    MaxFaults = 2
    NoSettlement = NoSettlement

SYMMETRY Symmetry
INVARIANTS TypeOK SettledWasPaid NotifiedWasSettled
CHECK_DEADLOCK FALSE
