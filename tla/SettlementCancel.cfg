SPECIFICATION Spec
CONSTANTS
    Txs = {t1}
    Requests = {q1}
    Runs = {}
    Settlements = {s1}
    MinCount = 1
    MaxFaults = 0
    NoSettlement = NoSettlement

PROPERTY CancelOnlyPending
CHECK_DEADLOCK FALSE
