SPECIFICATION FairDeliverySpec
CONSTANTS
    Hooks = {h1}
    Callers = {c1, c2}
    Sweeps = {s1}
    MaxAttempts = 3
    MaxMishaps = 2
    NoHook = NoHook

INVARIANTS DeliveryTypeOK AttemptsWereMade CompletedWasReceived
PROPERTY EveryWebhookEnds
CHECK_DEADLOCK FALSE
