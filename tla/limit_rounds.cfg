CONSTANTS
    MarketOrders = {}
    LimitOrders = {l1}
    Slots = {w1, w2}
    Rounds = {r1, r2}
    Cancellable = {l1}
    MaxDbFaults = 1
    MaxRedisFaults = 0
    MaxLockLosses = 0
    MaxCrashes = 0
    MaxRetryAttempts = 1
    MaxStalledCount = 1
    MaxPriceTries = 2
    MaxActiveLimits = 1
    NoOrder = NoOrder
    NoSlot = NoSlot
SPECIFICATION Spec
INVARIANT OneAttemptPerOrder
INVARIANT BroadcastsArePersisted
INVARIANT ExpiredOnlyAfterDeadline
PROPERTY EndedLimitsRest
