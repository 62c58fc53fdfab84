CONSTANTS
    MarketOrders = {m1}
    LimitOrders = {l1}
    Slots = {w1, w2}
    Rounds = {r1}
    Cancellable = {l1}
    MaxDbFaults = 0
    MaxRedisFaults = 0
    MaxLockLosses = 0
    MaxCrashes = 0
    MaxRetryAttempts = 2
    MaxStalledCount = 1
    MaxPriceTries = 1
    MaxActiveLimits = 1
    NoOrder = NoOrder
    NoSlot = NoSlot
SPECIFICATION FairSpec
PROPERTY LifecycleSpec
