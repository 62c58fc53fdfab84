CONSTANTS
    MarketOrders = {}
    LimitOrders = {l1}
    Slots = {w1}
    Rounds = {r1}
    Cancellable = {}
    MaxDbFaults = 2
    MaxRedisFaults = 1
    MaxLockLosses = 0
    MaxCrashes = 1
    MaxRetryAttempts = 2
    MaxStalledCount = 1
    MaxPriceTries = 3
    MaxActiveLimits = 1
    NoOrder = NoOrder
    NoSlot = NoSlot
SPECIFICATION FairSpec
PROPERTY DeadlineIsNoticed
