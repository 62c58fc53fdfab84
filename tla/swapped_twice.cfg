CONSTANTS
    MarketOrders = {m1}
    LimitOrders = {}
    Slots = {w1}
    Rounds = {}
    Cancellable = {}
    MaxDbFaults = 0
    MaxRedisFaults = 1
    MaxLockLosses = 0
    MaxCrashes = 0
    MaxRetryAttempts = 2
    MaxStalledCount = 1
    MaxPriceTries = 1
    MaxActiveLimits = 1
    NoOrder = NoOrder
    NoSlot = NoSlot
SPECIFICATION Spec
INVARIANT OneSwapPerOrder
CHECK_DEADLOCK FALSE
