CONSTANTS
    MarketOrders = {m1}
    LimitOrders = {}
    Slots = {w1}
    Rounds = {}
    Cancellable = {m1}
    MaxDbFaults = 0
    MaxRedisFaults = 0
    MaxLockLosses = 0
    MaxCrashes = 0
    MaxRetryAttempts = 1
    MaxStalledCount = 1
    MaxPriceTries = 1
    MaxActiveLimits = 1
    NoOrder = NoOrder
    NoSlot = NoSlot
SPECIFICATION Spec
PROPERTY CancelledIsNotSwapped
CHECK_DEADLOCK FALSE
