CONSTANTS
    MarketOrders = {m1}
    LimitOrders = {}
    Slots = {w1}
    Rounds = {}
    Cancellable = {}
    MaxDbFaults = 1
    MaxRedisFaults = 0
    MaxLockLosses = 0
    MaxCrashes = 0
    MaxRetryAttempts = 2
    MaxStalledCount = 1
    MaxPriceTries = 1
    MaxActiveLimits = 1
    NoOrder = NoOrder
    NoSlot = NoSlot
SPECIFICATION Spec
PROPERTY FinalMeansFinal
CHECK_DEADLOCK FALSE
