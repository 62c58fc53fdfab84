CONSTANTS
    MarketOrders = {}
    LimitOrders = {l1}
    Slots = {w1}
    Rounds = {r1}
    Cancellable = {}
    MaxDbFaults = 0
    MaxRedisFaults = 0
    MaxLockLosses = 0
    MaxCrashes = 0
    MaxRetryAttempts = 1
    MaxStalledCount = 1
    MaxPriceTries = 1
    MaxActiveLimits = 1
    NoOrder = NoOrder
    NoSlot = NoSlot
SPECIFICATION FairSpec
PROPERTY TriggeredLimitIsProcessed
