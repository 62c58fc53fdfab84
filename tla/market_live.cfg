CONSTANTS
    MarketOrders = {m1}
    LimitOrders = {}
    Slots = {w1, w2}
    Rounds = {r1}
    Cancellable = {m1}
    MaxDbFaults = 0
    MaxRedisFaults = 1
    MaxLockLosses = 0
    MaxCrashes = 1
    MaxRetryAttempts = 2
    MaxStalledCount = 1
    MaxPriceTries = 1
    MaxActiveLimits = 1
    NoOrder = NoOrder
    NoSlot = NoSlot
SPECIFICATION FairSpec
INVARIANT CompletedJobIsFinal
INVARIANT AcceptedNotForgotten
PROPERTY JobsSettle
PROPERTY QueuedMarketEnds
