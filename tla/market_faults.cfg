CONSTANTS
    MarketOrders = {m1}
    LimitOrders = {}
    Slots = {w1, w2}
    Rounds = {}
    Cancellable = {}
    MaxDbFaults = 2
    MaxRedisFaults = 1
    MaxLockLosses = 1
    MaxCrashes = 1
    MaxRetryAttempts = 2
    MaxStalledCount = 1
    MaxPriceTries = 1
    MaxActiveLimits = 1
    NoOrder = NoOrder
    NoSlot = NoSlot
SPECIFICATION Spec
INVARIANT TypeOK
INVARIANT ConfirmedHasTx
INVARIANT SwapsWithinAttempts
INVARIANT ExtraSwapsCostFailures
SYMMETRY Symmetry
CHECK_DEADLOCK FALSE
