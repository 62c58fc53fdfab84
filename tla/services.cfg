CONSTANTS
    Clients = {"c1", "c2"}
    HubOrders = {"o1"}
    Texts <- MCTexts
    MaxUpdates = 2
    Quota <- MCQuota
    MaxRestarts = 1

    Probes = {"p1"}
    QueueJobs = {"j1"}
    Backlogs = {4, 6}

    Requesters = {"r1", "r2", "r3"}
    Bodies <- MCBodies
    Crowd <- MCCrowd
    Cap = 1
    DefaultSlippage = 1
    Absent = Absent
    Null = Null
    Text = Text
    TextOfZero = TextOfZero
    TextOfOne = TextOfOne
    TextOfMinusOne = TextOfMinusOne
    Numerals <- MCNumerals
    NumeralValue <- MCNumeralValue

    MarketDocs = {"m1"}
    LimitDocs = {"l1"}
    Updaters = {"u1", "u2"}
    UpdateTargets = {"ROUTING", "FAILED"}
    PageSizes = {1}
    MaxTime = 2

    MaxJobs = 2

    Timeout = 2
    MaxClock = 5

    Environments <- MCEnvironments
    Balances = {0, 1, 5, 10, 100}

    Samples <- MCSamples
    ComputeUnits = 1400
    MaxAnswers = 3

SPECIFICATION Spec

INVARIANTS
    TypeOK
    OnlyWhatWasAskedFor
    ToldInOrder
    NothingMissedWhileSubscribed
    GhostsHarmTheirOrderOnly
    
    TrafficNeedsAllParts
    StoredOrdersAreSound
    CapExceededByRushOnly
    AnsweredByTheMistake
    PagingMissesTiesOnly
    ServesWithAllParts
    VerdictFitsChain
    ReadyMeansSwapsPay
    FeesAreOrdered

PROPERTIES
    ClosedClientsLeave
    ProbesAreAnswered
    RecordedIsHistory
    SignalEndsTheProcess

CHECK_DEADLOCK FALSE
