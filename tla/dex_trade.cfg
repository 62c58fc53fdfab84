CONSTANTS
    Pairs = {"BTC/USDT", "SOL/USDT"}
    RaydiumPairs = {"BTC/USDT"}
    MeteoraPairs = {"BTC/USDT"}
    Slippages = {0, 2, 50, 51, 100}
    Undefined = Undefined
    DefaultSlippage = 1
    MaxRetries = 3
    PriceSamples <- MCPrices
    FeeSamples = {10, 25, 40, 73}
    DrawSamples = {0, 5, 10}
SPECIFICATION FairSpec
INVARIANT TypeOK
INVARIANT SmallLossForFee
INVARIANT QuotedPriceKept
INVARIANT MockTakesRaydium
PROPERTY TradeSpec
CHECK_DEADLOCK FALSE
