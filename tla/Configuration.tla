----------------------------- MODULE Configuration -----------------------------
(***************************************************************************)
(* config/index.ts reads the environment once, with defaults, and parses   *)
(* numbers without looking at the result: what cannot be parsed is NaN.    *)
(* utils/configValidator.ts judges the outcome, as a set of errors and a   *)
(* set of warnings; it is called by scripts, never by server.ts.           *)
(*                                                                         *)
(* Shares are in thousandths, SOL in thousandths, times in milliseconds.   *)
(***************************************************************************)
EXTENDS JsValues

\* process.env.X || default, and parseInt or parseFloat of it.
OrDefault(v, default) == IF v = Absent THEN default ELSE v

\* The keys by their length; validateSolanaConfig looks at nothing else, so that enough
\* spaces will do for it.
KeyLength == [absent |-> 0, blank |-> 3, spaces |-> 88, short |-> 31, placeholder |-> 40, middling |-> 49,
              base64 |-> 88, bs58 |-> 88, spaced |-> 89, garbage |-> 88, long |-> 201]

\* What the environment may hold, as far as the code tells it apart.
Setting == Int \cup {Absent, Text}
Url == {"own", "malformed", Absent}

ProcessEnv == [mockMode : BOOLEAN, key : DOMAIN KeyLength, rpcUrl : Url, backup : Url,
    commitment : {"confirmed", "unknown", Absent}, confirmTimeout : Setting, maxRetries : Setting,
    defaultSlippage : Setting, variationMin : Setting, variationMax : Setting, minSol : Setting,
    computeUnitPrice : Setting, computeUnitLimit : Setting, maxConcurrent : Setting,
    ordersPerMinute : Setting, maxRetryAttempts : Setting, mongoUri : {"mongodb", "other", Absent},
    redisPort : Setting]

Defaults == [rpcUrl |-> "public", commitment |-> "confirmed", confirmTimeout |-> 30000,
    maxRetries |-> 3, defaultSlippage |-> 10, variationMin |-> 20, variationMax |-> 50,
    minSol |-> 100, computeUnitPrice |-> 1, computeUnitLimit |-> 200000, maxConcurrent |-> 10,
    ordersPerMinute |-> 100, maxRetryAttempts |-> 3, mongoUri |-> "mongodb", redisPort |-> 6379]

\* The settings after parsing; solana is read in real mode only.
Parsed(env) ==
    [f \in DOMAIN env |-> IF f \in DOMAIN Defaults THEN OrDefault(env[f], Defaults[f]) ELSE env[f]]

Environment == [mockMode |-> FALSE, key |-> "base64", rpcUrl |-> Absent, backup |-> Absent,
    commitment |-> Absent, confirmTimeout |-> Absent, maxRetries |-> Absent,
    defaultSlippage |-> Absent, variationMin |-> Absent, variationMax |-> Absent,
    minSol |-> Absent, computeUnitPrice |-> Absent, computeUnitLimit |-> Absent,
    maxConcurrent |-> Absent, ordersPerMinute |-> Absent, maxRetryAttempts |-> Absent,
    mongoUri |-> Absent, redisPort |-> Absent]

-----------------------------------------------------------------------------

\* The names of the tests that hold.
Failing(tests) == {t \in DOMAIN tests : tests[t]}

SolanaErrors(c) ==
    IF c.mockMode THEN {} ELSE Failing([
        SOLANA_RPC_URL |-> c.rpcUrl = "malformed",
        SOLANA_PRIVATE_KEY |-> KeyLength[c.key] < 32,
        SOLANA_MAX_RETRIES |-> Below(c.maxRetries, 1)])

SolanaWarnings(c) ==
    IF c.mockMode THEN {} ELSE Failing([
        SOLANA_COMMITMENT |-> c.commitment = "unknown",
        SOLANA_CONFIRM_TIMEOUT |-> Below(c.confirmTimeout, 1000) \/ Above(c.confirmTimeout, 60000),
        SOLANA_MAX_RETRIES |-> Above(c.maxRetries, 10),
        SOLANA_RPC_BACKUP |-> c.backup = "malformed"])

\* Text is smaller and larger than nothing: a >= between settings needs two numbers.
AtLeast(v, w) == Numeric(v) /\ Numeric(w) /\ Number(v) >= Number(w)

TradingErrors(c) == Failing([
    DEFAULT_SLIPPAGE |-> AtMost(c.defaultSlippage, 0) \/ Above(c.defaultSlippage, 500),
    PRICE_VARIATION |-> AtLeast(c.variationMin, c.variationMax),
    COMPUTE_UNIT_PRICE |-> Below(c.computeUnitPrice, 0),
    COMPUTE_UNIT_LIMIT |-> Above(c.computeUnitLimit, 1400000)])

TradingWarnings(c) == Failing([
    DEFAULT_SLIPPAGE |-> Above(c.defaultSlippage, 50),
    PRICE_VARIATION |-> Above(c.variationMax, 200),
    MIN_SOL_BALANCE |-> ~c.mockMode /\ Below(c.minSol, 10),
    COMPUTE_UNIT_LIMIT |-> Below(c.computeUnitLimit, 1000)])

ProcessingErrors(c) == Failing([
    MAX_CONCURRENT_ORDERS |-> Below(c.maxConcurrent, 1),
    ORDERS_PER_MINUTE |-> Below(c.ordersPerMinute, 1),
    MAX_RETRY_ATTEMPTS |-> Below(c.maxRetryAttempts, 0)])

ProcessingWarnings(c) == Failing([
    MAX_CONCURRENT_ORDERS |-> Above(c.maxConcurrent, 100),
    ORDERS_PER_MINUTE |-> Above(c.ordersPerMinute, 1000),
    MAX_RETRY_ATTEMPTS |-> Above(c.maxRetryAttempts, 10)])

DatabaseErrors(c) == Failing([MONGODB_URI |-> c.mongoUri = "other"])

RedisErrors(c) == Failing([REDIS_PORT |-> Below(c.redisPort, 1) \/ Above(c.redisPort, 65535)])

RedisWarnings(c) == Failing([REDIS_PORT |-> c.redisPort # 6379])

\* validateAllConfig; validateConfigOrThrow throws a ConfigurationError unless Valid.
AllErrors(c) ==
    SolanaErrors(c) \cup TradingErrors(c) \cup ProcessingErrors(c) \cup DatabaseErrors(c)
        \cup RedisErrors(c)

AllWarnings(c) ==
    SolanaWarnings(c) \cup TradingWarnings(c) \cup ProcessingWarnings(c) \cup RedisWarnings(c)

Valid(c) == AllErrors(c) = {}
=============================================================================
