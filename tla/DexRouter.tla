------------------------------- MODULE DexRouter -------------------------------
(***************************************************************************)
(* One trade on the DEXs, as processOrder makes it: getBestQuote asks both *)
(* DEX services at once and chooses between their quotes, executeSwap      *)
(* swaps on the chosen one (services/dex).  The services are the simulated *)
(* ones of mock mode or those of real mode, which retry quotes and check   *)
(* an order before they swap it.                                           *)
(*                                                                         *)
(* Numbers.  Both quotes are for the same amount and start from the same   *)
(* base price, so amount and base price cancel out of every comparison:    *)
(* prices are in thousandths of the base price, fees in hundredths of a    *)
(* percent, slippages in percent.  The code draws prices, fees and         *)
(* slippages from intervals of floating point numbers; the model draws     *)
(* the samples that lie in the interval.                                   *)
(***************************************************************************)
EXTENDS Integers

CONSTANTS
    Pairs,              \* the pairs that validateTradingPair lets pass
    RaydiumPairs,       \* those that Raydium has a pool and a price for
    MeteoraPairs,       \* those that Meteora has a pool and a price for
    Slippages,          \* the slippages that requests ask for
    Undefined,          \* the slippage of a request that asks for none
    DefaultSlippage,    \* config.trading.defaultSlippage
    MaxRetries,         \* MAX_RETRIES of the real services
    PriceSamples,       \* bound: the prices that are looked at
    FeeSamples,         \* bound: the dynamic fees that are looked at
    DrawSamples         \* bound: the parts of a slippage share that are used

ASSUME RouterAssumption ==
    /\ RaydiumPairs \subseteq Pairs /\ MeteoraPairs \subseteq Pairs
    /\ Slippages \subseteq 0 .. 100 /\ Undefined \notin Slippages
    /\ DefaultSlippage \in 0 .. 100
    /\ MaxRetries \in Nat \ {0}
    /\ PriceSamples \subseteq Nat /\ FeeSamples \subseteq Nat /\ DrawSamples \subseteq Nat

VARIABLES
    mode,       \* MOCK_MODE, read once at start
    wallet,     \* whether SOLANA_PRIVATE_KEY holds a key
    pair, asked,    \* pair and slippage of the order request
    quote,      \* quote[d]: the call of getQuote on d
    chosen,     \* selectedDex
    pc,         \* what processOrder waits for
    executed    \* executedPrice of the swap, in 10000ths of a price

settings == <<mode, wallet, pair, asked>>
vars == <<settings, quote, chosen, pc, executed>>

Dex == {"raydium", "meteora"}
NoDex == "none"

PairsOf(d) == IF d = "raydium" THEN RaydiumPairs ELSE MeteoraPairs

\* Mutant of PriceRange: the simulated Meteora is the more expensive one, too.
PriceRangeSameSign(d) ==
    IF mode = "mock"
    THEN IF d = "raydium" THEN 1010 .. 1025 ELSE 1006 .. 1015
    ELSE IF d = "raydium" THEN 1000 .. 1030 ELSE 988 .. 1012

\* The prices a service may quote: 2% to 5% of variation, of which the simulated
\* Raydium adds a half and the simulated Meteora subtracts three tenths; up to
\* 3% above, and up to 1.25% around the base price, in real mode.
PriceRange(d) ==
    IF mode = "mock"
    THEN IF d = "raydium" THEN 1010 .. 1025 ELSE 985 .. 994
    ELSE IF d = "raydium" THEN 1000 .. 1030 ELSE 988 .. 1012

\* Fees are fixed but for the dynamic one of the real Meteora.
Fees(d) ==
    IF mode = "mock"
    THEN IF d = "raydium" THEN {30} ELSE {20}
    ELSE IF d = "raydium" THEN {25} ELSE 10 .. 73 \cap FeeSamples

\* How many tenths of the allowed slippage a swap may use.
SlippageShare(d) ==
    IF mode = "mock"
    THEN IF d = "raydium" THEN 8 ELSE 7
    ELSE IF d = "raydium" THEN 5 ELSE 4

\* createOrder: request.slippage || config.trading.defaultSlippage.
Slippage == IF asked \in {Undefined, 0} THEN DefaultSlippage ELSE asked

\* estimatedOutput: what is left of the price after the fee.
Output(q) == q.price * (10000 - q.fee)

-----------------------------------------------------------------------------

QuoteState == {"asking", "pausing", "fulfilled", "rejected"}
Attempt == 1 .. MaxRetries
Fee == 0 .. 10000
Quote == [state : QuoteState, attempt : Attempt, price : Nat, fee : Fee]

RouterPC == {"routing", "checking", "balance", "confirming", "done", "unroutable", "failed"}

TypeOK ==
    /\ mode \in {"mock", "real"} /\ wallet \in BOOLEAN
    /\ pair \in Pairs /\ asked \in Slippages \cup {Undefined}
    /\ quote \in [Dex -> Quote]
    /\ chosen \in Dex \cup {NoDex}
    /\ pc \in RouterPC
    /\ executed \in Int

Init ==
    /\ mode \in {"mock", "real"} /\ wallet \in BOOLEAN
    /\ pair \in Pairs /\ asked \in Slippages \cup {Undefined}
    /\ quote = [d \in Dex |-> [state |-> "asking", attempt |-> 1, price |-> 0, fee |-> 0]]
    /\ chosen = NoDex
    /\ pc = "routing"
    /\ executed = 0

\* getQuoteInternal, or the simulated getQuote, returns a quote.
Answer(d) ==
    /\ quote[d].state = "asking"
    /\ pair \in PairsOf(d)
    /\ \E p \in PriceRange(d) \cap PriceSamples, f \in Fees(d) :
          quote' = [quote EXCEPT ![d] =
                      [@ EXCEPT !.state = "fulfilled", !.price = p, !.fee = f]]
    /\ UNCHANGED <<settings, chosen, pc, executed>>

\* Mutant of Refuse: one attempt too many.
RefuseOffByOne(d) ==
    /\ quote[d].state = "asking"
    /\ pair \notin PairsOf(d)
    /\ quote' = [quote EXCEPT ![d].state =
                   IF mode = "real" /\ quote[d].attempt <= MaxRetries
                   THEN "pausing" ELSE "rejected"]
    /\ UNCHANGED <<settings, chosen, pc, executed>>

\* There is no pool or no price for the pair.  retryOperation takes neither for
\* a validation error and tries again; the simulated services throw at once.
Refuse(d) ==
    /\ quote[d].state = "asking"
    /\ pair \notin PairsOf(d)
    /\ quote' = [quote EXCEPT ![d].state =
                   IF mode = "real" /\ quote[d].attempt < MaxRetries
                   THEN "pausing" ELSE "rejected"]
    /\ UNCHANGED <<settings, chosen, pc, executed>>

\* Mutant of Retry: the loop does not count.
RetryUncounted(d) ==
    /\ quote[d].state = "pausing"
    /\ quote' = [quote EXCEPT ![d].state = "asking"]
    /\ UNCHANGED <<settings, chosen, pc, executed>>

\* The sleep between two attempts of retryOperation ends.
Retry(d) ==
    /\ quote[d].state = "pausing"
    /\ quote' = [quote EXCEPT ![d] =
                   [@ EXCEPT !.state = "asking", !.attempt = quote[d].attempt + 1]]
    /\ UNCHANGED <<settings, chosen, pc, executed>>

-----------------------------------------------------------------------------

Settled == \A d \in Dex : quote[d].state \in {"fulfilled", "rejected"}
Answered == {d \in Dex : quote[d].state = "fulfilled"}

\* percentageDifference < 0.1
NearlyEqual(a, b) ==
    LET low == IF a < b THEN a ELSE b
        high == IF a < b THEN b ELSE a
    IN  1000 * (high - low) < low

\* Mutant of Better: within 0.1% the higher fee wins.
BetterHigherFee(r, m) ==
    IF NearlyEqual(Output(r), Output(m))
    THEN IF r.fee > m.fee THEN "raydium" ELSE "meteora"
    ELSE IF Output(r) > Output(m) THEN "raydium" ELSE "meteora"

\* The choice between a quote r of Raydium and a quote m of Meteora.
Better(r, m) ==
    IF NearlyEqual(Output(r), Output(m))
    THEN IF r.fee < m.fee THEN "raydium" ELSE "meteora"
    ELSE IF Output(r) > Output(m) THEN "raydium" ELSE "meteora"

\* Promise.allSettled has resolved: no quote throws, one quote is taken, of two
\* quotes the better one is.
ChooseQuote ==
    /\ pc = "routing"
    /\ Settled
    /\ IF Answered = {}
       THEN /\ pc' = "unroutable"
            /\ UNCHANGED chosen
       ELSE /\ pc' = "checking"
            /\ chosen' = IF Answered = Dex THEN Better(quote["raydium"], quote["meteora"])
                         ELSE CHOOSE d \in Dex : d \in Answered
    /\ UNCHANGED <<settings, quote, executed>>

\* What executeSwapInternal demands before it looks at the balance.
Valid == Slippage <= 50 /\ pair \in PairsOf(chosen) /\ wallet

\* The simulated services check nothing.
CheckSwap ==
    /\ pc = "checking"
    /\ pc' = IF mode = "mock" THEN "confirming"
             ELSE IF Valid THEN "balance" ELSE "failed"
    /\ UNCHANGED <<settings, quote, chosen, executed>>

\* The wallet holds enough SOL or the RPC call is rejected, which is only
\* logged; or it holds too little.
CheckBalance ==
    /\ pc = "balance"
    /\ \/ pc' = "confirming"
       \/ pc' = "failed"
    /\ UNCHANGED <<settings, quote, chosen, executed>>

\* Mutant of ExpectedPrice: the price of Raydium whichever DEX was chosen.
RaydiumPrice == quote["raydium"].price

\* What processOrder passes to executeSwap: bestQuote.price.
ExpectedPrice == quote[chosen].price

\* actualSlippage in 10000ths, for a random number of draw tenths.
Impact(draw) == Slippage * SlippageShare(chosen) * draw

\* The swap is executed at the price of the chosen quote less the slippage that
\* was drawn, or it fails.
ExecuteSwap ==
    /\ pc = "confirming"
    /\ \/ \E draw \in 0 .. 10 \cap DrawSamples :
             /\ mode = "real" => Impact(draw) <= 100 * Slippage
             /\ executed' = ExpectedPrice * (10000 - Impact(draw))
             /\ pc' = "done"
       \/ /\ pc' = "failed"
          /\ UNCHANGED executed
    /\ UNCHANGED <<settings, quote, chosen>>

QuoteStep(d) == Answer(d) \/ Refuse(d) \/ Retry(d)

Next ==
    \/ \E d \in Dex : QuoteStep(d)
    \/ ChooseQuote \/ CheckSwap \/ CheckBalance \/ ExecuteSwap

Spec == Init /\ [][Next]_vars

\* Every awaited call settles and every sleep ends.
FairSpec == Spec /\ WF_vars(Next)

-----------------------------------------------------------------------------

\* An output below the best one is chosen only together with a fee that is not
\* higher, and never less by 0.1% of it or more (the second criterion of
\* getBestQuote).  README.md promises the highest net output.
SmallLossForFee ==
    \A d \in Dex :
        /\ chosen \in Dex /\ d \in Answered
        /\ Output(quote[d]) > Output(quote[chosen])
        => /\ 1000 * (Output(quote[d]) - Output(quote[chosen])) < Output(quote[chosen])
           /\ quote[chosen].fee <= quote[d].fee

\* A swap is made at no less than the price the chosen DEX quoted, less the
\* slippage stored with the order: the quote that was compared is the quote the
\* swap is held to (processOrder passes bestQuote.price on to executeSwap).
QuotedPriceKept ==
    pc = "done" => executed >= quote[chosen].price * (100 - Slippage) * 100

\* With the default price variation the simulated quotes always differ by more
\* than 0.1% and Raydium's is always higher: in mock mode neither Meteora nor the
\* fee criterion of getBestQuote is ever chosen between two quotes.
MockTakesRaydium ==
    mode = "mock" /\ chosen \in Dex /\ Answered = Dex => chosen = "raydium"

\* How far the caller sees the trade to be.
Stage == CASE pc = "routing" -> "asking"
           [] pc = "done" -> "swapped"
           [] pc \in {"unroutable", "failed"} -> pc
           [] OTHER -> "quoted"

Trade == INSTANCE DexTrade WITH trade <- Stage

\* A trade goes the way OrderWorker takes it to go, and it ends: the retry loops
\* of the two services do.
TradeSpec == Trade!Spec
=============================================================================
