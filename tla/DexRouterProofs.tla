---------------------------- MODULE DexRouterProofs ----------------------------
(***************************************************************************)
(* What holds of a trade whatever pairs the two services know, separately, *)
(* and whatever prices, fees, slippages and retry limits there are.        *)
(***************************************************************************)
EXTENDS DexRouter, TLAPS

\* A pausing call has an attempt left; a quote lies in the ranges of its service.
QuotesInv ==
    \A d \in Dex :
        /\ quote[d].state = "pausing" => quote[d].attempt < MaxRetries
        /\ quote[d].state = "fulfilled" =>
              quote[d].price \in PriceRange(d) /\ quote[d].fee \in Fees(d)

\* The choice has been made from settled quotes, by Better if there are two.
ChoiceInv ==
    /\ chosen = NoDex <=> pc \in {"routing", "unroutable"}
    /\ pc # "routing" => Settled
    /\ chosen \in Dex =>
          /\ chosen \in Answered
          /\ Answered = Dex => chosen = Better(quote["raydium"], quote["meteora"])

IInv == TypeOK /\ QuotesInv /\ ChoiceInv /\ QuotedPriceKept
-----------------------------------------------------------------------------

LEMMA Ranges ==
    ASSUME NEW d \in Dex
    PROVE  PriceRange(d) \subseteq 985 .. 1030 /\ Fees(d) \subseteq 10 .. 73
BY DEF Dex, PriceRange, Fees

\* What the settings of a trade say of its slippage.
LEMMA SlippageRange ==
    ASSUME TypeOK
    PROVE  Slippage \in 0 .. 100
BY RouterAssumption DEF TypeOK, Slippage

LEMMA ShareRange ==
    ASSUME NEW d \in Dex
    PROVE  SlippageShare(d) \in {4, 5, 7, 8}
BY DEF Dex, SlippageShare

\* No draw uses more than the slippage that is allowed.
LEMMA ImpactWithinSlippage ==
    ASSUME TypeOK, chosen \in Dex, NEW draw \in 0 .. 10
    PROVE  Impact(draw) \in 0 .. 100 * Slippage
<1> DEFINE used == SlippageShare(chosen) * draw
<1>1. used \in 0 .. 100
  BY ShareRange
<1>2. Slippage \in Nat
  BY SlippageRange
<1>3. Impact(draw) = Slippage * used
  <2>1. SlippageShare(chosen) \in Nat
    BY ShareRange
  <2> QED BY <1>2, <2>1 DEF Impact
<1> HIDE DEF used
<1>4. \A s \in Nat, u \in 0 .. 100 : s * u \in 0 .. 100 * s
  OBVIOUS
<1> QED BY <1>1, <1>2, <1>3, <1>4

-----------------------------------------------------------------------------

LEMMA InitIInv == Init => IInv
<1> SUFFICES ASSUME Init PROVE IInv
  OBVIOUS
<1>1. TypeOK
  BY RouterAssumption DEF Init, TypeOK, Quote, QuoteState, Attempt, Fee, RouterPC
<1>2. QuotesInv /\ ChoiceInv /\ QuotedPriceKept
  BY DEF Init, QuotesInv, ChoiceInv, QuotedPriceKept, Dex, NoDex
<1> QED BY <1>1, <1>2 DEF IInv

\* The steps of the two calls of getQuote only touch unsettled quotes.
LEMMA QuoteStepIInv ==
    ASSUME IInv, NEW d \in Dex, QuoteStep(d)
    PROVE  IInv'
<1> USE DEF IInv
<1>1. UNCHANGED <<settings, chosen, pc, executed>>
  BY DEF QuoteStep, Answer, Refuse, Retry
<1>2. PICK q \in Quote :
         /\ quote' = [quote EXCEPT ![d] = q]
         /\ q.state = "pausing" => q.attempt < MaxRetries
         /\ q.state = "fulfilled" => q.price \in PriceRange(d) /\ q.fee \in Fees(d)
  <2>1. quote[d] \in Quote
    BY DEF TypeOK
  <2>2. CASE Answer(d)
    <3>1. PICK p \in PriceRange(d), f \in Fees(d) :
             quote' = [quote EXCEPT ![d] =
                         [@ EXCEPT !.state = "fulfilled", !.price = p, !.fee = f]]
      BY <2>2 DEF Answer
    <3> DEFINE q == [quote[d] EXCEPT !.state = "fulfilled", !.price = p, !.fee = f]
    <3>2. p \in Nat /\ f \in Fee
      BY Ranges DEF Fee
    <3>3. q \in Quote /\ q.state = "fulfilled" /\ q.price = p /\ q.fee = f
      <4>1. "fulfilled" \in QuoteState
        BY DEF QuoteState
      <4> QED BY <2>1, <3>2, <4>1 DEF Quote
    <3>4. quote' = [quote EXCEPT ![d] = q]
      BY <3>1 DEF TypeOK
    <3> HIDE DEF q
    <3> QED BY <3>3, <3>4
  <2>3. CASE Refuse(d)
    <3> DEFINE state == IF mode = "real" /\ quote[d].attempt < MaxRetries
                        THEN "pausing" ELSE "rejected"
               q == [quote[d] EXCEPT !.state = state]
    <3>1. q \in Quote /\ q.state = state /\ q.attempt = quote[d].attempt
      <4>1. state \in QuoteState
        BY DEF QuoteState
      <4> HIDE DEF state
      <4> QED BY <2>1, <4>1 DEF Quote
    <3>2. quote' = [quote EXCEPT ![d] = q]
      BY <2>3 DEF TypeOK, Refuse
    <3>3. /\ state \in {"pausing", "rejected"}
          /\ state = "pausing" => quote[d].attempt < MaxRetries
      OBVIOUS
    <3> HIDE DEF q, state
    <3> QED BY <3>1, <3>2, <3>3
  <2>4. CASE Retry(d)
    <3> DEFINE q == [quote[d] EXCEPT !.state = "asking", !.attempt = quote[d].attempt + 1]
    <3>1. quote[d].attempt + 1 \in Attempt
      <4>1. quote[d].attempt \in Attempt
        BY <2>1 DEF Quote
      <4>2. quote[d].attempt < MaxRetries
        BY <2>4 DEF Retry, QuotesInv
      <4> QED BY <4>1, <4>2, RouterAssumption DEF Attempt
    <3>2. q \in Quote /\ q.state = "asking"
      <4>1. "asking" \in QuoteState
        BY DEF QuoteState
      <4> QED BY <2>1, <3>1, <4>1 DEF Quote
    <3>3. quote' = [quote EXCEPT ![d] = q]
      BY <2>4 DEF TypeOK, Retry
    <3> HIDE DEF q
    <3> QED BY <3>2, <3>3
  <2> QED BY <2>2, <2>3, <2>4 DEF QuoteStep
<1>3. /\ quote'[d] = q
      /\ \A e \in Dex \ {d} : quote'[e] = quote[e]
  BY <1>2 DEF TypeOK
<1>4. pc = "routing" /\ chosen = NoDex
  <2>1. ~Settled
    BY DEF QuoteStep, Answer, Refuse, Retry, Settled
  <2> QED BY <2>1 DEF ChoiceInv
<1>5. TypeOK'
  BY <1>1, <1>2 DEF TypeOK, settings
<1>6. QuotesInv'
  BY <1>1, <1>2, <1>3 DEF QuotesInv, PriceRange, Fees, settings
<1>7. ChoiceInv' /\ QuotedPriceKept'
  BY <1>1, <1>4 DEF ChoiceInv, QuotedPriceKept, Dex, NoDex
<1> QED BY <1>5, <1>6, <1>7

LEMMA ChooseQuoteIInv ==
    ASSUME IInv, ChooseQuote
    PROVE  IInv'
<1> USE DEF IInv
<1>1. UNCHANGED <<settings, quote, executed>> /\ pc = "routing" /\ Settled
  BY DEF ChooseQuote
<1>2. Settled' /\ Answered' = Answered
  BY <1>1 DEF Settled, Answered
<1>3. QuotesInv'
  BY <1>1 DEF QuotesInv, PriceRange, Fees, settings
<1>4. CASE Answered = {}
  <2>1. pc' = "unroutable" /\ chosen' = chosen /\ chosen = NoDex
    BY <1>1, <1>4 DEF ChooseQuote, ChoiceInv
  <2>2. TypeOK'
    BY <1>1, <2>1 DEF TypeOK, settings, RouterPC
  <2>3. ChoiceInv' /\ QuotedPriceKept'
    BY <1>2, <2>1 DEF ChoiceInv, QuotedPriceKept, Dex, NoDex
  <2> QED BY <1>3, <2>2, <2>3
<1>5. CASE Answered # {}
  <2>1. /\ pc' = "checking"
        /\ chosen' = IF Answered = Dex THEN Better(quote["raydium"], quote["meteora"])
                     ELSE CHOOSE d \in Dex : d \in Answered
    BY <1>5 DEF ChooseQuote
  <2>2. chosen' \in Answered /\ Answered \subseteq Dex
    <3>1. CASE Answered = Dex
      BY <2>1, <3>1 DEF Better, Dex
    <3>2. CASE Answered # Dex
      BY <1>5, <2>1, <3>2 DEF Answered
    <3> QED BY <3>1, <3>2 DEF Answered
  <2>3. TypeOK'
    BY <1>1, <2>1, <2>2 DEF TypeOK, settings, RouterPC
  <2>4. Answered = Dex => chosen' = Better(quote["raydium"], quote["meteora"])'
    BY <1>1, <2>1 DEF Better, Output, NearlyEqual
  <2>5. ChoiceInv' /\ QuotedPriceKept'
    BY <1>2, <2>1, <2>2, <2>4 DEF ChoiceInv, QuotedPriceKept, Dex, NoDex
  <2> QED BY <1>3, <2>3, <2>5
<1> QED BY <1>4, <1>5

\* The two steps that lead up to a swap move nothing but pc.
LEMMA CheckIInv ==
    ASSUME IInv, CheckSwap \/ CheckBalance
    PROVE  IInv'
<1> USE DEF IInv
<1>1. /\ UNCHANGED <<settings, quote, chosen, executed>>
      /\ pc \in {"checking", "balance"}
      /\ pc' \in {"confirming", "balance", "failed"}
  BY DEF CheckSwap, CheckBalance
<1>2. TypeOK' /\ QuotesInv'
  BY <1>1 DEF TypeOK, QuotesInv, PriceRange, Fees, settings, RouterPC
<1>3. ChoiceInv'
  BY <1>1 DEF ChoiceInv, Settled, Answered, Better, NearlyEqual, Output
<1>4. QuotedPriceKept'
  BY <1>1 DEF QuotedPriceKept
<1> QED BY <1>2, <1>3, <1>4

LEMMA ExecuteSwapIInv ==
    ASSUME IInv, ExecuteSwap
    PROVE  IInv'
<1> USE DEF IInv
<1>1. /\ UNCHANGED <<settings, quote, chosen>>
      /\ pc = "confirming" /\ pc' \in {"done", "failed"}
  BY DEF ExecuteSwap
<1>2. chosen \in Dex
  BY <1>1 DEF TypeOK, ChoiceInv
<1>3. QuotesInv' /\ ChoiceInv'
  <2>1. QuotesInv'
    BY <1>1 DEF QuotesInv, PriceRange, Fees, settings
  <2>2. ChoiceInv'
    BY <1>1 DEF ChoiceInv, Settled, Answered, Better, NearlyEqual, Output
  <2> QED BY <2>1, <2>2
<1> DEFINE P == quote[chosen].price
<1>4. P \in Nat
  BY <1>2 DEF TypeOK, Quote
<1>5. Slippage' = Slippage /\ Slippage \in 0 .. 100
  BY <1>1, SlippageRange DEF Slippage, settings
<1>6. CASE pc' = "failed" /\ executed' = executed
  BY <1>1, <1>3, <1>6 DEF TypeOK, QuotedPriceKept, settings, RouterPC
<1>7. CASE \E draw \in 0 .. 10 : pc' = "done" /\ executed' = P * (10000 - Impact(draw))
  <2>1. PICK draw \in 0 .. 10 : executed' = P * (10000 - Impact(draw))
    BY <1>7
  <2>2. Impact(draw) \in 0 .. 100 * Slippage
    BY <1>2, ImpactWithinSlippage
  <2> DEFINE left == 10000 - Impact(draw)
             floor == (100 - Slippage) * 100
  <2>3. left \in Int /\ floor \in Int /\ left >= floor
    BY <1>5, <2>2
  <2>4. executed' = P * left
    BY <2>1
  <2>5. quote'[chosen'].price * (100 - Slippage') * 100 = P * floor
    BY <1>1, <1>4, <1>5
  <2> HIDE DEF P, left, floor
  <2>6. \A a \in Nat, b, c \in Int : b >= c => a * b \in Int /\ a * b >= a * c
    OBVIOUS
  <2>7. executed' \in Int /\ executed' >= P * floor
    BY <1>4, <2>3, <2>4, <2>6
  <2>8. TypeOK'
    BY <1>1, <1>7, <2>7 DEF TypeOK, settings, RouterPC
  <2>9. QuotedPriceKept'
    BY <2>5, <2>7 DEF QuotedPriceKept
  <2> QED BY <1>3, <2>8, <2>9
<1> QED BY <1>6, <1>7 DEF ExecuteSwap, ExpectedPrice

LEMMA StutterIInv == IInv /\ UNCHANGED vars => IInv'
BY DEF IInv, vars, settings, TypeOK, QuotesInv, ChoiceInv, QuotedPriceKept, PriceRange, Fees,
       Settled, Answered, Better, NearlyEqual, Output, Slippage

\* IInv holds in every state of a trade.
THEOREM Inductive == Spec => []IInv
<1>1. Init => IInv
  BY InitIInv
<1>2. IInv /\ [Next]_vars => IInv'
  BY QuoteStepIInv, ChooseQuoteIInv, CheckIInv, ExecuteSwapIInv, StutterIInv DEF Next
<1> QED BY <1>1, <1>2, PTL DEF Spec
\* A trade has the types it should have: no retry loop runs over its limit.
THEOREM TypeCorrect == Spec => []TypeOK
<1>1. IInv => TypeOK
  BY DEF IInv
<1> QED BY <1>1, Inductive, PTL

\* The price of the chosen quote is kept, within the slippage of the order,
\* whatever shares of it the services use.
THEOREM QuotedPriceIsKept == Spec => []QuotedPriceKept
<1>1. IInv => QuotedPriceKept
  BY DEF IInv
<1> QED BY <1>1, Inductive, PTL

-----------------------------------------------------------------------------

LEMMA FeeRange == \A f \in Fee : f \in Int /\ 10000 - f \in Nat
BY DEF Fee

\* What the fee rule of getBestQuote can cost, for any two quotes.
LEMMA BetterLoses ==
    ASSUME NEW r \in Quote, NEW m \in Quote, Output(r) \in Nat, Output(m) \in Nat
    PROVE  /\ Better(r, m) = "raydium" /\ Output(m) > Output(r) =>
                 1000 * (Output(m) - Output(r)) < Output(r) /\ r.fee <= m.fee
           /\ Better(r, m) = "meteora" /\ Output(r) > Output(m) =>
                 1000 * (Output(r) - Output(m)) < Output(m) /\ m.fee <= r.fee
<1>1. r.fee \in Int /\ m.fee \in Int
  <2>1. r.fee \in Fee /\ m.fee \in Fee
    BY DEF Quote
  <2> QED BY <2>1, FeeRange
<1> DEFINE a == Output(r)
           b == Output(m)
<1>2. /\ Better(r, m) = "raydium" <=>
            IF NearlyEqual(a, b) THEN r.fee < m.fee ELSE a > b
      /\ Better(r, m) = "meteora" <=>
            ~ (IF NearlyEqual(a, b) THEN r.fee < m.fee ELSE a > b)
  BY DEF Better
<1>3. NearlyEqual(a, b) <=> IF a < b THEN 1000 * (b - a) < a ELSE 1000 * (a - b) < b
  BY DEF NearlyEqual
<1> HIDE DEF a, b
<1>4. a \in Nat /\ b \in Nat
  BY DEF a, b
<1>5. /\ Better(r, m) = "raydium" /\ b > a => 1000 * (b - a) < a /\ r.fee <= m.fee
      /\ Better(r, m) = "meteora" /\ a > b => 1000 * (a - b) < b /\ m.fee <= r.fee
  BY <1>1, <1>2, <1>3, <1>4
<1> QED BY <1>5 DEF a, b

\* No fee takes more than the whole output.
LEMMA OutputIsNat ==
    ASSUME IInv, NEW d \in Answered
    PROVE  Output(quote[d]) \in Nat
<1>1. quote[d].price \in Nat /\ 10000 - quote[d].fee \in Nat
  <2>1. quote[d] \in Quote
    BY DEF IInv, TypeOK, Answered
  <2>2. quote[d].price \in Nat /\ quote[d].fee \in Fee
    BY <2>1 DEF Quote
  <2> QED BY <2>2, FeeRange
<1>2. \A a, b \in Nat : a * b \in Nat
  OBVIOUS
<1> QED BY <1>1, <1>2 DEF Output

\* The router gives up output for a lower fee only, and less than 0.1%.
THEOREM LossIsSmall == Spec => []SmallLossForFee
<1>1. IInv => SmallLossForFee
  <2> SUFFICES ASSUME IInv, chosen \in Dex,
                      NEW d \in Answered, Output(quote[d]) > Output(quote[chosen])
               PROVE  /\ 1000 * (Output(quote[d]) - Output(quote[chosen]))
                            < Output(quote[chosen])
                      /\ quote[chosen].fee <= quote[d].fee
    BY DEF SmallLossForFee
  <2>1. chosen \in Answered /\ d \in Dex /\ Answered \subseteq Dex
    BY DEF IInv, ChoiceInv, Answered
  <2>2. d # chosen
    <3>1. Output(quote[chosen]) \in Nat
      BY <2>1, OutputIsNat
    <3> QED BY <3>1
  <2>3. Answered = Dex
    <3>1. \A e \in Dex : e = d \/ e = chosen
      BY <2>1, <2>2 DEF Dex
    <3> QED BY <2>1, <3>1
  <2>4. chosen = Better(quote["raydium"], quote["meteora"])
    BY <2>3 DEF IInv, ChoiceInv
  <2>5. /\ quote["raydium"] \in Quote /\ quote["meteora"] \in Quote
        /\ Output(quote["raydium"]) \in Nat /\ Output(quote["meteora"]) \in Nat
    BY <2>3, OutputIsNat DEF IInv, TypeOK, Dex
  <2>6. CASE chosen = "raydium" /\ d = "meteora"
    <3>1. Better(quote["raydium"], quote["meteora"]) = "raydium"
      BY <2>4, <2>6
    <3>2. Output(quote["meteora"]) > Output(quote["raydium"])
      BY <2>6
    <3>3. /\ 1000 * (Output(quote["meteora"]) - Output(quote["raydium"]))
                < Output(quote["raydium"])
          /\ quote["raydium"].fee <= quote["meteora"].fee
      BY <2>5, <3>1, <3>2, BetterLoses
    <3> QED BY <2>6, <3>3
  <2>7. CASE chosen = "meteora" /\ d = "raydium"
    <3>1. Better(quote["raydium"], quote["meteora"]) = "meteora"
      BY <2>4, <2>7
    <3>2. Output(quote["raydium"]) > Output(quote["meteora"])
      BY <2>7
    <3>3. /\ 1000 * (Output(quote["raydium"]) - Output(quote["meteora"]))
                < Output(quote["meteora"])
          /\ quote["meteora"].fee <= quote["raydium"].fee
      BY <2>5, <3>1, <3>2, BetterLoses
    <3> QED BY <2>7, <3>3
  <2> QED BY <2>1, <2>2, <2>6, <2>7 DEF Dex
<1> QED BY <1>1, Inductive, PTL

\* The simulated Raydium always has the higher output, by more than 0.1%.
THEOREM MockAlwaysTakesRaydium == Spec => []MockTakesRaydium
<1>1. IInv => MockTakesRaydium
  <2> SUFFICES ASSUME IInv, mode = "mock", chosen \in Dex, Answered = Dex
               PROVE  chosen = "raydium"
    BY DEF MockTakesRaydium
  <2> DEFINE r == quote["raydium"]
             m == quote["meteora"]
  <2>1. r.price \in 1010 .. 1025 /\ r.fee = 30 /\ m.price \in 985 .. 994 /\ m.fee = 20
    BY DEF IInv, QuotesInv, Answered, Dex, PriceRange, Fees
  <2>2. Output(r) = 9970 * r.price /\ Output(m) = 9980 * m.price
    BY <2>1 DEF Output
  <2>3. Output(r) > Output(m) /\ ~NearlyEqual(Output(r), Output(m))
    BY <2>1, <2>2 DEF NearlyEqual
  <2>4. chosen = Better(r, m)
    BY DEF IInv, ChoiceInv
  <2> QED BY <2>3, <2>4 DEF Better
<1> QED BY <1>1, Inductive, PTL

-----------------------------------------------------------------------------

\* A chosen DEX has answered: also if one of the services knows no price for the
\* pair, and whatever the two know, no swap goes to a DEX without a quote.
ChosenAnswered == chosen \in Dex => quote[chosen].state = "fulfilled"

THEOREM FallbackIsSound == Spec => []ChosenAnswered
<1>1. IInv => ChosenAnswered
  BY DEF IInv, ChoiceInv, Answered, ChosenAnswered
<1> QED BY <1>1, Inductive, PTL

\* Every step of a trade is a step of DexTrade or none: what OrderWorker assumes
\* of getBestQuote and executeSwap is what the router does.
THEOREM TradeImplementsDexTrade == Spec => Trade!SafeSpec
<1>1. Init => Trade!Init
  BY DEF Init, Trade!Init, Stage
<1>2. [Next]_vars => [Trade!Next]_Stage
  <2>1. UNCHANGED pc => UNCHANGED Stage
    BY DEF Stage
  <2>2. ASSUME NEW d \in Dex, QuoteStep(d) PROVE UNCHANGED pc
    BY <2>2 DEF QuoteStep, Answer, Refuse, Retry
  <2>3. ChooseQuote => Trade!Quoted \/ Trade!Unroutable
    BY DEF ChooseQuote, Trade!Quoted, Trade!Unroutable, Stage
  <2>4. CheckSwap \/ CheckBalance => UNCHANGED Stage \/ Trade!Failed
    BY DEF CheckSwap, CheckBalance, Trade!Failed, Stage
  <2>5. ExecuteSwap => Trade!Swapped \/ Trade!Failed
    BY DEF ExecuteSwap, Trade!Swapped, Trade!Failed, Stage
  <2>6. UNCHANGED vars => UNCHANGED pc
    BY DEF vars
  <2> QED BY <2>1, <2>2, <2>3, <2>4, <2>5, <2>6 DEF Next, Trade!Next
<1> QED BY <1>1, <1>2, PTL DEF Spec, Trade!SafeSpec
=============================================================================
