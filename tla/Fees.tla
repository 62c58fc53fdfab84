--------------------------------- MODULE Fees ---------------------------------
(***************************************************************************)
(* utils/feeEstimation.ts: priority fees from the fees that recent blocks  *)
(* paid.  Every function asks the network for them again, so two answers   *)
(* can be compared only if the network said the same to both.              *)
(*                                                                         *)
(* Fees are micro-lamports for one compute unit, results lamports, and     *)
(* compute units thousands.  The average is kept as a sum and a count; the *)
(* code rounds it to a double first, which keeps the order.                *)
(***************************************************************************)
EXTENDS Integers, Sequences, SequencesExt

CONSTANTS
    Samples,        \* what the network may answer: sequences of fees, <<>> if it fails
    ComputeUnits,   \* thousands of compute units a transaction uses
    MaxAnswers      \* bound: questions asked

ASSUME FeesAssumption ==
    /\ Samples \subseteq Seq(Nat)
    /\ {ComputeUnits, MaxAnswers} \subseteq Nat

VARIABLES
    network,    \* the fees of recent blocks
    quotes      \* the answers so far, each with its question and its sample

feesVars == <<network, quotes>>

Least(s) == CHOOSE x \in ToSet(s) : \A y \in ToSet(s) : x <= y
Greatest(s) == CHOOSE x \in ToSet(s) : \A y \in ToSet(s) : x >= y

\* The sums that reduce goes through.
Sums(s) ==
    LET sum[n \in 0 .. Len(s)] == IF n = 0 THEN 0 ELSE sum[n - 1] + s[n]
    IN  sum
Total(s) == Sums(s)[Len(s)]

\* Mutant of NetworkFees: the average counts one answer more than there is.
NetworkFeesOffByOne(s) ==
    IF s = <<>> THEN [min |-> <<5000, 1>>, avg |-> <<5000, 1>>, max |-> <<5000, 1>>]
    ELSE [min |-> <<Least(s), 1>>, avg |-> <<Total(s), Len(s) + 1>>, max |-> <<Greatest(s), 1>>]

\* getNetworkFees, as fractions; an error and an empty answer give the default.
NetworkFees(s) ==
    IF s = <<>> THEN [min |-> <<5000, 1>>, avg |-> <<5000, 1>>, max |-> <<5000, 1>>]
    ELSE [min |-> <<Least(s), 1>>, avg |-> <<Total(s), Len(s)>>, max |-> <<Greatest(s), 1>>]

\* Math.floor(units * (fee / 1_000_000)), of a fraction of a fee.
Lamports(units, fee) == (units * fee[1]) \div (fee[2] * 1000)

Times(fee, n, d) == <<fee[1] * n, fee[2] * d>>

\* calculateOptimalPriorityFee: 20% on top for high urgency, rounded down.
Priority(s, urgency) ==
    LET fees == NetworkFees(s)
    IN  CASE urgency = "low" -> Lamports(ComputeUnits, fees.min)
          [] urgency = "medium" -> Lamports(ComputeUnits, fees.avg)
          [] urgency = "high" ->
                Lamports(ComputeUnits, <<(fees.max[1] * 12) \div 10, 1>>)

\* estimateFee, of a transaction with one instruction for each 10000 units.
Estimate(s) == 5000 + Lamports(ComputeUnits, NetworkFees(s).avg)

\* getFeeRecommendations: 200000 units at half, once and one and a half times the average.
Recommended(s, n, d) == 5000 + Lamports(200, Times(NetworkFees(s).avg, n, d))

Answer(k, s) ==
    CASE k \in {"low", "medium", "high"} -> Priority(s, k)
      [] k = "estimate" -> Estimate(s)
      [] k = "economy" -> Recommended(s, 1, 2)
      [] k = "standard" -> Recommended(s, 1, 1)
      [] k = "fast" -> Recommended(s, 3, 2)

Question == {"low", "medium", "high", "estimate", "economy", "standard", "fast"}

-----------------------------------------------------------------------------

FeesTypeOK ==
    /\ network \in Samples
    /\ \A q \in quotes : q.of \in Question /\ q.fee \in Nat /\ q.sample \in Samples

FeesInit ==
    /\ network \in Samples
    /\ quotes = {}

AskFee(k) ==
    /\ Cardinality(quotes) < MaxAnswers
    /\ quotes' = quotes \cup {[of |-> k, sample |-> network, fee |-> Answer(k, network)]}
    /\ UNCHANGED network

NetworkChanges ==
    /\ network' \in Samples \ {network}
    /\ UNCHANGED quotes

FeesNext == NetworkChanges \/ \E k \in Question : AskFee(k)

FeesSpec == FeesInit /\ [][FeesNext]_feesVars
-----------------------------------------------------------------------------

\* More urgency never costs less, and the estimate is the fee of medium urgency plus the
\* base fee, as long as the network says the same to both questions.
FeesAreOrdered ==
    \A q, r \in quotes : q.sample = r.sample =>
        /\ <<q.of, r.of>> \in {<<"low", "medium">>, <<"medium", "high">>,
                             <<"economy", "standard">>, <<"standard", "fast">>}
              => q.fee <= r.fee
        /\ <<q.of, r.of>> = <<"medium", "estimate">> => r.fee = q.fee + 5000
=============================================================================
