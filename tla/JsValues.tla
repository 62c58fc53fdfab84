------------------------------- MODULE JsValues -------------------------------
(***************************************************************************)
(* The values a JSON body or an environment variable may hold where a      *)
(* number is expected, and JavaScript's comparisons of them: null counts   *)
(* as 0, text of a number as that number, and nothing holds of undefined,  *)
(* of NaN and of other text.                                               *)
(***************************************************************************)
EXTENDS Integers

CONSTANTS
    Absent,     \* undefined
    Null,
    Text,       \* text that is no number, or the NaN that parsing it gives
    Numerals,   \* text of numbers
    NumeralValue

ASSUME JsAssumption ==
    /\ {Absent, Null, Text} \cap Int = {}
    /\ Absent # Null /\ Null # Text /\ Text # Absent
    /\ Numerals \cap (Int \cup {Absent, Null, Text}) = {}
    /\ NumeralValue \in [Numerals -> Int]

JsValue == Int \cup Numerals \cup {Absent, Null, Text}

Numeric(v) == v \in Int \/ v \in Numerals \/ v = Null
Number(v) == CASE v = Null -> 0
               [] v \in Numerals -> NumeralValue[v]
               [] OTHER -> v

Below(v, n) == Numeric(v) /\ Number(v) < n
AtMost(v, n) == Numeric(v) /\ Number(v) <= n
Above(v, n) == Numeric(v) /\ Number(v) > n

\* The text "0" is none of these.
Falsy(v) == v \in {Absent, Null, 0}
=============================================================================
