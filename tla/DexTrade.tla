------------------------------- MODULE DexTrade -------------------------------
(***************************************************************************)
(* What processOrder takes the DEX router to be, and what OrderWorker      *)
(* builds in as GetQuote and ExecuteSwap: one call for a quote, which      *)
(* throws or leads to one call for a swap, which succeeds or reports a     *)
(* failure.  Both calls end.                                               *)
(***************************************************************************)
VARIABLE trade

Init == trade = "asking"

Quoted == trade = "asking" /\ trade' = "quoted"

Unroutable == trade = "asking" /\ trade' = "unroutable"

Swapped == trade = "quoted" /\ trade' = "swapped"

Failed == trade = "quoted" /\ trade' = "failed"

Next == Quoted \/ Unroutable \/ Swapped \/ Failed

SafeSpec == Init /\ [][Next]_trade

Spec == SafeSpec /\ WF_trade(Next)
=============================================================================
