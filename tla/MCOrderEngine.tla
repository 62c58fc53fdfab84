----------------------------- MODULE MCOrderEngine -----------------------------
(***************************************************************************)
(* Small instances of OrderEngine for TLC.                                 *)
(***************************************************************************)
EXTENDS OrderEngineInv, TLC

\* Market orders and processors are interchangeable; used by safety runs only.
Symmetry == Permutations(MarketOrders) \cup Permutations(Slots)
=============================================================================
