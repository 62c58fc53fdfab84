------------------------------ MODULE MCDexRouter ------------------------------
(***************************************************************************)
(* Small instances of DexRouter for TLC.                                   *)
(***************************************************************************)
EXTENDS DexRouter

\* The ends of every interval, and prices on both sides of the 0.1% rule.
MCPrices == {985, 988, 990, 994, 1000, 1005, 1010, 1011, 1012, 1018, 1025, 1030}
=============================================================================
