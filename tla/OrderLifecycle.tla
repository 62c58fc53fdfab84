---------------------------- MODULE OrderLifecycle ----------------------------
(***************************************************************************)
(* What the engine promises the owner of a market order when nothing       *)
(* fails: the order lifecycle of README.md, as the code implements it.     *)
(* Nothing is said of workers, jobs, histories or clients.                 *)
(***************************************************************************)
CONSTANT Orders

VARIABLE stage      \* stage[o]: where order o is in its life

Stages == {"NONE", "PENDING", "ROUTING", "BUILDING", "SUBMITTED", "CONFIRMED", "FAILED"}

\* The stage after each stage that an order leaves without failing.
Following == [PENDING |-> "ROUTING", ROUTING |-> "BUILDING",
              BUILDING |-> "SUBMITTED", SUBMITTED |-> "CONFIRMED"]

\* No quote, or no swap.
MayFail == {"ROUTING", "BUILDING"}

Init == stage = [o \in Orders |-> "NONE"]

Move(o, s) == stage' = [stage EXCEPT ![o] = s]

Receive(o) == stage[o] = "NONE" /\ Move(o, "PENDING")

Advance(o) == stage[o] \in DOMAIN Following /\ Move(o, Following[stage[o]])

Fail(o) == stage[o] \in MayFail /\ Move(o, "FAILED")

Next == \E o \in Orders : Receive(o) \/ Advance(o) \/ Fail(o)

\* A received order always gets to an end.
Spec == Init /\ [][Next]_stage /\ \A o \in Orders : WF_stage(Advance(o) \/ Fail(o))
=============================================================================
