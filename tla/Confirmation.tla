----------------------------- MODULE Confirmation -----------------------------
(***************************************************************************)
(* confirmTransactionWithTimeout of utils/transactionUtils.ts: a loop that *)
(* asks an RPC node for the status of a transaction until it is confirmed, *)
(* has failed, or the time is over.                                        *)
(*                                                                         *)
(* The chain moves on meanwhile.  A block that has only been processed may *)
(* be dropped again, a confirmed one stays; a transaction that failed is   *)
(* in its block all the same, with an error.  The node may lag behind and  *)
(* an answer may take any time.                                            *)
(***************************************************************************)
EXTENDS Naturals, Sequences

CONSTANTS
    Timeout,    \* solanaConfig.confirmTimeout, in units of the loop's sleep
    MaxClock    \* bound: when the clock stops

ASSUME ConfirmationAssumption == {Timeout, MaxClock} \subseteq Nat /\ Timeout < MaxClock

VARIABLES
    level,      \* how far the transaction is on the chain
    fails,      \* its error, once it has been processed
    node,       \* what the RPC node knows: a level of the chain, now or before
    time,       \* Date.now()
    poll        \* the loop, and the time it began at

confirmationVars == <<level, fails, node, time, poll>>

Level == <<"none", "processed", "confirmed", "finalized">>

ConfirmationTypeOK ==
    /\ {level, node} \subseteq 1 .. Len(Level)
    /\ fails \in BOOLEAN
    /\ time \in 0 .. MaxClock
    /\ poll.pc \in {"idle", "asking", "asleep", "true", "failed", "timeout", "rpcError"}
    /\ poll.began \in 0 .. time

ConfirmationInit ==
    /\ level = 1
    /\ fails \in BOOLEAN
    /\ node = 1
    /\ time = 0
    /\ poll = [pc |-> "idle", began |-> 0, until |-> 0]

-----------------------------------------------------------------------------

\* The transaction is included and its block accepted, or the block is dropped.
ChainMoves ==
    /\ \/ level < Len(Level) /\ level' = level + 1
       \/ level = 2 /\ level' = 1
    /\ UNCHANGED <<fails, node, time, poll>>

NodeCatchesUp ==
    /\ node # level
    /\ node' = level
    /\ UNCHANGED <<level, fails, time, poll>>

TimePasses ==
    /\ time < MaxClock
    /\ poll.pc = "asleep" => time < poll.until
    /\ time' = time + 1
    /\ UNCHANGED <<level, fails, node, poll>>

\* The head of the loop.
LoopHead(began) ==
    poll' = [poll EXCEPT !.began = began,
                         !.pc = IF time - began < Timeout THEN "asking" ELSE "timeout"]

StartPolling ==
    /\ poll.pc = "idle"
    /\ LoopHead(time)
    /\ UNCHANGED <<level, fails, node, time>>

\* Mutant of Landed: a processed block is enough.
LandedEarly(l) == Level[l] # "none"

Landed(l) == Level[l] \in {"confirmed", "finalized"}

\* The answer: what has landed is true whether or not it has failed, the error is looked
\* at only before.
StatusArrives ==
    /\ poll.pc = "asking"
    /\ \/ Landed(node) /\ poll' = [poll EXCEPT !.pc = "true"]
       \/ ~Landed(node) /\ node > 1 /\ fails /\ poll' = [poll EXCEPT !.pc = "failed"]
       \/ /\ ~Landed(node) /\ (node = 1 \/ ~fails)
          /\ poll' = [poll EXCEPT !.pc = "asleep", !.until = time + 1]
       \/ poll' = [poll EXCEPT !.pc = "rpcError"]
    /\ UNCHANGED <<level, fails, node, time>>

WakeUp ==
    /\ poll.pc = "asleep" /\ time >= poll.until
    /\ LoopHead(poll.began)
    /\ UNCHANGED <<level, fails, node, time>>

ConfirmationNext ==
    ChainMoves \/ NodeCatchesUp \/ TimePasses \/ StartPolling \/ StatusArrives \/ WakeUp

ConfirmationSpec == ConfirmationInit /\ [][ConfirmationNext]_confirmationVars
-----------------------------------------------------------------------------

\* What the outcomes of the loop are worth, whatever the chain and the node do: true
\* means that the transaction is on the chain to stay, not that it succeeded; failed
\* means that it has an error, although its block may be dropped; a timeout that the
\* node did not report it as landed in time, and it may still land.
VerdictFitsChain ==
    /\ poll.pc = "true" => Landed(level)
    /\ poll.pc = "failed" => fails
    /\ poll.pc = "timeout" => time - poll.began >= Timeout
=============================================================================
