------------------------------ MODULE OrderWorker ------------------------------
(***************************************************************************)
(* The BullMQ worker of queue/orderWorker.ts and OrderService.processOrder *)
(* running in its processors.  A processor is a slot; between two awaits   *)
(* of processOrder every other slot, request handler or monitor round may  *)
(* run, so each await is one action and pc names what is awaited:          *)
(*   find      the findById before the try block                           *)
(*   read      the findById inside updateStatus / updateExecutionDetails   *)
(*   save      the save inside it                                          *)
(*   announce  the save has resolved; the broadcast comes next             *)
(*   quote     DexRouterService.getBestQuote                               *)
(*   swap      DexRouterService.executeSwap                                *)
(*   refetch   the findById whose result is returned                       *)
(*   progress  job.updateProgress                                          *)
(*   resolve, reject   the processor has returned or thrown                *)
(***************************************************************************)
EXTENDS JobQueue

CONSTANT NoOrder

ASSUME WorkerAssumption == NoOrder \notin Orders

VARIABLES
    slot,   \* slot[w]: what the processor w is doing
    swaps   \* swaps[o]: how many swaps the DEXs have executed for o

workerVars == <<slot, swaps>>

SlotPC == {"idle", "find", "read", "save", "announce", "quote", "swap",
           "refetch", "progress", "resolve", "reject"}

\* target is the status being set, snap the status the read returned, hash the
\* transaction hash of this attempt's swap, inCatch whether the catch block runs.
Slot == [order : Orders \cup {NoOrder}, pc : SlotPC,
         target : OrderStatus \cup {NoDoc}, snap : OrderStatus \cup {NoDoc},
         hash : Nat, inCatch : BOOLEAN]

IdleSlot == [order |-> NoOrder, pc |-> "idle", target |-> NoDoc,
             snap |-> NoDoc, hash |-> NoTx, inCatch |-> FALSE]

WorkerTypeOK ==
    /\ slot \in [Slots -> Slot]
    /\ swaps \in [Orders -> Nat]

WorkerInit ==
    /\ slot = [w \in Slots |-> IdleSlot]
    /\ swaps = [o \in Orders |-> 0]

-----------------------------------------------------------------------------

\* Slot w goes on to pc; slot w starts the update that sets target.
GoTo(w, pc) == slot' = [slot EXCEPT ![w].pc = pc]
StartUpdate(w, target) ==
    slot' = [slot EXCEPT ![w] = [@ EXCEPT !.pc = "read", !.target = target, !.snap = NoDoc]]

\* Mutant of Throw: the catch block does not store FAILED before returning.
ThrowSkipsFailed(w) == GoTo(w, IF slot[w].inCatch THEN "reject" ELSE "refetch")

\* An error in the try block enters the catch block, which first sets FAILED;
\* an error in the catch block rejects processOrder.
Throw(w) ==
    slot' = [slot EXCEPT ![w] =
               IF @.inCatch THEN [@ EXCEPT !.pc = "reject"]
               ELSE [@ EXCEPT !.pc = "read", !.target = "FAILED",
                              !.snap = NoDoc, !.inCatch = TRUE]]

\* Mutant of PickJob: every job is taken for a registration.
PickJobRegistersOnly(w, o) ==
    /\ slot[w].pc = "idle"
    /\ Take(w, o)
    /\ slot' = [slot EXCEPT ![w] = [IdleSlot EXCEPT !.order = o, !.pc = "progress"]]
    /\ UNCHANGED <<storeVars, redisFaults, lockLosses, swaps>>

\* Mutant of PickJob: a job can be taken without being waiting.
PickJobTwice(w, o) ==
    /\ slot[w].pc = "idle"
    /\ job[o].state \in {"waiting", "active"}
    /\ job' = [job EXCEPT ![o] = [@ EXCEPT !.state = "active", !.owner = w]]
    /\ slot' = [slot EXCEPT ![w] =
                  [IdleSlot EXCEPT !.order = o,
                     !.pc = IF o \in LimitOrders THEN "progress" ELSE "find"]]
    /\ UNCHANGED <<storeVars, redisFaults, lockLosses, swaps>>

\* Worker w takes the job of order o.  The processor of a LIMIT order only
\* confirms the registration.
PickJob(w, o) ==
    /\ slot[w].pc = "idle"
    /\ Take(w, o)
    /\ slot' = [slot EXCEPT ![w] =
                  [IdleSlot EXCEPT !.order = o,
                     !.pc = IF o \in LimitOrders THEN "progress" ELSE "find"]]
    /\ UNCHANGED <<storeVars, redisFaults, lockLosses, swaps>>

\* The first findById is outside the try block: its error rejects at once.
FindOrder(w) ==
    /\ slot[w].pc = "find"
    /\ \/ DbOk /\ StartUpdate(w, "ROUTING")
       \/ DbError /\ GoTo(w, "reject")
    /\ UNCHANGED <<docVars, notified, queueVars, swaps>>

ReadForUpdate(w) ==
    /\ slot[w].pc = "read"
    /\ \/ /\ DbOk
          /\ slot' = [slot EXCEPT ![w] =
                        [@ EXCEPT !.pc = "save", !.snap = status[slot[w].order]]]
       \/ DbError /\ Throw(w)
    /\ UNCHANGED <<docVars, notified, queueVars, swaps>>

\* Mutant of HashToSave: the hash is saved with the wrong update.
HashToSaveEarly(s) == IF s.target = "ROUTING" THEN s.hash ELSE NoTx

\* Only the update that sets CONFIRMED passes the transaction hash.
HashToSave(s) == IF s.target = "CONFIRMED" THEN s.hash ELSE NoTx

SaveUpdate(w) ==
    LET s == slot[w] IN
    /\ s.pc = "save"
    /\ \/ /\ DbOk
          /\ Save(s.order, s.snap, s.target, HashToSave(s))
          /\ GoTo(w, "announce")
       \/ /\ SaveError(s.order, s.snap, s.target, HashToSave(s))
          /\ Throw(w)
    /\ UNCHANGED <<notified, queueVars, swaps>>

\* Where processOrder goes after broadcasting the status it has just stored.
AfterAnnounce(w, target) ==
    CASE target = "ROUTING"   -> GoTo(w, "quote")
      [] target = "BUILDING"  -> GoTo(w, "swap")
      [] target = "SUBMITTED" -> StartUpdate(w, "CONFIRMED")
      [] OTHER                -> GoTo(w, "refetch")

Announce(w) ==
    /\ slot[w].pc = "announce"
    /\ Broadcast(slot[w].order, slot[w].target)
    /\ AfterAnnounce(w, slot[w].target)
    /\ UNCHANGED <<docVars, dbFaults, queueVars, swaps>>

\* getBestQuote throws only when no DEX answers.
GetQuote(w) ==
    /\ slot[w].pc = "quote"
    /\ \/ StartUpdate(w, "BUILDING")
       \/ Throw(w)
    /\ UNCHANGED <<storeVars, queueVars, swaps>>

\* executeSwap never throws: it reports success or failure.
ExecuteSwap(w) ==
    LET o == slot[w].order IN
    /\ slot[w].pc = "swap"
    /\ \/ /\ swaps' = [swaps EXCEPT ![o] = @ + 1]
          /\ slot' = [slot EXCEPT ![w] =
                        [@ EXCEPT !.pc = "read", !.target = "SUBMITTED",
                                  !.snap = NoDoc, !.hash = swaps[o] + 1]]
       \/ /\ StartUpdate(w, "FAILED")
          /\ UNCHANGED swaps
    /\ UNCHANGED <<storeVars, queueVars>>

\* The final findById, in the try block or in the catch block.
Refetch(w) ==
    /\ slot[w].pc = "refetch"
    /\ \/ DbOk /\ GoTo(w, "progress")
       \/ DbError /\ Throw(w)
    /\ UNCHANGED <<docVars, notified, queueVars, swaps>>

UpdateProgress(w) ==
    /\ slot[w].pc = "progress"
    /\ \/ RedisOk /\ GoTo(w, "resolve")
       \/ RedisError /\ GoTo(w, "reject")
    /\ UNCHANGED <<storeVars, job, lockLosses, swaps>>

\* BullMQ settles the attempt; if its command is rejected the lock is left to
\* expire.
SettleJob(w) ==
    LET o == slot[w].order IN
    /\ slot[w].pc \in {"resolve", "reject"}
    /\ \/ /\ RedisOk
          /\ IF slot[w].pc = "resolve" THEN MoveToCompleted(w, o) ELSE MoveToFailed(w, o)
       \/ /\ RedisError
          /\ job' = [job EXCEPT ![o] = IF @.owner = w THEN Abandoned(@) ELSE @]
    /\ slot' = [slot EXCEPT ![w] = IdleSlot]
    /\ UNCHANGED <<storeVars, lockLosses, swaps>>

ProcessStep(w) ==
    \/ FindOrder(w) \/ ReadForUpdate(w) \/ SaveUpdate(w) \/ Announce(w)
    \/ GetQuote(w) \/ ExecuteSwap(w) \/ Refetch(w)
    \/ UpdateProgress(w) \/ SettleJob(w)

WorkerNext == \E w \in Slots : ProcessStep(w) \/ \E o \in Orders : PickJob(w, o)

\* Process death: nothing of a running attempt survives.
WorkerCrash == slot' = [w \in Slots |-> IdleSlot]
=============================================================================
