------------------------------- MODULE OrderEngine -------------------------------
(***************************************************************************)
(* The running server: the HTTP handlers, the worker and the price monitor *)
(* in one Node process, over the orders collection and the job queue,      *)
(* which outlive it.  A crash stands for every end of the process: the     *)
(* signal handlers of server.ts and config/redis.ts call process.exit      *)
(* without waiting for what is in flight.                                  *)
(***************************************************************************)
EXTENDS OrderWorker, OrderApi, PriceMonitor

CONSTANT MaxCrashes     \* bound: how often the process ends and starts again

ASSUME EngineAssumption == MaxCrashes \in Nat

VARIABLE crashes

vars == <<storeVars, queueVars, workerVars, apiVars, monitorVars, crashes>>

Init ==
    /\ StoreInit /\ QueueInit /\ WorkerInit /\ ApiInit /\ MonitorInit
    /\ crashes = 0

\* The process ends with whatever is in flight and starts again.
Crash ==
    /\ crashes < MaxCrashes
    /\ crashes' = crashes + 1
    /\ WorkerCrash /\ ApiCrash /\ MonitorCrash /\ QueueCrash
    /\ UNCHANGED <<storeVars, redisFaults, lockLosses, swaps>>

Worker == WorkerNext /\ UNCHANGED <<apiVars, monitorVars, crashes>>
Api == ApiNext /\ UNCHANGED <<workerVars, monitorVars, crashes>>
Monitor == MonitorNext /\ UNCHANGED <<workerVars, apiVars, crashes>>

\* Steps of BullMQ and of the clock.
Queue ==
    /\ \E o \in Orders : Promote(o) \/ LoseLock(o) \/ Stall(o) \/ Remove(o)
    /\ UNCHANGED <<storeVars, workerVars, apiVars, monitorVars, crashes>>
Clock ==
    /\ \E o \in Orders : Deadline(o)
    /\ UNCHANGED <<storeVars, queueVars, workerVars, apiVars, crashes>>

Next == Worker \/ Api \/ Monitor \/ Queue \/ Clock \/ Crash

Spec == Init /\ [][Next]_vars

-----------------------------------------------------------------------------

TypeOK ==
    /\ StoreTypeOK /\ QueueTypeOK /\ WorkerTypeOK /\ ApiTypeOK /\ MonitorTypeOK
    /\ crashes \in 0 .. MaxCrashes

Busy(w) == slot[w].pc # "idle"

\* A CONFIRMED order carries the hash of a swap that was executed for it,
\* whichever attempt stored the status and whatever failed on the way
\* (processOrder stores status and hash in one updateExecutionDetails).
ConfirmedHasTx ==
    \A o \in Orders : status[o] = "CONFIRMED" => txHash[o] \in 1 .. swaps[o]

\* While no lock expires under a live worker, two processors never run the same
\* order, although the API, the monitor, retries, stalls and crashes all put
\* jobs on the queue: the job id is the order id (addOrderToQueue).
OneAttemptPerOrder ==
    lockLosses = 0 =>
        \A w1, w2 \in Slots :
            Busy(w1) /\ Busy(w2) /\ slot[w1].order = slot[w2].order => w1 = w2

\* Whatever status a client was told of an order was in the stored history of
\* that order before: every broadcast follows the save it reports, also when
\* the save did not change the status or another process has changed it since.
BroadcastsArePersisted == \A o \in Orders : notified[o] \subseteq recorded[o]

\* An order is not swapped more often than its job may be attempted and its
\* attempts may stall (attempts of defaultJobOptions, maxStalledCount).
SwapsWithinAttempts ==
    \A o \in Orders : swaps[o] <= MaxRetryAttempts + MaxStalledCount

Failures == dbFaults + redisFaults + lockLosses + crashes

\* Every swap of an order after its first one is paid for by a failure: the
\* worker never swaps twice on its own account (processOrder, MoveToFailed).
ExtraSwapsCostFailures == \A o \in Orders : swaps[o] <= 1 + Failures

FinalStatus == {"CONFIRMED", "FAILED", "CANCELLED"}

\* A market order whose job has completed is in a final status and stays in
\* one, also if a cancel request that passed its check earlier is still running.
CompletedJobIsFinal ==
    lockLosses = 0 =>
        \A o \in MarketOrders :
            job[o].state = "completed" => status[o] \in FinalStatus

\* A market order that was answered with 201 and is still PENDING has a job
\* that will run, unless failures have used up its attempts.
AcceptedNotForgotten ==
    dbFaults = 0 /\ redisFaults = 0 /\ crashes + lockLosses <= MaxStalledCount =>
        \A o \in MarketOrders :
            request[o] = "accepted" /\ status[o] = "PENDING" => job[o].state \in Live

\* Only orders whose deadline has passed are stored as EXPIRED, although the
\* expiry loops work on lists fetched earlier.
ExpiredOnlyAfterDeadline ==
    \A o \in Orders : status[o] = "EXPIRED" => o \in expired

LimitEnd == {"EXPIRED", "FAILED", "CANCELLED"}

\* Who will store a status of o, or has queued it for that, without looking at its
\* status again: a loop that has it on its list, a price check past its last check.
RoundHolds(r, o) ==
    \/ o \in round[r].todo
    \/ round[r].pc = "save" /\ o \in round[r].cur
    \/ task[r][o].pc \in {"read", "save", "catchRead", "catchSave"}
CancelHolds(o) == cancel[o].pc \in {"read", "save"}

\* A limit order that has ended is taken up by nobody any more: rounds that overlap,
\* retried price checks and cancel requests may overwrite its end only if they had
\* passed their last look at it before, and without such a late one the end stays
\* (the checks of triggerLimitOrderExecution and cancelOrder, the two queries).
EndedLimitsRest ==
    [][\A o \in LimitOrders : status[o] \in LimitEnd =>
          /\ \A r \in Rounds : RoundHolds(r, o)' => RoundHolds(r, o)
          /\ CancelHolds(o)' => CancelHolds(o)
          /\ \/ status'[o] = status[o]
             \/ CancelHolds(o) \/ \E r \in Rounds : RoundHolds(r, o)]_vars

-----------------------------------------------------------------------------
(***************************************************************************)
(* Fairness.  Every awaited call settles and its continuation runs; BullMQ *)
(* serves waiting jobs, promotes delayed ones and checks for stalled ones; *)
(* the timers of the monitor keep firing.  Users, deadlines, faults,       *)
(* crashes and the removal of old jobs are not fair.                       *)
(***************************************************************************)

WorkerFairness ==
    /\ \A w \in Slots :
         WF_vars(ProcessStep(w) /\ UNCHANGED <<apiVars, monitorVars, crashes>>)
    /\ \A o \in Orders :
         WF_vars((\E w \in Slots : PickJob(w, o)) /\ UNCHANGED <<apiVars, monitorVars, crashes>>)

QueueFairness ==
    \A o \in Orders :
        WF_vars((Promote(o) \/ Stall(o))
                /\ UNCHANGED <<storeVars, workerVars, apiVars, monitorVars, crashes>>)

ApiFairness ==
    \A o \in Orders :
        /\ WF_vars(request[o] # "new" /\ ExecuteStep(o)
                   /\ UNCHANGED <<workerVars, monitorVars, crashes>>)
        /\ WF_vars(CancelStep(o) /\ UNCHANGED <<workerVars, monitorVars, crashes>>)

MonitorFairness ==
    \A r \in Rounds :
        /\ WF_vars(RoundStep(r) /\ UNCHANGED <<workerVars, apiVars, crashes>>)
        /\ WF_vars(StartCheck(r) /\ UNCHANGED <<workerVars, apiVars, crashes>>)
        /\ WF_vars(StartCleanup(r) /\ UNCHANGED <<workerVars, apiVars, crashes>>)

FairSpec == Spec /\ WorkerFairness /\ QueueFairness /\ ApiFairness /\ MonitorFairness

\* Every job settles: whatever fails while it runs, a job on the queue is
\* completed, failed for good or already removed after a while.
JobsSettle ==
    \A o \in Orders : (job[o].state \in Live) ~> (job[o].state \notin Live)

\* A market order whose job is on the queue reaches a final status, whatever
\* fails in Redis and however often the process restarts, unless the job stalls
\* more than maxStalledCount times.  It needs a database that answers.
QueuedMarketEnds ==
    \A o \in MarketOrders :
        (job[o].state \in Live)
            ~> (status[o] \in FinalStatus \/ job[o].stalls > MaxStalledCount)

\* A limit order whose deadline has passed does not stay on the list of active
\* limit orders: some round expires it, triggers it or fails it.
DeadlineIsNoticed ==
    \A o \in LimitOrders :
        (o \in expired) ~> (status[o] # "WAITING_FOR_PRICE")

\* The market orders go through the lifecycle of README.md, with the stored
\* status as the stage, beside limit orders and their cancellation.  It needs
\* that nothing fails and that nobody cancels a market order.
Lifecycle == INSTANCE OrderLifecycle
                WITH Orders <- MarketOrders,
                     stage <- [o \in MarketOrders |-> status[o]]
LifecycleSpec == Lifecycle!Spec

-----------------------------------------------------------------------------
(***************************************************************************)
(* What comments and documents of the repository say and the code does not *)
(* do.                                                                     *)
(***************************************************************************)

\* "will be processed like a market order" (PriceMonitorService): a triggered
\* limit order leaves PENDING.
TriggeredLimitIsProcessed ==
    \A o \in LimitOrders : (status[o] = "PENDING") ~> (status[o] # "PENDING")

\* "Order cancelled successfully" (OrderService): an order the user was told is
\* cancelled is not swapped afterwards.
CancelledIsNotSwapped ==
    [][\A o \in Orders : cancel[o].pc = "cancelled" => swaps'[o] = swaps[o]]_vars

\* CONFIRMED and FAILED are "Final" (README): their orders stay in them.
FinalMeansFinal ==
    [][\A o \in MarketOrders :
          status[o] \in {"CONFIRMED", "FAILED"} => status'[o] = status[o]]_vars

\* "Don't retry swap executions" (RealRaydiumService): one swap per order.
OneSwapPerOrder == \A o \in Orders : swaps[o] <= 1
=============================================================================
