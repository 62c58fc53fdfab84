------------------------------- MODULE JobQueue -------------------------------
(***************************************************************************)
(* The BullMQ queue 'orders' as queue/orderQueue.ts configures it and      *)
(* queue/orderWorker.ts consumes it.  BullMQ itself is a library: its      *)
(* states, its locks and its stalled-job check are modelled as far as the  *)
(* options of the repository reach them.  Jobs are keyed by order id, so   *)
(* an order has at most one job at a time.                                 *)
(*                                                                         *)
(* The order in which waiting jobs are served, the backoff delays and the  *)
(* rate limit decide WHEN a job is served and are left to nondeterminism.  *)
(***************************************************************************)
EXTENDS OrderStore

CONSTANTS
    Slots,              \* the concurrent processors of the worker (maxConcurrent)
    NoSlot,
    MaxRetryAttempts,   \* orderProcessing.maxRetryAttempts
    MaxStalledCount,    \* BullMQ's maxStalledCount, left at its default of 1
    MaxRedisFaults,     \* bound: how many Redis commands may be rejected
    MaxLockLosses       \* bound: how many job locks may expire under a live worker

ASSUME QueueAssumption ==
    /\ NoSlot \notin Slots
    /\ MaxRetryAttempts \in Nat \ {0}
    /\ MaxStalledCount \in Nat
    /\ MaxRedisFaults \in Nat
    /\ MaxLockLosses \in Nat

VARIABLES
    job,            \* job[o]: the job whose id is the order's id
    redisFaults,    \* how many Redis commands have been rejected so far
    lockLosses      \* how many locks have expired under a live worker so far

queueVars == <<job, redisFaults, lockLosses>>

JobState == {"none", "waiting", "active", "delayed", "completed", "failed"}
Live == {"waiting", "active", "delayed"}
Settled == {"completed", "failed"}

\* made is attemptsMade, stalls the stalled counter, owner the lock's holder.
Job == [state : JobState, made : 0 .. MaxRetryAttempts,
        stalls : 0 .. MaxStalledCount + 1, owner : Slots \cup {NoSlot}]

NoJob == [state |-> "none", made |-> 0, stalls |-> 0, owner |-> NoSlot]

QueueTypeOK ==
    /\ job \in [Orders -> Job]
    /\ redisFaults \in 0 .. MaxRedisFaults
    /\ lockLosses \in 0 .. MaxLockLosses

QueueInit ==
    /\ job = [o \in Orders |-> NoJob]
    /\ redisFaults = 0
    /\ lockLosses = 0

RedisOk == UNCHANGED redisFaults
RedisError == /\ redisFaults < MaxRedisFaults
              /\ redisFaults' = redisFaults + 1

-----------------------------------------------------------------------------

\* Mutant of Add: the job is replaced even if one with this id exists.
AddReplaces(o) == job' = [job EXCEPT ![o] = [NoJob EXCEPT !.state = "waiting"]]

\* addOrderToQueue: with jobId = order.id BullMQ ignores the add while a job
\* with that id is kept, in whatever state it is.
Add(o) ==
    job' = [job EXCEPT ![o] = IF @.state = "none"
                              THEN [NoJob EXCEPT !.state = "waiting"] ELSE @]

\* A free processor takes the lock of a waiting job.
Take(w, o) ==
    /\ job[o].state = "waiting"
    /\ job' = [job EXCEPT ![o] = [@ EXCEPT !.state = "active", !.owner = w]]

\* The lock of an active job is gone: the job is still active, nobody holds it.
Abandoned(j) == [j EXCEPT !.owner = NoSlot]

\* The processor returned: moveToCompleted, accepted only from the lock holder.
MoveToCompleted(w, o) ==
    job' = [job EXCEPT ![o] =
              IF @.owner = w THEN [@ EXCEPT !.state = "completed", !.owner = NoSlot]
              ELSE @]

\* Mutant of NextAttempt: one attempt too many.
NextAttemptOffByOne(j) ==
    [j EXCEPT !.made = @ + 1, !.owner = NoSlot,
              !.state = IF j.made + 1 <= MaxRetryAttempts THEN "delayed" ELSE "failed"]

\* A failed attempt: the job waits for its backoff, or has used its attempts.
NextAttempt(j) ==
    [j EXCEPT !.made = @ + 1, !.owner = NoSlot,
              !.state = IF j.made + 1 < MaxRetryAttempts THEN "delayed" ELSE "failed"]

\* The processor threw: moveToFailed, accepted only from the lock holder.
MoveToFailed(w, o) ==
    job' = [job EXCEPT ![o] = IF @.owner = w THEN NextAttempt(@) ELSE @]

-----------------------------------------------------------------------------

\* The backoff delay of a retry has passed.
Promote(o) ==
    /\ job[o].state = "delayed"
    /\ job' = [job EXCEPT ![o].state = "waiting"]
    /\ UNCHANGED <<redisFaults, lockLosses>>

\* A lock expires although its processor still runs (blocked event loop, Redis
\* unreachable for the lock duration).
LoseLock(o) ==
    /\ job[o].owner # NoSlot
    /\ lockLosses < MaxLockLosses
    /\ lockLosses' = lockLosses + 1
    /\ job' = [job EXCEPT ![o] = Abandoned(@)]
    /\ UNCHANGED redisFaults

\* Mutant of Unheld: there is no stalled check.
UnheldNever(o) == FALSE

\* An active job that no processor holds the lock of.
Unheld(o) == job[o].state = "active" /\ job[o].owner = NoSlot

\* A stalled job is put back, or failed for good when it has stalled too often.
\* The attempt is not counted.
Stalled(j) ==
    [j EXCEPT !.stalls = @ + 1, !.owner = NoSlot,
              !.state = IF j.stalls < MaxStalledCount THEN "waiting" ELSE "failed"]

\* The stalled-job check finds an unheld job.
Stall(o) ==
    /\ Unheld(o)
    /\ job' = [job EXCEPT ![o] = Stalled(@)]
    /\ UNCHANGED <<redisFaults, lockLosses>>

\* removeOnComplete / removeOnFail: a settled job is dropped after its age.
Remove(o) ==
    /\ job[o].state \in Settled
    /\ job' = [job EXCEPT ![o] = NoJob]
    /\ UNCHANGED <<redisFaults, lockLosses>>

\* Process death: the locks are no longer renewed and expire.
QueueCrash == job' = [o \in Orders |-> Abandoned(job[o])]
=============================================================================
