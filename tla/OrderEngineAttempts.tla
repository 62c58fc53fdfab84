-------------------------- MODULE OrderEngineAttempts --------------------------
(***************************************************************************)
(* Jobs and attempts: how often an order can be swapped, that a completed  *)
(* job leaves its order in a final status, and that an accepted order is   *)
(* not forgotten.                                                          *)
(***************************************************************************)
EXTENDS OrderEngineHistory, FiniteSetTheorems

-----------------------------------------------------------------------------
(***************************************************************************)
(* The steps of the queue, field by field.                                 *)
(***************************************************************************)

OtherJobs(o) == \A p \in Orders \ {o} : job'[p] = job[p]

\* Only the job of o changes, to a job with these fields.
JobTo(o, state, made, stalls, owner) ==
    /\ OtherJobs(o)
    /\ job'[o].state = state /\ job'[o].made = made /\ job'[o].stalls = stalls
    /\ job'[o].owner = owner

LEMMA JobTyped ==
    ASSUME TypeInv, NEW o \in Orders
    PROVE  /\ job \in [Orders -> Job] /\ job[o] \in Job
           /\ job[o].made \in Nat /\ job[o].stalls \in Nat
           /\ job[o].state \in JobState /\ job[o].owner \in Slots \cup {NoSlot}
  BY QueueAssumption DEF TypeInv, TypeOK, QueueTypeOK, Job

LEMMA AddFlat ==
    ASSUME TypeInv, NEW o \in Orders, Add(o)
    PROVE  IF job[o].state = "none" THEN JobTo(o, "waiting", 0, 0, NoSlot)
                                    ELSE job' = job
  BY JobTyped DEF Add, JobTo, OtherJobs, NoJob

LEMMA TakeFlat ==
    ASSUME TypeInv, NEW o \in Orders, NEW w \in Slots, Take(w, o)
    PROVE  job[o].state = "waiting" /\ JobTo(o, "active", job[o].made, job[o].stalls, w)
  BY JobTyped DEF Take, JobTo, OtherJobs, Job

LEMMA CompleteFlat ==
    ASSUME TypeInv, NEW o \in Orders, NEW w \in Slots, MoveToCompleted(w, o)
    PROVE  IF job[o].owner = w THEN JobTo(o, "completed", job[o].made, job[o].stalls, NoSlot)
                               ELSE job' = job
  BY JobTyped DEF MoveToCompleted, JobTo, OtherJobs, Job

LEMMA FailFlat ==
    ASSUME TypeInv, NEW o \in Orders, NEW w \in Slots, MoveToFailed(w, o)
    PROVE  IF job[o].owner = w
           THEN \E state \in {"delayed", "failed"} :
                    JobTo(o, state, job[o].made + 1, job[o].stalls, NoSlot)
           ELSE job' = job
  BY JobTyped DEF MoveToFailed, NextAttempt, JobTo, OtherJobs, Job

LEMMA PromoteFlat ==
    ASSUME TypeInv, NEW o \in Orders, Promote(o)
    PROVE  /\ job[o].state = "delayed"
           /\ JobTo(o, "waiting", job[o].made, job[o].stalls, job[o].owner)
  BY JobTyped DEF Promote, JobTo, OtherJobs, Job

LEMMA LoseLockFlat ==
    ASSUME TypeInv, NEW o \in Orders, LoseLock(o)
    PROVE  JobTo(o, job[o].state, job[o].made, job[o].stalls, NoSlot)
  BY JobTyped DEF LoseLock, Abandoned, JobTo, OtherJobs, Job

LEMMA StallFlat ==
    ASSUME TypeInv, NEW o \in Orders, Stall(o)
    PROVE  /\ Unheld(o)
           /\ JobTo(o, IF job[o].stalls < MaxStalledCount THEN "waiting" ELSE "failed",
                    job[o].made, job[o].stalls + 1, NoSlot)
  BY JobTyped DEF Stall, Stalled, JobTo, OtherJobs, Job

LEMMA RemoveFlat ==
    ASSUME TypeInv, NEW o \in Orders, Remove(o)
    PROVE  job[o].state \in Settled /\ JobTo(o, "none", 0, 0, NoSlot)
  BY JobTyped DEF Remove, NoJob, JobTo, OtherJobs

\* The end of an attempt: what becomes of the job, if the slot still holds its lock.
LEMMA SettleFlat ==
    ASSUME TypeInv, NEW w \in Slots, SettleJob(w)
    PROVE  LET o == slot[w].order IN
           /\ o \in Orders
           /\ \/ job' = job
              \/ /\ job[o].owner = w
                 /\ \/ /\ slot[w].pc = "resolve"
                       /\ JobTo(o, "completed", job[o].made, job[o].stalls, NoSlot)
                    \/ /\ slot[w].pc = "reject"
                       /\ \E state \in {"delayed", "failed"} :
                             JobTo(o, state, job[o].made + 1, job[o].stalls, NoSlot)
                    \/ /\ RedisError
                       /\ JobTo(o, job[o].state, job[o].made, job[o].stalls, NoSlot)
  <1> DEFINE o == slot[w].order
  <1>1. o \in Orders /\ slot[w].pc \in {"resolve", "reject"}
    BY DEF SettleJob, TypeInv, SlotsWellFormed, Busy
  <1> HIDE DEF o
  <1>2. CASE RedisError /\ job' = [job EXCEPT ![o] = IF @.owner = w THEN Abandoned(@) ELSE @]
    BY <1>1, <1>2, JobTyped DEF Abandoned, JobTo, OtherJobs, Job, o
  <1>3. CASE slot[w].pc = "resolve" /\ MoveToCompleted(w, o)
    BY <1>1, <1>3, CompleteFlat DEF o
  <1>4. CASE slot[w].pc = "reject" /\ MoveToFailed(w, o)
    BY <1>1, <1>4, FailFlat DEF o
  <1>5. QED
    BY <1>1, <1>2, <1>3, <1>4 DEF SettleJob, o

-----------------------------------------------------------------------------
(***************************************************************************)
(* What a step is, seen from jobs and slots.                               *)
(***************************************************************************)

Adds(o) ==
    /\ Add(o)
    /\ \/ EnqueueOrder(o) /\ RedisOk
       \/ \E r \in Rounds : TriggerEnqueue(r, o)
Runs(w) == ProcessStep(w) /\ ~SettleJob(w)
Moves(o) == Promote(o) \/ LoseLock(o) \/ Stall(o) \/ Remove(o)
SlotsRest == UNCHANGED <<slot, swaps>>

LEMMA StepKinds ==
    ASSUME TypeInv, [Next]_vars
    PROVE  \/ job' = job /\ SlotsRest
           \/ \E o \in Orders : Adds(o) /\ SlotsRest
           \/ \E w \in Slots : Runs(w) /\ job' = job
           \/ \E w \in Slots, o \in Orders : PickJob(w, o)
           \/ \E w \in Slots : SettleJob(w)
           \/ \E o \in Orders : Moves(o) /\ SlotsRest
           \/ Crash /\ swaps' = swaps
  <1>0. slot \in [Slots -> Slot]
    BY DEF TypeInv, TypeOK, WorkerTypeOK
  <1>1. CASE Worker
    <2>1. PICK w \in Slots : ProcessStep(w) \/ \E o \in Orders : PickJob(w, o)
      BY <1>1 DEF Worker, WorkerNext
    <2>2. CASE ProcessStep(w)
      BY <1>0, <2>2, ProcessKeeps DEF Runs
    <2>3. QED
      BY <1>1, <2>1, <2>2 DEF Worker
  <1>2. CASE Api
    <2>1. PICK o \in Orders : ExecuteStep(o) \/ CancelCheck(o) \/ CancelStep(o)
      BY <1>2 DEF Api, ApiNext
    <2>2. job' = job \/ (EnqueueOrder(o) /\ RedisOk /\ Add(o))
      BY <2>1 DEF ExecuteStep, CountActive, CreateOrder, EnqueueOrder, CancelCheck, CancelStep,
                  CancelRead, CancelSave, CancelAnnounce, CancelRefetch, queueVars
    <2>3. QED
      BY <1>2, <2>2 DEF Api, workerVars, SlotsRest, Adds
  <1>3. CASE Monitor
    <2>1. PICK r \in Rounds : StartCheck(r) \/ StartCleanup(r) \/ RoundStep(r)
      BY <1>3 DEF Monitor, MonitorNext
    <2>2. ASSUME NEW o \in Orders, CheckPrice(r, o) \/ TriggerStep(r, o)
          PROVE  job' = job \/ Adds(o)
      BY <2>2 DEF CheckPrice, TriggerStep, TriggerFind, TriggerRead, TriggerSave, TriggerEnqueue,
                  CatchFind, CatchRead, CatchSave, queueVars, Adds
    <2>3. job' = job \/ \E o \in Orders : Adds(o)
      BY <2>1, <2>2 DEF StartCheck, StartCleanup, RoundStep, ExpireRead, ExpireSave,
                        ExpireAnnounce, ExpireDone, EndRound, queueVars
    <2>4. QED
      BY <1>3, <2>3 DEF Monitor, workerVars, SlotsRest
  <1>4. CASE Queue
    BY <1>4 DEF Queue, workerVars, SlotsRest, Moves
  <1>5. CASE Crash
    BY <1>5 DEF Crash
  <1>6. CASE Clock \/ UNCHANGED vars
    BY <1>6 DEF Clock, vars, queueVars, workerVars, SlotsRest
  <1>7. QED
    BY <1>1, <1>2, <1>3, <1>4, <1>5, <1>6 DEF Next

-----------------------------------------------------------------------------
(***************************************************************************)
(* Locks and failures.                                                     *)
(***************************************************************************)

\* A slot goes on with its order until its attempt settles.
LEMMA RunsFlat ==
    ASSUME TypeInv, NEW w \in Slots, Runs(w)
    PROVE  SameOrder(w) /\ Busy(w) /\ Busy(w)'
  <1>0. slot \in [Slots -> Slot]
    BY DEF TypeInv, TypeOK, WorkerTypeOK
  <1>t. Thrown(w) => SameOrder(w) /\ slot'[w].pc # "idle"
    BY DEF Thrown, To
  <1>1. CASE FindOrder(w) \/ UpdateProgress(w) \/ Announce(w) \/ ExecuteSwap(w)
    BY <1>0, <1>1, FindOrderFlat, UpdateProgressFlat, AnnounceFlat, ExecuteSwapFlat DEF To, Busy
  <1>2. CASE ReadForUpdate(w) \/ SaveUpdate(w) \/ GetQuote(w) \/ Refetch(w)
    BY <1>0, <1>t, <1>2, ReadForUpdateFlat, SaveUpdateFlat, GetQuoteFlat, RefetchFlat DEF To, Busy
  <1>3. QED
    BY <1>1, <1>2 DEF Runs, ProcessStep

\* A processor takes at most one job at a time and gives its lock back when it ends.
LEMMA StepOwner ==
    ASSUME TypeInv, OwnerInv, [Next]_vars
    PROVE  OwnerInv'
  <1>0. slot \in [Slots -> Slot] /\ NoSlot \notin Slots
    BY QueueAssumption DEF TypeInv, TypeOK, WorkerTypeOK
  <1>s. SUFFICES ASSUME NEW p \in Orders, NEW v \in Slots, job'[p].owner = v
                 PROVE  Busy(v)' /\ slot'[v].order = p
    BY DEF OwnerInv
  <1>o. job[p].owner = v => Busy(v) /\ slot[v].order = p
    BY DEF OwnerInv
  <1>1. CASE \E w \in Slots : Runs(w) /\ job' = job
    BY <1>s, <1>o, <1>1, RunsFlat DEF SameOrder, Busy
  <1>2. ASSUME NEW w \in Slots, NEW o \in Orders, PickJob(w, o)
        PROVE  Busy(v)' /\ slot'[v].order = p
    <2>1. JobTo(o, "active", job[o].made, job[o].stalls, w)
      BY <1>2, TakeFlat DEF PickJob
    <2>2. /\ ~Busy(w) /\ Busy(w)' /\ slot'[w].order = o
          /\ \A u \in Slots \ {w} : slot'[u] = slot[u]
      BY <1>0, <1>2, PickJobFlat DEF Busy
    <2>3. CASE p = o
      BY <1>s, <2>1, <2>2, <2>3 DEF JobTo
    <2>4. CASE p # o
      BY <1>s, <1>o, <2>1, <2>2, <2>4 DEF JobTo, OtherJobs, Busy
    <2>5. QED
      BY <2>3, <2>4
  <1>3. ASSUME NEW w \in Slots, SettleJob(w)
        PROVE  Busy(v)' /\ slot'[v].order = p
    <2>1. \A u \in Slots \ {w} : slot'[u] = slot[u]
      BY <1>0, <1>3, SettleJobFlat
    <2>2. job[p].owner = v
      BY <1>0, <1>s, <1>3, SettleFlat DEF JobTo, OtherJobs
    <2>3. v # w
      <3>1. ASSUME v = w
            PROVE  job'[p].owner = NoSlot
        <4>1. slot[w].order = p /\ job[p].owner = w
          BY <1>o, <2>2, <3>1
        <4>2. job'[p] \in {Abandoned(job[p]), NextAttempt(job[p]),
                           [job[p] EXCEPT !.state = "completed", !.owner = NoSlot]}
          BY <1>3, <4>1, JobTyped DEF SettleJob, MoveToCompleted, MoveToFailed
        <4>3. QED
          BY <4>2, JobTyped DEF NextAttempt, Abandoned, Job
      <3>2. QED
        BY <1>0, <1>s, <3>1
    <2>4. QED
      BY <1>o, <2>1, <2>2, <2>3 DEF Busy
  <1>4. ASSUME NEW o \in Orders, Adds(o) \/ Moves(o)
        PROVE  job[p].owner = v
    <2>1. CASE Adds(o)
      BY <1>0, <1>s, <2>1, AddFlat DEF Adds, JobTo, OtherJobs
    <2>2. CASE Moves(o)
      BY <1>0, <1>s, <2>2, PromoteFlat, LoseLockFlat, StallFlat, RemoveFlat
      DEF Moves, JobTo, OtherJobs
    <2>3. QED
      BY <1>4, <2>1, <2>2
  <1>5. CASE Crash
    BY <1>0, <1>s, <1>5, JobTyped DEF Crash, QueueCrash, Abandoned, Job
  <1>6. CASE job' = job /\ SlotsRest
    BY <1>s, <1>o, <1>6 DEF SlotsRest, Busy
  <1>7. QED
    BY <1>o, <1>1, <1>2, <1>3, <1>4, <1>5, <1>6, StepKinds DEF SlotsRest, Busy

LEMMA OwnerInvariant == Spec => []OwnerInv
  <1>1. Init => OwnerInv
    BY QueueAssumption DEF Init, QueueInit, NoJob, OwnerInv
  <1>2. QED
    BY <1>1, StepOwner, TypeInvariant, PTL DEF Spec

LEMMA SumsGrow ==
    ASSUME NEW a \in Nat, NEW b \in Nat, NEW c \in Nat, NEW d \in Nat, a <= c, b <= d
    PROVE  /\ a + b \in Nat /\ c + d \in Nat /\ a + b <= c + d
           /\ a + 1 <= c \/ b + 1 <= d => a + b + 1 <= c + d
  OBVIOUS

\* What makes a job lose the processor that runs it.
Losses == redisFaults + lockLosses + crashes

LEMMA FailuresGrow ==
    ASSUME TypeInv, [Next]_vars
    PROVE  /\ Failures \in Nat /\ Failures' \in Nat /\ Failures <= Failures'
           /\ Losses \in Nat /\ Losses' \in Nat /\ Losses <= Losses'
           /\ DbError \/ RedisError \/ lockLosses' = lockLosses + 1 \/ crashes' = crashes + 1
                => Failures + 1 <= Failures'
           /\ RedisError \/ lockLosses' = lockLosses + 1 \/ crashes' = crashes + 1
                => Losses + 1 <= Losses'
  <1>1. /\ FaultsTyped /\ FaultsTyped'
        /\ dbFaults <= dbFaults' /\ redisFaults <= redisFaults'
        /\ lockLosses <= lockLosses' /\ crashes <= crashes'
    BY FaultsGrow
  <1>2. /\ DbError => dbFaults + 1 <= dbFaults'
        /\ RedisError => redisFaults + 1 <= redisFaults'
        /\ lockLosses' = lockLosses + 1 => lockLosses + 1 <= lockLosses'
        /\ crashes' = crashes + 1 => crashes + 1 <= crashes'
    BY <1>1 DEF FaultsTyped, DbError, RedisError
  <1> DEFINE calls == dbFaults + redisFaults
             locks == calls + lockLosses
             held == redisFaults + lockLosses
  <1>3. /\ calls \in Nat /\ calls' \in Nat /\ calls <= calls'
        /\ dbFaults + 1 <= dbFaults' \/ redisFaults + 1 <= redisFaults' => calls + 1 <= calls'
    BY <1>1, SumsGrow DEF FaultsTyped
  <1>4. /\ held \in Nat /\ held' \in Nat /\ held <= held'
        /\ redisFaults + 1 <= redisFaults' \/ lockLosses + 1 <= lockLosses' => held + 1 <= held'
    BY <1>1, SumsGrow DEF FaultsTyped
  <1> HIDE DEF calls
  <1>5. /\ locks \in Nat /\ locks' \in Nat /\ locks <= locks'
        /\ calls + 1 <= calls' \/ lockLosses + 1 <= lockLosses' => locks + 1 <= locks'
    BY <1>1, <1>3, SumsGrow DEF FaultsTyped
  <1> HIDE DEF locks, held
  <1>6. /\ Failures \in Nat /\ Failures' \in Nat /\ Failures <= Failures'
        /\ locks + 1 <= locks' \/ crashes + 1 <= crashes' => Failures + 1 <= Failures'
    <2>1. Failures = locks + crashes /\ Failures' = locks' + crashes'
      BY DEF Failures, locks, calls
    <2>2. QED
      BY <1>1, <1>5, <2>1, SumsGrow DEF FaultsTyped
  <1>7. /\ Losses \in Nat /\ Losses' \in Nat /\ Losses <= Losses'
        /\ held + 1 <= held' \/ crashes + 1 <= crashes' => Losses + 1 <= Losses'
    <2>1. Losses = held + crashes /\ Losses' = held' + crashes'
      BY DEF Losses, held
    <2>2. QED
      BY <1>1, <1>4, <2>1, SumsGrow DEF FaultsTyped
  <1>8. QED
    BY <1>2, <1>3, <1>4, <1>5, <1>6, <1>7

LEMMA StepStalls ==
    ASSUME TypeInv, StallsInv, [Next]_vars
    PROVE  StallsInv'
  <1>0. slot \in [Slots -> Slot] /\ NoSlot \notin Slots
    BY QueueAssumption DEF TypeInv, TypeOK, WorkerTypeOK
  <1>1. /\ Losses \in Nat /\ Losses' \in Nat /\ Losses <= Losses'
        /\ RedisError \/ lockLosses' = lockLosses + 1 \/ crashes' = crashes + 1
             => Losses + 1 <= Losses'
    BY FailuresGrow
  <1>2. SUFFICES ASSUME NEW o \in Orders
                 PROVE  job'[o].stalls + (IF Unheld(o)' THEN 1 ELSE 0) <= Losses'
    BY DEF StallsInv, Losses
  <1>3. job[o].stalls + (IF Unheld(o) THEN 1 ELSE 0) <= Losses /\ job[o].stalls \in Nat
    BY JobTyped DEF StallsInv, Losses
  <1>4. ASSUME job'[o].stalls = job[o].stalls, ~Unheld(o)' \/ Unheld(o) \/ Losses + 1 <= Losses'
        PROVE  job'[o].stalls + (IF Unheld(o)' THEN 1 ELSE 0) <= Losses'
    BY <1>1, <1>3, <1>4
  <1>5. ASSUME job'[o] = job[o]
        PROVE  job'[o].stalls + (IF Unheld(o)' THEN 1 ELSE 0) <= Losses'
    BY <1>4, <1>5 DEF Unheld
  <1>6. ASSUME job'[o].stalls = 0, job'[o].state # "active"
        PROVE  job'[o].stalls + (IF Unheld(o)' THEN 1 ELSE 0) <= Losses'
    BY <1>1, <1>6 DEF Unheld
  <1>7. ASSUME NEW p \in Orders, Adds(p)
        PROVE  job'[o].stalls + (IF Unheld(o)' THEN 1 ELSE 0) <= Losses'
    BY <1>5, <1>6, <1>7, AddFlat DEF Adds, JobTo, OtherJobs
  <1>8. ASSUME NEW w \in Slots, NEW p \in Orders, PickJob(w, p)
        PROVE  job'[o].stalls + (IF Unheld(o)' THEN 1 ELSE 0) <= Losses'
    BY <1>0, <1>4, <1>5, <1>8, TakeFlat DEF PickJob, JobTo, OtherJobs, Unheld
  <1>9. ASSUME NEW w \in Slots, SettleJob(w)
        PROVE  job'[o].stalls + (IF Unheld(o)' THEN 1 ELSE 0) <= Losses'
    <2>1. \/ job'[o] = job[o]
          \/ /\ job'[o].stalls = job[o].stalls
             /\ job'[o].state # "active" \/ RedisError
      BY <1>9, SettleFlat DEF JobTo, OtherJobs
    <2>2. QED
      BY <1>1, <1>4, <1>5, <2>1 DEF Unheld
  <1>10. ASSUME NEW p \in Orders, Moves(p)
         PROVE  job'[o].stalls + (IF Unheld(o)' THEN 1 ELSE 0) <= Losses'
    <2>1. CASE p # o
      <3>1. job'[o] = job[o]
        BY <1>10, <2>1, PromoteFlat, LoseLockFlat, StallFlat, RemoveFlat
        DEF Moves, JobTo, OtherJobs
      <3>2. QED
        BY <1>5, <3>1
    <2>2. CASE Promote(o)
      BY <1>4, <2>2, PromoteFlat DEF JobTo, Unheld
    <2>3. CASE LoseLock(o)
      BY <1>1, <1>4, <2>3, LoseLockFlat DEF LoseLock, JobTo
    <2>4. CASE Stall(o)
      BY <1>1, <1>3, <2>4, StallFlat DEF JobTo, Unheld
    <2>5. CASE Remove(o)
      BY <1>6, <2>5, RemoveFlat DEF JobTo
    <2>6. QED
      BY <1>10, <2>1, <2>2, <2>3, <2>4, <2>5 DEF Moves
  <1>11. CASE Crash
    <2>1. job'[o].stalls = job[o].stalls /\ crashes' = crashes + 1
      BY <1>11, JobTyped DEF Crash, QueueCrash, Abandoned, Job
    <2>2. QED
      BY <1>1, <1>4, <2>1
  <1>12. QED
    BY <1>5, <1>7, <1>8, <1>9, <1>10, <1>11, StepKinds

LEMMA StallsInvariant == Spec => []StallsInv
  <1>1. Init => StallsInv
    BY DEF Init, QueueInit, NoJob, StallsInv, Unheld
  <1>2. QED
    BY <1>1, StepStalls, TypeInvariant, PTL DEF Spec

-----------------------------------------------------------------------------
(***************************************************************************)
(* How often an order can be swapped.                                      *)
(***************************************************************************)

\* An attempt that has passed its swap never comes back to it.
LEMMA RunsBeforeSwap ==
    ASSUME TypeInv, NEW w \in Slots, Runs(w)
    PROVE  /\ BeforeSwap(w)' => BeforeSwap(w)
           /\ swaps' # swaps => /\ BeforeSwap(w) /\ ~BeforeSwap(w)'
                                /\ swaps' = [swaps EXCEPT ![slot[w].order] = @ + 1]
  <1>0. slot \in [Slots -> Slot]
    BY DEF TypeInv, TypeOK, WorkerTypeOK
  <1>t. Thrown(w) => ~BeforeSwap(w)'
    BY DEF Thrown, To, BeforeSwap, Updating
  <1>1. CASE FindOrder(w) \/ UpdateProgress(w) \/ Announce(w)
    <2>1. BeforeSwap(w)' => BeforeSwap(w)
      BY <1>0, <1>1, FindOrderFlat, UpdateProgressFlat, AnnounceFlat
      DEF To, BeforeSwap, Updating
    <2>2. QED
      BY <1>1, <2>1 DEF FindOrder, UpdateProgress, Announce
  <1>2. CASE ReadForUpdate(w) \/ SaveUpdate(w) \/ GetQuote(w) \/ Refetch(w)
    <2>1. BeforeSwap(w)' => BeforeSwap(w)
      BY <1>0, <1>t, <1>2, ReadForUpdateFlat, SaveUpdateFlat, GetQuoteFlat, RefetchFlat
      DEF To, BeforeSwap, Updating
    <2>2. QED
      BY <1>2, <2>1 DEF ReadForUpdate, SaveUpdate, GetQuote, Refetch
  <1>3. CASE ExecuteSwap(w)
    BY <1>0, <1>3, ExecuteSwapFlat DEF To, BeforeSwap, Updating
  <1>4. QED
    BY <1>1, <1>2, <1>3 DEF Runs, ProcessStep

\* What a step does to the claims on an order: only taking the job of a market
\* order adds one; a swap turns an attempt before its swap into a swap.
LEMMA StepClaims ==
    ASSUME TypeInv, [Next]_vars, NEW o \in Orders, IsFiniteSet(Swappers(o))
    PROVE  /\ IsFiniteSet(Swappers(o)') /\ Claims(o) \in Nat /\ Claims(o)' \in Nat
           /\ \/ Claims(o)' <= Claims(o)
              \/ /\ Claims(o)' <= Claims(o) + 1 /\ o \notin LimitOrders
                 /\ \E w \in Slots : PickJob(w, o)
  <1>0. /\ slot \in [Slots -> Slot] /\ swaps \in [Orders -> Nat] /\ swaps[o] \in Nat
        /\ Swappers(o) \subseteq Slots
    BY DEF TypeInv, TypeOK, WorkerTypeOK, Swappers
  <1> DEFINE Fewer == swaps'[o] = swaps[o] /\ Swappers(o)' \subseteq Swappers(o)
             Spends(w) == /\ swaps'[o] = swaps[o] + 1 /\ w \in Swappers(o)
                          /\ Swappers(o)' \subseteq Swappers(o) \ {w}
             Gains(w) == /\ swaps'[o] = swaps[o] /\ Swappers(o)' \subseteq Swappers(o) \cup {w}
                         /\ o \notin LimitOrders /\ PickJob(w, o)
  <1>1. Fewer \/ \E w \in Slots : Spends(w) \/ Gains(w)
    <2>1. ASSUME SlotsRest
          PROVE  Fewer
      BY <2>1 DEF SlotsRest, Swappers, BeforeSwap, Updating
    <2>2. ASSUME NEW w \in Slots, Runs(w)
          PROVE  Fewer \/ Spends(w)
      <3>1. /\ SameOrder(w) /\ slot[w].order \in Orders
        BY <2>2, RunsFlat DEF TypeInv, SlotsWellFormed
      <3>2. /\ BeforeSwap(w)' => BeforeSwap(w)
            /\ swaps' # swaps => /\ BeforeSwap(w) /\ ~BeforeSwap(w)'
                                 /\ swaps' = [swaps EXCEPT ![slot[w].order] = @ + 1]
        BY <2>2, RunsBeforeSwap
      <3>3. \A v \in Slots : v \in Swappers(o)' => v \in Swappers(o)
        BY <3>1, <3>2 DEF SameOrder, Swappers, BeforeSwap, Updating
      <3>4. Swappers(o)' \subseteq Swappers(o)
        BY <3>3 DEF Swappers
      <3>5. CASE swaps' # swaps /\ slot[w].order = o
        <4>1. w \in Swappers(o) /\ w \notin Swappers(o)' /\ swaps'[o] = swaps[o] + 1
          BY <1>0, <3>2, <3>5 DEF Swappers
        <4>2. QED
          BY <3>4, <4>1
      <3>6. CASE swaps' = swaps \/ slot[w].order # o
        BY <1>0, <3>1, <3>2, <3>4, <3>6
      <3>7. QED
        BY <3>5, <3>6
    <2>3. ASSUME NEW w \in Slots, NEW p \in Orders, PickJob(w, p)
          PROVE  Fewer \/ Gains(w)
      <3>1. swaps' = swaps
        BY <2>3 DEF PickJob
      <3>2. \A v \in Slots : v \in Swappers(o)' =>
                v \in Swappers(o) \/ (v = w /\ p = o /\ o \notin LimitOrders)
        <4>1. /\ slot'[w].order = p /\ slot'[w].pc = IF p \in LimitOrders THEN "progress" ELSE "find"
              /\ \A v \in Slots \ {w} : slot'[v] = slot[v]
          BY <1>0, <2>3, PickJobFlat
        <4>2. QED
          BY <4>1 DEF Swappers, BeforeSwap, Updating
      <3>3. QED
        BY <2>3, <3>1, <3>2 DEF Swappers
    <2>4. ASSUME NEW w \in Slots, SettleJob(w)
          PROVE  Fewer
      <3>1. swaps' = swaps
        BY <2>4 DEF SettleJob
      <3>2. \A v \in Slots : v \in Swappers(o)' => v \in Swappers(o)
        BY <1>0, <2>4, SettleJobFlat DEF Swappers, BeforeSwap, Updating
      <3>3. QED
        BY <3>1, <3>2 DEF Swappers
    <2>5. ASSUME Crash, swaps' = swaps
          PROVE  Fewer
      BY <2>5 DEF Crash, WorkerCrash, IdleSlot, Swappers, BeforeSwap, Updating
    <2>6. QED
      BY <2>1, <2>2, <2>3, <2>4, <2>5, StepKinds
  <1>2. Cardinality(Swappers(o)) \in Nat
    BY FS_CardinalityType
  <1>3. Claims(o) = swaps[o] + Cardinality(Swappers(o))
        /\ Claims(o)' = swaps'[o] + Cardinality(Swappers(o)')
    BY DEF Claims
  <1> DEFINE now == Cardinality(Swappers(o))
             next == Cardinality(Swappers(o)')
  <1>4. CASE Fewer
    <2>1. IsFiniteSet(Swappers(o)') /\ next \in Nat /\ next <= now
      BY <1>4, FS_Subset, FS_CardinalityType
    <2> HIDE DEF now, next
    <2>2. QED
      BY <1>0, <1>2, <1>3, <1>4, <2>1 DEF now, next
  <1>5. ASSUME NEW w \in Slots, Spends(w)
        PROVE  IsFiniteSet(Swappers(o)') /\ Claims(o)' \in Nat /\ Claims(o)' <= Claims(o)
    <2>1. /\ IsFiniteSet(Swappers(o) \ {w}) /\ Cardinality(Swappers(o) \ {w}) = now - 1
      BY <1>5, FS_RemoveElement
    <2>2. IsFiniteSet(Swappers(o)') /\ next \in Nat /\ next <= Cardinality(Swappers(o) \ {w})
      BY <1>5, <2>1, FS_Subset, FS_CardinalityType
    <2> HIDE DEF now, next
    <2>3. QED
      BY <1>0, <1>2, <1>3, <1>5, <2>1, <2>2 DEF now, next
  <1>6. ASSUME NEW w \in Slots, Gains(w)
        PROVE  IsFiniteSet(Swappers(o)') /\ Claims(o)' \in Nat /\ Claims(o)' <= Claims(o) + 1
    <2>1. /\ IsFiniteSet(Swappers(o) \cup {w})
          /\ Cardinality(Swappers(o) \cup {w}) \in {now, now + 1}
      BY FS_AddElement
    <2>2. IsFiniteSet(Swappers(o)') /\ next \in Nat /\ next <= Cardinality(Swappers(o) \cup {w})
      BY <1>6, <2>1, FS_Subset, FS_CardinalityType
    <2> HIDE DEF now, next
    <2>3. QED
      BY <1>0, <1>2, <1>3, <1>6, <2>1, <2>2 DEF now, next
  <1>7. Claims(o) \in Nat
    BY <1>0, <1>2, <1>3
  <1>8. QED
    BY <1>1, <1>4, <1>5, <1>6, <1>7

\* An attempt is rejected only when a call fails.
LEMMA RejectCosts ==
    ASSUME TypeInv, ControlInv, NEW w \in Slots, Runs(w), slot'[w].pc = "reject"
    PROVE  slot[w].pc # "reject" /\ (DbError \/ RedisError)
  <1>0. slot \in [Slots -> Slot] /\ Controlled(w)
    BY DEF TypeInv, TypeOK, WorkerTypeOK, ControlInv
  <1>t. Thrown(w) => slot[w].inCatch
    BY DEF Thrown, To
  <1>1. CASE FindOrder(w) \/ UpdateProgress(w) \/ Announce(w) \/ ExecuteSwap(w)
    BY <1>0, <1>1, FindOrderFlat, UpdateProgressFlat, AnnounceFlat, ExecuteSwapFlat DEF To
  <1>2. CASE ReadForUpdate(w) \/ SaveUpdate(w) \/ Refetch(w)
    BY <1>0, <1>2, ReadForUpdateFlat, SaveUpdateFlat, RefetchFlat DEF To, SaveError
  <1>3. CASE GetQuote(w)
    BY <1>0, <1>t, <1>3, GetQuoteFlat DEF To, Controlled
  <1>4. QED
    BY <1>1, <1>2, <1>3 DEF Runs, ProcessStep

\* A request that has not queued its order yet has not done so before; it does so once.
LEMMA StepUnqueued ==
    ASSUME TypeInv, [Next]_vars, NEW o \in Orders, Unqueued(o)'
    PROVE  Unqueued(o) /\ ~(EnqueueOrder(o) /\ RedisOk)
  <1>0. request \in [Orders -> RequestPC]
    BY DEF TypeInv, TypeOK, ApiTypeOK
  <1>1. CASE Api
    <2>1. PICK p \in Orders : ExecuteStep(p) \/ CancelCheck(p) \/ CancelStep(p)
      BY <1>1 DEF Api, ApiNext
    <2>2. CASE CancelCheck(p) \/ CancelStep(p)
      BY <1>0, <2>2 DEF CancelCheck, CancelStep, CancelRead, CancelSave, CancelAnnounce,
                        CancelRefetch, Unqueued, EnqueueOrder, Respond
    <2>3. CASE CountActive(p)
      BY <1>0, <2>3 DEF CountActive, Respond, Unqueued, EnqueueOrder
    <2>4. CASE CreateOrder(p)
      BY <1>0, <2>4 DEF CreateOrder, Respond, Unqueued, EnqueueOrder
    <2>5. CASE EnqueueOrder(p)
      BY <1>0, <2>5 DEF EnqueueOrder, Respond, Unqueued
    <2>6. QED
      BY <2>1, <2>2, <2>3, <2>4, <2>5 DEF ExecuteStep
  <1>2. ~(EnqueueOrder(o) /\ RedisOk)
    BY <1>0 DEF EnqueueOrder, Respond, Unqueued
  <1>3. CASE Crash
    BY <1>0, <1>2, <1>3 DEF Crash, ApiCrash, Unqueued
  <1>4. QED
    BY <1>1, <1>2, <1>3 DEF Next, Worker, Monitor, Queue, Clock, apiVars, vars, Unqueued

\* How often a job has been taken: only taking it counts, only an addition starts anew.
LEMMA StepTaken ==
    ASSUME TypeInv, [Next]_vars, NEW o \in Orders, job'[o].state # "none"
    PROVE  /\ Taken(o) \in Nat /\ Taken(o)' \in Nat
           /\ \/ job[o].state = "none" /\ Taken(o)' = 0 /\ Adds(o)
              \/ job[o].state # "none" /\ Taken(o)' = Taken(o)
              \/ \E w \in Slots : PickJob(w, o)
           /\ (\E w \in Slots : PickJob(w, o)) => Taken(o)' = Taken(o) + 1 /\ ~Repaid(o)'
  <1>0. slot \in [Slots -> Slot] /\ NoSlot \notin Slots
    BY QueueAssumption DEF TypeInv, TypeOK, WorkerTypeOK
  <1>1. TypeInv'
    BY StepTyped
  <1>2. Taken(o) \in Nat
    BY JobTyped DEF Taken
  <1>3. job'[o].made \in Nat /\ job'[o].stalls \in Nat
    BY <1>1, QueueAssumption DEF TypeInv, TypeOK, QueueTypeOK, Job
  <1>4. Taken(o)' = job'[o].made + job'[o].stalls
                      + (IF job'[o].state \in {"active", "completed"} THEN 1 ELSE 0)
    BY DEF Taken
  <1>5. job[o].made \in Nat /\ job[o].stalls \in Nat
    BY JobTyped
  <1>6. ASSUME job'[o].state # "none", NEW p \in Orders, Adds(p)
        PROVE  job'[o] = job[o] \/ (job[o].state = "none" /\ Taken(o)' = 0 /\ Adds(o))
    BY <1>4, <1>6, AddFlat DEF Adds, JobTo, OtherJobs
  <1>7. ASSUME NEW w \in Slots, PickJob(w, o)
        PROVE  Taken(o)' = Taken(o) + 1 /\ ~Repaid(o)'
    <2>1. job[o].state = "waiting" /\ JobTo(o, "active", job[o].made, job[o].stalls, w)
      BY <1>7, TakeFlat DEF PickJob
    <2>2. slot'[w].pc # "reject"
      BY <1>0, <1>7, PickJobFlat
    <2>3. Taken(o)' = Taken(o) + 1
      BY <1>4, <1>5, <2>1 DEF JobTo, Taken
    <2>4. ~Repaid(o)'
      BY <1>0, <2>1, <2>2 DEF JobTo, Repaid, Unheld
    <2>5. QED
      BY <2>3, <2>4
  <1>p. ASSUME NEW w \in Slots, NEW p \in Orders \ {o}, PickJob(w, p)
        PROVE  job'[o] = job[o]
    BY <1>p, TakeFlat DEF PickJob, JobTo, OtherJobs
  <1>8. ASSUME NEW w \in Slots, SettleJob(w)
        PROVE  job'[o] = job[o] \/ (job[o].state # "none" /\ Taken(o)' = Taken(o))
    <2>1. CASE slot[w].order # o \/ job' = job
      BY <1>8, <2>1, SettleFlat DEF JobTo, OtherJobs
    <2>2. CASE slot[w].order = o /\ job' # job
      <3>1. job[o].owner = w
        BY <1>8, <2>2, SettleFlat
      <3>2. job[o].state = "active"
        BY <1>0, <3>1 DEF TypeInv, JobsBounded
      <3>3. Taken(o) = job[o].made + job[o].stalls + 1
        BY <3>2 DEF Taken
      <3>4. \/ JobTo(o, "completed", job[o].made, job[o].stalls, NoSlot)
            \/ \E state \in {"delayed", "failed"} :
                 JobTo(o, state, job[o].made + 1, job[o].stalls, NoSlot)
            \/ JobTo(o, "active", job[o].made, job[o].stalls, NoSlot)
        BY <1>8, <2>2, <3>2, SettleFlat
      <3>5. QED
        BY <1>4, <1>5, <3>2, <3>3, <3>4 DEF JobTo
    <2>3. QED
      BY <2>1, <2>2
  <1>9. ASSUME NEW p \in Orders, Moves(p)
        PROVE  job'[o] = job[o] \/ (job[o].state # "none" /\ Taken(o)' = Taken(o))
    <2>1. CASE p # o
      BY <1>9, <2>1, PromoteFlat, LoseLockFlat, StallFlat, RemoveFlat DEF Moves, JobTo, OtherJobs
    <2>2. CASE Promote(o)
      BY <1>4, <2>2, PromoteFlat DEF JobTo, Taken
    <2>3. CASE LoseLock(o)
      <3>1. job[o].state = "active"
        BY <2>3 DEF LoseLock, TypeInv, JobsBounded
      <3>2. QED
        BY <1>4, <2>3, <3>1, LoseLockFlat DEF JobTo, Taken
    <2>4. CASE Stall(o)
      BY <1>4, <1>5, <2>4, StallFlat DEF JobTo, Taken, Unheld
    <2>5. CASE Remove(o)
      BY <2>5, RemoveFlat DEF JobTo
    <2>6. QED
      BY <1>9, <2>1, <2>2, <2>3, <2>4, <2>5 DEF Moves
  <1>10. ASSUME Crash
         PROVE  job[o].state # "none" /\ Taken(o)' = Taken(o)
    <2>1. job'[o].state = job[o].state /\ job'[o].made = job[o].made
          /\ job'[o].stalls = job[o].stalls
      BY <1>10, JobTyped DEF Crash, QueueCrash, Abandoned, Job
    <2>2. QED
      BY <1>2, <1>4, <2>1 DEF Taken
  <1>11. Taken(o)' \in Nat
    BY <1>3, <1>4
  <1>12. ASSUME job'[o] = job[o]
         PROVE  job[o].state # "none" /\ Taken(o)' = Taken(o)
    BY <1>4, <1>12 DEF Taken
  <1>13. \/ job[o].state = "none" /\ Taken(o)' = 0 /\ Adds(o)
         \/ job[o].state # "none" /\ Taken(o)' = Taken(o)
         \/ \E w \in Slots : PickJob(w, o)
    <2>1. CASE \E w \in Slots, p \in Orders : PickJob(w, p)
      BY <1>p, <1>12, <2>1
    <2>2. CASE \E p \in Orders : Adds(p)
      BY <1>6, <1>12, <2>2
    <2>3. CASE job' = job
      BY <1>12, <2>3
    <2>4. QED
      BY <1>8, <1>9, <1>10, <1>12, <2>1, <2>2, <2>3, StepKinds
  <1>14. QED
    BY <1>2, <1>7, <1>11, <1>13

\* Another attempt at a job is due to a failure, unless it was so before.
LEMMA StepRepaid ==
    ASSUME TypeInv, ControlInv, OwnerInv, [Next]_vars, NEW o \in Orders,
           job[o].state # "none", Repaid(o)'
    PROVE  Repaid(o) \/ Failures + 1 <= Failures'
  <1>0. slot \in [Slots -> Slot] /\ NoSlot \notin Slots
    BY QueueAssumption DEF TypeInv, TypeOK, WorkerTypeOK
  <1>f. DbError \/ RedisError \/ lockLosses' = lockLosses + 1 \/ crashes' = crashes + 1
            => Failures + 1 <= Failures'
    BY FailuresGrow
  <1>1. ASSUME job'[o] = job[o], slot' = slot
        PROVE  Repaid(o)
    BY <1>1 DEF Repaid, Unheld
  <1>2. ASSUME NEW w \in Slots, Runs(w), job' = job
        PROVE  Repaid(o) \/ Failures + 1 <= Failures'
    <2>1. CASE job[o].owner = w /\ slot'[w].pc = "reject"
      BY <1>f, <1>2, <2>1, RejectCosts
    <2>2. CASE job[o].owner # w \/ slot'[w].pc # "reject"
      <3>1. \A v \in Slots \ {w} : slot'[v] = slot[v]
        BY <1>2, RunsFlat DEF SameOrder
      <3>2. QED
        BY <1>0, <1>2, <2>2, <3>1, JobTyped DEF Repaid, Unheld
    <2>3. QED
      BY <2>1, <2>2
  <1>3. ASSUME NEW p \in Orders, Adds(p), SlotsRest
        PROVE  Repaid(o)
    <2>1. job'[o] = job[o]
      BY <1>3, AddFlat DEF Adds, JobTo, OtherJobs
    <2>2. QED
      BY <1>1, <1>3, <2>1 DEF SlotsRest
  <1>4. ASSUME NEW w \in Slots, NEW p \in Orders, PickJob(w, p)
        PROVE  Repaid(o)
    <2>1. CASE p = o
      BY <1>4, <2>1, TakeFlat DEF PickJob, Repaid
    <2>2. CASE p # o
      <3>1. job'[o] = job[o]
        BY <1>4, <2>2, TakeFlat DEF PickJob, JobTo, OtherJobs
      <3>2. \A v \in Slots \ {w} : slot'[v] = slot[v]
        BY <1>0, <1>4, PickJobFlat
      <3>3. slot'[w].pc # "reject"
        BY <1>0, <1>4, PickJobFlat
      <3>4. QED
        BY <1>0, <3>1, <3>2, <3>3, JobTyped DEF Repaid, Unheld
    <2>3. QED
      BY <2>1, <2>2
  <1>5. ASSUME NEW w \in Slots, SettleJob(w)
        PROVE  Repaid(o) \/ Failures + 1 <= Failures'
    <2>1. \A v \in Slots \ {w} : slot'[v] = slot[v]
      BY <1>0, <1>5, SettleJobFlat
    <2>2. slot'[w].pc # "reject"
      BY <1>0, <1>5, SettleJobFlat
    <2>3. CASE job'[o] = job[o]
      BY <1>0, <2>1, <2>2, <2>3, JobTyped DEF Repaid, Unheld
    <2>4. CASE job'[o] # job[o]
      <3>1. slot[w].order = o /\ job[o].owner = w
        BY <1>5, <2>4, SettleFlat DEF JobTo, OtherJobs
      <3>2. job[o].state = "active"
        BY <1>0, <3>1 DEF TypeInv, JobsBounded
      <3>3. \/ job'[o].state = "completed" \/ slot[w].pc = "reject" \/ RedisError
        BY <1>5, <2>4, <3>1, SettleFlat DEF JobTo
      <3>4. QED
        BY <1>f, <3>1, <3>2, <3>3 DEF Repaid, Unheld
    <2>5. QED
      BY <2>3, <2>4
  <1>6. ASSUME NEW p \in Orders, Moves(p), SlotsRest
        PROVE  Repaid(o) \/ Failures + 1 <= Failures'
    <2>1. CASE p # o
      <3>1. job'[o] = job[o]
        BY <1>6, <2>1, PromoteFlat, LoseLockFlat, StallFlat, RemoveFlat
        DEF Moves, JobTo, OtherJobs
      <3>2. QED
        BY <1>1, <1>6, <3>1 DEF SlotsRest
    <2>2. CASE Promote(o)
      BY <2>2, PromoteFlat DEF Repaid
    <2>3. CASE LoseLock(o)
      BY <1>f, <2>3 DEF LoseLock
    <2>4. CASE Stall(o)
      BY <2>4, StallFlat DEF Repaid
    <2>5. CASE Remove(o)
      BY <2>5, RemoveFlat DEF JobTo, Repaid, Unheld
    <2>6. QED
      BY <1>6, <2>1, <2>2, <2>3, <2>4, <2>5 DEF Moves
  <1>7. CASE Crash
    BY <1>f, <1>7 DEF Crash
  <1>8. QED
    BY <1>1, <1>2, <1>3, <1>4, <1>5, <1>6, <1>7, StepKinds DEF SlotsRest

\* Who adds the job of an order: a limit order's round, or the request that has not
\* queued it yet.
LEMMA AddsWhere ==
    ASSUME TypeInv, LimitsInv, NEW o \in Orders, Adds(o)
    PROVE  o \in LimitOrders \/ (Unqueued(o) /\ EnqueueOrder(o) /\ RedisOk)
  BY DEF Adds, EnqueueOrder, Unqueued, TriggerEnqueue, LimitsInv

\* The claims on an order never exceed how often its job was taken, and every time
\* but the first one is paid for by a failure.
LEMMA StepAttempts ==
    ASSUME TypeInv, ControlInv, LimitsInv, OwnerInv, AttemptsInv, [Next]_vars
    PROVE  AttemptsInv'
  <1> DEFINE most == MaxRetryAttempts + MaxStalledCount
  <1>0. most \in Nat /\ MaxRetryAttempts \in Nat /\ MaxStalledCount \in Nat
    BY QueueAssumption
  <1>f. Failures \in Nat /\ Failures' \in Nat /\ Failures <= Failures'
    BY FailuresGrow
  <1>1. SUFFICES ASSUME NEW o \in Orders
                 PROVE  /\ IsFiniteSet(Swappers(o))'
                        /\ Claims(o)' <= most /\ Claims(o)' <= 1 + Failures'
                        /\ o \in LimitOrders => Claims(o)' = 0
                        /\ o \notin LimitOrders /\ Unqueued(o)' =>
                              job'[o].state = "none" /\ Claims(o)' = 0
                        /\ job'[o].state # "none" =>
                              /\ Claims(o)' <= Taken(o)' /\ Taken(o)' <= most
                              /\ Taken(o)' <= 1 + Failures'
                              /\ Repaid(o)' => Taken(o)' <= Failures'
    BY DEF AttemptsInv
  <1>2. /\ IsFiniteSet(Swappers(o))
        /\ Claims(o) <= most /\ Claims(o) <= 1 + Failures
        /\ o \in LimitOrders => Claims(o) = 0
        /\ o \notin LimitOrders /\ Unqueued(o) => job[o].state = "none" /\ Claims(o) = 0
        /\ job[o].state # "none" =>
              /\ Claims(o) <= Taken(o) /\ Taken(o) <= most /\ Taken(o) <= 1 + Failures
              /\ Repaid(o) => Taken(o) <= Failures
    BY DEF AttemptsInv
  <1>3. /\ IsFiniteSet(Swappers(o)') /\ Claims(o) \in Nat /\ Claims(o)' \in Nat
        /\ \/ Claims(o)' <= Claims(o)
           \/ /\ Claims(o)' <= Claims(o) + 1 /\ o \notin LimitOrders
              /\ \E w \in Slots : PickJob(w, o)
    BY <1>2, StepClaims
  <1> HIDE DEF most
  <1>4. ASSUME NEW w \in Slots, PickJob(w, o)
        PROVE  /\ job[o].state = "waiting" /\ job'[o].state = "active" /\ Taken(o) + 1 <= most
               /\ Taken(o) \in Nat
               /\ o \notin LimitOrders => ~Unqueued(o)'
    <2>1. job[o].state = "waiting" /\ JobTo(o, "active", job[o].made, job[o].stalls, w)
      BY <1>4, TakeFlat DEF PickJob
    <2>2. job[o].made + 1 <= MaxRetryAttempts /\ job[o].stalls <= MaxStalledCount
      BY <1>0, <2>1, JobTyped DEF TypeInv, JobsBounded, Live
    <2>3. Taken(o) + 1 <= most /\ Taken(o) \in Nat
      BY <1>0, <2>1, <2>2, JobTyped DEF Taken, most
    <2>4. QED
      BY <1>2, <2>1, <2>3, StepUnqueued DEF JobTo
  <1>5. CASE \E w \in Slots : PickJob(w, o)
    <2>1. /\ Taken(o) \in Nat /\ Taken(o)' = Taken(o) + 1 /\ ~Repaid(o)'
      BY <1>4, <1>5, StepTaken
    <2>2. /\ Taken(o) + 1 <= most /\ Claims(o) <= Taken(o)
          /\ Taken(o) <= Failures
      BY <1>2, <1>4, <1>5 DEF Repaid
    <2>3. Claims(o)' <= Taken(o) + 1
      BY <1>2, <1>3, <2>1, <2>2
    <2>4. o \in LimitOrders => Claims(o)' = 0
      BY <1>2, <1>3
    <2>5. o \notin LimitOrders => ~Unqueued(o)'
      BY <1>4, <1>5
    <2>6. QED
      BY <1>0, <1>3, <1>f, <2>1, <2>2, <2>3, <2>4, <2>5
  <1>6. CASE ~\E w \in Slots : PickJob(w, o)
    <2>1. Claims(o)' <= Claims(o)
      BY <1>3, <1>6
    <2>2. ASSUME job'[o].state # "none"
          PROVE  /\ Claims(o)' <= Taken(o)' /\ Taken(o)' <= most
                 /\ Taken(o)' <= 1 + Failures'
                 /\ Repaid(o)' => Taken(o)' <= Failures'
      <3>1. CASE job[o].state = "none" /\ Taken(o)' = 0 /\ Adds(o)
        <4>1. Claims(o) = 0
          BY <1>2, <3>1, AddsWhere
        <4>2. QED
          BY <1>0, <1>3, <1>f, <2>1, <3>1, <4>1
      <3>2. CASE job[o].state # "none" /\ Taken(o)' = Taken(o)
        <4>1. Taken(o) \in Nat
          BY <2>2, StepTaken
        <4>2. Repaid(o)' => Repaid(o) \/ Failures + 1 <= Failures'
          BY <3>2, StepRepaid
        <4>3. QED
          BY <1>0, <1>2, <1>3, <1>f, <2>1, <3>2, <4>1, <4>2
      <3>3. QED
        BY <1>6, <2>2, <3>1, <3>2, StepTaken
    <2>3. ASSUME o \notin LimitOrders, Unqueued(o)'
          PROVE  job'[o].state = "none" /\ Claims(o)' = 0
      <3>1. Unqueued(o) /\ ~(EnqueueOrder(o) /\ RedisOk)
        BY <2>3, StepUnqueued
      <3>2. job[o].state = "none" /\ Claims(o) = 0
        BY <1>2, <2>3, <3>1
      <3>3. job'[o].state = "none"
        BY <1>6, <2>3, <3>1, <3>2, StepTaken, AddsWhere
      <3>4. QED
        BY <1>3, <2>1, <3>2, <3>3
    <2>4. QED
      BY <1>0, <1>2, <1>3, <1>f, <2>1, <2>2, <2>3
  <1>7. QED
    BY <1>5, <1>6

LEMMA AttemptsInvariant == Spec => []AttemptsInv
  <1>1. Init => AttemptsInv
    <2>1. MaxRetryAttempts + MaxStalledCount \in Nat
      BY QueueAssumption
    <2>2. ASSUME Init
          PROVE  Failures = 0
      BY <2>2 DEF Init, StoreInit, QueueInit, Failures
    <2>3. ASSUME Init, NEW o \in Orders
          PROVE  IsFiniteSet(Swappers(o)) /\ Claims(o) = 0 /\ job[o].state = "none"
      <3>1. Swappers(o) = {}
        BY <2>3 DEF Init, WorkerInit, IdleSlot, Swappers, BeforeSwap, Updating
      <3>2. QED
        BY <2>3, <3>1, FS_EmptySet DEF Init, WorkerInit, QueueInit, NoJob, Claims
    <2>4. QED
      BY <2>1, <2>2, <2>3 DEF AttemptsInv
  <1>2. QED
    BY <1>1, StepAttempts, TypeInvariant, ControlInvariant, LimitsInvariant, OwnerInvariant,
       PTL DEF Spec

LEMMA SwapsClaimed ==
    ASSUME TypeInv, AttemptsInv, NEW o \in Orders
    PROVE  /\ swaps[o] <= MaxRetryAttempts + MaxStalledCount
           /\ Failures \in Nat => swaps[o] <= 1 + Failures
  <1>1. swaps[o] \in Nat /\ Cardinality(Swappers(o)) \in Nat
    BY FS_CardinalityType DEF AttemptsInv, TypeInv, TypeOK, WorkerTypeOK
  <1>2. /\ swaps[o] + Cardinality(Swappers(o)) <= MaxRetryAttempts + MaxStalledCount
        /\ swaps[o] + Cardinality(Swappers(o)) <= 1 + Failures
    BY DEF AttemptsInv, Claims
  <1>3. MaxRetryAttempts + MaxStalledCount \in Nat
    BY QueueAssumption
  <1>4. QED
    BY <1>1, <1>2, <1>3

\* An order is not swapped more often than its job may be attempted and stall,
\* whatever fails, however often the process restarts, and although attempts that
\* have lost their lock go on and the same job may be removed.
THEOREM SwapsAreBounded == Spec => []SwapsWithinAttempts
  <1>1. TypeInv /\ AttemptsInv => SwapsWithinAttempts
    BY SwapsClaimed DEF SwapsWithinAttempts
  <1>2. QED
    BY <1>1, TypeInvariant, AttemptsInvariant, PTL

\* Every swap of an order after its first one is paid for by a failure of its own:
\* a rejected call, a lost lock or a crash.
THEOREM ExtraSwapsArePaid == Spec => []ExtraSwapsCostFailures
  <1>1. TypeInv => Failures \in Nat
    BY OrdersAssumption, QueueAssumption, EngineAssumption
    DEF TypeInv, TypeOK, StoreTypeOK, QueueTypeOK, Failures
  <1>2. TypeInv /\ AttemptsInv => ExtraSwapsCostFailures
    BY <1>1, SwapsClaimed DEF ExtraSwapsCostFailures
  <1>3. QED
    BY <1>2, TypeInvariant, AttemptsInvariant, PTL

-----------------------------------------------------------------------------
(***************************************************************************)
(* Market orders that have ended.                                          *)
(***************************************************************************)

\* Who changes the status of a market order, and to what.
LEMMA MarketWrites ==
    ASSUME TypeInv, FreshInv, LimitsInv, [Next]_vars, NEW o \in MarketOrders,
           status'[o] # status[o]
    PROVE  \/ \E w \in Slots : /\ SaveUpdate(w) /\ slot[w].order = o
                               /\ slot[w].snap # slot[w].target
                               /\ status'[o] = slot[w].target
           \/ status'[o] = "CANCELLED" /\ cancel[o].pc # "idle"
           \/ Inserts(o) /\ status[o] = NoDoc /\ status'[o] = "PENDING"
  <1>0. o \in Orders /\ o \notin LimitOrders
    BY OrdersAssumption DEF Orders
  <1>1. ASSUME NEW w \in Slots, SaveUpdate(w), WorkerSaves(w)
        PROVE  /\ slot[w].order = o /\ slot[w].snap # slot[w].target
               /\ status'[o] = slot[w].target
    <2>1. slot[w].order \in Orders
      BY <1>1, SaversRefer
    <2>2. QED
      BY <1>0, <1>1, <2>1, SaveFlat DEF WorkerSaves
  <1>2. ASSUME NEW p \in Orders, CancelSaves(p)
        PROVE  status'[o] = "CANCELLED" /\ cancel[o].pc # "idle"
    BY <1>0, <1>2, SaveFlat DEF CancelSaves
  <1>3. ASSUME NEW r \in Rounds, NEW p \in Orders, RoundSaves(r, p) \/ TaskSaves(r, p)
        PROVE  FALSE
    <2>1. p \in LimitOrders
      BY <1>3 DEF RoundSaves, TaskSaves, LimitsInv
    <2>2. QED
      BY <1>0, <1>3, <2>1, SaveFlat DEF RoundSaves, TaskSaves
  <1>4. ASSUME NEW p \in Orders, Inserts(p)
        PROVE  Inserts(o) /\ status[o] = NoDoc /\ status'[o] = "PENDING"
    <2>1. p = o
      BY <1>0, <1>4, InsertDocFlat DEF Inserts
    <2>2. QED
      BY <1>0, <1>4, <2>1, InsertDocFlat DEF Inserts, InitialStatus, FreshInv
  <1>5. QED
    BY <1>1, <1>2, <1>3, <1>4, StepWrites DEF DocWrites, docVars

\* A market order leaves a final status only by the update of a worker.
LEMMA LeavesFinal ==
    ASSUME TypeInv, FreshInv, LimitsInv, [Next]_vars, NEW o \in MarketOrders,
           status[o] \in FinalStatus, status'[o] \notin FinalStatus
    PROVE  \E w \in Slots : /\ SaveUpdate(w) /\ slot[w].order = o
                            /\ slot[w].target \notin FinalStatus
  BY MarketWrites DEF FinalStatus, NoDoc

\* What an attempt that has stored the end of its order did in this step.
LEMMA RunsEnded ==
    ASSUME TypeInv, ControlInv, NEW w \in Slots, Runs(w), Ended(w)'
    PROVE  \/ Ended(w) /\ ~SaveUpdate(w)
           \/ ReadForUpdate(w) /\ status[slot[w].order] \in FinalStatus
           \/ /\ SaveUpdate(w)
              /\ slot[w].target \in FinalStatus
              /\ Save(slot[w].order, slot[w].snap, slot[w].target, HashToSave(slot[w]))
  <1>0. slot \in [Slots -> Slot] /\ Controlled(w)
    BY DEF TypeInv, TypeOK, WorkerTypeOK, ControlInv
  <1>t. ~Thrown(w)
    BY DEF Thrown, To, Ended
  <1>1. CASE FindOrder(w) \/ ExecuteSwap(w) \/ GetQuote(w)
    BY <1>0, <1>t, <1>1, FindOrderFlat, ExecuteSwapFlat, GetQuoteFlat DEF To, Ended
  <1>2. CASE UpdateProgress(w) \/ Refetch(w)
    BY <1>0, <1>t, <1>2, UpdateProgressFlat, RefetchFlat DEF To, Ended, SaveUpdate
  <1>3. CASE ReadForUpdate(w)
    BY <1>0, <1>t, <1>3, ReadForUpdateFlat DEF To, Ended
  <1>4. CASE SaveUpdate(w)
    BY <1>0, <1>t, <1>4, SaveUpdateFlat DEF To, Ended
  <1>5. CASE Announce(w)
    <2>1. slot[w].pc = "announce" /\ slot[w].target \in WorkerTarget
      BY <1>0, <1>5, AnnounceFlat DEF Controlled, Updating
    <2>2. slot[w].target \in FinalStatus \/ To(w, "quote", slot[w].target, slot[w].inCatch)
          \/ To(w, "swap", slot[w].target, slot[w].inCatch)
          \/ To(w, "read", "CONFIRMED", slot[w].inCatch)
      BY <1>0, <1>5, <2>1, AnnounceFlat DEF WorkerTarget, FinalStatus
    <2>3. QED
      BY <2>1, <2>2 DEF To, Ended, SaveUpdate
  <1>6. QED
    BY <1>1, <1>2, <1>3, <1>4, <1>5 DEF Runs, ProcessStep

\* A job completes when its attempt returns.
LEMMA StepCompletes ==
    ASSUME TypeInv, [Next]_vars, NEW o \in Orders,
           job'[o].state = "completed", job[o].state # "completed"
    PROVE  \E w \in Slots : SettleJob(w) /\ slot[w].order = o /\ slot[w].pc = "resolve"
  <1>0. NoSlot \notin Slots
    BY QueueAssumption
  <1>1. ASSUME NEW p \in Orders, Adds(p) \/ Moves(p) \/ \E w \in Slots : PickJob(w, p)
        PROVE  FALSE
    <2>1. CASE Adds(p)
      BY <2>1, AddFlat DEF Adds, JobTo, OtherJobs
    <2>2. CASE Moves(p)
      <3>1. CASE p # o
        BY <2>2, <3>1, PromoteFlat, LoseLockFlat, StallFlat, RemoveFlat DEF Moves, JobTo, OtherJobs
      <3>2. CASE p = o
        BY <2>2, <3>2, PromoteFlat, LoseLockFlat, StallFlat, RemoveFlat DEF Moves, JobTo
      <3>3. QED
        BY <3>1, <3>2
    <2>3. CASE \E w \in Slots : PickJob(w, p)
      BY <2>3, TakeFlat DEF PickJob, JobTo, OtherJobs
    <2>4. QED
      BY <1>1, <2>1, <2>2, <2>3
  <1>2. ASSUME NEW w \in Slots, SettleJob(w)
        PROVE  slot[w].order = o /\ slot[w].pc = "resolve"
    BY <1>0, <1>2, SettleFlat DEF JobTo, OtherJobs
  <1>3. ~Crash
    BY JobTyped DEF Crash, QueueCrash, Abandoned, Job
  <1>4. QED
    BY <1>1, <1>2, <1>3, StepKinds

\* While no lock is lost, an order whose attempt has stored its end, or whose job has
\* completed, is in a final status: nobody else runs it, and a late cancel stores
\* another final status.
LEMMA StepEnd ==
    ASSUME TypeInv, ControlInv, FreshInv, LimitsInv, LockInv, EndInv, [Next]_vars
    PROVE  EndInv'
  <1>0. slot \in [Slots -> Slot] /\ NoSlot \notin Slots
    BY QueueAssumption DEF TypeInv, TypeOK, WorkerTypeOK
  <1>1. SUFFICES ASSUME lockLosses' = 0
                 PROVE  /\ \A o \in MarketOrders :
                             job'[o].state = "completed" => status'[o] \in FinalStatus
                        /\ \A w \in Slots : slot'[w].order \in MarketOrders /\ Ended(w)' =>
                             status'[slot'[w].order] \in FinalStatus
    BY DEF EndInv, CompletedJobIsFinal
  <1>2. lockLosses = 0
    BY <1>1, FaultsGrow DEF FaultsTyped
  <1>3. /\ \A o \in MarketOrders : job[o].state = "completed" => status[o] \in FinalStatus
        /\ \A w \in Slots : slot[w].order \in MarketOrders /\ Ended(w) =>
              status[slot[w].order] \in FinalStatus
        /\ \A w \in Slots : Busy(w) => job[slot[w].order].owner = w
    BY <1>2 DEF EndInv, CompletedJobIsFinal, LockInv
  <1>4. MarketOrders \subseteq Orders
    BY DEF Orders
  <1>5. ASSUME NEW w \in Slots, SaveUpdate(w)
        PROVE  Busy(w) /\ slot'[w] # slot[w]
    <2>1. slot[w].pc = "save" /\ slot'[w].pc # "save"
      BY <1>0, <1>5, SaveUpdateFlat DEF Thrown, To
    <2>2. QED
      BY <2>1 DEF Busy
  <1>6. ASSUME NEW o \in MarketOrders, job'[o].state = "completed"
        PROVE  status'[o] \in FinalStatus
    <2>1. CASE job[o].state = "completed"
      <3>1. ASSUME NEW w \in Slots, SaveUpdate(w), slot[w].order = o
            PROVE  FALSE
        BY <1>0, <1>3, <1>4, <1>5, <2>1, <3>1 DEF TypeInv, JobsBounded
      <3>2. QED
        BY <1>3, <2>1, <3>1, LeavesFinal
    <2>2. CASE job[o].state # "completed"
      <3>1. PICK w \in Slots : SettleJob(w) /\ slot[w].order = o /\ slot[w].pc = "resolve"
        BY <1>4, <1>6, <2>2, StepCompletes
      <3>2. status' = status
        BY <3>1 DEF SettleJob, storeVars
      <3>3. QED
        BY <1>3, <3>1, <3>2 DEF Ended
    <2>3. QED
      BY <2>1, <2>2
  <1>7. ASSUME NEW w \in Slots, slot'[w].order \in MarketOrders, Ended(w)'
        PROVE  status'[slot'[w].order] \in FinalStatus
    <2> DEFINE o == slot'[w].order
    <2>1. ASSUME slot[w].order = o, Ended(w), ~SaveUpdate(w)
          PROVE  status'[o] \in FinalStatus
      <3>1. Busy(w) /\ job[o].owner = w /\ status[o] \in FinalStatus
        BY <1>3, <1>7, <2>1 DEF Ended, Busy
      <3>2. ASSUME NEW v \in Slots, SaveUpdate(v), slot[v].order = o
            PROVE  FALSE
        BY <1>3, <1>5, <2>1, <3>1, <3>2
      <3>3. QED
        BY <1>7, <3>1, <3>2, LeavesFinal
    <2>2. CASE slot'[w] = slot[w]
      BY <1>5, <1>7, <2>1, <2>2 DEF Ended
    <2>3. CASE Runs(w)
      <3>1. slot[w].order = o /\ o \in Orders
        BY <1>4, <1>7, <2>3, RunsFlat DEF SameOrder
      <3>2. CASE ReadForUpdate(w) /\ status[o] \in FinalStatus
        BY <3>2 DEF ReadForUpdate, docVars
      <3>3. CASE /\ SaveUpdate(w) /\ slot[w].target \in FinalStatus
                 /\ Save(slot[w].order, slot[w].snap, slot[w].target, HashToSave(slot[w]))
        <4>1. CASE slot[w].snap = slot[w].target
          <5>1. Ended(w)
            BY <1>0, <3>3, <4>1, SaveUpdateFlat DEF Ended
          <5>2. status[o] \in FinalStatus
            BY <1>3, <1>7, <3>1, <5>1
          <5>3. QED
            BY <3>1, <3>3, <4>1, <5>2, SaveFlat
        <4>2. CASE slot[w].snap # slot[w].target
          BY <3>1, <3>3, <4>2, SaveFlat
        <4>3. QED
          BY <4>1, <4>2
      <3>4. QED
        BY <1>7, <2>1, <2>3, <3>1, <3>2, <3>3, RunsEnded
    <2>4. ASSUME slot'[w] # slot[w], ~Runs(w)
          PROVE  FALSE
      <3>1. ASSUME NEW p \in Orders, PickJob(w, p)
            PROVE  FALSE
        BY <1>0, <1>7, <3>1, OrdersAssumption, PickJobFlat DEF Ended
      <3>2. ASSUME NEW v \in Slots, v # w, Runs(v) \/ SettleJob(v) \/ \E p \in Orders : PickJob(v, p)
            PROVE  FALSE
        BY <1>0, <2>4, <3>2, RunsFlat, SettleJobFlat, PickJobFlat DEF SameOrder
      <3>3. ~SettleJob(w) /\ ~Crash
        <4>1. slot'[w].order # NoOrder
          BY <1>4, <1>7, WorkerAssumption
        <4>2. ~SettleJob(w)
          BY <1>0, <4>1, SettleJobFlat
        <4>3. Crash => slot'[w] = IdleSlot
          BY DEF Crash, WorkerCrash
        <4>4. QED
          BY <4>1, <4>2, <4>3 DEF IdleSlot
      <3>4. slot' # slot
        BY <2>4
      <3>5. QED
        BY <2>4, <3>1, <3>2, <3>3, <3>4, StepKinds DEF SlotsRest
    <2>5. QED
      BY <2>2, <2>3, <2>4
  <1>8. QED
    BY <1>6, <1>7

\* A market order whose job has completed is in a final status and stays in one, while
\* no lock is lost under a live worker; also if a cancel request that passed its
\* check earlier still runs, and if the process restarts.
THEOREM CompletedIsFinal == Spec => []CompletedJobIsFinal
  <1>1. Init => LockInv /\ EndInv
    <2>1. ASSUME Init
          PROVE  /\ \A w \in Slots : slot[w] = IdleSlot
                 /\ \A o \in Orders : job[o].state # "completed"
      BY <2>1 DEF Init, WorkerInit, QueueInit, NoJob
    <2>2. ASSUME \A w \in Slots : slot[w] = IdleSlot
          PROVE  \A w \in Slots : ~Busy(w) /\ ~Ended(w)
      BY <2>2 DEF IdleSlot, Busy, Ended
    <2>3. QED
      BY <2>1, <2>2 DEF LockInv, EndInv, CompletedJobIsFinal, Orders
  <1>2. TypeInv /\ LockInv /\ [Next]_vars => LockInv'
    BY StepLocks
  <1>3. TypeInv /\ ControlInv /\ FreshInv /\ LimitsInv /\ LockInv /\ EndInv /\ [Next]_vars => EndInv'
    BY StepEnd
  <1>4. EndInv => CompletedJobIsFinal
    BY DEF EndInv
  <1>5. QED
    BY <1>1, <1>2, <1>3, <1>4, TypeInvariant, ControlInvariant, FreshInvariant, LimitsInvariant,
       PTL DEF Spec

-----------------------------------------------------------------------------
(***************************************************************************)
(* Accepted orders.                                                        *)
(***************************************************************************)

\* A market order that has left PENDING never returns there.
LEMMA NeverPendingAgain ==
    ASSUME TypeInv, ControlInv, FreshInv, LimitsInv, [Next]_vars, NEW o \in MarketOrders,
           status'[o] = "PENDING"
    PROVE  status[o] = "PENDING" \/ (status[o] = NoDoc /\ Inserts(o))
  <1>1. ASSUME NEW w \in Slots, SaveUpdate(w)
        PROVE  slot[w].target # "PENDING"
    <2>1. slot[w].pc = "save" /\ Controlled(w)
      BY <1>1 DEF SaveUpdate, ControlInv
    <2>2. QED
      BY <2>1 DEF Controlled, Updating, WorkerTarget
  <1>2. QED
    BY <1>1, MarketWrites

\* What an attempt did in this step that has seen or stored that its order has begun.
LEMMA RunsBegun ==
    ASSUME TypeInv, ControlInv, NEW w \in Slots, Runs(w), Begun(w)', ~DbError
    PROVE  \/ Begun(w)
           \/ ReadForUpdate(w) /\ status[slot[w].order] # "PENDING"
           \/ /\ SaveUpdate(w) /\ slot[w].target # "PENDING" /\ slot[w].snap # slot[w].target
              /\ Save(slot[w].order, slot[w].snap, slot[w].target, HashToSave(slot[w]))
  <1>0. slot \in [Slots -> Slot] /\ Controlled(w)
    BY DEF TypeInv, TypeOK, WorkerTypeOK, ControlInv
  <1>1. CASE FindOrder(w)
    BY <1>0, <1>1, FindOrderFlat DEF To, Begun, Updating
  <1>2. CASE UpdateProgress(w) \/ Refetch(w) \/ ExecuteSwap(w) \/ GetQuote(w) \/ Announce(w)
    BY <1>0, <1>2, UpdateProgressFlat, RefetchFlat, ExecuteSwapFlat, GetQuoteFlat, AnnounceFlat
    DEF Begun
  <1>3. CASE ReadForUpdate(w)
    BY <1>0, <1>3, ReadForUpdateFlat DEF To, Begun, Updating
  <1>4. CASE SaveUpdate(w)
    <2>1. slot[w].pc = "save" /\ slot[w].target # "PENDING"
      BY <1>0, <1>4, SaveUpdateFlat DEF Controlled, Updating, WorkerTarget
    <2>2. Save(slot[w].order, slot[w].snap, slot[w].target, HashToSave(slot[w]))
      BY <1>0, <1>4, SaveUpdateFlat DEF SaveError
    <2>3. slot[w].snap = slot[w].target => Begun(w)
      BY <2>1 DEF Begun
    <2>4. QED
      BY <1>4, <2>1, <2>2, <2>3
  <1>5. QED
    BY <1>1, <1>2, <1>3, <1>4 DEF Runs, ProcessStep

\* The answer 201 follows the addition of the job.
LEMMA StepAccepts ==
    ASSUME TypeInv, [Next]_vars, NEW o \in Orders,
           request'[o] = "accepted", request[o] # "accepted"
    PROVE  EnqueueOrder(o) /\ RedisOk /\ Add(o) /\ status' = status
  <1>0. request \in [Orders -> RequestPC]
    BY DEF TypeInv, TypeOK, ApiTypeOK
  <1>1. CASE Api
    <2>1. PICK p \in Orders : ExecuteStep(p) \/ CancelCheck(p) \/ CancelStep(p)
      BY <1>1 DEF Api, ApiNext
    <2>2. CASE CancelCheck(p) \/ CancelStep(p)
      BY <2>2 DEF CancelCheck, CancelStep, CancelRead, CancelSave, CancelAnnounce, CancelRefetch
    <2>3. CASE CountActive(p)
      BY <1>0, <2>3 DEF CountActive, Respond
    <2>4. CASE CreateOrder(p)
      BY <1>0, <2>4 DEF CreateOrder, Respond
    <2>5. CASE EnqueueOrder(p)
      BY <1>0, <2>5 DEF EnqueueOrder, Respond, storeVars
    <2>6. QED
      BY <2>1, <2>2, <2>3, <2>4, <2>5 DEF ExecuteStep
  <1>2. CASE Crash
    BY <1>0, <1>2 DEF Crash, ApiCrash
  <1>3. QED
    BY <1>1, <1>2 DEF Next, Worker, Monitor, Queue, Clock, apiVars, vars

\* A job stops being live when its attempt ends or when it has stalled too often.
LEMMA StepDies ==
    ASSUME TypeInv, [Next]_vars, NEW o \in Orders, job[o].state \in Live, job'[o].state \notin Live
    PROVE  \/ \E w \in Slots : SettleJob(w) /\ slot[w].order = o
           \/ Unheld(o) /\ ~(job[o].stalls < MaxStalledCount)
  <1>0. job[o].state \notin {"none", "completed", "failed"}
    BY DEF Live
  <1>1. ASSUME NEW p \in Orders, Adds(p) \/ \E w \in Slots : PickJob(w, p)
        PROVE  FALSE
    <2>1. CASE Adds(p)
      BY <1>0, <2>1, AddFlat DEF Adds, JobTo, OtherJobs
    <2>2. CASE \E w \in Slots : PickJob(w, p)
      BY <2>2, TakeFlat DEF PickJob, JobTo, OtherJobs, Live
    <2>3. QED
      BY <1>1, <2>1, <2>2
  <1>2. ASSUME NEW p \in Orders, Moves(p)
        PROVE  Unheld(o) /\ ~(job[o].stalls < MaxStalledCount)
    <2>1. CASE p # o
      BY <1>2, <2>1, PromoteFlat, LoseLockFlat, StallFlat, RemoveFlat DEF Moves, JobTo, OtherJobs
    <2>2. CASE p = o
      <3>1. ~Promote(o) /\ ~LoseLock(o) /\ ~Remove(o)
        BY <1>0, PromoteFlat, LoseLockFlat, RemoveFlat DEF JobTo, Live, Settled
      <3>2. Stall(o)
        BY <1>2, <2>2, <3>1 DEF Moves
      <3>3. QED
        BY <3>2, StallFlat DEF JobTo, Live
    <2>3. QED
      BY <2>1, <2>2
  <1>3. ASSUME NEW w \in Slots, SettleJob(w)
        PROVE  slot[w].order = o
    BY <1>3, SettleFlat DEF JobTo, OtherJobs
  <1>4. ~Crash
    BY JobTyped DEF Crash, QueueCrash, Abandoned, Job
  <1>5. QED
    BY <1>1, <1>2, <1>3, <1>4, StepKinds

LEMMA StepBegun ==
    ASSUME TypeInv, ControlInv, FreshInv, LimitsInv, StallsInv, AttemptsInv, BegunInv, [Next]_vars
    PROVE  BegunInv'
  <1>0. slot \in [Slots -> Slot] /\ MarketOrders \subseteq Orders
    BY DEF TypeInv, TypeOK, WorkerTypeOK, Orders
  <1>f. /\ FaultsTyped /\ FaultsTyped'
        /\ dbFaults <= dbFaults' /\ redisFaults <= redisFaults'
        /\ lockLosses <= lockLosses' /\ crashes <= crashes'
    BY FaultsGrow
  <1>1. ASSUME dbFaults' = 0, NEW w \in Slots, slot'[w].order \in MarketOrders, Begun(w)'
        PROVE  status'[slot'[w].order] # "PENDING"
    <2> DEFINE o == slot'[w].order
    <2>1. dbFaults = 0 /\ ~DbError
      BY <1>1, <1>f DEF FaultsTyped, DbError
    <2>2. SUFFICES ASSUME status'[o] = "PENDING"
                   PROVE  FALSE
      OBVIOUS
    <2>3. status[o] = "PENDING"
      <3>1. status[o] = NoDoc => slot'[w].order # o
        BY <1>0, <1>1, StaysFresh DEF Fresh
      <3>2. QED
        BY <1>1, <2>2, <3>1, NeverPendingAgain
    <2>4. slot[w].order = o => ~Begun(w)
      BY <1>1, <2>1, <2>3 DEF BegunInv
    <2>5. CASE Runs(w)
      <3>1. slot[w].order = o /\ o \in Orders
        BY <1>0, <1>1, <2>5, RunsFlat DEF SameOrder
      <3>2. ~ReadForUpdate(w) \/ status[o] = "PENDING"
        BY <2>3
      <3>3. /\ slot[w].target # "PENDING" /\ slot[w].snap # slot[w].target
            /\ Save(slot[w].order, slot[w].snap, slot[w].target, HashToSave(slot[w]))
        BY <1>1, <2>1, <2>3, <2>4, <2>5, <3>1, RunsBegun
      <3>4. QED
        BY <2>2, <3>1, <3>3, SaveFlat
    <2>6. CASE slot'[w] = slot[w]
      BY <1>1, <2>4, <2>6 DEF Begun, Updating
    <2>7. CASE slot'[w] # slot[w] /\ ~Runs(w)
      <3>1. ASSUME NEW p \in Orders, PickJob(w, p)
            PROVE  FALSE
        BY <1>0, <1>1, <3>1, OrdersAssumption, PickJobFlat DEF Begun, Updating
      <3>2. ASSUME NEW v \in Slots, v # w, Runs(v) \/ SettleJob(v) \/ \E p \in Orders : PickJob(v, p)
            PROVE  FALSE
        BY <1>0, <2>7, <3>2, RunsFlat, SettleJobFlat, PickJobFlat DEF SameOrder
      <3>3. ~SettleJob(w) /\ ~Crash
        <4>1. slot'[w].order # NoOrder
          BY <1>0, <1>1, WorkerAssumption
        <4>2. ~SettleJob(w)
          BY <1>0, <4>1, SettleJobFlat
        <4>3. Crash => slot'[w] = IdleSlot
          BY DEF Crash, WorkerCrash
        <4>4. QED
          BY <4>1, <4>2, <4>3 DEF IdleSlot
      <3>4. slot' # slot
        BY <2>7
      <3>5. QED
        BY <2>7, <3>1, <3>2, <3>3, <3>4, StepKinds DEF SlotsRest
    <2>8. QED
      BY <2>5, <2>6, <2>7
  <1>2. ASSUME Mild', NEW o \in MarketOrders, request'[o] = "accepted", status'[o] = "PENDING"
        PROVE  job'[o].state \in Live
    <2>1. /\ dbFaults = 0 /\ redisFaults = 0 /\ dbFaults' = 0 /\ redisFaults' = 0
      BY <1>2, <1>f DEF Mild, FaultsTyped
    <2>2. crashes + lockLosses <= MaxStalledCount
      <3>1. /\ crashes + lockLosses \in Nat /\ crashes' + lockLosses' \in Nat
            /\ crashes + lockLosses <= crashes' + lockLosses'
        BY <1>f, SumsGrow DEF FaultsTyped
      <3>2. crashes' + lockLosses' <= MaxStalledCount
        BY <1>2 DEF Mild
      <3>3. QED
        BY <3>1, <3>2, QueueAssumption
    <2>3. status[o] = "PENDING"
      <3>1. ~Inserts(o)
        BY <1>0, <1>2 DEF Inserts, TypeInv, TypeOK, ApiTypeOK
      <3>2. QED
        BY <1>2, <3>1, NeverPendingAgain
    <2>4. CASE request[o] # "accepted"
      <3>1. EnqueueOrder(o) /\ Add(o)
        BY <1>0, <1>2, <2>4, StepAccepts
      <3>2. job[o].state = "none"
        BY <1>0, <3>1, OrdersAssumption DEF EnqueueOrder, AttemptsInv, Unqueued
      <3>3. QED
        BY <1>0, <3>1, <3>2, AddFlat DEF JobTo, Live
    <2>5. CASE request[o] = "accepted"
      <3>1. job[o].state \in Live
        BY <2>1, <2>2, <2>3, <2>5 DEF BegunInv, Mild
      <3>2. ASSUME NEW w \in Slots, SettleJob(w), slot[w].order = o
            PROVE  FALSE
        <4>1. slot[w].pc \in {"resolve", "reject"}
          BY <1>0, <3>2, SettleJobFlat
        <4>2. slot[w].pc # "reject"
          <5>1. ~(dbFaults + redisFaults > 0)
            BY <2>1
          <5>2. QED
            BY <5>1 DEF ControlInv, Controlled
        <4>3. ~Begun(w)
          BY <2>1, <2>3, <3>2 DEF BegunInv
        <4>4. QED
          BY <4>1, <4>2, <4>3 DEF Begun
      <3>3. ASSUME Unheld(o)
            PROVE  job[o].stalls < MaxStalledCount
        <4>1. job[o].stalls + 1 <= redisFaults + lockLosses + crashes
          BY <1>0, <3>3 DEF StallsInv
        <4>2. QED
          BY <1>0, <1>f, <2>1, <2>2, <4>1, JobTyped, QueueAssumption DEF FaultsTyped
      <3>4. QED
        BY <1>0, <3>1, <3>2, <3>3, StepDies
    <2>6. QED
      BY <2>4, <2>5
  <1>3. QED
    BY <1>1, <1>2 DEF BegunInv

\* A market order that was answered with 201 and is still PENDING has a job that
\* will run, unless calls are rejected or its job has stalled too often: no restart
\* and no lost lock makes the engine forget it.
THEOREM AcceptedIsKept == Spec => []AcceptedNotForgotten
  <1>1. Init => BegunInv
    <2>1. ASSUME Init
          PROVE  /\ \A w \in Slots : slot[w] = IdleSlot
                 /\ \A o \in Orders : request[o] # "accepted"
      BY <2>1 DEF Init, WorkerInit, ApiInit
    <2>2. ASSUME \A w \in Slots : slot[w] = IdleSlot
          PROVE  \A w \in Slots : ~Begun(w)
      BY <2>2 DEF IdleSlot, Begun, Updating
    <2>3. QED
      BY <2>1, <2>2 DEF BegunInv, Orders
  <1>2. TypeInv /\ ControlInv /\ FreshInv /\ LimitsInv /\ StallsInv /\ AttemptsInv /\ BegunInv
            /\ [Next]_vars => BegunInv'
    BY StepBegun
  <1>3. BegunInv => AcceptedNotForgotten
    BY DEF BegunInv, AcceptedNotForgotten, Mild
  <1>4. QED
    BY <1>1, <1>2, <1>3, TypeInvariant, ControlInvariant, FreshInvariant, LimitsInvariant,
       StallsInvariant, AttemptsInvariant, PTL DEF Spec
=============================================================================
