--------------------------- MODULE OrderEngineSafety ---------------------------
(***************************************************************************)
(* The safety invariants of OrderEngine, for every value of the constants. *)
(* Each is proved from the typing invariant and from the strengthening of  *)
(* OrderEngineInv that makes it inductive.                                 *)
(***************************************************************************)
EXTENDS OrderEngineProofs

\* Any way on from a point of processOrder keeps the order of the slot, touches
\* no other slot, and is taken by a busy slot.
KeepsOrders ==
    /\ \A v \in Slots : slot'[v].order = slot[v].order
    /\ \A v \in Slots : Busy(v)' => Busy(v)

LEMMA GoToKeeps ==
    ASSUME slot \in [Slots -> Slot], NEW w \in Slots, NEW pc, Busy(w), GoTo(w, pc)
    PROVE  KeepsOrders
  BY DEF KeepsOrders, GoTo, Slot, Busy

LEMMA StartUpdateKeeps ==
    ASSUME slot \in [Slots -> Slot], NEW w \in Slots, NEW target, Busy(w),
           StartUpdate(w, target)
    PROVE  KeepsOrders
  BY DEF KeepsOrders, StartUpdate, Slot, Busy

LEMMA ThrowKeeps ==
    ASSUME slot \in [Slots -> Slot], NEW w \in Slots, Busy(w), Throw(w)
    PROVE  KeepsOrders
  <1>1. slot[w] \in Slot
    OBVIOUS
  <1>2. \A v \in Slots \ {w} : slot'[v] = slot[v]
    BY DEF Throw
  <1>3. slot'[w].order = slot[w].order
    BY <1>1 DEF Throw, Slot
  <1>4. QED
    BY <1>2, <1>3 DEF KeepsOrders, Busy

LEMMA SaveUpdateKeeps ==
    ASSUME slot \in [Slots -> Slot], NEW w \in Slots, SaveUpdate(w)
    PROVE  KeepsOrders
  <1>1. Busy(w) /\ (GoTo(w, "announce") \/ Throw(w))
    BY DEF SaveUpdate, Busy
  <1>2. QED
    BY <1>1, GoToKeeps, ThrowKeeps

LEMMA ReadForUpdateKeeps ==
    ASSUME slot \in [Slots -> Slot], NEW w \in Slots, ReadForUpdate(w)
    PROVE  KeepsOrders
  <1>1. Busy(w)
    BY DEF ReadForUpdate, Busy
  <1>2. CASE slot' = [slot EXCEPT ![w] =
                        [@ EXCEPT !.pc = "save", !.snap = status[slot[w].order]]]
    BY <1>1, <1>2 DEF KeepsOrders, Slot, Busy
  <1>3. QED
    BY <1>1, <1>2, ThrowKeeps DEF ReadForUpdate

LEMMA ExecuteSwapKeeps ==
    ASSUME slot \in [Slots -> Slot], NEW w \in Slots, ExecuteSwap(w)
    PROVE  KeepsOrders
  <1>1. Busy(w)
    BY DEF ExecuteSwap, Busy
  <1> DEFINE h == swaps[slot[w].order] + 1
  <1>2. CASE slot' = [slot EXCEPT ![w] =
                        [@ EXCEPT !.pc = "read", !.target = "SUBMITTED",
                                  !.snap = NoDoc, !.hash = h]]
    <2> HIDE DEF h
    <2>1. QED
      BY <1>1, <1>2 DEF KeepsOrders, Slot, Busy
  <1>3. CASE StartUpdate(w, "FAILED")
    BY <1>1, <1>3, StartUpdateKeeps
  <1>4. QED
    BY <1>2, <1>3 DEF ExecuteSwap

\* Everything a processor does between taking a job and settling it.
LEMMA ProcessKeeps ==
    ASSUME slot \in [Slots -> Slot], NEW w \in Slots, ProcessStep(w), ~SettleJob(w)
    PROVE  KeepsOrders /\ UNCHANGED <<job, lockLosses>>
  <1>1. UNCHANGED <<job, lockLosses>>
    BY DEF ProcessStep, FindOrder, ReadForUpdate, SaveUpdate, Announce, GetQuote, ExecuteSwap,
           Refetch, UpdateProgress, queueVars
  <1>2. CASE SaveUpdate(w) \/ ReadForUpdate(w) \/ ExecuteSwap(w)
    BY <1>1, <1>2, SaveUpdateKeeps, ReadForUpdateKeeps, ExecuteSwapKeeps
  <1>3. CASE FindOrder(w) \/ Announce(w) \/ GetQuote(w) \/ Refetch(w) \/ UpdateProgress(w)
    <2>1. Busy(w)
      BY <1>3 DEF FindOrder, Announce, GetQuote, Refetch, UpdateProgress, Busy
    <2>2. \/ \E pc \in SlotPC : GoTo(w, pc)
          \/ \E target \in OrderStatus : StartUpdate(w, target)
          \/ Throw(w)
      BY <1>3 DEF FindOrder, Announce, AfterAnnounce, GetQuote, Refetch, UpdateProgress,
                  SlotPC, OrderStatus
    <2>3. QED
      BY <1>1, <2>1, <2>2, GoToKeeps, StartUpdateKeeps, ThrowKeeps
  <1>4. QED
    BY <1>1, <1>2, <1>3 DEF ProcessStep

-----------------------------------------------------------------------------
(***************************************************************************)
(* One attempt per order.                                                  *)
(***************************************************************************)

\* A job that is put on the queue was not there, so nobody holds its lock.
LEMMA AddKeepsOwners ==
    ASSUME TypeInv, NEW o \in Orders, Add(o)
    PROVE  \A p \in Orders : job'[p].owner = job[p].owner
  <1>1. job \in [Orders -> Job]
    BY DEF TypeInv, TypeOK, QueueTypeOK
  <1>2. CASE job[o].state = "none"
    <2>1. job[o].owner = NoSlot
      BY <1>2 DEF TypeInv, JobsBounded
    <2>2. job' = [job EXCEPT ![o] = [NoJob EXCEPT !.state = "waiting"]]
      BY <1>2 DEF Add
    <2>3. [NoJob EXCEPT !.state = "waiting"].owner = NoSlot
      BY DEF NoJob
    <2>4. QED
      BY <1>1, <2>1, <2>2, <2>3
  <1>3. CASE job[o].state # "none"
    BY <1>1, <1>3 DEF Add
  <1>4. QED
    BY <1>2, <1>3

\* What the request handlers and the monitor may do to the queue.
QueueUse == UNCHANGED lockLosses /\ (UNCHANGED job \/ \E o \in Orders : Add(o))

LEMMA ApiQueueUse ==
    ASSUME ApiNext
    PROVE  QueueUse
  <1>1. PICK o \in Orders : ExecuteStep(o) \/ CancelCheck(o) \/ CancelStep(o)
    BY DEF ApiNext
  <1>2. CASE EnqueueOrder(o)
    BY <1>2 DEF EnqueueOrder, QueueUse
  <1>3. UNCHANGED queueVars \/ EnqueueOrder(o)
    BY <1>1 DEF ExecuteStep, CountActive, CreateOrder, CancelCheck, CancelStep, CancelRead,
                CancelSave, CancelAnnounce, CancelRefetch
  <1>4. QED
    BY <1>2, <1>3 DEF queueVars, QueueUse

LEMMA MonitorQueueUse ==
    ASSUME MonitorNext
    PROVE  QueueUse
  <1>1. \/ UNCHANGED queueVars
        \/ \E r \in Rounds, o \in Orders : TriggerEnqueue(r, o)
    <2>1. PICK r \in Rounds : StartCheck(r) \/ StartCleanup(r) \/ RoundStep(r)
      BY DEF MonitorNext
    <2>2. CASE StartCheck(r) \/ StartCleanup(r)
      BY <2>2 DEF StartCheck, StartCleanup
    <2>3. CASE ExpireRead(r) \/ ExpireSave(r) \/ ExpireAnnounce(r) \/ ExpireDone(r) \/ EndRound(r)
      BY <2>3 DEF ExpireRead, ExpireSave, ExpireAnnounce, ExpireDone, EndRound
    <2>4. ASSUME NEW o \in Orders, CheckPrice(r, o) \/ TriggerStep(r, o)
          PROVE  UNCHANGED queueVars \/ TriggerEnqueue(r, o)
      BY <2>4 DEF CheckPrice, TriggerStep, TriggerFind, TriggerRead, TriggerSave, CatchFind,
                  CatchRead, CatchSave
    <2>5. QED
      BY <2>1, <2>2, <2>3, <2>4 DEF RoundStep
  <1>2. QED
    BY <1>1 DEF TriggerEnqueue, queueVars, QueueUse

\* What leaves the slots, the locks and the count of lost locks alone.
LEMMA LockInvFrame ==
    ASSUME TypeInv, LockInv, KeepsOrders, UNCHANGED lockLosses,
           \A p \in Orders : job'[p].owner = job[p].owner
    PROVE  LockInv'
  <1>1. SUFFICES ASSUME lockLosses' = 0, NEW v \in Slots, Busy(v)'
                 PROVE  job'[slot'[v].order].owner = v
    BY DEF LockInv
  <1>2. Busy(v) /\ slot'[v].order = slot[v].order
    BY <1>1 DEF KeepsOrders
  <1>3. slot[v].order \in Orders
    BY <1>2 DEF TypeInv, SlotsWellFormed
  <1>4. job[slot[v].order].owner = v
    BY <1>1, <1>2 DEF LockInv
  <1>5. QED
    BY <1>2, <1>3, <1>4

LEMMA PickJobLocks ==
    ASSUME TypeInv, LockInv, NEW w \in Slots, NEW o \in Orders, PickJob(w, o)
    PROVE  LockInv'
  <1>1. SUFFICES ASSUME lockLosses' = 0, NEW v \in Slots, Busy(v)'
                 PROVE  job'[slot'[v].order].owner = v
    BY DEF LockInv
  <1>2. job \in [Orders -> Job] /\ slot \in [Slots -> Slot]
    BY DEF TypeInv, TypeOK, QueueTypeOK, WorkerTypeOK
  <1>3. job[o].owner = NoSlot
    BY DEF PickJob, Take, TypeInv, JobsBounded
  <1>4. job'[o].owner = w /\ \A p \in Orders \ {o} : job'[p] = job[p]
    BY <1>2 DEF PickJob, Take, Job
  <1>5. CASE v = w
    <2>1. slot'[w].order = o
      BY <1>2 DEF PickJob, IdleSlot
    <2>2. QED
      BY <1>4, <1>5, <2>1
  <1>6. CASE v # w
    <2>1. slot'[v] = slot[v]
      BY <1>2, <1>6 DEF PickJob
    <2>2. Busy(v) /\ lockLosses = 0
      BY <1>1, <2>1 DEF Busy, PickJob
    <2>3. slot[v].order \in Orders /\ job[slot[v].order].owner = v
      BY <2>2 DEF LockInv, TypeInv, SlotsWellFormed
    <2>4. slot[v].order # o
      BY <1>3, <2>3, QueueAssumption
    <2>5. QED
      BY <1>4, <2>1, <2>3, <2>4
  <1>7. QED
    BY <1>5, <1>6

LEMMA SettleJobLocks ==
    ASSUME TypeInv, LockInv, NEW w \in Slots, SettleJob(w)
    PROVE  LockInv'
  <1>1. SUFFICES ASSUME lockLosses' = 0, NEW v \in Slots, Busy(v)'
                 PROVE  job'[slot'[v].order].owner = v
    BY DEF LockInv
  <1>2. job \in [Orders -> Job] /\ slot \in [Slots -> Slot]
    BY DEF TypeInv, TypeOK, QueueTypeOK, WorkerTypeOK
  <1>3. v # w /\ slot'[v] = slot[v]
    BY <1>1, <1>2 DEF SettleJob, IdleSlot, Busy
  <1>4. Busy(v) /\ Busy(w) /\ lockLosses = 0
    BY <1>1, <1>3 DEF Busy, SettleJob
  <1>5. slot[v].order \in Orders /\ slot[w].order \in Orders
    BY <1>4 DEF TypeInv, SlotsWellFormed
  <1>6. job[slot[v].order].owner = v /\ job[slot[w].order].owner = w
    BY <1>4 DEF LockInv
  <1>7. \A p \in Orders \ {slot[w].order} : job'[p] = job[p]
    BY <1>2 DEF SettleJob, MoveToCompleted, MoveToFailed
  <1>8. QED
    BY <1>3, <1>5, <1>6, <1>7

LEMMA StepLocks ==
    ASSUME TypeInv, LockInv, [Next]_vars
    PROVE  LockInv'
  <1>0. slot \in [Slots -> Slot] /\ job \in [Orders -> Job]
    BY DEF TypeInv, TypeOK, WorkerTypeOK, QueueTypeOK
  <1>1. CASE Worker
    <2>1. ASSUME NEW w \in Slots, ProcessStep(w)
          PROVE  LockInv'
      BY <1>0, <2>1, ProcessKeeps, LockInvFrame, SettleJobLocks
    <2>2. QED
      BY <1>1, <2>1, PickJobLocks DEF Worker, WorkerNext
  <1>3. CASE Api \/ Monitor
    <2>1. KeepsOrders
      BY <1>3 DEF Api, Monitor, workerVars, KeepsOrders, Busy
    <2>2. QueueUse
      BY <1>3, ApiQueueUse, MonitorQueueUse DEF Api, Monitor
    <2>3. \A p \in Orders : job'[p].owner = job[p].owner
      BY <2>2, AddKeepsOwners DEF QueueUse
    <2>4. QED
      BY <2>1, <2>2, <2>3, LockInvFrame DEF QueueUse
  <1>4. CASE Queue
    <2>1. PICK o \in Orders : Promote(o) \/ LoseLock(o) \/ Stall(o) \/ Remove(o)
      BY <1>4 DEF Queue
    <2>2. KeepsOrders
      BY <1>4 DEF Queue, workerVars, KeepsOrders, Busy
    <2>3. CASE LoseLock(o)
      BY <2>3, QueueAssumption DEF LoseLock, LockInv, TypeInv, TypeOK, QueueTypeOK
    <2>4. CASE Promote(o)
      BY <1>0, <2>2, <2>4, LockInvFrame DEF Promote, Job
    <2>5. CASE Stall(o)
      <3>1. \A p \in Orders : job'[p].owner = job[p].owner
        BY <1>0, <2>5 DEF Stall, Unheld, Stalled, Job
      <3>2. QED
        BY <2>2, <2>5, <3>1, LockInvFrame DEF Stall
    <2>6. CASE Remove(o)
      <3>1. job[o].owner = NoSlot
        BY <2>6 DEF Remove, Settled, TypeInv, JobsBounded
      <3>2. \A p \in Orders : job'[p].owner = job[p].owner
        BY <1>0, <2>6, <3>1 DEF Remove, NoJob
      <3>3. QED
        BY <2>2, <2>6, <3>2, LockInvFrame DEF Remove
    <2>7. QED
      BY <2>1, <2>3, <2>4, <2>5, <2>6
  <1>5. CASE Clock \/ UNCHANGED vars
    <2>1. UNCHANGED <<queueVars, workerVars>>
      BY <1>5 DEF Clock, vars
    <2>2. QED
      BY <2>1 DEF queueVars, workerVars, LockInv, Busy
  <1>6. CASE Crash
    BY <1>6 DEF Crash, WorkerCrash, IdleSlot, LockInv, Busy
  <1>7. QED
    BY <1>1, <1>3, <1>4, <1>5, <1>6 DEF Next

\* While no lock expires under a live worker, no two processors run the same
\* order: the job id is the order id and a busy processor holds its lock.
THEOREM OneAttempt == Spec => []OneAttemptPerOrder
  <1>1. Init => LockInv
    BY DEF Init, WorkerInit, IdleSlot, LockInv, Busy
  <1>2. TypeInv /\ LockInv /\ [Next]_vars => LockInv'
    BY StepLocks
  <1>3. LockInv => OneAttemptPerOrder
    BY DEF LockInv, OneAttemptPerOrder
  <1>4. QED
    BY <1>1, <1>2, <1>3, TypeInvariant, PTL DEF Spec

-----------------------------------------------------------------------------
(***************************************************************************)
(* Expiry.                                                                 *)
(***************************************************************************)

\* What a step may do to the documents as far as EXPIRED is concerned.
ExpiresRightly ==
    \A o \in Orders :
        status'[o] = "EXPIRED" => status[o] = "EXPIRED" \/ o \in expired

LEMMA SaveExpiresRightly ==
    ASSUME TypeInv, NEW o \in Orders, NEW snap, NEW target, NEW hash,
           Save(o, snap, target, hash), target = "EXPIRED" => o \in expired
    PROVE  ExpiresRightly
  BY DEF Save, ExpiresRightly, TypeInv, TypeOK, StoreTypeOK

LEMMA SaveErrorExpiresRightly ==
    ASSUME TypeInv, NEW o \in Orders, NEW snap, NEW target, NEW hash,
           SaveError(o, snap, target, hash), target = "EXPIRED" => o \in expired
    PROVE  ExpiresRightly
  <1>1. CASE Save(o, snap, target, hash)
    BY <1>1, SaveExpiresRightly
  <1>2. CASE UNCHANGED docVars
    BY <1>2 DEF docVars, ExpiresRightly
  <1>3. QED
    BY <1>1, <1>2 DEF SaveError

LEMMA WorkerExpiresRightly ==
    ASSUME TypeInv, ExpiryInv, WorkerNext
    PROVE  ExpiresRightly
  <1>1. UNCHANGED docVars \/ \E w \in Slots : SaveUpdate(w)
    BY DEF WorkerNext, ProcessStep, FindOrder, ReadForUpdate, Announce, GetQuote, ExecuteSwap,
           Refetch, UpdateProgress, SettleJob, PickJob, storeVars, docVars
  <1>2. ASSUME NEW w \in Slots, SaveUpdate(w)
        PROVE  ExpiresRightly
    <2>1. slot[w].order \in Orders /\ slot[w].target # "EXPIRED"
      BY <1>2 DEF SaveUpdate, TypeInv, SlotsWellFormed, Busy, ExpiryInv
    <2>2. QED
      BY <1>2, <2>1, SaveExpiresRightly, SaveErrorExpiresRightly DEF SaveUpdate
  <1>3. QED
    BY <1>1, <1>2 DEF docVars, ExpiresRightly

LEMMA ApiExpiresRightly ==
    ASSUME TypeInv, ApiNext
    PROVE  ExpiresRightly
  <1>1. PICK o \in Orders : ExecuteStep(o) \/ CancelCheck(o) \/ CancelStep(o)
    BY DEF ApiNext
  <1>2. UNCHANGED docVars \/ InsertDoc(o) \/ CancelSave(o)
    BY <1>1 DEF ExecuteStep, CountActive, CreateOrder, EnqueueOrder, CancelCheck, CancelStep,
                CancelRead, CancelAnnounce, CancelRefetch, storeVars, docVars
  <1>3. CASE InsertDoc(o)
    BY <1>3 DEF InsertDoc, InitialStatus, ExpiresRightly, TypeInv, TypeOK, StoreTypeOK
  <1>4. CASE CancelSave(o)
    BY <1>4, SaveExpiresRightly, SaveErrorExpiresRightly DEF CancelSave
  <1>5. QED
    BY <1>2, <1>3, <1>4 DEF docVars, ExpiresRightly

LEMMA MonitorExpiresRightly ==
    ASSUME TypeInv, ExpiryInv, MonitorNext
    PROVE  ExpiresRightly
  <1>1. PICK r \in Rounds : StartCheck(r) \/ StartCleanup(r) \/ RoundStep(r)
    BY DEF MonitorNext
  <1>2. CASE \/ StartCheck(r) \/ StartCleanup(r) \/ ExpireRead(r) \/ ExpireAnnounce(r)
             \/ ExpireDone(r) \/ EndRound(r)
    BY <1>2 DEF StartCheck, StartCleanup, ExpireRead, ExpireAnnounce, ExpireDone, EndRound,
                storeVars, docVars, ExpiresRightly
  <1>3. CASE ExpireSave(r)
    <2>1. PICK o \in round[r].cur : \/ Save(o, round[r].snap, "EXPIRED", NoTx)
                                    \/ SaveError(o, round[r].snap, "EXPIRED", NoTx)
      BY <1>3 DEF ExpireSave
    <2>2. o \in expired /\ o \in Orders
      BY DEF ExpiryInv, TypeInv, TypeOK, MonitorTypeOK, Orders
    <2>3. QED
      BY <2>1, <2>2, SaveExpiresRightly, SaveErrorExpiresRightly
  <1>4. ASSUME NEW o \in Orders, CheckPrice(r, o) \/ TriggerStep(r, o)
        PROVE  ExpiresRightly
    <2>1. UNCHANGED docVars \/ TriggerSave(r, o) \/ CatchSave(r, o)
      BY <1>4 DEF CheckPrice, TriggerStep, TriggerFind, TriggerRead, TriggerEnqueue, CatchFind,
                  CatchRead, storeVars, docVars
    <2>2. QED
      BY <2>1, SaveExpiresRightly, SaveErrorExpiresRightly
      DEF TriggerSave, CatchSave, docVars, ExpiresRightly
  <1>5. QED
    BY <1>1, <1>2, <1>3, <1>4 DEF RoundStep

LEMMA NextExpiresRightly ==
    ASSUME TypeInv, ExpiryInv, [Next]_vars
    PROVE  ExpiresRightly
  <1>1. UNCHANGED status \/ Worker \/ Api \/ Monitor
    BY DEF Next, Queue, Clock, Crash, vars, storeVars
  <1>2. QED
    BY <1>1, WorkerExpiresRightly, ApiExpiresRightly, MonitorExpiresRightly
    DEF Worker, Api, Monitor, ExpiresRightly

\* No update of processOrder sets EXPIRED.
TargetsInv == \A w \in Slots : slot[w].target # "EXPIRED"

LEMMA TargetsStep ==
    ASSUME TypeInv, TargetsInv, [Next]_vars
    PROVE  TargetsInv'
  <1>0. slot \in [Slots -> Slot]
    BY DEF TypeInv, TypeOK, WorkerTypeOK
  <1>1. ASSUME NEW w \in Slots, NEW pc, GoTo(w, pc)
        PROVE  TargetsInv'
    BY <1>0, <1>1 DEF GoTo, TargetsInv, Slot
  <1>2. ASSUME NEW w \in Slots, NEW target, target # "EXPIRED", StartUpdate(w, target)
        PROVE  TargetsInv'
    BY <1>0, <1>2 DEF StartUpdate, TargetsInv, Slot
  <1>3. ASSUME NEW w \in Slots, Throw(w)
        PROVE  TargetsInv'
    <2>1. \A v \in Slots \ {w} : slot'[v] = slot[v]
      BY <1>0, <1>3 DEF Throw
    <2>2. slot'[w].target \in {slot[w].target, "FAILED"}
      <3>1. slot[w] \in Slot
        BY <1>0
      <3>2. QED
        BY <1>0, <1>3, <3>1 DEF Throw, Slot
    <2>3. QED
      BY <2>1, <2>2 DEF TargetsInv
  <1>4. ASSUME NEW w \in Slots, ProcessStep(w)
        PROVE  TargetsInv'
    <2>1. CASE ReadForUpdate(w)
      <3>1. CASE slot' = [slot EXCEPT ![w] =
                            [@ EXCEPT !.pc = "save", !.snap = status[slot[w].order]]]
        BY <1>0, <3>1 DEF TargetsInv, Slot
      <3>2. QED
        BY <2>1, <3>1, <1>3 DEF ReadForUpdate
    <2>2. CASE ExecuteSwap(w)
      <3> DEFINE h == swaps[slot[w].order] + 1
      <3>1. CASE slot' = [slot EXCEPT ![w] =
                            [@ EXCEPT !.pc = "read", !.target = "SUBMITTED",
                                      !.snap = NoDoc, !.hash = h]]
        <4> HIDE DEF h
        <4>1. QED
          BY <1>0, <3>1 DEF TargetsInv, Slot
      <3>2. QED
        BY <2>2, <3>1, <1>2 DEF ExecuteSwap
    <2>3. CASE SettleJob(w)
      BY <1>0, <2>3 DEF SettleJob, IdleSlot, TargetsInv, NoDoc
    <2>4. CASE FindOrder(w) \/ Refetch(w) \/ SaveUpdate(w)
      BY <2>4, <1>1, <1>2, <1>3 DEF FindOrder, Refetch, SaveUpdate
    <2>5. CASE Announce(w) \/ GetQuote(w) \/ UpdateProgress(w)
      BY <2>5, <1>1, <1>2, <1>3 DEF Announce, AfterAnnounce, GetQuote, UpdateProgress
    <2>6. QED
      BY <1>4, <2>1, <2>2, <2>3, <2>4, <2>5 DEF ProcessStep
  <1>5. ASSUME NEW w \in Slots, NEW o \in Orders, PickJob(w, o)
        PROVE  TargetsInv'
    BY <1>0, <1>5 DEF PickJob, IdleSlot, TargetsInv, NoDoc
  <1>6. CASE Crash
    BY <1>6 DEF Crash, WorkerCrash, IdleSlot, TargetsInv, NoDoc
  <1>7. CASE UNCHANGED slot
    BY <1>7 DEF TargetsInv
  <1>8. QED
    BY <1>4, <1>5, <1>6, <1>7
    DEF Next, Worker, WorkerNext, Api, Monitor, Queue, Clock, workerVars, vars

\* The lists of the expiry loops hold expired orders only.
RoundsInv == \A r \in Rounds : round[r].todo \subseteq expired /\ round[r].cur \subseteq expired

LEMMA RoundsStep ==
    ASSUME TypeInv, RoundsInv, [Next]_vars
    PROVE  RoundsInv' /\ expired \subseteq expired'
  <1>0. round \in [Rounds -> Round]
    BY DEF TypeInv, TypeOK, MonitorTypeOK
  <1>set. ASSUME NEW r \in Rounds, UNCHANGED expired, NEW s,
               s.todo \subseteq expired, s.cur \subseteq expired,
               round' = [round EXCEPT ![r] = s]
        PROVE  RoundsInv'
    BY <1>0, <1>set DEF RoundsInv
  <1>1. ASSUME NEW r \in Rounds, UNCHANGED expired, StartCheck(r) \/ StartCleanup(r)
        PROVE  RoundsInv'
    <2> DEFINE due == Waiting \cap expired
               check == [IdleRound EXCEPT !.pc = "expire", !.fetched = Waiting, !.todo = due]
               cleanup == [IdleRound EXCEPT !.pc = "expire", !.todo = due]
    <2>1. \/ round' = round
          \/ round' = [round EXCEPT ![r] = round[r]]
          \/ round' = [round EXCEPT ![r] = check]
          \/ round' = [round EXCEPT ![r] = cleanup]
      BY <1>1 DEF StartCheck, StartCleanup
    <2>2. due \subseteq expired
      OBVIOUS
    <2>3. check.todo = due /\ check.cur = {} /\ cleanup.todo = due /\ cleanup.cur = {}
      BY DEF IdleRound
    <2> HIDE DEF due, check, cleanup
    <2>4. QED
      BY <1>0, <1>1, <1>set, <2>1, <2>2, <2>3 DEF RoundsInv
  <1>2. ASSUME NEW r \in Rounds, UNCHANGED expired, ExpireRead(r)
        PROVE  RoundsInv'
    <2>1. PICK o \in round[r].todo :
            LET rest == round[r].todo \ {o} IN
            \/ round' = [round EXCEPT ![r] =
                           [@ EXCEPT !.pc = "save", !.todo = rest,
                                     !.cur = {o}, !.snap = status[o]]]
            \/ round' = [round EXCEPT ![r] = [@ EXCEPT !.todo = rest]]
      BY <1>2 DEF ExpireRead
    <2> DEFINE rest == round[r].todo \ {o}
               read == [round[r] EXCEPT !.pc = "save", !.todo = rest,
                                        !.cur = {o}, !.snap = status[o]]
               skip == [round[r] EXCEPT !.todo = rest]
    <2>2. o \in expired /\ rest \subseteq expired /\ round[r].cur \subseteq expired
      BY DEF RoundsInv
    <2>3. /\ read.todo = rest /\ read.cur = {o}
          /\ skip.todo = rest /\ skip.cur = round[r].cur
      BY <1>0 DEF Round
    <2>4. \/ round' = [round EXCEPT ![r] = read]
          \/ round' = [round EXCEPT ![r] = skip]
      BY <2>1
    <2> HIDE DEF rest, read, skip
    <2>5. QED
      BY <1>2, <1>set, <2>2, <2>3, <2>4
  <1>3. ASSUME NEW r \in Rounds, UNCHANGED expired, ExpireAnnounce(r) \/ EndRound(r)
        PROVE  RoundsInv'
    <2> DEFINE next == [round[r] EXCEPT !.pc = "expire", !.cur = {}, !.snap = NoDoc]
    <2>1. /\ next.todo = round[r].todo /\ next.cur = {}
          /\ IdleRound.todo = {} /\ IdleRound.cur = {}
      BY <1>0 DEF Round, IdleRound
    <2>2. \/ round' = [round EXCEPT ![r] = next]
          \/ round' = [round EXCEPT ![r] = IdleRound]
      BY <1>3 DEF ExpireAnnounce, EndRound
    <2>3. round[r].todo \subseteq expired
      BY DEF RoundsInv
    <2> HIDE DEF next
    <2>4. QED
      BY <1>3, <1>set, <2>1, <2>2, <2>3
  <1>4. ASSUME NEW r \in Rounds, UNCHANGED expired, NEW pc, RoundGoTo(r, pc)
        PROVE  RoundsInv'
    BY <1>0, <1>4 DEF RoundGoTo, RoundsInv, Round
  <1>5. ASSUME UNCHANGED <<round, expired>>
        PROVE  RoundsInv'
    BY <1>5 DEF RoundsInv
  <1>6. CASE Monitor
    <2>1. UNCHANGED expired
      <3>1. PICK r \in Rounds : StartCheck(r) \/ StartCleanup(r) \/ RoundStep(r)
        BY <1>6 DEF Monitor, MonitorNext
      <3>2. ASSUME NEW o \in Orders, CheckPrice(r, o) \/ TriggerStep(r, o)
            PROVE  UNCHANGED expired
        BY <3>2 DEF CheckPrice, TriggerStep, TriggerFind, TriggerRead, TriggerSave,
                    TriggerEnqueue, CatchFind, CatchRead, CatchSave
      <3>3. QED
        BY <3>1, <3>2 DEF StartCheck, StartCleanup, RoundStep, ExpireRead, ExpireSave,
                          ExpireAnnounce, ExpireDone, EndRound
    <2>2. ASSUME NEW r \in Rounds, ExpireSave(r) \/ ExpireDone(r)
          PROVE  \E pc \in {"announce", "expire", "prices"} : RoundGoTo(r, pc)
      BY <2>2 DEF ExpireSave, ExpireDone
    <2>3. ASSUME NEW r \in Rounds, NEW o \in Orders, CheckPrice(r, o) \/ TriggerStep(r, o)
          PROVE  UNCHANGED round
      BY <2>3 DEF CheckPrice, TriggerStep, TriggerFind, TriggerRead, TriggerSave,
                  TriggerEnqueue, CatchFind, CatchRead, CatchSave
    <2>4. QED
      BY <1>6, <1>1, <1>2, <1>3, <1>4, <1>5, <2>1, <2>2, <2>3
      DEF Monitor, MonitorNext, RoundStep
  <1>7. CASE Clock
    BY <1>7 DEF Clock, Deadline, RoundsInv
  <1>8. CASE Crash
    BY <1>8 DEF Crash, MonitorCrash, IdleRound, RoundsInv
  <1>9. CASE UNCHANGED <<round, expired>>
    BY <1>5, <1>9
  <1>10. QED
    BY <1>6, <1>7, <1>8, <1>9 DEF Next, Worker, Api, Queue, monitorVars, vars

\* Only an order whose deadline has passed is ever stored as EXPIRED, although
\* the expiry loops work on lists that were fetched earlier.
THEOREM ExpiryIsRight == Spec => []ExpiredOnlyAfterDeadline
  <1>1. Init => ExpiryInv
    BY DEF Init, StoreInit, WorkerInit, IdleSlot, MonitorInit, IdleRound, NoDoc, ExpiryInv,
           ExpiredOnlyAfterDeadline
  <1>2. TypeInv /\ ExpiryInv /\ [Next]_vars => ExpiryInv'
    <2>1. SUFFICES ASSUME TypeInv, ExpiryInv, [Next]_vars
                   PROVE  ExpiryInv'
      OBVIOUS
    <2>2. TargetsInv' /\ RoundsInv' /\ expired \subseteq expired'
      BY <2>1, TargetsStep, RoundsStep DEF ExpiryInv, TargetsInv, RoundsInv
    <2>3. ExpiredOnlyAfterDeadline'
      BY <2>1, <2>2, NextExpiresRightly
      DEF ExpiryInv, ExpiresRightly, ExpiredOnlyAfterDeadline
    <2>4. QED
      BY <2>2, <2>3 DEF ExpiryInv, TargetsInv, RoundsInv
  <1>3. ExpiryInv => ExpiredOnlyAfterDeadline
    BY DEF ExpiryInv
  <1>4. QED
    BY <1>1, <1>2, <1>3, TypeInvariant, PTL DEF Spec

-----------------------------------------------------------------------------
(***************************************************************************)
(* Transaction hashes.                                                     *)
(***************************************************************************)

HashOk(o, h) == h \in 1 .. swaps[o]

\* A save keeps every CONFIRMED order with a hash, if it sets CONFIRMED only
\* with the hash of a swap and writes no other hash.
LEMMA SaveKeepsHashes ==
    ASSUME TypeInv, ConfirmedHasTx, NEW o \in Orders, NEW snap, NEW target, NEW hash \in Nat,
           Save(o, snap, target, hash), UNCHANGED swaps,
           target = "CONFIRMED" => HashOk(o, hash),
           hash # NoTx => HashOk(o, hash)
    PROVE  ConfirmedHasTx'
  <1>1. \A p \in Orders \ {o} : status'[p] = status[p] /\ txHash'[p] = txHash[p]
    BY DEF Save, TypeInv, TypeOK, StoreTypeOK
  <1>2. /\ status'[o] \in {status[o], target}
        /\ txHash'[o] = IF hash = NoTx THEN txHash[o] ELSE hash
    BY DEF Save, TypeInv, TypeOK, StoreTypeOK
  <1>3. HashOk(o, hash) => hash # NoTx
    BY DEF HashOk, NoTx
  <1>4. status'[o] = "CONFIRMED" => HashOk(o, txHash'[o])
    BY <1>2, <1>3 DEF ConfirmedHasTx, HashOk
  <1>5. QED
    BY <1>1, <1>4 DEF ConfirmedHasTx, HashOk

LEMMA SaveErrorKeepsHashes ==
    ASSUME TypeInv, ConfirmedHasTx, NEW o \in Orders, NEW snap, NEW target, NEW hash \in Nat,
           SaveError(o, snap, target, hash), UNCHANGED swaps,
           target = "CONFIRMED" => HashOk(o, hash),
           hash # NoTx => HashOk(o, hash)
    PROVE  ConfirmedHasTx'
  <1>1. CASE Save(o, snap, target, hash)
    BY <1>1, SaveKeepsHashes
  <1>2. CASE UNCHANGED docVars
    BY <1>2 DEF docVars, ConfirmedHasTx
  <1>3. QED
    BY <1>1, <1>2 DEF SaveError

\* The saves of the request handlers and of the monitor carry no hash.
LEMMA OutsideSaveKeepsHashes ==
    ASSUME TypeInv, ConfirmedHasTx, NEW o \in Orders, NEW snap, NEW target,
           target # "CONFIRMED", UNCHANGED swaps,
           Save(o, snap, target, NoTx) \/ SaveError(o, snap, target, NoTx)
    PROVE  ConfirmedHasTx'
  <1>1. NoTx \in Nat
    BY DEF NoTx
  <1>2. QED
    BY <1>1, SaveKeepsHashes, SaveErrorKeepsHashes

LEMMA ApiKeepsHashes ==
    ASSUME TypeInv, ConfirmedHasTx, ApiNext, UNCHANGED swaps
    PROVE  ConfirmedHasTx'
  <1>1. PICK o \in Orders : ExecuteStep(o) \/ CancelCheck(o) \/ CancelStep(o)
    BY DEF ApiNext
  <1>2. UNCHANGED docVars \/ InsertDoc(o) \/ CancelSave(o)
    BY <1>1 DEF ExecuteStep, CountActive, CreateOrder, EnqueueOrder, CancelCheck, CancelStep,
                CancelRead, CancelAnnounce, CancelRefetch, storeVars, docVars
  <1>3. CASE InsertDoc(o)
    BY <1>3 DEF InsertDoc, InitialStatus, ConfirmedHasTx, TypeInv, TypeOK, StoreTypeOK
  <1>4. CASE CancelSave(o)
    BY <1>4, OutsideSaveKeepsHashes DEF CancelSave
  <1>5. QED
    BY <1>2, <1>3, <1>4 DEF docVars, ConfirmedHasTx

LEMMA MonitorKeepsHashes ==
    ASSUME TypeInv, ConfirmedHasTx, MonitorNext, UNCHANGED swaps
    PROVE  ConfirmedHasTx'
  <1>1. PICK r \in Rounds : StartCheck(r) \/ StartCleanup(r) \/ RoundStep(r)
    BY DEF MonitorNext
  <1>2. CASE \/ StartCheck(r) \/ StartCleanup(r) \/ ExpireRead(r) \/ ExpireAnnounce(r)
             \/ ExpireDone(r) \/ EndRound(r)
    BY <1>2 DEF StartCheck, StartCleanup, ExpireRead, ExpireAnnounce, ExpireDone, EndRound,
                storeVars, docVars, ConfirmedHasTx
  <1>3. CASE ExpireSave(r)
    <2>1. PICK o \in round[r].cur : \/ Save(o, round[r].snap, "EXPIRED", NoTx)
                                    \/ SaveError(o, round[r].snap, "EXPIRED", NoTx)
      BY <1>3 DEF ExpireSave
    <2>2. o \in Orders
      BY DEF TypeInv, TypeOK, MonitorTypeOK, Round
    <2>3. QED
      BY <2>1, <2>2, OutsideSaveKeepsHashes
  <1>4. ASSUME NEW o \in Orders, CheckPrice(r, o) \/ TriggerStep(r, o)
        PROVE  ConfirmedHasTx'
    <2>1. UNCHANGED docVars \/ TriggerSave(r, o) \/ CatchSave(r, o)
      BY <1>4 DEF CheckPrice, TriggerStep, TriggerFind, TriggerRead, TriggerEnqueue, CatchFind,
                  CatchRead, storeVars, docVars
    <2>2. QED
      BY <2>1, OutsideSaveKeepsHashes DEF TriggerSave, CatchSave, docVars, ConfirmedHasTx
  <1>5. QED
    BY <1>1, <1>2, <1>3, <1>4 DEF RoundStep

\* The slots that will set CONFIRMED carry the hash of a swap.
SlotsCarryHash == \A w \in Slots : CarriesHash(w)

LEMMA SlotSetCarries ==
    ASSUME slot \in [Slots -> Slot], SlotsCarryHash, UNCHANGED swaps, NEW w \in Slots, NEW s,
           s.pc \in {"read", "save", "announce"} /\ s.target \in {"SUBMITTED", "CONFIRMED"}
             => HashOk(s.order, s.hash),
           slot' = [slot EXCEPT ![w] = s]
    PROVE  SlotsCarryHash'
  BY DEF SlotsCarryHash, CarriesHash, HashOk

LEMMA GoToCarries ==
    ASSUME slot \in [Slots -> Slot], SlotsCarryHash, UNCHANGED swaps, NEW w \in Slots,
           NEW pc \in SlotPC \ {"read"}, GoTo(w, pc),
           pc \in {"save", "announce"} => slot[w].pc \in {"read", "save", "announce"}
    PROVE  SlotsCarryHash'
  <1> DEFINE s == [slot[w] EXCEPT !.pc = pc]
  <1>1. s.pc = pc /\ s.target = slot[w].target /\ s.order = slot[w].order /\ s.hash = slot[w].hash
    BY DEF Slot
  <1>2. slot' = [slot EXCEPT ![w] = s]
    BY DEF GoTo
  <1> HIDE DEF s
  <1>3. s.pc \in {"read", "save", "announce"} /\ s.target \in {"SUBMITTED", "CONFIRMED"}
          => HashOk(s.order, s.hash)
    BY <1>1 DEF SlotsCarryHash, CarriesHash, HashOk
  <1>4. QED
    BY <1>2, <1>3, SlotSetCarries

LEMMA StartUpdateCarries ==
    ASSUME slot \in [Slots -> Slot], SlotsCarryHash, UNCHANGED swaps, NEW w \in Slots,
           NEW target, StartUpdate(w, target),
           target \in {"SUBMITTED", "CONFIRMED"} => HashOk(slot[w].order, slot[w].hash)
    PROVE  SlotsCarryHash'
  <1> DEFINE s == [slot[w] EXCEPT !.pc = "read", !.target = target, !.snap = NoDoc]
  <1>1. s.target = target /\ s.order = slot[w].order /\ s.hash = slot[w].hash
    BY DEF Slot
  <1>2. slot' = [slot EXCEPT ![w] = s]
    BY DEF StartUpdate
  <1> HIDE DEF s
  <1>3. QED
    BY <1>1, <1>2, SlotSetCarries

LEMMA ThrowCarries ==
    ASSUME slot \in [Slots -> Slot], SlotsCarryHash, UNCHANGED swaps, NEW w \in Slots, Throw(w)
    PROVE  SlotsCarryHash'
  <1>0. slot[w] \in Slot
    OBVIOUS
  <1>1. CASE slot[w].inCatch
    <2> DEFINE s == [slot[w] EXCEPT !.pc = "reject"]
    <2>1. s.pc = "reject"
      BY <1>0 DEF Slot
    <2>2. slot' = [slot EXCEPT ![w] = s]
      BY <1>1 DEF Throw
    <2> HIDE DEF s
    <2>3. QED
      BY <2>1, <2>2, SlotSetCarries
  <1>2. CASE ~slot[w].inCatch
    <2> DEFINE s == [slot[w] EXCEPT !.pc = "read", !.target = "FAILED",
                                    !.snap = NoDoc, !.inCatch = TRUE]
    <2>1. s.target = "FAILED"
      BY <1>0 DEF Slot
    <2>2. slot' = [slot EXCEPT ![w] = s]
      BY <1>2 DEF Throw
    <2> HIDE DEF s
    <2>3. QED
      BY <2>1, <2>2, SlotSetCarries
  <1>3. QED
    BY <1>1, <1>2

LEMMA ExecuteSwapCarries ==
    ASSUME TypeInv, HashInv, NEW w \in Slots, ExecuteSwap(w)
    PROVE  HashInv'
  <1>1. slot \in [Slots -> Slot] /\ swaps \in [Orders -> Nat] /\ slot[w].order \in Orders
    BY DEF TypeInv, TypeOK, WorkerTypeOK, SlotsWellFormed, Busy, ExecuteSwap
  <1> DEFINE o == slot[w].order
             h == swaps[o] + 1
  <1>2. CASE StartUpdate(w, "FAILED") /\ UNCHANGED swaps
    <2>1. SlotsCarryHash'
      BY <1>1, <1>2, StartUpdateCarries DEF HashInv, SlotsCarryHash
    <2>2. QED
      BY <1>2, <2>1 DEF ExecuteSwap, storeVars, HashInv, SlotsCarryHash, ConfirmedHasTx
  <1>3. CASE /\ swaps' = [swaps EXCEPT ![o] = h]
             /\ slot' = [slot EXCEPT ![w] =
                           [@ EXCEPT !.pc = "read", !.target = "SUBMITTED",
                                     !.snap = NoDoc, !.hash = h]]
    <2>1. \A p \in Orders : swaps[p] \in Nat /\ swaps'[p] \in Nat /\ swaps[p] <= swaps'[p]
      BY <1>1, <1>3
    <2>2. h \in 1 .. swaps'[o]
      BY <1>1, <1>3
    <2>3. slot'[w].order = o /\ slot'[w].hash = h
      <3> HIDE DEF h
      <3>1. QED
        BY <1>1, <1>3 DEF Slot
    <2>4. \A v \in Slots \ {w} : slot'[v] = slot[v]
      BY <1>3
    <2> HIDE DEF h, o
    <2>5. CarriesHash(w)'
      BY <2>2, <2>3 DEF CarriesHash
    <2>6. ASSUME NEW v \in Slots \ {w}
          PROVE  CarriesHash(v)'
      <3>1. SUFFICES ASSUME slot[v].pc \in {"read", "save", "announce"},
                            slot[v].target \in {"SUBMITTED", "CONFIRMED"}
                     PROVE  slot[v].hash \in 1 .. swaps'[slot[v].order]
        BY <2>4 DEF CarriesHash
      <3>2. slot[v].order \in Orders /\ slot[v].hash \in 1 .. swaps[slot[v].order]
        BY <3>1 DEF TypeInv, SlotsWellFormed, Busy, HashInv, CarriesHash
      <3>3. QED
        BY <2>1, <3>2
    <2>7. ConfirmedHasTx'
      <3>1. status' = status /\ txHash' = txHash
        BY DEF ExecuteSwap, storeVars
      <3>2. QED
        BY <2>1, <3>1 DEF HashInv, ConfirmedHasTx
    <2>8. QED
      BY <2>5, <2>6, <2>7 DEF HashInv
  <1>4. QED
    BY <1>2, <1>3 DEF ExecuteSwap

LEMMA SaveUpdateCarries ==
    ASSUME TypeInv, HashInv, NEW w \in Slots, SaveUpdate(w)
    PROVE  HashInv'
  <1>1. slot \in [Slots -> Slot] /\ slot[w].order \in Orders /\ slot[w].hash \in Nat
    BY DEF TypeInv, TypeOK, WorkerTypeOK, Slot, SlotsWellFormed, Busy, SaveUpdate
  <1> DEFINE h == HashToSave(slot[w])
  <1>2. /\ h \in Nat
        /\ slot[w].target = "CONFIRMED" => HashOk(slot[w].order, h)
        /\ h # NoTx => HashOk(slot[w].order, h)
    BY <1>1 DEF HashToSave, NoTx, SaveUpdate, HashInv, CarriesHash, HashOk
  <1>3. UNCHANGED swaps /\ slot[w].pc = "save" /\ ConfirmedHasTx /\ SlotsCarryHash
    BY DEF SaveUpdate, HashInv, SlotsCarryHash
  <1>4. ConfirmedHasTx'
    <2>1. \/ Save(slot[w].order, slot[w].snap, slot[w].target, h)
          \/ SaveError(slot[w].order, slot[w].snap, slot[w].target, h)
      BY DEF SaveUpdate
    <2> HIDE DEF h
    <2>2. QED
      BY <1>1, <1>2, <1>3, <2>1, SaveKeepsHashes, SaveErrorKeepsHashes
  <1>5. SlotsCarryHash'
    <2>1. GoTo(w, "announce") \/ Throw(w)
      BY DEF SaveUpdate
    <2>2. "announce" \in SlotPC \ {"read"}
      BY DEF SlotPC
    <2>3. QED
      BY <1>1, <1>3, <2>1, <2>2, GoToCarries, ThrowCarries
  <1>6. QED
    BY <1>4, <1>5 DEF HashInv, SlotsCarryHash

LEMMA ProcessCarries ==
    ASSUME TypeInv, HashInv, NEW w \in Slots, ProcessStep(w)
    PROVE  HashInv'
  <1>1. slot \in [Slots -> Slot] /\ SlotsCarryHash
    BY DEF TypeInv, TypeOK, WorkerTypeOK, HashInv, SlotsCarryHash
  <1>2. CASE ReadForUpdate(w)
    <2>1. UNCHANGED <<status, txHash, swaps>>
      BY <1>2 DEF ReadForUpdate, docVars
    <2>2. SlotsCarryHash'
      <3>1. CASE slot' = [slot EXCEPT ![w] =
                            [@ EXCEPT !.pc = "save", !.snap = status[slot[w].order]]]
        <4> DEFINE s == [slot[w] EXCEPT !.pc = "save", !.snap = status[slot[w].order]]
        <4>1. /\ s.target = slot[w].target /\ s.order = slot[w].order
              /\ s.hash = slot[w].hash /\ slot[w].pc = "read"
          BY <1>1, <1>2 DEF Slot, ReadForUpdate
        <4>2. slot' = [slot EXCEPT ![w] = s]
          BY <3>1
        <4> HIDE DEF s
        <4>3. s.target \in {"SUBMITTED", "CONFIRMED"} => HashOk(s.order, s.hash)
          BY <1>1, <4>1 DEF SlotsCarryHash, CarriesHash, HashOk
        <4>4. QED
          BY <1>1, <2>1, <4>2, <4>3, SlotSetCarries
      <3>2. QED
        BY <1>1, <1>2, <2>1, <3>1, ThrowCarries DEF ReadForUpdate
    <2>3. QED
      BY <2>1, <2>2 DEF HashInv, ConfirmedHasTx, SlotsCarryHash
  <1>3. CASE FindOrder(w) \/ Announce(w) \/ GetQuote(w) \/ Refetch(w) \/ UpdateProgress(w)
    <2>1. UNCHANGED <<status, txHash, swaps>>
      BY <1>3 DEF FindOrder, Announce, GetQuote, Refetch, UpdateProgress, docVars, storeVars
    <2>2. \/ \E pc \in SlotPC \ {"read", "save", "announce"} : GoTo(w, pc)
          \/ \E target \in OrderStatus \ {"SUBMITTED", "CONFIRMED"} : StartUpdate(w, target)
          \/ slot[w].pc = "announce" /\ slot[w].target = "SUBMITTED" /\ StartUpdate(w, "CONFIRMED")
          \/ Throw(w)
      BY <1>3 DEF FindOrder, Announce, AfterAnnounce, GetQuote, Refetch, UpdateProgress,
                  SlotPC, OrderStatus
    <2>3. slot[w].pc = "announce" /\ slot[w].target = "SUBMITTED"
            => HashOk(slot[w].order, slot[w].hash)
      BY <1>1 DEF SlotsCarryHash, CarriesHash, HashOk
    <2>4. SlotsCarryHash'
      BY <1>1, <2>1, <2>2, <2>3, GoToCarries, StartUpdateCarries, ThrowCarries
    <2>5. QED
      BY <2>1, <2>4 DEF HashInv, ConfirmedHasTx, SlotsCarryHash
  <1>4. CASE SettleJob(w)
    <2>1. UNCHANGED <<status, txHash, swaps>> /\ slot' = [slot EXCEPT ![w] = IdleSlot]
      BY <1>4 DEF SettleJob, storeVars
    <2>2. IdleSlot.pc = "idle"
      BY DEF IdleSlot
    <2>3. SlotsCarryHash'
      BY <1>1, <2>1, <2>2, SlotSetCarries
    <2>4. QED
      BY <2>1, <2>3 DEF HashInv, ConfirmedHasTx, SlotsCarryHash
  <1>5. QED
    BY <1>2, <1>3, <1>4, SaveUpdateCarries, ExecuteSwapCarries DEF ProcessStep

LEMMA StepHashes ==
    ASSUME TypeInv, HashInv, [Next]_vars
    PROVE  HashInv'
  <1>1. slot \in [Slots -> Slot] /\ SlotsCarryHash /\ ConfirmedHasTx
    BY DEF TypeInv, TypeOK, WorkerTypeOK, HashInv, SlotsCarryHash
  <1>2. ASSUME NEW w \in Slots, NEW o \in Orders, PickJob(w, o)
        PROVE  HashInv'
    <2>1. UNCHANGED <<status, txHash, swaps>>
      BY <1>2 DEF PickJob, storeVars
    <2> DEFINE s == [IdleSlot EXCEPT !.order = o,
                       !.pc = IF o \in LimitOrders THEN "progress" ELSE "find"]
    <2>2. s.pc \in {"progress", "find"} /\ slot' = [slot EXCEPT ![w] = s]
      BY <1>2 DEF PickJob, IdleSlot
    <2> HIDE DEF s
    <2>3. SlotsCarryHash'
      BY <1>1, <2>1, <2>2, SlotSetCarries
    <2>4. QED
      BY <1>1, <2>1, <2>3 DEF HashInv, ConfirmedHasTx, SlotsCarryHash
  <1>3. CASE Api \/ Monitor
    <2>1. UNCHANGED <<slot, swaps>>
      BY <1>3 DEF Api, Monitor, workerVars
    <2>2. ConfirmedHasTx'
      BY <1>1, <1>3, <2>1, ApiKeepsHashes, MonitorKeepsHashes DEF Api, Monitor
    <2>3. QED
      BY <2>1, <2>2 DEF HashInv, CarriesHash
  <1>4. CASE Queue \/ Clock \/ UNCHANGED vars
    <2>1. UNCHANGED <<status, txHash, slot, swaps>>
      BY <1>4 DEF Queue, Clock, vars, storeVars, workerVars
    <2>2. QED
      BY <2>1 DEF HashInv, ConfirmedHasTx, CarriesHash
  <1>5. CASE Crash
    <2>1. UNCHANGED <<status, txHash, swaps>> /\ \A w \in Slots : slot'[w].pc = "idle"
      BY <1>5 DEF Crash, WorkerCrash, IdleSlot, storeVars
    <2>2. QED
      BY <1>1, <2>1 DEF HashInv, ConfirmedHasTx, CarriesHash
  <1>6. QED
    BY <1>2, <1>3, <1>4, <1>5, ProcessCarries DEF Next, Worker, WorkerNext

\* A CONFIRMED order carries the hash of a swap that was executed for it,
\* whichever attempt stored it and whatever failed on the way.
THEOREM ConfirmedCarriesTx == Spec => []ConfirmedHasTx
  <1>1. Init => HashInv
    BY DEF Init, StoreInit, WorkerInit, IdleSlot, NoDoc, HashInv, ConfirmedHasTx, CarriesHash
  <1>2. TypeInv /\ HashInv /\ [Next]_vars => HashInv'
    BY StepHashes
  <1>3. HashInv => ConfirmedHasTx
    BY DEF HashInv
  <1>4. QED
    BY <1>1, <1>2, <1>3, TypeInvariant, PTL DEF Spec
=============================================================================
