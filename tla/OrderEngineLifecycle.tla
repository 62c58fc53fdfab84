-------------------------- MODULE OrderEngineLifecycle --------------------------
(***************************************************************************)
(* The order engine implements the order lifecycle: while nothing fails,   *)
(* every step of the five processes, the queue and the clock is a step of  *)
(* OrderLifecycle or leaves the stages of the market orders alone.         *)
(***************************************************************************)
EXTENDS OrderEngineAttempts

\* No call is rejected, no lock lost, the process does not end, and nobody cancels a
\* market order.
Calm ==
    /\ MaxDbFaults = 0 /\ MaxRedisFaults = 0 /\ MaxLockLosses = 0 /\ MaxCrashes = 0
    /\ Cancellable \cap MarketOrders = {}

EngineInv ==
    /\ TypeInv /\ ControlInv /\ FreshInv /\ LimitsInv /\ CancelInv
    /\ LockInv /\ StallsInv /\ AttemptsInv

\* What that excludes.
LEMMA NothingFails ==
    ASSUME Calm, EngineInv
    PROVE  /\ ~DbError /\ ~RedisError /\ ~Crash
           /\ dbFaults = 0 /\ redisFaults = 0 /\ lockLosses = 0 /\ crashes = 0
           /\ \A o \in Orders : ~LoseLock(o) /\ ~Unheld(o)
           /\ \A w \in Slots : slot[w].pc # "reject"
           /\ \A o \in MarketOrders : cancel[o].pc = "idle"
  <1>1. dbFaults = 0 /\ redisFaults = 0 /\ lockLosses = 0 /\ crashes = 0
    BY DEF Calm, EngineInv, TypeInv, TypeOK, StoreTypeOK, QueueTypeOK
  <1>2. ~DbError /\ ~RedisError /\ ~Crash /\ \A o \in Orders : ~LoseLock(o)
    BY <1>1 DEF Calm, DbError, RedisError, Crash, LoseLock
  <1>3. ASSUME NEW o \in Orders
        PROVE  ~Unheld(o)
    <2>1. job[o].stalls \in Nat
      BY JobTyped DEF EngineInv
    <2>2. job[o].stalls + (IF Unheld(o) THEN 1 ELSE 0) <= 0
      BY <1>1 DEF EngineInv, StallsInv
    <2>3. QED
      BY <2>1, <2>2
  <1>4. \A w \in Slots : slot[w].pc # "reject"
    BY <1>1 DEF EngineInv, ControlInv, Controlled
  <1>5. \A o \in MarketOrders : cancel[o].pc = "idle"
    BY DEF Calm, EngineInv, CancelInv, Orders
  <1>6. QED
    BY <1>1, <1>2, <1>3, <1>4, <1>5

\* Nobody but the attempt at a market order changes its status after the insertion,
\* and no two attempts at it run.
LEMMA CalmWrites ==
    ASSUME Calm, EngineInv, [Next]_vars, NEW o \in MarketOrders, status'[o] # status[o]
    PROVE  \/ Inserts(o) /\ status[o] = NoDoc /\ status'[o] = "PENDING"
           \/ \E w \in Slots : /\ SaveUpdate(w) /\ slot[w].order = o /\ job[o].owner = w
                               /\ status'[o] = slot[w].target
  <1>1. ASSUME NEW w \in Slots, SaveUpdate(w), slot[w].order = o
        PROVE  job[o].owner = w
    BY <1>1, NothingFails DEF EngineInv, LockInv, Busy, SaveUpdate
  <1>2. cancel[o].pc = "idle"
    BY NothingFails
  <1>3. QED
    BY <1>1, <1>2, MarketWrites DEF EngineInv

\* What an attempt does leaves it on course.
LEMMA RunsOnCourse ==
    ASSUME Calm, EngineInv, [Next]_vars, NEW w \in Slots, Runs(w), OnCourse(w),
           slot[w].order \in MarketOrders
    PROVE  OnCourse(w)'
  <1>0. /\ slot \in [Slots -> Slot] /\ Controlled(w) /\ slot[w].order \in Orders
        /\ ~DbError /\ ~RedisError /\ SameOrder(w)
    BY NothingFails, RunsFlat DEF EngineInv, TypeInv, TypeOK, WorkerTypeOK, ControlInv, Orders
  <1>1. CASE SaveUpdate(w)
    <2>1. /\ slot[w].pc = "save"
          /\ Save(slot[w].order, slot[w].snap, slot[w].target, HashToSave(slot[w]))
          /\ To(w, "announce", slot[w].target, slot[w].inCatch)
      BY <1>0, <1>1, SaveUpdateFlat DEF SaveError
    <2>2. slot[w].snap # slot[w].target
      BY <2>1 DEF OnCourse, Advances
    <2>3. status'[slot[w].order] = slot[w].target
      BY <1>0, <2>1, <2>2, SaveFlat DEF EngineInv
    <2>4. QED
      BY <2>1, <2>3 DEF To, SameOrder, OnCourse
  <1>2. CASE ~SaveUpdate(w)
    <2>1. status' = status
      BY <1>2 DEF Runs, ProcessStep, FindOrder, ReadForUpdate, Announce, GetQuote, ExecuteSwap,
                  Refetch, UpdateProgress, storeVars, docVars
    <2>2. status'[slot'[w].order] = status[slot[w].order]
      BY <1>0, <2>1 DEF SameOrder
    <2>3. CASE FindOrder(w)
      BY <1>0, <2>2, <2>3, FindOrderFlat DEF To, OnCourse, Advances
    <2>4. CASE ReadForUpdate(w)
      BY <1>0, <2>2, <2>4, ReadForUpdateFlat DEF To, OnCourse
    <2>5. CASE Announce(w)
      BY <1>0, <2>2, <2>5, AnnounceFlat DEF To, OnCourse, Advances
    <2>6. CASE GetQuote(w)
      <3>1. slot[w].pc = "quote" /\ ~slot[w].inCatch
        BY <1>0, <2>6, GetQuoteFlat DEF Controlled
      <3>2. To(w, "read", "BUILDING", slot[w].inCatch) \/ To(w, "read", "FAILED", TRUE)
        BY <1>0, <2>6, <3>1, GetQuoteFlat DEF Thrown
      <3>3. QED
        BY <2>2, <3>1, <3>2 DEF To, OnCourse, Advances
    <2>7. CASE ExecuteSwap(w)
      BY <1>0, <2>2, <2>7, ExecuteSwapFlat DEF To, OnCourse, Advances
    <2>8. CASE Refetch(w) \/ UpdateProgress(w)
      BY <1>0, <2>2, <2>8, RefetchFlat, UpdateProgressFlat DEF To, OnCourse
    <2>9. QED
      BY <1>2, <2>3, <2>4, <2>5, <2>6, <2>7, <2>8 DEF Runs, ProcessStep
  <1>3. QED
    BY <1>1, <1>2
\* A job becomes waiting or delayed when it is put on the queue, stalls or is rejected.
LEMMA StepReadies ==
    ASSUME TypeInv, [Next]_vars, NEW o \in Orders,
           job'[o].state \in {"waiting", "delayed"}, job[o].state \notin {"waiting", "delayed"}
    PROVE  \/ Adds(o) \/ Stall(o) \/ Crash
           \/ \E w \in Slots : slot[w].pc = "reject"
  <1>1. ASSUME NEW p \in Orders, Adds(p)
        PROVE  Adds(o)
    BY <1>1, AddFlat DEF Adds, JobTo, OtherJobs
  <1>2. ASSUME NEW p \in Orders, NEW w \in Slots, PickJob(w, p)
        PROVE  FALSE
    BY <1>2, TakeFlat DEF PickJob, JobTo, OtherJobs
  <1>3. ASSUME NEW p \in Orders, Moves(p)
        PROVE  Stall(o)
    <2>1. p = o
      BY <1>3, PromoteFlat, LoseLockFlat, StallFlat, RemoveFlat DEF Moves, JobTo, OtherJobs
    <2>2. ~Promote(o) /\ ~LoseLock(o) /\ ~Remove(o)
      BY PromoteFlat, LoseLockFlat, RemoveFlat DEF JobTo
    <2>3. QED
      BY <1>3, <2>1, <2>2 DEF Moves
  <1>4. ASSUME NEW w \in Slots, SettleJob(w)
        PROVE  slot[w].pc = "reject"
    <2>1. job[slot[w].order].owner # NoSlot /\ slot[w].order \in Orders
             => job[slot[w].order].state = "active"
      BY DEF TypeInv, JobsBounded
    <2>2. QED
      BY <1>4, <2>1, SettleFlat, QueueAssumption DEF JobTo, OtherJobs
  <1>5. QED
    BY <1>1, <1>2, <1>3, <1>4, StepKinds

\* Every slot stays on course, the ones that do not move because nobody else
\* changes the status of their order.
LEMMA StepOnCourse ==
    ASSUME Calm, EngineInv, CourseInv, [Next]_vars, NEW w \in Slots,
           slot'[w].order \in MarketOrders
    PROVE  OnCourse(w)'
  <1>0. /\ slot \in [Slots -> Slot] /\ MarketOrders \subseteq Orders
        /\ \A o \in MarketOrders : o \notin LimitOrders
    BY OrdersAssumption DEF EngineInv, TypeInv, TypeOK, WorkerTypeOK, Orders
  <1> DEFINE o == slot'[w].order
  <1>1. CASE slot'[w] = slot[w]
    <2>1. OnCourse(w)
      BY <1>1 DEF CourseInv
    <2>2. CASE status'[o] = status[o]
      BY <1>1, <2>1, <2>2 DEF OnCourse
    <2>3. CASE status'[o] # status[o] /\ Busy(w)
      <3>1. job[o].owner = w
        BY <1>1, <2>3, NothingFails DEF EngineInv, LockInv
      <3>2. status[o] # NoDoc
        BY <1>0, <1>1 DEF EngineInv, FreshInv, Fresh
      <3>3. SaveUpdate(w)
        BY <2>3, <3>1, <3>2, CalmWrites
      <3>4. slot'[w].pc = "announce" /\ slot[w].pc = "save"
        BY <1>0, <3>3, NothingFails, SaveUpdateFlat DEF To, SaveError
      <3>5. QED
        BY <1>1, <3>4
    <2>4. CASE ~Busy(w)
      BY <1>1, <2>4 DEF Busy, OnCourse
    <2>5. QED
      BY <2>2, <2>3, <2>4
  <1>2. CASE Runs(w)
    <2>1. slot[w].order = o
      BY <1>2, RunsFlat DEF EngineInv, SameOrder
    <2>2. QED
      BY <1>2, <2>1, RunsOnCourse DEF CourseInv
  <1>3. ASSUME NEW p \in Orders, PickJob(w, p)
        PROVE  OnCourse(w)'
    <2>1. p = o /\ slot'[w].pc = "find"
      BY <1>0, <1>3, PickJobFlat
    <2>2. job[o].state = "waiting" /\ status' = status
      BY <1>3, <2>1 DEF PickJob, Take, storeVars
    <2>3. status[o] = "PENDING"
      BY <2>2 DEF CourseInv
    <2>4. QED
      BY <2>1, <2>2, <2>3 DEF OnCourse
  <1>4. CASE slot'[w] # slot[w] /\ ~Runs(w) /\ \A p \in Orders : ~PickJob(w, p)
    <2>1. ASSUME NEW v \in Slots, v # w, Runs(v) \/ SettleJob(v) \/ \E p \in Orders : PickJob(v, p)
          PROVE  FALSE
      BY <1>0, <1>4, <2>1, RunsFlat, SettleJobFlat, PickJobFlat DEF SameOrder, EngineInv
    <2>2. ~SettleJob(w)
      BY <1>0, SettleJobFlat, WorkerAssumption
    <2>3. ~Crash /\ slot' # slot
      BY <1>4, NothingFails
    <2>4. QED
      BY <1>4, <2>1, <2>2, <2>3, StepKinds DEF EngineInv, SlotsRest
  <1>5. QED
    BY <1>1, <1>2, <1>3, <1>4

\* An order waits for its first attempt as PENDING.
LEMMA StepWaits ==
    ASSUME Calm, EngineInv, CourseInv, [Next]_vars, NEW o \in MarketOrders,
           request'[o] = "inserted" \/ job'[o].state \in {"waiting", "delayed"}
    PROVE  status'[o] = "PENDING"
  <1>0. o \in Orders /\ o \notin LimitOrders /\ NoSlot \notin Slots
    BY OrdersAssumption, QueueAssumption DEF Orders
  <1>1. CASE request[o] = "inserted" \/ job[o].state \in {"waiting", "delayed"}
    <2>1. status[o] = "PENDING"
      BY <1>1 DEF CourseInv
    <2>2. job[o].owner = NoSlot
      <3>1. job[o].state # "active"
        BY <1>0, <1>1 DEF EngineInv, AttemptsInv, Unqueued
      <3>2. QED
        BY <1>0, <3>1 DEF EngineInv, TypeInv, JobsBounded
    <2>3. QED
      BY <1>0, <2>1, <2>2, CalmWrites DEF NoDoc
  <1>2. CASE request[o] # "inserted" /\ request'[o] = "inserted"
    <2>1. request[o] # "accepted"
      BY <1>0, <1>2, StepUnqueued DEF Unqueued, EngineInv
    <2>2. InsertDoc(o)
      BY <1>0, <1>2, <2>1, StepRequests DEF EngineInv
    <2>3. QED
      BY <1>0, <2>2, InsertDocFlat DEF EngineInv, InitialStatus
  <1>3. CASE /\ request[o] # "inserted" /\ job[o].state \notin {"waiting", "delayed"}
             /\ job'[o].state \in {"waiting", "delayed"}
    <2>1. Adds(o)
      BY <1>0, <1>3, StepReadies, NothingFails, StallFlat DEF EngineInv
    <2>2. EnqueueOrder(o)
      BY <1>0, <2>1, AddsWhere DEF EngineInv
    <2>3. QED
      BY <1>3, <2>2 DEF EnqueueOrder
  <1>4. QED
    BY <1>1, <1>2, <1>3

LEMMA StepCourse ==
    ASSUME Calm, EngineInv, CourseInv, [Next]_vars
    PROVE  CourseInv'
  BY StepOnCourse, StepWaits DEF CourseInv

-----------------------------------------------------------------------------

Stage == [o \in MarketOrders |-> status[o]]

\* A step that changes only the status of a market order moves its stage.
LEMMA StageMoves ==
    ASSUME NEW o \in MarketOrders, \A p \in MarketOrders \ {o} : status'[p] = status[p]
    PROVE  Stage' = [Stage EXCEPT ![o] = status'[o]]
  BY DEF Stage

\* A status changes as the lifecycle says: the order is received, advances or fails.
LEMMA StepMapped ==
    ASSUME Calm, EngineInv, CourseInv, [Next]_vars
    PROVE  Lifecycle!Next \/ UNCHANGED Stage
  <1>1. CASE \A o \in MarketOrders : status'[o] = status[o]
    BY <1>1 DEF Stage
  <1>2. ASSUME NEW o \in MarketOrders, status'[o] # status[o]
        PROVE  Lifecycle!Next
    <2>0. o \in Orders /\ o \notin LimitOrders /\ MarketOrders \subseteq Orders
      BY OrdersAssumption DEF Orders
    <2>1. CASE Inserts(o) /\ status[o] = NoDoc /\ status'[o] = "PENDING"
      <3>1. Stage' = [Stage EXCEPT ![o] = "PENDING"] /\ Stage[o] = "NONE"
        BY <2>0, <2>1, InsertDocFlat, StageMoves DEF Inserts, EngineInv, Stage, NoDoc
      <3>2. Lifecycle!Receive(o)
        BY <3>1 DEF Lifecycle!Receive, Lifecycle!Move, Stage
      <3>3. QED
        BY <3>2 DEF Lifecycle!Next
    <2>2. ASSUME NEW w \in Slots, SaveUpdate(w), slot[w].order = o, status'[o] = slot[w].target
          PROVE  Lifecycle!Next
      <3>1. /\ slot[w].pc = "save"
            /\ Save(o, slot[w].snap, slot[w].target, HashToSave(slot[w]))
        BY <2>2, NothingFails, SaveUpdateFlat
        DEF EngineInv, TypeInv, TypeOK, WorkerTypeOK, SaveError
      <3>2. Advances(status[o], slot[w].target)
        BY <2>2, <3>1 DEF CourseInv, OnCourse
      <3>3. Stage' = [Stage EXCEPT ![o] = slot[w].target] /\ Stage[o] = status[o]
        BY <2>0, <2>2, <3>1, SaveFlat, StageMoves DEF EngineInv, Stage
      <3>4. \/ Stage[o] = "PENDING" /\ Stage' = [Stage EXCEPT ![o] = "ROUTING"]
            \/ Stage[o] = "ROUTING" /\ Stage' = [Stage EXCEPT ![o] = "BUILDING"]
            \/ Stage[o] = "BUILDING" /\ Stage' = [Stage EXCEPT ![o] = "SUBMITTED"]
            \/ Stage[o] = "SUBMITTED" /\ Stage' = [Stage EXCEPT ![o] = "CONFIRMED"]
            \/ Stage[o] \in {"ROUTING", "BUILDING"} /\ Stage' = [Stage EXCEPT ![o] = "FAILED"]
        BY <3>2, <3>3 DEF Advances
      <3>5. Lifecycle!Advance(o) \/ Lifecycle!Fail(o)
        <4>1. ASSUME NEW s \in {"PENDING", "ROUTING", "BUILDING", "SUBMITTED"}, Stage[o] = s,
                     Stage' = [Stage EXCEPT ![o] = Lifecycle!Following[s]]
              PROVE  Lifecycle!Advance(o)
          <5>1. s \in DOMAIN Lifecycle!Following
            BY DEF Lifecycle!Following
          <5>2. QED
            BY <4>1, <5>1 DEF Lifecycle!Advance, Lifecycle!Move, Stage
        <4>2. ASSUME Stage[o] \in {"ROUTING", "BUILDING"}, Stage' = [Stage EXCEPT ![o] = "FAILED"]
              PROVE  Lifecycle!Fail(o)
          BY <4>2 DEF Lifecycle!Fail, Lifecycle!MayFail, Lifecycle!Move, Stage
        <4>3. /\ Lifecycle!Following["PENDING"] = "ROUTING"
              /\ Lifecycle!Following["ROUTING"] = "BUILDING"
              /\ Lifecycle!Following["BUILDING"] = "SUBMITTED"
              /\ Lifecycle!Following["SUBMITTED"] = "CONFIRMED"
          BY DEF Lifecycle!Following
        <4>4. QED
          BY <3>4, <4>1, <4>2, <4>3
      <3>6. QED
        BY <3>5 DEF Lifecycle!Next
    <2>3. QED
      BY <1>2, <2>1, <2>2, CalmWrites
  <1>3. QED
    BY <1>1, <1>2

LEMMA EngineInvariant == Spec => []EngineInv
  <1>1. Init => LockInv
    <2>1. Init => \A w \in Slots : ~Busy(w)
      BY DEF Init, WorkerInit, IdleSlot, Busy
    <2>2. QED
      BY <2>1 DEF LockInv
  <1>2. TypeInv /\ LockInv /\ [Next]_vars => LockInv'
    BY StepLocks
  <1>3. QED
    BY <1>1, <1>2, TypeInvariant, ControlInvariant, FreshInvariant, LimitsInvariant,
       CancelInvariant, StallsInvariant, AttemptsInvariant, PTL DEF Spec, EngineInv

\* While nothing fails and nobody cancels market orders, the engine implements the
\* order lifecycle: a market order is received as PENDING, goes through ROUTING,
\* BUILDING and SUBMITTED to CONFIRMED and nowhere else, except that it may become
\* FAILED from ROUTING (no quote) and BUILDING (no swap), whatever the other orders,
\* the cancel requests and the price monitor do meanwhile.
THEOREM FollowsLifecycle ==
    ASSUME Calm
    PROVE  Spec => Lifecycle!Init /\ [][Lifecycle!Next]_Stage
  <1>1. Init => CourseInv /\ Lifecycle!Init
    <2>1. Init => \A w \in Slots : slot[w].order = NoOrder
      BY DEF Init, WorkerInit, IdleSlot
    <2>2. Init => \A o \in MarketOrders : request[o] = "new" /\ job[o].state = "none"
      BY DEF Init, ApiInit, QueueInit, NoJob, Orders
    <2>3. Init => Lifecycle!Init
      BY DEF Init, StoreInit, Lifecycle!Init, NoDoc, Orders
    <2>4. QED
      BY <2>1, <2>2, <2>3, WorkerAssumption DEF CourseInv, Orders
  <1>2. EngineInv /\ CourseInv /\ [Next]_vars => CourseInv' /\ [Lifecycle!Next]_Stage
    BY StepCourse, StepMapped
  <1>3. QED
    BY <1>1, <1>2, EngineInvariant, PTL DEF Spec
=============================================================================
