--------------------------- MODULE OrderEngineProofs ---------------------------
(***************************************************************************)
(* Proofs about OrderEngine for every set of orders, slots and rounds and  *)
(* every value of the bounds.                                              *)
(***************************************************************************)
EXTENDS OrderEngineInv, TLAPS

-----------------------------------------------------------------------------
(***************************************************************************)
(* Typing.                                                                 *)
(***************************************************************************)

DocTypeOK ==
    /\ status \in [Orders -> OrderStatus \cup {NoDoc}]
    /\ txHash \in [Orders -> Nat]
    /\ recorded \in [Orders -> SUBSET OrderStatus]

\* Saving keeps the documents well typed.
LEMMA SaveTyped ==
    ASSUME NEW o \in Orders, NEW snap, NEW target \in OrderStatus, NEW hash \in Nat,
           DocTypeOK, Save(o, snap, target, hash)
    PROVE  DocTypeOK'
  BY DEF Save, DocTypeOK

LEMMA SaveErrorTyped ==
    ASSUME NEW o \in Orders, NEW snap, NEW target \in OrderStatus, NEW hash \in Nat,
           DocTypeOK, dbFaults \in 0 .. MaxDbFaults, SaveError(o, snap, target, hash)
    PROVE  DocTypeOK' /\ dbFaults' \in 0 .. MaxDbFaults
  <1>1. dbFaults' \in 0 .. MaxDbFaults
    BY OrdersAssumption DEF SaveError, DbError
  <1>2. DocTypeOK'
    <2>1. CASE Save(o, snap, target, hash)
      BY <2>1, SaveTyped
    <2>2. CASE UNCHANGED docVars
      BY <2>2 DEF docVars, DocTypeOK
    <2>3. QED
      BY <2>1, <2>2 DEF SaveError
  <1>3. QED
    BY <1>1, <1>2

\* The bounded counters of faults stay in their bounds.
LEMMA DbTyped ==
    ASSUME dbFaults \in 0 .. MaxDbFaults, DbOk \/ DbError
    PROVE  dbFaults' \in 0 .. MaxDbFaults
  BY OrdersAssumption DEF DbOk, DbError

LEMMA RedisTyped ==
    ASSUME redisFaults \in 0 .. MaxRedisFaults, RedisOk \/ RedisError
    PROVE  redisFaults' \in 0 .. MaxRedisFaults
  BY QueueAssumption DEF RedisOk, RedisError

\* Entering the catch block, or leaving it by an error, keeps the slots typed.
LEMMA ThrowTyped ==
    ASSUME NEW w \in Slots, slot \in [Slots -> Slot], SlotsWellFormed, Busy(w), Throw(w)
    PROVE  slot' \in [Slots -> Slot] /\ SlotsWellFormed'
  <1>1. CASE slot[w].inCatch
    <2>1. slot' = [slot EXCEPT ![w] = [slot[w] EXCEPT !.pc = "reject"]]
      BY <1>1 DEF Throw
    <2>2. QED
      BY <2>1 DEF Slot, SlotPC, SlotsWellFormed, Busy
  <1>2. CASE ~slot[w].inCatch
    <2>1. slot' = [slot EXCEPT ![w] = [slot[w] EXCEPT !.pc = "read", !.target = "FAILED",
                                                     !.snap = NoDoc, !.inCatch = TRUE]]
      BY <1>2 DEF Throw
    <2>2. [slot[w] EXCEPT !.pc = "read", !.target = "FAILED", !.snap = NoDoc,
                          !.inCatch = TRUE] \in Slot
      BY DEF Slot, SlotPC, OrderStatus
    <2>3. slot' \in [Slots -> Slot]
      BY <2>1, <2>2
    <2>4. slot'[w].order = slot[w].order /\ slot'[w].target = "FAILED"
      BY <2>1 DEF Slot
    <2>5. \A v \in Slots : v # w => slot'[v] = slot[v]
      BY <2>1
    <2>6. SlotsWellFormed'
      <3>1. slot[w].order \in Orders
        BY DEF SlotsWellFormed
      <3>2. "FAILED" \in OrderStatus
        BY DEF OrderStatus
      <3>3. QED
        BY <2>4, <2>5, <3>1, <3>2 DEF SlotsWellFormed, Busy
    <2>7. QED
      BY <2>3, <2>6
  <1>3. QED
    BY <1>1, <1>2

LEMMA GoToTyped ==
    ASSUME NEW w \in Slots, slot \in [Slots -> Slot], SlotsWellFormed, Busy(w),
           NEW pc \in SlotPC \ {"read", "save", "announce"}, GoTo(w, pc)
    PROVE  slot' \in [Slots -> Slot] /\ SlotsWellFormed'
  BY DEF GoTo, Slot, SlotPC, SlotsWellFormed, Busy

LEMMA StartUpdateTyped ==
    ASSUME NEW w \in Slots, slot \in [Slots -> Slot], SlotsWellFormed, Busy(w),
           NEW target \in OrderStatus, StartUpdate(w, target)
    PROVE  slot' \in [Slots -> Slot] /\ SlotsWellFormed'
  <1>0. [slot[w] EXCEPT !.pc = "read", !.target = target, !.snap = NoDoc] \in Slot
    BY DEF Slot, SlotPC
  <1>1. slot' \in [Slots -> Slot]
    BY <1>0 DEF StartUpdate
  <1>2. slot'[w].order = slot[w].order /\ slot'[w].target = target
    BY DEF StartUpdate, Slot
  <1>3. \A v \in Slots : v # w => slot'[v] = slot[v]
    BY DEF StartUpdate
  <1>4. QED
    BY <1>1, <1>2, <1>3 DEF SlotsWellFormed, Busy

\* The part of the typing invariant that the worker can change.
CoreInv ==
    /\ StoreTypeOK /\ QueueTypeOK /\ WorkerTypeOK
    /\ JobsBounded /\ SlotsWellFormed

LEMMA QueueUnchanged ==
    ASSUME QueueTypeOK, JobsBounded, UNCHANGED queueVars
    PROVE  QueueTypeOK' /\ JobsBounded'
  BY DEF QueueTypeOK, JobsBounded, queueVars

LEMMA DocsUnchanged ==
    ASSUME StoreTypeOK, UNCHANGED docVars, UNCHANGED notified,
           dbFaults' \in 0 .. MaxDbFaults
    PROVE  StoreTypeOK'
  BY DEF StoreTypeOK, docVars

LEMMA StoreUnchanged ==
    ASSUME StoreTypeOK, UNCHANGED storeVars
    PROVE  StoreTypeOK'
  BY DEF StoreTypeOK, storeVars

LEMMA BroadcastTyped ==
    ASSUME StoreTypeOK, NEW o \in Orders, NEW s \in OrderStatus, Broadcast(o, s),
           UNCHANGED docVars, UNCHANGED dbFaults
    PROVE  StoreTypeOK'
  BY DEF StoreTypeOK, docVars, Broadcast

LEMMA SlotsUnchanged ==
    ASSUME WorkerTypeOK, SlotsWellFormed, UNCHANGED workerVars
    PROVE  WorkerTypeOK' /\ SlotsWellFormed'
  BY DEF WorkerTypeOK, SlotsWellFormed, workerVars, Busy

\* Freeing a slot, and giving a free slot an order.
LEMMA SlotSetTyped ==
    ASSUME NEW w \in Slots, slot \in [Slots -> Slot], SlotsWellFormed,
           NEW s \in Slot, s.pc # "idle" => s.order \in Orders,
           s.pc \in {"read", "save", "announce"} => s.target \in OrderStatus,
           slot' = [slot EXCEPT ![w] = s]
    PROVE  slot' \in [Slots -> Slot] /\ SlotsWellFormed'
  BY DEF SlotsWellFormed, Busy

LEMMA JobSetTyped ==
    ASSUME NEW o \in Orders, job \in [Orders -> Job], JobsBounded, NEW j \in Job,
           j.state \in Live => j.made < MaxRetryAttempts /\ j.stalls <= MaxStalledCount,
           j.owner # NoSlot => j.state = "active",
           job' = [job EXCEPT ![o] = j]
    PROVE  job' \in [Orders -> Job] /\ JobsBounded'
  BY DEF JobsBounded

LEMMA PickJobTyped ==
    ASSUME CoreInv, NEW w \in Slots, NEW o \in Orders, PickJob(w, o)
    PROVE  CoreInv'
  <1> DEFINE s == [IdleSlot EXCEPT !.order = o,
                     !.pc = IF o \in LimitOrders THEN "progress" ELSE "find"]
  <1>1. s \in Slot /\ s.order = o /\ s.pc \in {"progress", "find"}
    BY DEF IdleSlot, Slot, SlotPC, NoTx
  <1>2. slot' \in [Slots -> Slot] /\ SlotsWellFormed'
    <2>1. slot' = [slot EXCEPT ![w] = s]
      BY DEF PickJob
    <2>2. QED
      BY <1>1, <2>1, SlotSetTyped DEF CoreInv, WorkerTypeOK
  <1> DEFINE j == [job[o] EXCEPT !.state = "active", !.owner = w]
  <1>3. job' = [job EXCEPT ![o] = j] /\ job[o] \in Job /\ job[o].state = "waiting"
    BY DEF PickJob, Take, CoreInv, QueueTypeOK
  <1>4. j \in Job /\ j.state = "active" /\ j.made = job[o].made /\ j.stalls = job[o].stalls
    BY <1>3 DEF Job, JobState
  <1>5. job' \in [Orders -> Job] /\ JobsBounded'
    <2>1. job[o].made < MaxRetryAttempts /\ job[o].stalls <= MaxStalledCount
      BY <1>3 DEF CoreInv, JobsBounded, Live
    <2> HIDE DEF j
    <2>2. QED
      BY <1>3, <1>4, <2>1, JobSetTyped DEF CoreInv, QueueTypeOK
  <1>6. StoreTypeOK'
    BY StoreUnchanged DEF PickJob, CoreInv
  <1>7. QED
    BY <1>2, <1>5, <1>6 DEF PickJob, CoreInv, QueueTypeOK, WorkerTypeOK

LEMMA FindOrderTyped ==
    ASSUME CoreInv, NEW w \in Slots, FindOrder(w)
    PROVE  CoreInv'
  <1>1. QueueTypeOK' /\ JobsBounded'
    BY QueueUnchanged DEF FindOrder, CoreInv
  <1>2. StoreTypeOK'
    BY DbTyped, DocsUnchanged DEF FindOrder, CoreInv, StoreTypeOK
  <1>3. slot' \in [Slots -> Slot] /\ SlotsWellFormed'
    <2>1. Busy(w) /\ "ROUTING" \in OrderStatus
                  /\ "reject" \in SlotPC \ {"read", "save", "announce"}
      BY DEF FindOrder, Busy, OrderStatus, SlotPC
    <2>2. QED
      BY <2>1, StartUpdateTyped, GoToTyped DEF FindOrder, CoreInv, WorkerTypeOK
  <1>4. QED
    BY <1>1, <1>2, <1>3 DEF FindOrder, CoreInv, WorkerTypeOK

LEMMA ReadForUpdateTyped ==
    ASSUME CoreInv, NEW w \in Slots, ReadForUpdate(w)
    PROVE  CoreInv'
  <1>1. QueueTypeOK' /\ JobsBounded'
    BY QueueUnchanged DEF ReadForUpdate, CoreInv
  <1>2. StoreTypeOK'
    BY DbTyped, DocsUnchanged DEF ReadForUpdate, CoreInv, StoreTypeOK
  <1>3. Busy(w) /\ slot[w] \in Slot /\ slot[w].order \in Orders /\ slot[w].target \in OrderStatus
    BY DEF ReadForUpdate, Busy, CoreInv, WorkerTypeOK, SlotsWellFormed
  <1>4. slot' \in [Slots -> Slot] /\ SlotsWellFormed'
    <2>1. CASE DbError /\ Throw(w)
      BY <2>1, <1>3, ThrowTyped DEF CoreInv, WorkerTypeOK
    <2>2. CASE slot' = [slot EXCEPT ![w] =
                          [@ EXCEPT !.pc = "save", !.snap = status[slot[w].order]]]
      <3> DEFINE s == [slot[w] EXCEPT !.pc = "save", !.snap = status[slot[w].order]]
      <3>1. s \in Slot /\ s.pc = "save" /\ s.order = slot[w].order /\ s.target = slot[w].target
        BY <1>3 DEF CoreInv, StoreTypeOK, Slot, SlotPC
      <3>2. slot' = [slot EXCEPT ![w] = s]
        BY <2>2
      <3> HIDE DEF s
      <3>3. QED
        BY <1>3, <3>1, <3>2, SlotSetTyped DEF CoreInv, WorkerTypeOK
    <2>3. QED
      BY <2>1, <2>2 DEF ReadForUpdate
  <1>5. QED
    BY <1>1, <1>2, <1>4 DEF ReadForUpdate, CoreInv, WorkerTypeOK

LEMMA SaveUpdateTyped ==
    ASSUME CoreInv, NEW w \in Slots, SaveUpdate(w)
    PROVE  CoreInv'
  <1>1. QueueTypeOK' /\ JobsBounded'
    BY QueueUnchanged DEF SaveUpdate, CoreInv
  <1>2. Busy(w) /\ slot[w] \in Slot /\ slot[w].order \in Orders /\ slot[w].target \in OrderStatus
    BY DEF SaveUpdate, Busy, CoreInv, WorkerTypeOK, SlotsWellFormed
  <1>3. HashToSave(slot[w]) \in Nat
    BY <1>2 DEF HashToSave, Slot, NoTx
  <1>4. DocTypeOK /\ dbFaults \in 0 .. MaxDbFaults
    BY DEF CoreInv, StoreTypeOK, DocTypeOK
  <1>5. StoreTypeOK' /\ slot' \in [Slots -> Slot] /\ SlotsWellFormed'
    <2>1. CASE DbOk /\ Save(slot[w].order, slot[w].snap, slot[w].target, HashToSave(slot[w]))
                    /\ GoTo(w, "announce")
      <3>1. DocTypeOK'
        BY <2>1, <1>2, <1>3, <1>4, SaveTyped
      <3>2. dbFaults' \in 0 .. MaxDbFaults
        BY <2>1, <1>4 DEF DbOk
      <3> DEFINE s == [slot[w] EXCEPT !.pc = "announce"]
      <3>3. s \in Slot /\ s.pc = "announce" /\ s.order = slot[w].order /\ s.target = slot[w].target
        BY <1>2 DEF Slot, SlotPC
      <3>4. slot' = [slot EXCEPT ![w] = s]
        BY <2>1 DEF GoTo
      <3> HIDE DEF s
      <3>5. slot' \in [Slots -> Slot] /\ SlotsWellFormed'
        BY <1>2, <3>3, <3>4, SlotSetTyped DEF CoreInv, WorkerTypeOK
      <3>6. QED
        BY <3>1, <3>2, <3>5 DEF SaveUpdate, CoreInv, StoreTypeOK, DocTypeOK
    <2>2. CASE SaveError(slot[w].order, slot[w].snap, slot[w].target, HashToSave(slot[w]))
               /\ Throw(w)
      <3>1. DocTypeOK' /\ dbFaults' \in 0 .. MaxDbFaults
        BY <2>2, <1>2, <1>3, <1>4, SaveErrorTyped
      <3>2. slot' \in [Slots -> Slot] /\ SlotsWellFormed'
        BY <2>2, <1>2, ThrowTyped DEF CoreInv, WorkerTypeOK
      <3>3. QED
        BY <3>1, <3>2 DEF SaveUpdate, CoreInv, StoreTypeOK, DocTypeOK
    <2>3. QED
      BY <2>1, <2>2 DEF SaveUpdate
  <1>6. QED
    BY <1>1, <1>5 DEF SaveUpdate, CoreInv, WorkerTypeOK

LEMMA AnnounceTyped ==
    ASSUME CoreInv, NEW w \in Slots, Announce(w)
    PROVE  CoreInv'
  <1>1. QueueTypeOK' /\ JobsBounded'
    BY QueueUnchanged DEF Announce, CoreInv
  <1>2. Busy(w) /\ slot[w].order \in Orders /\ slot[w].target \in OrderStatus
    BY DEF Announce, Busy, CoreInv, SlotsWellFormed
  <1>3. StoreTypeOK'
    BY <1>2, BroadcastTyped DEF Announce, CoreInv
  <1>4. slot' \in [Slots -> Slot] /\ SlotsWellFormed'
    <2>1. \/ GoTo(w, "quote") \/ GoTo(w, "swap") \/ GoTo(w, "refetch")
          \/ StartUpdate(w, "CONFIRMED")
      BY DEF Announce, AfterAnnounce
    <2>2. {"quote", "swap", "refetch"} \subseteq SlotPC \ {"read", "save", "announce"}
      BY DEF SlotPC
    <2>3. "CONFIRMED" \in OrderStatus
      BY DEF OrderStatus
    <2>4. QED
      BY <1>2, <2>1, <2>2, <2>3, GoToTyped, StartUpdateTyped DEF CoreInv, WorkerTypeOK
  <1>5. QED
    BY <1>1, <1>3, <1>4 DEF Announce, CoreInv, WorkerTypeOK

LEMMA GetQuoteTyped ==
    ASSUME CoreInv, NEW w \in Slots, GetQuote(w)
    PROVE  CoreInv'
  <1>1. QueueTypeOK' /\ JobsBounded' /\ StoreTypeOK'
    BY QueueUnchanged, StoreUnchanged DEF GetQuote, CoreInv
  <1>2. slot' \in [Slots -> Slot] /\ SlotsWellFormed'
    <2>1. Busy(w) /\ "BUILDING" \in OrderStatus
      BY DEF GetQuote, Busy, OrderStatus
    <2>2. StartUpdate(w, "BUILDING") \/ Throw(w)
      BY DEF GetQuote
    <2>3. QED
      BY <2>1, <2>2, StartUpdateTyped, ThrowTyped DEF CoreInv, WorkerTypeOK
  <1>3. QED
    BY <1>1, <1>2 DEF GetQuote, CoreInv, WorkerTypeOK

LEMMA ExecuteSwapTyped ==
    ASSUME CoreInv, NEW w \in Slots, ExecuteSwap(w)
    PROVE  CoreInv'
  <1>1. QueueTypeOK' /\ JobsBounded' /\ StoreTypeOK'
    BY QueueUnchanged, StoreUnchanged DEF ExecuteSwap, CoreInv
  <1>2. Busy(w) /\ slot[w] \in Slot /\ slot[w].order \in Orders /\ swaps \in [Orders -> Nat]
    BY DEF ExecuteSwap, Busy, CoreInv, WorkerTypeOK, SlotsWellFormed
  <1>3. slot' \in [Slots -> Slot] /\ SlotsWellFormed'
    <2>1. CASE StartUpdate(w, "FAILED")
      <3>1. "FAILED" \in OrderStatus
        BY DEF OrderStatus
      <3>2. QED
        BY <2>1, <1>2, <3>1, StartUpdateTyped DEF CoreInv, WorkerTypeOK
    <2>2. CASE slot' = [slot EXCEPT ![w] =
                          [@ EXCEPT !.pc = "read", !.target = "SUBMITTED", !.snap = NoDoc,
                                    !.hash = swaps[slot[w].order] + 1]]
      <3> DEFINE h == swaps[slot[w].order] + 1
                 s == [slot[w] EXCEPT !.pc = "read", !.target = "SUBMITTED", !.snap = NoDoc,
                                      !.hash = h]
      <3>0. h \in Nat
        BY <1>2
      <3>1. s \in Slot /\ s.order = slot[w].order /\ s.target \in OrderStatus
        <4> HIDE DEF h
        <4>1. QED
          BY <1>2, <3>0 DEF Slot, SlotPC, OrderStatus
      <3>2. slot' = [slot EXCEPT ![w] = s]
        BY <2>2
      <3> HIDE DEF s
      <3>3. QED
        BY <1>2, <3>1, <3>2, SlotSetTyped DEF CoreInv, WorkerTypeOK
    <2>3. QED
      BY <2>1, <2>2 DEF ExecuteSwap
  <1>4. swaps' \in [Orders -> Nat]
    BY <1>2 DEF ExecuteSwap
  <1>5. QED
    BY <1>1, <1>3, <1>4 DEF CoreInv, WorkerTypeOK

LEMMA RefetchTyped ==
    ASSUME CoreInv, NEW w \in Slots, Refetch(w)
    PROVE  CoreInv'
  <1>1. QueueTypeOK' /\ JobsBounded'
    BY QueueUnchanged DEF Refetch, CoreInv
  <1>2. StoreTypeOK'
    BY DbTyped, DocsUnchanged DEF Refetch, CoreInv, StoreTypeOK
  <1>3. slot' \in [Slots -> Slot] /\ SlotsWellFormed'
    <2>1. Busy(w) /\ "progress" \in SlotPC \ {"read", "save", "announce"}
      BY DEF Refetch, Busy, SlotPC
    <2>2. GoTo(w, "progress") \/ Throw(w)
      BY DEF Refetch
    <2>3. QED
      BY <2>1, <2>2, ThrowTyped, GoToTyped DEF CoreInv, WorkerTypeOK
  <1>4. QED
    BY <1>1, <1>2, <1>3 DEF Refetch, CoreInv, WorkerTypeOK

LEMMA UpdateProgressTyped ==
    ASSUME CoreInv, NEW w \in Slots, UpdateProgress(w)
    PROVE  CoreInv'
  <1>1. QueueTypeOK' /\ JobsBounded'
    BY RedisTyped DEF UpdateProgress, CoreInv, QueueTypeOK, JobsBounded
  <1>2. StoreTypeOK'
    BY StoreUnchanged DEF UpdateProgress, CoreInv
  <1>3. slot' \in [Slots -> Slot] /\ SlotsWellFormed'
    <2>1. Busy(w) /\ {"resolve", "reject"} \subseteq SlotPC \ {"read", "save", "announce"}
      BY DEF UpdateProgress, Busy, SlotPC
    <2>2. GoTo(w, "resolve") \/ GoTo(w, "reject")
      BY DEF UpdateProgress
    <2>3. QED
      BY <2>1, <2>2, GoToTyped DEF CoreInv, WorkerTypeOK
  <1>4. QED
    BY <1>1, <1>2, <1>3 DEF UpdateProgress, CoreInv, WorkerTypeOK

LEMMA SettleJobTyped ==
    ASSUME CoreInv, NEW w \in Slots, SettleJob(w)
    PROVE  CoreInv'
  <1> DEFINE o == slot[w].order
  <1>1. o \in Orders /\ job[o] \in Job
    BY DEF SettleJob, Busy, CoreInv, SlotsWellFormed, QueueTypeOK
  <1>2. StoreTypeOK'
    BY StoreUnchanged DEF SettleJob, CoreInv
  <1>3. slot' \in [Slots -> Slot] /\ SlotsWellFormed'
    <2>1. IdleSlot \in Slot /\ IdleSlot.pc = "idle"
      BY DEF IdleSlot, Slot, SlotPC, NoTx
    <2>2. slot' = [slot EXCEPT ![w] = IdleSlot]
      BY DEF SettleJob
    <2>3. QED
      BY <2>1, <2>2, SlotSetTyped DEF CoreInv, WorkerTypeOK
  <1>4. redisFaults' \in 0 .. MaxRedisFaults
    BY RedisTyped DEF SettleJob, CoreInv, QueueTypeOK
  <1>5. job' \in [Orders -> Job] /\ JobsBounded'
    <2> HIDE DEF o
    <2>1. CASE job[o].owner # w
      <3>1. job' = [job EXCEPT ![o] = job[o]]
        BY <2>1 DEF SettleJob, MoveToCompleted, MoveToFailed, o
      <3>2. job' = job
        BY <3>1 DEF CoreInv, QueueTypeOK
      <3>3. QED
        BY <3>2 DEF CoreInv, QueueTypeOK, JobsBounded
    <2>2. CASE job[o].owner = w
      <3>1. job[o].state = "active" /\ job[o].made < MaxRetryAttempts
                                    /\ job[o].stalls <= MaxStalledCount
        BY <2>2, <1>1, QueueAssumption DEF CoreInv, JobsBounded, Live
      <3>2. PICK j \in {[job[o] EXCEPT !.state = "completed", !.owner = NoSlot],
                        NextAttempt(job[o]), Abandoned(job[o])} :
                job' = [job EXCEPT ![o] = j]
        BY <2>2 DEF SettleJob, MoveToCompleted, MoveToFailed, o
      <3>3. /\ j \in Job /\ j.owner = NoSlot
            /\ j.state \in Live => j.made < MaxRetryAttempts /\ j.stalls <= MaxStalledCount
        <4>1. CASE j = [job[o] EXCEPT !.state = "completed", !.owner = NoSlot]
          BY <4>1, <1>1, <3>1 DEF Job, JobState, Live
        <4>2. CASE j = NextAttempt(job[o])
          <5> DEFINE st == IF job[o].made + 1 < MaxRetryAttempts THEN "delayed" ELSE "failed"
          <5>1. job[o].made + 1 \in 0 .. MaxRetryAttempts
            BY <1>1, <3>1, QueueAssumption DEF Job
          <5>2. st \in JobState /\ (st \in Live => job[o].made + 1 < MaxRetryAttempts)
            BY DEF JobState, Live
          <5>3. j = [job[o] EXCEPT !.made = job[o].made + 1, !.owner = NoSlot, !.state = st]
            BY <4>2 DEF NextAttempt
          <5> HIDE DEF st
          <5>4. QED
            BY <5>1, <5>2, <5>3, <1>1, <3>1 DEF Job
        <4>3. CASE j = Abandoned(job[o])
          BY <4>3, <1>1, <3>1 DEF Abandoned, Job, JobState, Live
        <4>4. QED
          BY <3>2, <4>1, <4>2, <4>3
      <3>4. QED
        BY <1>1, <3>2, <3>3, JobSetTyped DEF CoreInv, QueueTypeOK
    <2>3. QED
      BY <2>1, <2>2
  <1>6. QED
    BY <1>2, <1>3, <1>4, <1>5 DEF SettleJob, CoreInv, QueueTypeOK, WorkerTypeOK

LEMMA WorkerTyped ==
    ASSUME CoreInv, WorkerNext
    PROVE  CoreInv'
  <1>1. ASSUME NEW w \in Slots, ProcessStep(w)
        PROVE  CoreInv'
    BY <1>1, FindOrderTyped, ReadForUpdateTyped, SaveUpdateTyped, AnnounceTyped,
       GetQuoteTyped, ExecuteSwapTyped, RefetchTyped, UpdateProgressTyped, SettleJobTyped
    DEF ProcessStep
  <1>2. QED
    BY <1>1, PickJobTyped DEF WorkerNext

-----------------------------------------------------------------------------
(***************************************************************************)
(* Steps of the request handlers.                                          *)
(***************************************************************************)

LEMMA InsertDocTyped ==
    ASSUME NEW o \in Orders, DocTypeOK, InsertDoc(o)
    PROVE  DocTypeOK'
  <1>1. InitialStatus(o) \in OrderStatus
    BY DEF InitialStatus, OrderStatus
  <1>2. QED
    BY <1>1 DEF InsertDoc, DocTypeOK

LEMMA AddTyped ==
    ASSUME NEW o \in Orders, job \in [Orders -> Job], JobsBounded, Add(o)
    PROVE  job' \in [Orders -> Job] /\ JobsBounded'
  <1>1. CASE job[o].state = "none"
    <2> DEFINE j == [NoJob EXCEPT !.state = "waiting"]
    <2>1. j \in Job /\ j.state = "waiting" /\ j.made = 0 /\ j.stalls = 0 /\ j.owner = NoSlot
      BY QueueAssumption DEF NoJob, Job, JobState
    <2>2. job' = [job EXCEPT ![o] = j]
      BY <1>1 DEF Add
    <2>3. 0 < MaxRetryAttempts /\ 0 <= MaxStalledCount
      BY QueueAssumption
    <2> HIDE DEF j
    <2>4. QED
      BY <2>1, <2>2, <2>3, JobSetTyped
  <1>2. CASE job[o].state # "none"
    <2>1. job' = job
      BY <1>2 DEF Add
    <2>2. QED
      BY <2>1 DEF JobsBounded
  <1>3. QED
    BY <1>1, <1>2

LEMMA RespondTyped ==
    ASSUME NEW o \in Orders, NEW pc \in RequestPC, ApiTypeOK, Respond(o, pc),
           UNCHANGED cancel
    PROVE  ApiTypeOK'
  BY DEF Respond, ApiTypeOK

LEMMA CancelGoToTyped ==
    ASSUME NEW o \in Orders, NEW pc \in CancelPC, ApiTypeOK, CancelGoTo(o, pc),
           UNCHANGED request
    PROVE  ApiTypeOK'
  BY DEF CancelGoTo, ApiTypeOK, Cancel

\* The typing that a request handler can change, and the frame it leaves alone.
ApiInv == StoreTypeOK /\ QueueTypeOK /\ JobsBounded /\ ApiTypeOK

LEMMA CountActiveTyped ==
    ASSUME ApiInv, NEW o \in Orders, CountActive(o)
    PROVE  ApiInv'
  <1>1. QueueTypeOK' /\ JobsBounded'
    BY QueueUnchanged DEF CountActive, ApiInv
  <1>2. StoreTypeOK'
    BY DbTyped, DocsUnchanged DEF CountActive, ApiInv, StoreTypeOK
  <1>3. PICK pc \in {"refused", "counted", "dbError"} : Respond(o, pc)
    BY DEF CountActive
  <1>4. ApiTypeOK'
    BY <1>3, RespondTyped DEF CountActive, ApiInv, RequestPC
  <1>5. QED
    BY <1>1, <1>2, <1>4 DEF ApiInv

LEMMA CreateOrderTyped ==
    ASSUME ApiInv, NEW o \in Orders, CreateOrder(o)
    PROVE  ApiInv'
  <1>1. QueueTypeOK' /\ JobsBounded'
    BY QueueUnchanged DEF CreateOrder, ApiInv
  <1>2. DocTypeOK'
    <2>1. DocTypeOK
      BY DEF ApiInv, StoreTypeOK, DocTypeOK
    <2>2. CASE InsertDoc(o)
      BY <2>1, <2>2, InsertDocTyped
    <2>3. CASE UNCHANGED docVars
      BY <2>1, <2>3 DEF docVars, DocTypeOK
    <2>4. QED
      BY <2>2, <2>3 DEF CreateOrder
  <1>3. dbFaults' \in 0 .. MaxDbFaults
    BY DbTyped DEF CreateOrder, ApiInv, StoreTypeOK
  <1>4. StoreTypeOK'
    BY <1>2, <1>3 DEF CreateOrder, ApiInv, StoreTypeOK, DocTypeOK
  <1>5. PICK pc \in {"inserted", "dbError"} : Respond(o, pc)
    BY DEF CreateOrder
  <1>6. ApiTypeOK'
    BY <1>5, RespondTyped DEF CreateOrder, ApiInv, RequestPC
  <1>7. QED
    BY <1>1, <1>4, <1>6 DEF ApiInv

LEMMA EnqueueOrderTyped ==
    ASSUME ApiInv, NEW o \in Orders, EnqueueOrder(o)
    PROVE  ApiInv'
  <1>1. StoreTypeOK'
    BY StoreUnchanged DEF EnqueueOrder, ApiInv
  <1>2. job' \in [Orders -> Job] /\ JobsBounded'
    <2>1. CASE Add(o)
      BY <2>1, AddTyped DEF ApiInv, QueueTypeOK
    <2>2. CASE UNCHANGED job
      BY <2>2 DEF ApiInv, QueueTypeOK, JobsBounded
    <2>3. QED
      BY <2>1, <2>2 DEF EnqueueOrder
  <1>3. redisFaults' \in 0 .. MaxRedisFaults
    BY RedisTyped DEF EnqueueOrder, ApiInv, QueueTypeOK
  <1>4. QueueTypeOK'
    BY <1>2, <1>3 DEF EnqueueOrder, ApiInv, QueueTypeOK
  <1>5. PICK pc \in {"accepted", "queueError"} : Respond(o, pc)
    BY DEF EnqueueOrder
  <1>6. ApiTypeOK'
    BY <1>5, RespondTyped DEF EnqueueOrder, ApiInv, RequestPC
  <1>7. QED
    BY <1>1, <1>2, <1>4, <1>6 DEF ApiInv

LEMMA CancelCheckTyped ==
    ASSUME ApiInv, NEW o \in Orders, CancelCheck(o)
    PROVE  ApiInv'
  <1>1. QueueTypeOK' /\ JobsBounded'
    BY QueueUnchanged DEF CancelCheck, ApiInv
  <1>2. StoreTypeOK'
    BY DbTyped, DocsUnchanged DEF CancelCheck, ApiInv, StoreTypeOK
  <1>3. PICK pc \in {"read", "refused", "dbError"} : CancelGoTo(o, pc)
    BY DEF CancelCheck
  <1>4. ApiTypeOK'
    BY <1>3, CancelGoToTyped DEF CancelCheck, ApiInv, CancelPC
  <1>5. QED
    BY <1>1, <1>2, <1>4 DEF ApiInv

LEMMA CancelReadTyped ==
    ASSUME ApiInv, NEW o \in Orders, CancelRead(o)
    PROVE  ApiInv'
  <1>1. QueueTypeOK' /\ JobsBounded'
    BY QueueUnchanged DEF CancelRead, ApiInv
  <1>2. StoreTypeOK'
    BY DbTyped, DocsUnchanged DEF CancelRead, ApiInv, StoreTypeOK
  <1>3. ApiTypeOK'
    <2>1. CASE CancelGoTo(o, "dbError")
      BY <2>1, CancelGoToTyped DEF CancelRead, ApiInv, CancelPC
    <2>2. CASE cancel' = [cancel EXCEPT ![o] = [pc |-> "save", snap |-> status[o]]]
      <3>1. [pc |-> "save", snap |-> status[o]] \in Cancel
        BY DEF Cancel, CancelPC, ApiInv, StoreTypeOK
      <3>2. QED
        BY <2>2, <3>1 DEF CancelRead, ApiInv, ApiTypeOK
    <2>3. QED
      BY <2>1, <2>2 DEF CancelRead
  <1>4. QED
    BY <1>1, <1>2, <1>3 DEF ApiInv

LEMMA CancelSaveTyped ==
    ASSUME ApiInv, NEW o \in Orders, CancelSave(o)
    PROVE  ApiInv'
  <1>1. QueueTypeOK' /\ JobsBounded'
    BY QueueUnchanged DEF CancelSave, ApiInv
  <1>2. DocTypeOK' /\ dbFaults' \in 0 .. MaxDbFaults
    <2>1. DocTypeOK /\ dbFaults \in 0 .. MaxDbFaults
      BY DEF ApiInv, StoreTypeOK, DocTypeOK
    <2>2. "CANCELLED" \in OrderStatus /\ NoTx \in Nat
      BY DEF OrderStatus, NoTx
    <2>3. CASE DbOk /\ Save(o, cancel[o].snap, "CANCELLED", NoTx)
      BY <2>1, <2>2, <2>3, SaveTyped, DbTyped
    <2>4. CASE SaveError(o, cancel[o].snap, "CANCELLED", NoTx)
      BY <2>1, <2>2, <2>4, SaveErrorTyped
    <2>5. QED
      BY <2>3, <2>4 DEF CancelSave
  <1>3. StoreTypeOK'
    BY <1>2 DEF CancelSave, ApiInv, StoreTypeOK, DocTypeOK
  <1>4. PICK pc \in {"announce", "dbError"} : CancelGoTo(o, pc)
    BY DEF CancelSave
  <1>5. ApiTypeOK'
    BY <1>4, CancelGoToTyped DEF CancelSave, ApiInv, CancelPC
  <1>6. QED
    BY <1>1, <1>3, <1>5 DEF ApiInv

LEMMA CancelAnnounceTyped ==
    ASSUME ApiInv, NEW o \in Orders, CancelAnnounce(o)
    PROVE  ApiInv'
  <1>1. QueueTypeOK' /\ JobsBounded'
    BY QueueUnchanged DEF CancelAnnounce, ApiInv
  <1>2. StoreTypeOK'
    BY BroadcastTyped DEF CancelAnnounce, ApiInv, OrderStatus
  <1>3. ApiTypeOK'
    BY CancelGoToTyped DEF CancelAnnounce, ApiInv, CancelPC
  <1>4. QED
    BY <1>1, <1>2, <1>3 DEF ApiInv

LEMMA CancelRefetchTyped ==
    ASSUME ApiInv, NEW o \in Orders, CancelRefetch(o)
    PROVE  ApiInv'
  <1>1. QueueTypeOK' /\ JobsBounded'
    BY QueueUnchanged DEF CancelRefetch, ApiInv
  <1>2. StoreTypeOK'
    BY DbTyped, DocsUnchanged DEF CancelRefetch, ApiInv, StoreTypeOK
  <1>3. PICK pc \in {"cancelled", "dbError"} : CancelGoTo(o, pc)
    BY DEF CancelRefetch
  <1>4. ApiTypeOK'
    BY <1>3, CancelGoToTyped DEF CancelRefetch, ApiInv, CancelPC
  <1>5. QED
    BY <1>1, <1>2, <1>4 DEF ApiInv

LEMMA ApiTyped ==
    ASSUME ApiInv, ApiNext
    PROVE  ApiInv'
  BY CountActiveTyped, CreateOrderTyped, EnqueueOrderTyped, CancelCheckTyped, CancelReadTyped,
     CancelSaveTyped, CancelAnnounceTyped, CancelRefetchTyped
  DEF ApiNext, ExecuteStep, CancelStep

-----------------------------------------------------------------------------
(***************************************************************************)
(* Steps of the queue and of the clock.                                    *)
(***************************************************************************)

LEMMA QueueTyped ==
    ASSUME QueueTypeOK, JobsBounded, NEW o \in Orders,
           Promote(o) \/ LoseLock(o) \/ Stall(o) \/ Remove(o)
    PROVE  QueueTypeOK' /\ JobsBounded'
  <1>0. job[o] \in Job /\ job \in [Orders -> Job]
    BY DEF QueueTypeOK
  <1>1. CASE Promote(o)
    <2> DEFINE j == [job[o] EXCEPT !.state = "waiting"]
    <2>1. job[o].state = "delayed" /\ job' = [job EXCEPT ![o] = j]
      BY <1>1 DEF Promote
    <2>2. /\ job[o].made < MaxRetryAttempts /\ job[o].stalls <= MaxStalledCount
          /\ job[o].owner = NoSlot
      BY <2>1 DEF JobsBounded, Live
    <2>3. j \in Job /\ j.state = "waiting" /\ j.made = job[o].made
                    /\ j.stalls = job[o].stalls /\ j.owner = job[o].owner
      BY <1>0 DEF Job, JobState
    <2> HIDE DEF j
    <2>4. job' \in [Orders -> Job] /\ JobsBounded'
      BY <1>0, <2>1, <2>2, <2>3, JobSetTyped
    <2>5. QED
      BY <1>1, <2>4 DEF Promote, QueueTypeOK
  <1>2. CASE LoseLock(o)
    <2> DEFINE j == [job[o] EXCEPT !.owner = NoSlot]
    <2>1. job[o].state = "active" /\ job' = [job EXCEPT ![o] = j]
      BY <1>2 DEF LoseLock, Abandoned, JobsBounded
    <2>2. job[o].made < MaxRetryAttempts /\ job[o].stalls <= MaxStalledCount
      BY <2>1 DEF JobsBounded, Live
    <2>3. j \in Job /\ j.made = job[o].made /\ j.stalls = job[o].stalls /\ j.owner = NoSlot
      BY <1>0 DEF Job
    <2> HIDE DEF j
    <2>4. job' \in [Orders -> Job] /\ JobsBounded'
      BY <1>0, <2>1, <2>2, <2>3, JobSetTyped
    <2>5. lockLosses' \in 0 .. MaxLockLosses
      BY <1>2, QueueAssumption DEF LoseLock, QueueTypeOK
    <2>6. QED
      BY <1>2, <2>4, <2>5 DEF LoseLock, QueueTypeOK
  <1>3. CASE Stall(o)
    <2> DEFINE st == IF job[o].stalls < MaxStalledCount THEN "waiting" ELSE "failed"
               n == job[o].stalls + 1
               j == [job[o] EXCEPT !.stalls = n, !.owner = NoSlot, !.state = st]
    <2>1. job[o].state = "active" /\ job' = [job EXCEPT ![o] = j]
      BY <1>3 DEF Stall, Unheld, Stalled
    <2>2. job[o].made < MaxRetryAttempts /\ job[o].stalls <= MaxStalledCount
      BY <2>1 DEF JobsBounded, Live
    <2>3. n \in 0 .. MaxStalledCount + 1
      BY <1>0, <2>2, QueueAssumption DEF Job
    <2>4. st \in JobState /\ (st \in Live => n <= MaxStalledCount)
      BY <1>0, QueueAssumption DEF Job, JobState, Live
    <2>5. j \in Job /\ j.made = job[o].made /\ j.stalls = n /\ j.owner = NoSlot /\ j.state = st
      <3> HIDE DEF st, n
      <3>1. QED
        BY <1>0, <2>3, <2>4 DEF Job
    <2> HIDE DEF st, n, j
    <2>6. job' \in [Orders -> Job] /\ JobsBounded'
      BY <1>0, <2>1, <2>2, <2>4, <2>5, JobSetTyped
    <2>7. QED
      BY <1>3, <2>6 DEF Stall, QueueTypeOK
  <1>4. CASE Remove(o)
    <2>1. NoJob \in Job /\ NoJob.state = "none" /\ NoJob.owner = NoSlot
      BY QueueAssumption DEF NoJob, Job, JobState
    <2>2. NoJob.state \notin Live
      BY <2>1 DEF Live
    <2>3. job' = [job EXCEPT ![o] = NoJob]
      BY <1>4 DEF Remove
    <2>4. job' \in [Orders -> Job] /\ JobsBounded'
      BY <1>0, <2>1, <2>2, <2>3, JobSetTyped
    <2>5. QED
      BY <1>4, <2>4 DEF Remove, QueueTypeOK
  <1>5. QED
    BY <1>1, <1>2, <1>3, <1>4

LEMMA DeadlineTyped ==
    ASSUME MonitorTypeOK, NEW o \in Orders, Deadline(o)
    PROVE  MonitorTypeOK'
  BY DEF Deadline, MonitorTypeOK

-----------------------------------------------------------------------------
(***************************************************************************)
(* Steps of the monitor.                                                   *)
(***************************************************************************)

MonitorInv == StoreTypeOK /\ QueueTypeOK /\ JobsBounded /\ MonitorTypeOK

\* Replacing the state of a round, and that of a price check.
LEMMA RoundSetTyped ==
    ASSUME MonitorTypeOK, NEW r \in Rounds, NEW s \in Round,
           round' = [round EXCEPT ![r] = s], UNCHANGED <<task, expired>>
    PROVE  MonitorTypeOK'
  BY DEF MonitorTypeOK

LEMMA RoundGoToTyped ==
    ASSUME MonitorTypeOK, NEW r \in Rounds,
           NEW pc \in {"idle", "expire", "save", "announce", "prices"},
           RoundGoTo(r, pc), UNCHANGED <<task, expired>>
    PROVE  MonitorTypeOK'
  <1>1. round' = [round EXCEPT ![r] = [round[r] EXCEPT !.pc = pc]]
    BY DEF RoundGoTo
  <1>2. [round[r] EXCEPT !.pc = pc] \in Round
    BY DEF MonitorTypeOK, Round
  <1>3. QED
    BY <1>1, <1>2, RoundSetTyped

LEMMA TaskIsTyped ==
    ASSUME MonitorTypeOK, NEW r \in Rounds, NEW o \in Orders, NEW t \in Task,
           TaskIs(r, o, t), UNCHANGED <<round, expired>>
    PROVE  MonitorTypeOK'
  <1>1. task' = [task EXCEPT ![r] = [task[r] EXCEPT ![o] = t]]
    BY DEF TaskIs
  <1>2. task[r] \in [Orders -> Task]
    BY DEF MonitorTypeOK
  <1>3. [task[r] EXCEPT ![o] = t] \in [Orders -> Task]
    BY <1>2
  <1>4. QED
    BY <1>1, <1>3 DEF MonitorTypeOK

LEMMA TaskGoToTyped ==
    ASSUME MonitorTypeOK, NEW r \in Rounds, NEW o \in Orders, NEW pc \in TaskPC,
           TaskGoTo(r, o, pc), UNCHANGED <<round, expired>>
    PROVE  MonitorTypeOK'
  <1> DEFINE t == [task[r][o] EXCEPT !.pc = pc]
  <1>1. task[r][o] \in Task
    BY DEF MonitorTypeOK
  <1>2. t \in Task
    BY <1>1 DEF Task
  <1>3. task' = [task EXCEPT ![r] = [task[r] EXCEPT ![o] = t]]
    BY DEF TaskGoTo
  <1> HIDE DEF t
  <1>4. TaskIs(r, o, t)
    BY <1>3 DEF TaskIs
  <1>5. QED
    BY <1>2, <1>4, TaskIsTyped

LEMMA NoTaskTyped == NoTask \in Task
  BY MonitorAssumption DEF NoTask, Task, TaskPC

\* A retry of a price check stays within maxRetries.
LEMMA RetryCheckTyped ==
    ASSUME MonitorTypeOK, NEW r \in Rounds, NEW o \in Orders, RetryCheck(r, o),
           UNCHANGED <<round, expired>>
    PROVE  MonitorTypeOK'
  <1>1. task[r][o] \in Task
    BY DEF MonitorTypeOK
  <1>2. CASE task[r][o].tries < MaxPriceTries - 1
    <2> DEFINE n == task[r][o].tries + 1
    <2>1. n \in 0 .. MaxPriceTries
      BY <1>1, <1>2, MonitorAssumption DEF Task
    <2>2. TaskIs(r, o, [NoTask EXCEPT !.pc = "quote", !.tries = n])
      BY <1>2 DEF RetryCheck
    <2> HIDE DEF n
    <2>3. [NoTask EXCEPT !.pc = "quote", !.tries = n] \in Task
      BY <2>1 DEF NoTask, Task, TaskPC
    <2>4. QED
      BY <2>2, <2>3, TaskIsTyped
  <1>3. CASE ~(task[r][o].tries < MaxPriceTries - 1)
    BY <1>3, NoTaskTyped, TaskIsTyped DEF RetryCheck
  <1>4. QED
    BY <1>2, <1>3

LEMMA StartTyped ==
    ASSUME MonitorInv, NEW r \in Rounds, StartCheck(r) \/ StartCleanup(r)
    PROVE  MonitorInv'
  <1>1. QueueTypeOK' /\ JobsBounded'
    BY QueueUnchanged DEF StartCheck, StartCleanup, MonitorInv
  <1>2. StoreTypeOK'
    BY DbTyped, DocsUnchanged DEF StartCheck, StartCleanup, MonitorInv, StoreTypeOK
  <1>3. Waiting \in SUBSET Orders /\ Waiting \cap expired \in SUBSET Orders
    BY DEF Waiting
  <1>4. round[r] \in Round
    BY DEF MonitorInv, MonitorTypeOK
  <1>5. /\ [IdleRound EXCEPT !.pc = "expire", !.fetched = Waiting,
                             !.todo = Waiting \cap expired] \in Round
        /\ [IdleRound EXCEPT !.pc = "expire", !.todo = Waiting \cap expired] \in Round
    BY <1>3 DEF IdleRound, Round
  <1>6. \/ UNCHANGED round
        \/ \E s \in Round : round' = [round EXCEPT ![r] = s]
    BY <1>4, <1>5 DEF StartCheck, StartCleanup
  <1>7. MonitorTypeOK'
    BY <1>6, RoundSetTyped DEF StartCheck, StartCleanup, MonitorInv, MonitorTypeOK
  <1>8. QED
    BY <1>1, <1>2, <1>7 DEF MonitorInv

LEMMA ExpireReadTyped ==
    ASSUME MonitorInv, NEW r \in Rounds, ExpireRead(r)
    PROVE  MonitorInv'
  <1>1. QueueTypeOK' /\ JobsBounded'
    BY QueueUnchanged DEF ExpireRead, MonitorInv
  <1>2. StoreTypeOK'
    BY DbTyped, DocsUnchanged DEF ExpireRead, MonitorInv, StoreTypeOK
  <1>3. round[r] \in Round
    BY DEF MonitorInv, MonitorTypeOK
  <1>4. PICK o \in round[r].todo :
          LET rest == round[r].todo \ {o} IN
          \/ round' = [round EXCEPT ![r] =
                         [@ EXCEPT !.pc = "save", !.todo = rest,
                                   !.cur = {o}, !.snap = status[o]]]
          \/ round' = [round EXCEPT ![r] = [@ EXCEPT !.todo = rest]]
    BY DEF ExpireRead
  <1>5. o \in Orders /\ status[o] \in OrderStatus \cup {NoDoc}
    BY <1>3 DEF Round, MonitorInv, StoreTypeOK
  <1> DEFINE rest == round[r].todo \ {o}
  <1>6. rest \in SUBSET Orders
    BY <1>3 DEF Round
  <1>7. /\ [round[r] EXCEPT !.pc = "save", !.todo = rest, !.cur = {o}, !.snap = status[o]]
             \in Round
        /\ [round[r] EXCEPT !.todo = rest] \in Round
    <2> HIDE DEF rest
    <2>1. QED
      BY <1>3, <1>5, <1>6 DEF Round
  <1>8. \E s \in Round : round' = [round EXCEPT ![r] = s]
    BY <1>4, <1>7
  <1>9. MonitorTypeOK'
    BY <1>8, RoundSetTyped DEF ExpireRead, MonitorInv
  <1>10. QED
    BY <1>1, <1>2, <1>9 DEF MonitorInv

\* A save by a process of the monitor, resolved or rejected.
LEMMA MonitorSaveTyped ==
    ASSUME StoreTypeOK, NEW o \in Orders, NEW snap, NEW target \in OrderStatus,
           \/ DbOk /\ Save(o, snap, target, NoTx)
           \/ SaveError(o, snap, target, NoTx),
           UNCHANGED notified
    PROVE  StoreTypeOK'
  <1>1. DocTypeOK /\ dbFaults \in 0 .. MaxDbFaults /\ NoTx \in Nat
    BY DEF StoreTypeOK, DocTypeOK, NoTx
  <1>2. DocTypeOK' /\ dbFaults' \in 0 .. MaxDbFaults
    <2>1. CASE DbOk /\ Save(o, snap, target, NoTx)
      BY <2>1, <1>1, SaveTyped, DbTyped
    <2>2. CASE SaveError(o, snap, target, NoTx)
      BY <2>2, <1>1, SaveErrorTyped
    <2>3. QED
      BY <2>1, <2>2
  <1>3. QED
    BY <1>2 DEF StoreTypeOK, DocTypeOK

LEMMA ExpireSaveTyped ==
    ASSUME MonitorInv, NEW r \in Rounds, ExpireSave(r)
    PROVE  MonitorInv'
  <1>1. QueueTypeOK' /\ JobsBounded'
    BY QueueUnchanged DEF ExpireSave, MonitorInv
  <1>2. PICK o \in round[r].cur :
          \/ DbOk /\ Save(o, round[r].snap, "EXPIRED", NoTx) /\ RoundGoTo(r, "announce")
          \/ SaveError(o, round[r].snap, "EXPIRED", NoTx) /\ RoundGoTo(r, "expire")
    BY DEF ExpireSave
  <1>3. o \in Orders /\ "EXPIRED" \in OrderStatus
    BY DEF MonitorInv, MonitorTypeOK, Round, OrderStatus
  <1>4. StoreTypeOK'
    BY <1>2, <1>3, MonitorSaveTyped DEF ExpireSave, MonitorInv
  <1>5. MonitorTypeOK'
    BY <1>2, RoundGoToTyped DEF ExpireSave, MonitorInv
  <1>6. QED
    BY <1>1, <1>4, <1>5 DEF MonitorInv

LEMMA ExpireAnnounceTyped ==
    ASSUME MonitorInv, NEW r \in Rounds, ExpireAnnounce(r)
    PROVE  MonitorInv'
  <1>1. QueueTypeOK' /\ JobsBounded'
    BY QueueUnchanged DEF ExpireAnnounce, MonitorInv
  <1>2. round[r] \in Round
    BY DEF MonitorInv, MonitorTypeOK
  <1>3. PICK o \in round[r].cur : Broadcast(o, "EXPIRED")
    BY DEF ExpireAnnounce
  <1>4. o \in Orders /\ "EXPIRED" \in OrderStatus
    BY <1>2 DEF Round, OrderStatus
  <1>5. StoreTypeOK'
    BY <1>3, <1>4, BroadcastTyped DEF ExpireAnnounce, MonitorInv
  <1>6. [round[r] EXCEPT !.pc = "expire", !.cur = {}, !.snap = NoDoc] \in Round
    BY <1>2 DEF Round
  <1>7. MonitorTypeOK'
    BY <1>6, RoundSetTyped DEF ExpireAnnounce, MonitorInv
  <1>8. QED
    BY <1>1, <1>5, <1>7 DEF MonitorInv

LEMMA ExpireDoneTyped ==
    ASSUME MonitorInv, NEW r \in Rounds, ExpireDone(r)
    PROVE  MonitorInv'
  <1>1. QueueTypeOK' /\ JobsBounded' /\ StoreTypeOK'
    BY QueueUnchanged, StoreUnchanged DEF ExpireDone, MonitorInv
  <1>2. [NoTask EXCEPT !.pc = "quote"] \in Task
    BY MonitorAssumption DEF NoTask, Task, TaskPC
  <1>3. task' \in [Rounds -> [Orders -> Task]]
    <2> DEFINE f == [o \in Orders |-> IF o \in round[r].fetched \ expired
                                      THEN [NoTask EXCEPT !.pc = "quote"] ELSE NoTask]
    <2>1. f \in [Orders -> Task]
      BY <1>2, NoTaskTyped
    <2>2. task' = [task EXCEPT ![r] = f]
      BY DEF ExpireDone
    <2> HIDE DEF f
    <2>3. QED
      BY <2>1, <2>2 DEF MonitorInv, MonitorTypeOK
  <1>4. [round[r] EXCEPT !.pc = "prices"] \in Round
    BY DEF MonitorInv, MonitorTypeOK, Round
  <1>5. round' \in [Rounds -> Round]
    BY <1>4 DEF ExpireDone, RoundGoTo, MonitorInv, MonitorTypeOK
  <1>6. QED
    BY <1>1, <1>3, <1>5 DEF ExpireDone, MonitorInv, MonitorTypeOK

LEMMA EndRoundTyped ==
    ASSUME MonitorInv, NEW r \in Rounds, EndRound(r)
    PROVE  MonitorInv'
  <1>1. QueueTypeOK' /\ JobsBounded' /\ StoreTypeOK'
    BY QueueUnchanged, StoreUnchanged DEF EndRound, MonitorInv
  <1>2. IdleRound \in Round
    BY DEF IdleRound, Round
  <1>3. MonitorTypeOK'
    BY <1>2, RoundSetTyped DEF EndRound, MonitorInv
  <1>4. QED
    BY <1>1, <1>3 DEF MonitorInv

LEMMA CheckPriceTyped ==
    ASSUME MonitorInv, NEW r \in Rounds, NEW o \in Orders, CheckPrice(r, o)
    PROVE  MonitorInv'
  <1>1. QueueTypeOK' /\ JobsBounded'
    BY QueueUnchanged DEF CheckPrice, MonitorInv
  <1>2. StoreTypeOK'
    <2>1. CASE UNCHANGED notified
      BY <2>1, DocsUnchanged DEF CheckPrice, MonitorInv, StoreTypeOK
    <2>2. CASE Broadcast(o, "WAITING_FOR_PRICE")
      BY <2>2, BroadcastTyped DEF CheckPrice, MonitorInv, OrderStatus
    <2>3. QED
      BY <2>1, <2>2 DEF CheckPrice
  <1>3. TaskIs(r, o, NoTask) \/ TaskGoTo(r, o, "find") \/ RetryCheck(r, o)
    BY DEF CheckPrice
  <1>4. "find" \in TaskPC
    BY DEF TaskPC
  <1>5. MonitorTypeOK'
    BY <1>3, <1>4, NoTaskTyped, TaskIsTyped, TaskGoToTyped, RetryCheckTyped
    DEF CheckPrice, MonitorInv
  <1>6. QED
    BY <1>1, <1>2, <1>5 DEF MonitorInv

\* The moves a price check makes while it triggers an order.
LEMMA TaskStepTyped ==
    ASSUME StoreTypeOK, MonitorTypeOK, NEW r \in Rounds, NEW o \in Orders,
           NEW pc \in TaskPC,
           \/ TaskIs(r, o, NoTask) \/ TaskGoTo(r, o, pc) \/ RetryCheck(r, o)
           \/ TaskIs(r, o, [task[r][o] EXCEPT !.pc = pc, !.snap = status[o]]),
           UNCHANGED <<round, expired>>
    PROVE  MonitorTypeOK'
  <1>0. task[r][o] \in Task /\ status[o] \in OrderStatus \cup {NoDoc}
    BY DEF StoreTypeOK, MonitorTypeOK
  <1>1. [task[r][o] EXCEPT !.pc = pc, !.snap = status[o]] \in Task
    BY <1>0 DEF Task
  <1>2. QED
    BY <1>1, NoTaskTyped, TaskIsTyped, TaskGoToTyped, RetryCheckTyped

LEMMA TriggerStepTyped ==
    ASSUME MonitorInv, NEW r \in Rounds, NEW o \in Orders, TriggerStep(r, o)
    PROVE  MonitorInv'
  <1>1. QueueTypeOK' /\ JobsBounded'
    <2>1. CASE TriggerEnqueue(r, o)
      <3>1. redisFaults' \in 0 .. MaxRedisFaults
        BY <2>1, RedisTyped DEF TriggerEnqueue, MonitorInv, QueueTypeOK
      <3>2. job' \in [Orders -> Job] /\ JobsBounded'
        <4>1. CASE Add(o)
          BY <4>1, AddTyped DEF MonitorInv, QueueTypeOK
        <4>2. CASE UNCHANGED job
          BY <4>2 DEF MonitorInv, QueueTypeOK, JobsBounded
        <4>3. QED
          BY <2>1, <4>1, <4>2 DEF TriggerEnqueue
      <3>3. QED
        BY <2>1, <3>1, <3>2 DEF TriggerEnqueue, MonitorInv, QueueTypeOK
    <2>2. CASE UNCHANGED queueVars
      BY <2>2, QueueUnchanged DEF MonitorInv
    <2>3. QED
      BY <2>1, <2>2 DEF TriggerStep, TriggerFind, TriggerRead, TriggerSave, CatchFind,
                        CatchRead, CatchSave
  <1>2. StoreTypeOK'
    <2>1. CASE TriggerSave(r, o)
      <3>1. "PENDING" \in OrderStatus
        BY DEF OrderStatus
      <3>2. QED
        BY <2>1, <3>1, MonitorSaveTyped DEF TriggerSave, MonitorInv
    <2>2. CASE CatchSave(r, o)
      <3>1. "FAILED" \in OrderStatus
        BY DEF OrderStatus
      <3>2. QED
        BY <2>2, <3>1, MonitorSaveTyped DEF CatchSave, MonitorInv
    <2>3. CASE TriggerEnqueue(r, o)
      BY <2>3, StoreUnchanged DEF TriggerEnqueue, MonitorInv
    <2>4. CASE UNCHANGED docVars /\ UNCHANGED notified /\ (DbOk \/ DbError)
      BY <2>4, DbTyped, DocsUnchanged DEF MonitorInv, StoreTypeOK
    <2>5. QED
      BY <2>1, <2>2, <2>3, <2>4 DEF TriggerStep, TriggerFind, TriggerRead, CatchFind, CatchRead
  <1>3. MonitorTypeOK'
    <2>1. UNCHANGED <<round, expired>>
      BY DEF TriggerStep, TriggerFind, TriggerRead, TriggerSave, TriggerEnqueue, CatchFind,
             CatchRead, CatchSave
    <2>2. \E pc \in TaskPC :
            \/ TaskIs(r, o, NoTask) \/ TaskGoTo(r, o, pc) \/ RetryCheck(r, o)
            \/ TaskIs(r, o, [task[r][o] EXCEPT !.pc = pc, !.snap = status[o]])
      BY DEF TriggerStep, TriggerFind, TriggerRead, TriggerSave, TriggerEnqueue, CatchFind,
             CatchRead, CatchSave, TaskPC
    <2>3. QED
      BY <2>1, <2>2, TaskStepTyped DEF MonitorInv
  <1>4. QED
    BY <1>1, <1>2, <1>3 DEF MonitorInv

LEMMA MonitorTyped ==
    ASSUME MonitorInv, MonitorNext
    PROVE  MonitorInv'
  BY StartTyped, ExpireReadTyped, ExpireSaveTyped, ExpireAnnounceTyped, ExpireDoneTyped,
     EndRoundTyped, CheckPriceTyped, TriggerStepTyped
  DEF MonitorNext, RoundStep

-----------------------------------------------------------------------------
(***************************************************************************)
(* The engine.                                                             *)
(***************************************************************************)

LEMMA InitTyped ==
    ASSUME Init
    PROVE  TypeInv
  <1>1. StoreTypeOK
    BY OrdersAssumption DEF Init, StoreInit, StoreTypeOK, NoTx, NoDoc, OrderStatus
  <1>2. QueueTypeOK /\ JobsBounded
    <2>1. NoJob \in Job /\ NoJob.state \notin Live /\ NoJob.owner = NoSlot
      BY QueueAssumption DEF NoJob, Job, JobState, Live
    <2>2. QED
      BY <2>1, QueueAssumption DEF Init, QueueInit, QueueTypeOK, JobsBounded
  <1>3. WorkerTypeOK /\ SlotsWellFormed
    <2>1. IdleSlot \in Slot /\ IdleSlot.pc = "idle"
      BY DEF IdleSlot, Slot, SlotPC, NoTx
    <2>2. QED
      BY <2>1 DEF Init, WorkerInit, WorkerTypeOK, SlotsWellFormed, Busy
  <1>4. ApiTypeOK
    BY DEF Init, ApiInit, ApiTypeOK, Cancel, CancelPC, RequestPC
  <1>5. MonitorTypeOK
    <2>1. IdleRound \in Round
      BY DEF IdleRound, Round
    <2>2. QED
      BY <2>1, NoTaskTyped DEF Init, MonitorInit, MonitorTypeOK
  <1>6. QED
    BY <1>1, <1>2, <1>3, <1>4, <1>5, EngineAssumption DEF Init, TypeInv, TypeOK

LEMMA CrashTyped ==
    ASSUME TypeInv, Crash
    PROVE  TypeInv'
  <1>1. StoreTypeOK'
    BY StoreUnchanged DEF Crash, TypeInv, TypeOK
  <1>2. QueueTypeOK' /\ JobsBounded'
    <2>1. \A o \in Orders : /\ job'[o] \in Job /\ job'[o].owner = NoSlot
                            /\ job'[o].state = job[o].state
                            /\ job'[o].made = job[o].made
                            /\ job'[o].stalls = job[o].stalls
      <3>1. TAKE o \in Orders
      <3>2. job[o] \in Job
        BY DEF TypeInv, TypeOK, QueueTypeOK
      <3>3. job'[o] = [job[o] EXCEPT !.owner = NoSlot]
        BY DEF Crash, QueueCrash, Abandoned
      <3>4. QED
        BY <3>2, <3>3 DEF Job
    <2>2. job' \in [Orders -> Job]
      BY <2>1 DEF Crash, QueueCrash
    <2>3. QED
      BY <2>1, <2>2 DEF Crash, TypeInv, TypeOK, QueueTypeOK, JobsBounded
  <1>3. WorkerTypeOK' /\ SlotsWellFormed'
    <2>1. IdleSlot \in Slot /\ IdleSlot.pc = "idle"
      BY DEF IdleSlot, Slot, SlotPC, NoTx
    <2>2. QED
      BY <2>1 DEF Crash, WorkerCrash, WorkerTypeOK, SlotsWellFormed, Busy, TypeInv, TypeOK
  <1>4. ApiTypeOK'
    <2>1. \A o \in Orders : [cancel[o] EXCEPT !.pc = "lost"] \in Cancel
      BY DEF TypeInv, TypeOK, ApiTypeOK, Cancel, CancelPC
    <2>2. "lost" \in RequestPC
      BY DEF RequestPC
    <2>3. QED
      BY <2>1, <2>2 DEF Crash, ApiCrash, TypeInv, TypeOK, ApiTypeOK
  <1>5. MonitorTypeOK'
    <2>1. IdleRound \in Round
      BY DEF IdleRound, Round
    <2>2. QED
      BY <2>1, NoTaskTyped DEF Crash, MonitorCrash, TypeInv, TypeOK, MonitorTypeOK
  <1>6. crashes' \in 0 .. MaxCrashes
    BY EngineAssumption DEF Crash, TypeInv, TypeOK
  <1>7. QED
    BY <1>1, <1>2, <1>3, <1>4, <1>5, <1>6 DEF TypeInv, TypeOK

\* The typing invariant, with the bounds on jobs and the shape of busy slots, is
\* inductive.
LEMMA StepTyped ==
    ASSUME TypeInv, [Next]_vars
    PROVE  TypeInv'
  <1>1. CASE Worker
    <2>1. CoreInv'
      BY <1>1, WorkerTyped DEF Worker, TypeInv, TypeOK, CoreInv
    <2>2. ApiTypeOK' /\ MonitorTypeOK' /\ crashes' \in 0 .. MaxCrashes
      BY <1>1 DEF Worker, TypeInv, TypeOK, apiVars, ApiTypeOK, monitorVars, MonitorTypeOK
    <2>3. QED
      BY <2>1, <2>2 DEF TypeInv, TypeOK, CoreInv
  <1>2. CASE Api
    <2>1. ApiInv'
      BY <1>2, ApiTyped DEF Api, TypeInv, TypeOK, ApiInv
    <2>2. WorkerTypeOK' /\ SlotsWellFormed'
      BY <1>2, SlotsUnchanged DEF Api, TypeInv, TypeOK
    <2>3. MonitorTypeOK' /\ crashes' \in 0 .. MaxCrashes
      BY <1>2 DEF Api, TypeInv, TypeOK, monitorVars, MonitorTypeOK
    <2>4. QED
      BY <2>1, <2>2, <2>3 DEF TypeInv, TypeOK, ApiInv
  <1>3. CASE Monitor
    <2>1. MonitorInv'
      BY <1>3, MonitorTyped DEF Monitor, TypeInv, TypeOK, MonitorInv
    <2>2. WorkerTypeOK' /\ SlotsWellFormed'
      BY <1>3, SlotsUnchanged DEF Monitor, TypeInv, TypeOK
    <2>3. ApiTypeOK' /\ crashes' \in 0 .. MaxCrashes
      BY <1>3 DEF Monitor, TypeInv, TypeOK, apiVars, ApiTypeOK
    <2>4. QED
      BY <2>1, <2>2, <2>3 DEF TypeInv, TypeOK, MonitorInv
  <1>4. CASE Queue
    <2>1. QueueTypeOK' /\ JobsBounded'
      BY <1>4, QueueTyped DEF Queue, TypeInv, TypeOK
    <2>2. StoreTypeOK' /\ WorkerTypeOK' /\ SlotsWellFormed'
      BY <1>4, StoreUnchanged, SlotsUnchanged DEF Queue, TypeInv, TypeOK
    <2>3. ApiTypeOK' /\ MonitorTypeOK' /\ crashes' \in 0 .. MaxCrashes
      BY <1>4 DEF Queue, TypeInv, TypeOK, apiVars, ApiTypeOK, monitorVars, MonitorTypeOK
    <2>4. QED
      BY <2>1, <2>2, <2>3 DEF TypeInv, TypeOK
  <1>5. CASE Clock
    <2>1. MonitorTypeOK'
      BY <1>5, DeadlineTyped DEF Clock, TypeInv, TypeOK
    <2>2. QueueTypeOK' /\ JobsBounded' /\ StoreTypeOK' /\ WorkerTypeOK' /\ SlotsWellFormed'
      BY <1>5, QueueUnchanged, StoreUnchanged, SlotsUnchanged DEF Clock, TypeInv, TypeOK
    <2>3. ApiTypeOK' /\ crashes' \in 0 .. MaxCrashes
      BY <1>5 DEF Clock, TypeInv, TypeOK, apiVars, ApiTypeOK
    <2>4. QED
      BY <2>1, <2>2, <2>3 DEF TypeInv, TypeOK
  <1>6. CASE Crash
    BY <1>6, CrashTyped
  <1>7. CASE UNCHANGED vars
    <2>1. UNCHANGED <<storeVars, queueVars, workerVars, apiVars, monitorVars, crashes>>
      BY <1>7 DEF vars
    <2>2. QueueTypeOK' /\ JobsBounded' /\ StoreTypeOK' /\ WorkerTypeOK' /\ SlotsWellFormed'
      BY <2>1, QueueUnchanged, StoreUnchanged, SlotsUnchanged DEF TypeInv, TypeOK
    <2>3. ApiTypeOK' /\ MonitorTypeOK' /\ crashes' \in 0 .. MaxCrashes
      BY <2>1 DEF TypeInv, TypeOK, apiVars, ApiTypeOK, monitorVars, MonitorTypeOK
    <2>4. QED
      BY <2>2, <2>3 DEF TypeInv, TypeOK
  <1>8. QED
    BY <1>1, <1>2, <1>3, <1>4, <1>5, <1>6, <1>7 DEF Next

THEOREM TypeInvariant == Spec => []TypeInv
  BY InitTyped, StepTyped, PTL DEF Spec

\* Every variable keeps its type, every counter its bound: jobs never exceed
\* their attempts and stalls, price checks their retries.
THEOREM TypeCorrect == Spec => []TypeOK
  <1>1. TypeInv => TypeOK
    BY DEF TypeInv
  <1>2. QED
    BY <1>1, TypeInvariant, PTL
=============================================================================
