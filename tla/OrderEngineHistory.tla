-------------------------- MODULE OrderEngineHistory --------------------------
(***************************************************************************)
(* Histories: what was broadcast of an order was stored before, and a      *)
(* limit order that has ended is taken up by nobody any more.  The first   *)
(* part says of each step, field by field, what it does to the slots and   *)
(* who writes the documents.                                               *)
(***************************************************************************)
EXTENDS OrderEngineSafety

-----------------------------------------------------------------------------
(***************************************************************************)
(* The steps of processOrder, field by field.                              *)
(***************************************************************************)

\* Slot w goes on with its order, and no other slot moves.
SameOrder(w) ==
    slot'[w].order = slot[w].order /\ \A v \in Slots \ {w} : slot'[v] = slot[v]

To(w, pc, target, inCatch) ==
    /\ SameOrder(w)
    /\ slot'[w].pc = pc /\ slot'[w].target = target /\ slot'[w].inCatch = inCatch

\* An error enters the catch block, or leaves it.
Thrown(w) ==
    IF slot[w].inCatch THEN To(w, "reject", slot[w].target, TRUE)
                       ELSE To(w, "read", "FAILED", TRUE)

LEMMA GoToFlat ==
    ASSUME slot \in [Slots -> Slot], NEW w \in Slots, NEW pc, GoTo(w, pc)
    PROVE  To(w, pc, slot[w].target, slot[w].inCatch) /\ slot'[w].snap = slot[w].snap
  BY DEF GoTo, To, SameOrder, Slot

LEMMA StartUpdateFlat ==
    ASSUME slot \in [Slots -> Slot], NEW w \in Slots, NEW target, StartUpdate(w, target)
    PROVE  To(w, "read", target, slot[w].inCatch)
  BY DEF StartUpdate, To, SameOrder, Slot

LEMMA ThrowFlat ==
    ASSUME slot \in [Slots -> Slot], NEW w \in Slots, Throw(w)
    PROVE  Thrown(w)
  <1>0. slot[w] \in Slot
    OBVIOUS
  <1>1. CASE slot[w].inCatch
    <2>1. slot' = [slot EXCEPT ![w] = [slot[w] EXCEPT !.pc = "reject"]]
      BY <1>1 DEF Throw
    <2>2. [slot[w] EXCEPT !.pc = "reject"].inCatch = TRUE
      BY <1>0, <1>1 DEF Slot
    <2>3. QED
      BY <1>0, <1>1, <2>1, <2>2 DEF Thrown, To, SameOrder, Slot
  <1>2. CASE ~slot[w].inCatch
    <2>1. slot' = [slot EXCEPT ![w] = [slot[w] EXCEPT !.pc = "read", !.target = "FAILED",
                                                     !.snap = NoDoc, !.inCatch = TRUE]]
      BY <1>2 DEF Throw
    <2>2. QED
      BY <1>0, <1>2, <2>1 DEF Thrown, To, SameOrder, Slot
  <1>3. QED
    BY <1>1, <1>2

LEMMA FindOrderFlat ==
    ASSUME slot \in [Slots -> Slot], NEW w \in Slots, FindOrder(w)
    PROVE  /\ slot[w].pc = "find"
           /\ \/ DbOk /\ To(w, "read", "ROUTING", slot[w].inCatch)
              \/ DbError /\ To(w, "reject", slot[w].target, slot[w].inCatch)
  BY GoToFlat, StartUpdateFlat DEF FindOrder

LEMMA ReadForUpdateFlat ==
    ASSUME slot \in [Slots -> Slot], NEW w \in Slots, ReadForUpdate(w)
    PROVE  /\ slot[w].pc = "read"
           /\ \/ /\ DbOk
                 /\ To(w, "save", slot[w].target, slot[w].inCatch)
                 /\ slot'[w].snap = status[slot[w].order]
              \/ DbError /\ Thrown(w)
  <1>1. ASSUME slot' = [slot EXCEPT ![w] =
                          [@ EXCEPT !.pc = "save", !.snap = status[slot[w].order]]]
        PROVE  /\ To(w, "save", slot[w].target, slot[w].inCatch)
               /\ slot'[w].snap = status[slot[w].order]
    BY <1>1 DEF To, SameOrder, Slot
  <1>2. QED
    BY <1>1, ThrowFlat DEF ReadForUpdate

LEMMA SaveUpdateFlat ==
    ASSUME slot \in [Slots -> Slot], NEW w \in Slots, SaveUpdate(w)
    PROVE  /\ slot[w].pc = "save"
           /\ \/ /\ DbOk
                 /\ Save(slot[w].order, slot[w].snap, slot[w].target, HashToSave(slot[w]))
                 /\ To(w, "announce", slot[w].target, slot[w].inCatch)
              \/ /\ SaveError(slot[w].order, slot[w].snap, slot[w].target, HashToSave(slot[w]))
                 /\ Thrown(w)
  BY GoToFlat, ThrowFlat DEF SaveUpdate

LEMMA AnnounceFlat ==
    ASSUME slot \in [Slots -> Slot], NEW w \in Slots, Announce(w)
    PROVE  /\ slot[w].pc = "announce"
           /\ Broadcast(slot[w].order, slot[w].target)
           /\ \/ /\ slot[w].target = "ROUTING"
                 /\ To(w, "quote", slot[w].target, slot[w].inCatch)
              \/ /\ slot[w].target = "BUILDING"
                 /\ To(w, "swap", slot[w].target, slot[w].inCatch)
              \/ /\ slot[w].target = "SUBMITTED"
                 /\ To(w, "read", "CONFIRMED", slot[w].inCatch)
              \/ /\ slot[w].target \notin {"ROUTING", "BUILDING", "SUBMITTED"}
                 /\ To(w, "refetch", slot[w].target, slot[w].inCatch)
  BY GoToFlat, StartUpdateFlat DEF Announce, AfterAnnounce

LEMMA GetQuoteFlat ==
    ASSUME slot \in [Slots -> Slot], NEW w \in Slots, GetQuote(w)
    PROVE  /\ slot[w].pc = "quote"
           /\ To(w, "read", "BUILDING", slot[w].inCatch) \/ Thrown(w)
  BY StartUpdateFlat, ThrowFlat DEF GetQuote

LEMMA ExecuteSwapFlat ==
    ASSUME slot \in [Slots -> Slot], NEW w \in Slots, ExecuteSwap(w)
    PROVE  /\ slot[w].pc = "swap"
           /\ \/ /\ swaps' = [swaps EXCEPT ![slot[w].order] = swaps[slot[w].order] + 1]
                 /\ To(w, "read", "SUBMITTED", slot[w].inCatch)
              \/ /\ UNCHANGED swaps
                 /\ To(w, "read", "FAILED", slot[w].inCatch)
  <1> DEFINE h == swaps[slot[w].order] + 1
  <1>1. CASE /\ swaps' = [swaps EXCEPT ![slot[w].order] = h]
             /\ slot' = [slot EXCEPT ![w] =
                           [@ EXCEPT !.pc = "read", !.target = "SUBMITTED",
                                     !.snap = NoDoc, !.hash = h]]
    <2>1. To(w, "read", "SUBMITTED", slot[w].inCatch)
      <3> HIDE DEF h
      <3>1. QED
        BY <1>1 DEF To, SameOrder, Slot
    <2>2. QED
      BY <1>1, <2>1 DEF ExecuteSwap
  <1>2. CASE StartUpdate(w, "FAILED") /\ UNCHANGED swaps
    BY <1>2, StartUpdateFlat DEF ExecuteSwap
  <1>3. QED
    BY <1>1, <1>2 DEF ExecuteSwap

LEMMA RefetchFlat ==
    ASSUME slot \in [Slots -> Slot], NEW w \in Slots, Refetch(w)
    PROVE  /\ slot[w].pc = "refetch"
           /\ \/ DbOk /\ To(w, "progress", slot[w].target, slot[w].inCatch)
              \/ DbError /\ Thrown(w)
  BY GoToFlat, ThrowFlat DEF Refetch

LEMMA UpdateProgressFlat ==
    ASSUME slot \in [Slots -> Slot], NEW w \in Slots, UpdateProgress(w)
    PROVE  /\ slot[w].pc = "progress"
           /\ \/ RedisOk /\ To(w, "resolve", slot[w].target, slot[w].inCatch)
              \/ RedisError /\ To(w, "reject", slot[w].target, slot[w].inCatch)
  BY GoToFlat DEF UpdateProgress

LEMMA PickJobFlat ==
    ASSUME slot \in [Slots -> Slot], NEW w \in Slots, NEW o \in Orders, PickJob(w, o)
    PROVE  /\ slot[w].pc = "idle"
           /\ slot'[w].order = o /\ slot'[w].inCatch = FALSE /\ slot'[w].target = NoDoc
           /\ slot'[w].pc = IF o \in LimitOrders THEN "progress" ELSE "find"
           /\ \A v \in Slots \ {w} : slot'[v] = slot[v]
  BY DEF PickJob, IdleSlot

LEMMA SettleJobFlat ==
    ASSUME slot \in [Slots -> Slot], NEW w \in Slots, SettleJob(w)
    PROVE  /\ slot[w].pc \in {"resolve", "reject"}
           /\ slot'[w].order = NoOrder /\ slot'[w].pc = "idle" /\ slot'[w].inCatch = FALSE
           /\ slot'[w].target = NoDoc
           /\ \A v \in Slots \ {w} : slot'[v] = slot[v]
  BY DEF SettleJob, IdleSlot

-----------------------------------------------------------------------------
(***************************************************************************)
(* Who writes the documents.                                               *)
(***************************************************************************)

LEMMA SaveFlat ==
    ASSUME TypeInv, NEW o \in Orders, NEW snap, NEW target, NEW hash,
           Save(o, snap, target, hash)
    PROVE  /\ \A p \in Orders \ {o} : status'[p] = status[p] /\ recorded'[p] = recorded[p]
           /\ status'[o] = IF snap = target THEN status[o] ELSE target
           /\ recorded[o] \subseteq recorded'[o]
           /\ recorded'[o] \subseteq recorded[o] \cup {target}
           /\ snap # target => target \in recorded'[o]
  BY DEF Save, TypeInv, TypeOK, StoreTypeOK

LEMMA InsertDocFlat ==
    ASSUME TypeInv, NEW o \in Orders, InsertDoc(o)
    PROVE  /\ \A p \in Orders \ {o} : status'[p] = status[p] /\ recorded'[p] = recorded[p]
           /\ status'[o] = InitialStatus(o) /\ recorded'[o] = {InitialStatus(o)}
  BY DEF InsertDoc, TypeInv, TypeOK, StoreTypeOK

\* The five processes that save documents, and the request that inserts one.
WorkerSaves(w) ==
    /\ slot[w].pc = "save"
    /\ Save(slot[w].order, slot[w].snap, slot[w].target, HashToSave(slot[w]))
CancelSaves(o) == cancel[o].pc = "save" /\ Save(o, cancel[o].snap, "CANCELLED", NoTx)
RoundSaves(r, o) ==
    round[r].pc = "save" /\ o \in round[r].cur /\ Save(o, round[r].snap, "EXPIRED", NoTx)
TaskSaves(r, o) ==
    \/ task[r][o].pc = "save" /\ Save(o, task[r][o].snap, "PENDING", NoTx)
    \/ task[r][o].pc = "catchSave" /\ Save(o, task[r][o].snap, "FAILED", NoTx)
Inserts(o) ==
    /\ InsertDoc(o)
    /\ request[o] \in {"new", "counted"}
    /\ request' = [request EXCEPT ![o] = "inserted"] \/ request' = [request EXCEPT ![o] = "dbError"]

DocWrites ==
    \/ UNCHANGED docVars
    \/ \E w \in Slots : SaveUpdate(w) /\ WorkerSaves(w)
    \/ \E o \in Orders : CancelSave(o) /\ CancelSaves(o)
    \/ \E r \in Rounds, o \in Orders : ExpireSave(r) /\ RoundSaves(r, o)
    \/ \E r \in Rounds, o \in Orders : TriggerStep(r, o) /\ TaskSaves(r, o)
    \/ \E o \in Orders : Inserts(o)

LEMMA StepWrites ==
    ASSUME TypeInv, [Next]_vars
    PROVE  DocWrites
  <1>1. CASE Worker
    <2>1. UNCHANGED docVars \/ \E w \in Slots : SaveUpdate(w)
      BY <1>1 DEF Worker, WorkerNext, ProcessStep, FindOrder, ReadForUpdate, Announce, GetQuote,
                  ExecuteSwap, Refetch, UpdateProgress, SettleJob, PickJob, storeVars, docVars
    <2>2. ASSUME NEW w \in Slots, SaveUpdate(w)
          PROVE  UNCHANGED docVars \/ WorkerSaves(w)
      BY <2>2 DEF SaveUpdate, SaveError, WorkerSaves
    <2>3. QED
      BY <2>1, <2>2 DEF DocWrites
  <1>2. CASE Api
    <2>1. PICK o \in Orders : ExecuteStep(o) \/ CancelCheck(o) \/ CancelStep(o)
      BY <1>2 DEF Api, ApiNext
    <2>2. UNCHANGED docVars \/ CreateOrder(o) \/ CancelSave(o)
      BY <2>1 DEF ExecuteStep, CountActive, EnqueueOrder, CancelCheck, CancelStep,
                  CancelRead, CancelAnnounce, CancelRefetch, storeVars, docVars
    <2>3. CASE CreateOrder(o)
      <3>1. UNCHANGED docVars \/ Inserts(o)
        BY <2>3 DEF CreateOrder, Inserts, Respond
      <3>2. QED
        BY <3>1 DEF DocWrites
    <2>4. CASE CancelSave(o)
      <3>1. UNCHANGED docVars \/ CancelSaves(o)
        BY <2>4 DEF CancelSave, SaveError, CancelSaves
      <3>2. QED
        BY <2>4, <3>1 DEF DocWrites
    <2>5. QED
      BY <2>2, <2>3, <2>4 DEF DocWrites
  <1>3. CASE Monitor
    <2>1. PICK r \in Rounds : StartCheck(r) \/ StartCleanup(r) \/ RoundStep(r)
      BY <1>3 DEF Monitor, MonitorNext
    <2>2. CASE \/ StartCheck(r) \/ StartCleanup(r) \/ ExpireRead(r) \/ ExpireAnnounce(r)
               \/ ExpireDone(r) \/ EndRound(r)
      BY <2>2 DEF StartCheck, StartCleanup, ExpireRead, ExpireAnnounce, ExpireDone, EndRound,
                  storeVars, docVars, DocWrites
    <2>3. CASE ExpireSave(r)
      <3>1. PICK o \in round[r].cur : \/ Save(o, round[r].snap, "EXPIRED", NoTx)
                                      \/ SaveError(o, round[r].snap, "EXPIRED", NoTx)
        BY <2>3 DEF ExpireSave
      <3>2. o \in Orders
        BY DEF TypeInv, TypeOK, MonitorTypeOK, Round
      <3>3. UNCHANGED docVars \/ RoundSaves(r, o)
        BY <2>3, <3>1 DEF SaveError, RoundSaves, ExpireSave
      <3>4. QED
        BY <2>3, <3>2, <3>3 DEF DocWrites
    <2>4. ASSUME NEW o \in Orders, CheckPrice(r, o) \/ TriggerStep(r, o)
          PROVE  DocWrites
      <3>1. UNCHANGED docVars \/ TriggerSave(r, o) \/ CatchSave(r, o)
        BY <2>4 DEF CheckPrice, TriggerStep, TriggerFind, TriggerRead, TriggerEnqueue, CatchFind,
                    CatchRead, storeVars, docVars
      <3>2. ASSUME TriggerSave(r, o) \/ CatchSave(r, o)
            PROVE  UNCHANGED docVars \/ TaskSaves(r, o)
        BY <3>2 DEF TriggerSave, CatchSave, SaveError, TaskSaves
      <3>3. TriggerSave(r, o) \/ CatchSave(r, o) => TriggerStep(r, o)
        BY DEF TriggerStep
      <3>4. QED
        BY <3>1, <3>2, <3>3 DEF DocWrites
    <2>5. QED
      BY <2>1, <2>2, <2>3, <2>4 DEF RoundStep
  <1>4. CASE Queue \/ Clock \/ Crash \/ UNCHANGED vars
    BY <1>4 DEF Queue, Clock, Crash, vars, storeVars, docVars, DocWrites
  <1>5. QED
    BY <1>1, <1>2, <1>3, <1>4 DEF Next

-----------------------------------------------------------------------------
(***************************************************************************)
(* Where processOrder can be.                                              *)
(***************************************************************************)

FaultsTyped == dbFaults \in Nat /\ redisFaults \in Nat /\ lockLosses \in Nat /\ crashes \in Nat

\* Faults are counted and never forgotten.
LEMMA FaultsGrow ==
    ASSUME TypeInv, [Next]_vars
    PROVE  /\ FaultsTyped /\ FaultsTyped'
           /\ dbFaults <= dbFaults' /\ redisFaults <= redisFaults'
           /\ lockLosses <= lockLosses' /\ crashes <= crashes'
  <1>1. TypeInv'
    BY StepTyped
  <1>2. FaultsTyped /\ FaultsTyped'
    BY <1>1, OrdersAssumption, QueueAssumption, EngineAssumption
    DEF TypeInv, TypeOK, StoreTypeOK, QueueTypeOK, FaultsTyped
  <1>3. UNCHANGED crashes \/ crashes' = crashes + 1
    BY DEF Next, Worker, Api, Monitor, Queue, Clock, Crash, vars
  <1>4. UNCHANGED lockLosses \/ lockLosses' = lockLosses + 1
    <2>1. CASE Worker
      BY <2>1 DEF Worker, WorkerNext, ProcessStep, FindOrder, ReadForUpdate, SaveUpdate, Announce,
                  GetQuote, ExecuteSwap, Refetch, UpdateProgress, SettleJob, PickJob, queueVars
    <2>2. CASE Api \/ Monitor
      BY <2>2, ApiQueueUse, MonitorQueueUse DEF Api, Monitor, QueueUse
    <2>3. CASE Queue
      BY <2>3 DEF Queue, Promote, LoseLock, Stall, Remove
    <2>4. QED
      BY <2>1, <2>2, <2>3 DEF Next, Clock, Crash, vars, queueVars
  <1>5. DbOk \/ DbError
    <2>1. CASE Worker
      BY <2>1 DEF Worker, WorkerNext, ProcessStep, FindOrder, ReadForUpdate, SaveUpdate, Announce,
                  GetQuote, ExecuteSwap, Refetch, UpdateProgress, SettleJob, PickJob, storeVars,
                  SaveError, DbOk
    <2>2. CASE Api
      BY <2>2 DEF Api, ApiNext, ExecuteStep, CountActive, CreateOrder, EnqueueOrder, CancelCheck,
                  CancelStep, CancelRead, CancelSave, CancelAnnounce, CancelRefetch, SaveError,
                  storeVars, DbOk
    <2>3. CASE Monitor
      <3>1. PICK r \in Rounds : StartCheck(r) \/ StartCleanup(r) \/ RoundStep(r)
        BY <2>3 DEF Monitor, MonitorNext
      <3>2. ASSUME NEW o \in Orders, CheckPrice(r, o) \/ TriggerStep(r, o)
            PROVE  DbOk \/ DbError
        BY <3>2 DEF CheckPrice, TriggerStep, TriggerFind, TriggerRead, TriggerSave,
                    TriggerEnqueue, CatchFind, CatchRead, CatchSave, SaveError, storeVars, DbOk
      <3>3. QED
        BY <3>1, <3>2 DEF StartCheck, StartCleanup, RoundStep, ExpireRead, ExpireSave,
                          ExpireAnnounce, ExpireDone, EndRound, SaveError, storeVars, DbOk
    <2>4. QED
      BY <2>1, <2>2, <2>3 DEF Next, Queue, Clock, Crash, vars, storeVars, DbOk
  <1>6. UNCHANGED redisFaults \/ redisFaults' = redisFaults + 1
    <2>1. CASE Worker
      BY <2>1 DEF Worker, WorkerNext, ProcessStep, FindOrder, ReadForUpdate, SaveUpdate, Announce,
                  GetQuote, ExecuteSwap, Refetch, UpdateProgress, SettleJob, PickJob, queueVars,
                  RedisOk, RedisError
    <2>2. CASE Api
      BY <2>2 DEF Api, ApiNext, ExecuteStep, CountActive, CreateOrder, EnqueueOrder, CancelCheck,
                  CancelStep, CancelRead, CancelSave, CancelAnnounce, CancelRefetch, queueVars,
                  RedisOk, RedisError
    <2>3. CASE Monitor
      <3>1. PICK r \in Rounds : StartCheck(r) \/ StartCleanup(r) \/ RoundStep(r)
        BY <2>3 DEF Monitor, MonitorNext
      <3>2. ASSUME NEW o \in Orders, CheckPrice(r, o) \/ TriggerStep(r, o)
            PROVE  UNCHANGED redisFaults \/ redisFaults' = redisFaults + 1
        BY <3>2 DEF CheckPrice, TriggerStep, TriggerFind, TriggerRead, TriggerSave, queueVars,
                    TriggerEnqueue, CatchFind, CatchRead, CatchSave, RedisOk, RedisError
      <3>3. QED
        BY <3>1, <3>2 DEF StartCheck, StartCleanup, RoundStep, ExpireRead, ExpireSave,
                          ExpireAnnounce, ExpireDone, EndRound, queueVars
    <2>4. QED
      BY <2>1, <2>2, <2>3 DEF Next, Queue, Promote, LoseLock, Stall, Remove, Clock, Crash, vars,
                              queueVars
  <1>7. QED
    BY <1>2, <1>3, <1>4, <1>5, <1>6 DEF FaultsTyped, DbOk, DbError

\* The database or Redis has failed.
CallFailed == dbFaults + redisFaults > 0

LEMMA SumGrows ==
    ASSUME NEW a \in Nat, NEW b \in Nat, NEW c \in Nat, NEW d \in Nat, a <= c, b <= d,
           a + b > 0 \/ c = a + 1 \/ d = b + 1
    PROVE  c + d > 0
  OBVIOUS

LEMMA CallsFail ==
    ASSUME TypeInv, [Next]_vars, CallFailed \/ DbError \/ RedisError
    PROVE  CallFailed'
  <1>1. /\ dbFaults \in Nat /\ redisFaults \in Nat /\ dbFaults' \in Nat /\ redisFaults' \in Nat
        /\ dbFaults <= dbFaults' /\ redisFaults <= redisFaults'
    BY FaultsGrow DEF FaultsTyped
  <1>2. QED
    BY <1>1, SumGrows DEF CallFailed, DbError, RedisError

LEMMA ThrownControlled ==
    ASSUME TypeInv, [Next]_vars, NEW w \in Slots, Controlled(w), Thrown(w), Busy(w),
           DbError \/ ~slot[w].inCatch, slot[w].order \notin LimitOrders
    PROVE  Controlled(w)'
  <1>2. slot[w].inCatch => dbFaults' + redisFaults' > 0
    BY CallsFail DEF CallFailed
  <1>3. CASE slot[w].inCatch
    BY <1>2, <1>3 DEF Thrown, To, SameOrder, Controlled, Updating
  <1>4. CASE ~slot[w].inCatch
    BY <1>4 DEF Thrown, To, SameOrder, Controlled, Updating, WorkerTarget
  <1>5. QED
    BY <1>3, <1>4

\* A step of processOrder keeps its slot where it can be.
LEMMA ProcessControlled ==
    ASSUME TypeInv, ControlInv, [Next]_vars, NEW w \in Slots, ProcessStep(w)
    PROVE  Controlled(w)' /\ \A v \in Slots \ {w} : slot'[v] = slot[v]
  <1>0. slot \in [Slots -> Slot] /\ Controlled(w)
    BY DEF TypeInv, TypeOK, WorkerTypeOK, ControlInv
  <1>f. DbError \/ RedisError => dbFaults' + redisFaults' > 0
    BY CallsFail DEF CallFailed
  <1>t. ASSUME Thrown(w)
        PROVE  \A v \in Slots \ {w} : slot'[v] = slot[v]
    BY <1>t DEF Thrown, To, SameOrder
  <1>1. CASE FindOrder(w)
    BY <1>0, <1>f, <1>1, FindOrderFlat DEF To, SameOrder, Controlled, Updating, WorkerTarget
  <1>2. CASE ReadForUpdate(w)
    <2>1. slot[w].pc = "read" /\ Busy(w) /\ slot[w].order \notin LimitOrders
      BY <1>0, <1>2, ReadForUpdateFlat DEF Controlled, Busy
    <2>2. CASE DbError /\ Thrown(w)
      BY <1>0, <1>t, <2>1, <2>2, ThrownControlled
    <2>3. CASE To(w, "save", slot[w].target, slot[w].inCatch)
      BY <1>0, <2>1, <2>3 DEF To, SameOrder, Controlled, Updating
    <2>4. QED
      BY <1>0, <1>2, <2>2, <2>3, ReadForUpdateFlat
  <1>3. CASE SaveUpdate(w)
    <2>1. slot[w].pc = "save" /\ Busy(w) /\ slot[w].order \notin LimitOrders
      BY <1>0, <1>3, SaveUpdateFlat DEF Controlled, Busy
    <2>2. CASE DbError /\ Thrown(w)
      BY <1>0, <1>t, <2>1, <2>2, ThrownControlled
    <2>3. CASE To(w, "announce", slot[w].target, slot[w].inCatch)
      BY <1>0, <2>1, <2>3 DEF To, SameOrder, Controlled, Updating
    <2>4. QED
      BY <1>0, <1>3, <2>2, <2>3, SaveUpdateFlat DEF SaveError
  <1>4. CASE Announce(w)
    BY <1>0, <1>4, AnnounceFlat DEF To, SameOrder, Controlled, Updating, WorkerTarget
  <1>5. CASE GetQuote(w)
    <2>1. slot[w].pc = "quote" /\ Busy(w) /\ slot[w].order \notin LimitOrders /\ ~slot[w].inCatch
      BY <1>0, <1>5, GetQuoteFlat DEF Controlled, Busy
    <2>2. CASE Thrown(w)
      BY <1>0, <1>t, <2>1, <2>2, ThrownControlled
    <2>3. CASE To(w, "read", "BUILDING", slot[w].inCatch)
      BY <1>0, <2>1, <2>3 DEF To, SameOrder, Controlled, Updating, WorkerTarget
    <2>4. QED
      BY <1>0, <1>5, <2>2, <2>3, GetQuoteFlat
  <1>6. CASE ExecuteSwap(w)
    <2>1. slot[w].pc = "swap" /\ \E t \in {"SUBMITTED", "FAILED"} :
                                    To(w, "read", t, slot[w].inCatch)
      BY <1>0, <1>6, ExecuteSwapFlat
    <2>2. QED
      BY <1>0, <2>1 DEF To, SameOrder, Controlled, Updating, WorkerTarget
  <1>7. CASE Refetch(w)
    <2>1. slot[w].pc = "refetch" /\ Busy(w) /\ slot[w].order \notin LimitOrders
      BY <1>0, <1>7, RefetchFlat DEF Controlled, Busy
    <2>2. CASE DbError /\ Thrown(w)
      BY <1>0, <1>t, <2>1, <2>2, ThrownControlled
    <2>3. CASE To(w, "progress", slot[w].target, slot[w].inCatch)
      BY <1>0, <2>1, <2>3 DEF To, SameOrder, Controlled, Updating
    <2>4. QED
      BY <1>0, <1>7, <2>2, <2>3, RefetchFlat
  <1>8. CASE UpdateProgress(w)
    BY <1>0, <1>f, <1>8, UpdateProgressFlat DEF To, SameOrder, Controlled, Updating
  <1>9. CASE SettleJob(w)
    BY <1>0, <1>9, WorkerAssumption, SettleJobFlat DEF Controlled, Updating, Orders
  <1>10. QED
    BY <1>1, <1>2, <1>3, <1>4, <1>5, <1>6, <1>7, <1>8, <1>9 DEF ProcessStep

LEMMA StepControl ==
    ASSUME TypeInv, ControlInv, [Next]_vars
    PROVE  ControlInv'
  <1>0. slot \in [Slots -> Slot]
    BY DEF TypeInv, TypeOK, WorkerTypeOK
  <1>2. ASSUME NEW v \in Slots, slot'[v] = slot[v]
        PROVE  Controlled(v)'
    <2>1. Controlled(v)
      BY DEF ControlInv
    <2>2. dbFaults + redisFaults > 0 => dbFaults' + redisFaults' > 0
      BY CallsFail DEF CallFailed
    <2>3. QED
      BY <1>2, <2>1, <2>2 DEF Controlled, Updating
  <1>3. ASSUME NEW w \in Slots, ProcessStep(w)
        PROVE  ControlInv'
    BY <1>2, <1>3, ProcessControlled DEF ControlInv
  <1>4. ASSUME NEW w \in Slots, NEW o \in Orders, PickJob(w, o)
        PROVE  ControlInv'
    <2>1. Controlled(w)'
      BY <1>0, <1>4, PickJobFlat DEF Controlled, Updating
    <2>2. \A v \in Slots \ {w} : slot'[v] = slot[v]
      BY <1>0, <1>4, PickJobFlat
    <2>3. QED
      BY <1>2, <2>1, <2>2 DEF ControlInv
  <1>5. CASE Crash
    <2>1. \A w \in Slots : slot'[w].pc = "idle" /\ ~slot'[w].inCatch /\ slot'[w].order = NoOrder
      BY <1>5 DEF Crash, WorkerCrash, IdleSlot
    <2>2. QED
      BY <2>1, WorkerAssumption DEF ControlInv, Controlled, Updating, Orders
  <1>6. CASE UNCHANGED slot
    BY <1>2, <1>6 DEF ControlInv
  <1>7. QED
    BY <1>3, <1>4, <1>5, <1>6
    DEF Next, Worker, WorkerNext, Api, Monitor, Queue, Clock, workerVars, vars

LEMMA ControlInvariant == Spec => []ControlInv
  <1>1. Init => ControlInv
    BY WorkerAssumption
    DEF Init, WorkerInit, IdleSlot, ControlInv, Controlled, Updating, Orders
  <1>2. QED
    BY <1>1, StepControl, TypeInvariant, PTL DEF Spec

-----------------------------------------------------------------------------
(***************************************************************************)
(* The steps of the monitor, field by field.                               *)
(***************************************************************************)

OtherRounds(r) == \A q \in Rounds \ {r} : round'[q] = round[q]

\* Round r goes on with the same lists.
RoundTo(r, pc) ==
    /\ OtherRounds(r)
    /\ round'[r].pc = pc
    /\ round'[r].fetched = round[r].fetched /\ round'[r].todo = round[r].todo
    /\ round'[r].cur = round[r].cur /\ round'[r].snap = round[r].snap

\* The price check of o in round r goes on at pc, and no other moves.
TaskTo(r, o, pc) ==
    /\ task'[r][o].pc = pc
    /\ \A q \in Rounds, p \in Orders : q # r \/ p # o => task'[q][p] = task[q][p]

MonitorTyped0 == round \in [Rounds -> Round] /\ task \in [Rounds -> [Orders -> Task]]

LEMMA RoundGoToFlat ==
    ASSUME MonitorTyped0, NEW r \in Rounds, NEW pc, RoundGoTo(r, pc)
    PROVE  RoundTo(r, pc)
  BY DEF MonitorTyped0, RoundGoTo, RoundTo, OtherRounds, Round

LEMMA TaskIsFlat ==
    ASSUME MonitorTyped0, NEW r \in Rounds, NEW o \in Orders, NEW t, TaskIs(r, o, t)
    PROVE  TaskTo(r, o, t.pc) /\ task'[r][o] = t
  BY DEF MonitorTyped0, TaskIs, TaskTo

LEMMA TaskGoToFlat ==
    ASSUME MonitorTyped0, NEW r \in Rounds, NEW o \in Orders, NEW pc, TaskGoTo(r, o, pc)
    PROVE  TaskTo(r, o, pc)
  BY DEF MonitorTyped0, TaskGoTo, TaskTo, Task

LEMMA RetryCheckFlat ==
    ASSUME MonitorTyped0, NEW r \in Rounds, NEW o \in Orders, RetryCheck(r, o)
    PROVE  TaskTo(r, o, "quote") \/ TaskTo(r, o, "none")
  <1> DEFINE n == task[r][o].tries + 1
             again == [NoTask EXCEPT !.pc = "quote", !.tries = n]
  <1>1. again.pc = "quote" /\ NoTask.pc = "none"
    BY DEF NoTask
  <1>2. TaskIs(r, o, again) \/ TaskIs(r, o, NoTask)
    BY DEF RetryCheck
  <1> HIDE DEF again
  <1>3. QED
    BY <1>1, <1>2, TaskIsFlat

LEMMA TaskReadFlat ==
    ASSUME MonitorTyped0, NEW r \in Rounds, NEW o \in Orders, NEW pc,
           TaskIs(r, o, [task[r][o] EXCEPT !.pc = pc, !.snap = status[o]])
    PROVE  TaskTo(r, o, pc)
  <1> DEFINE t == [task[r][o] EXCEPT !.pc = pc, !.snap = status[o]]
  <1>1. t.pc = pc
    BY DEF MonitorTyped0, Task
  <1>2. TaskIs(r, o, t)
    OBVIOUS
  <1> HIDE DEF t
  <1>3. QED
    BY <1>1, <1>2, TaskIsFlat

\* The rounds a timer starts work on orders that wait for their price.
LEMMA StartFlat ==
    ASSUME MonitorTyped0, NEW r \in Rounds, StartCheck(r) \/ StartCleanup(r)
    PROVE  /\ round[r].pc = "idle" /\ UNCHANGED task /\ OtherRounds(r)
           /\ \/ round'[r] = round[r]
              \/ /\ round'[r].pc = "expire" /\ round'[r].cur = {}
                 /\ round'[r].fetched \subseteq Waiting /\ round'[r].todo \subseteq Waiting
  <1> DEFINE due == Waiting \cap expired
             check == [IdleRound EXCEPT !.pc = "expire", !.fetched = Waiting, !.todo = due]
             cleanup == [IdleRound EXCEPT !.pc = "expire", !.todo = due]
  <1>1. \/ round' = round
        \/ round' = [round EXCEPT ![r] = check]
        \/ round' = [round EXCEPT ![r] = cleanup]
    BY DEF StartCheck, StartCleanup, MonitorTyped0
  <1>2. due \subseteq Waiting
    OBVIOUS
  <1>3. /\ check.pc = "expire" /\ check.todo = due /\ check.fetched = Waiting /\ check.cur = {}
        /\ cleanup.pc = "expire" /\ cleanup.todo = due /\ cleanup.fetched = {}
        /\ cleanup.cur = {}
    BY DEF IdleRound
  <1>4. round[r].pc = "idle" /\ UNCHANGED task
    BY DEF StartCheck, StartCleanup
  <1> HIDE DEF due, check, cleanup
  <1>5. QED
    BY <1>1, <1>2, <1>3, <1>4 DEF OtherRounds, MonitorTyped0

LEMMA ExpireReadFlat ==
    ASSUME MonitorTyped0, NEW r \in Rounds, ExpireRead(r)
    PROVE  /\ round[r].pc = "expire" /\ UNCHANGED task /\ OtherRounds(r)
           /\ round'[r].fetched = round[r].fetched
           /\ \E o \in round[r].todo :
                /\ round'[r].todo = round[r].todo \ {o}
                /\ \/ /\ round'[r].pc = "save" /\ round'[r].cur = {o}
                      /\ round'[r].snap = status[o]
                   \/ round'[r].pc = "expire" /\ round'[r].cur = round[r].cur
  <1>1. PICK o \in round[r].todo :
          LET rest == round[r].todo \ {o} IN
          \/ round' = [round EXCEPT ![r] =
                         [@ EXCEPT !.pc = "save", !.todo = rest,
                                   !.cur = {o}, !.snap = status[o]]]
          \/ round' = [round EXCEPT ![r] = [@ EXCEPT !.todo = rest]]
    BY DEF ExpireRead
  <1> DEFINE rest == round[r].todo \ {o}
             read == [round[r] EXCEPT !.pc = "save", !.todo = rest,
                                      !.cur = {o}, !.snap = status[o]]
             skip == [round[r] EXCEPT !.todo = rest]
  <1>2. round[r].pc = "expire" /\ UNCHANGED task
    BY DEF ExpireRead
  <1>3. /\ read.pc = "save" /\ read.todo = rest /\ read.cur = {o} /\ read.snap = status[o]
        /\ read.fetched = round[r].fetched
        /\ skip.pc = "expire" /\ skip.todo = rest /\ skip.cur = round[r].cur
        /\ skip.fetched = round[r].fetched
    BY <1>2 DEF MonitorTyped0, Round
  <1>4. \/ round' = [round EXCEPT ![r] = read]
        \/ round' = [round EXCEPT ![r] = skip]
    BY <1>1
  <1>5. rest = round[r].todo \ {o}
    OBVIOUS
  <1> HIDE DEF rest, read, skip
  <1>6. OtherRounds(r) /\ round'[r] \in {read, skip}
    BY <1>4 DEF OtherRounds, MonitorTyped0
  <1>7. QED
    BY <1>2, <1>3, <1>5, <1>6

LEMMA ExpireSaveFlat ==
    ASSUME MonitorTyped0, NEW r \in Rounds, ExpireSave(r)
    PROVE  /\ round[r].pc = "save" /\ UNCHANGED task
           /\ \E o \in round[r].cur :
                \/ DbOk /\ Save(o, round[r].snap, "EXPIRED", NoTx) /\ RoundTo(r, "announce")
                \/ SaveError(o, round[r].snap, "EXPIRED", NoTx) /\ RoundTo(r, "expire")
  BY RoundGoToFlat DEF ExpireSave

LEMMA ExpireAnnounceFlat ==
    ASSUME MonitorTyped0, NEW r \in Rounds, ExpireAnnounce(r)
    PROVE  /\ round[r].pc = "announce" /\ UNCHANGED task /\ OtherRounds(r)
           /\ \E o \in round[r].cur : Broadcast(o, "EXPIRED")
           /\ round'[r].pc = "expire" /\ round'[r].cur = {}
           /\ round'[r].fetched = round[r].fetched /\ round'[r].todo = round[r].todo
  BY DEF MonitorTyped0, ExpireAnnounce, OtherRounds, Round

LEMMA ExpireDoneFlat ==
    ASSUME MonitorTyped0, NEW r \in Rounds, ExpireDone(r)
    PROVE  /\ round[r].pc = "expire" /\ round[r].todo = {} /\ RoundTo(r, "prices")
           /\ \A q \in Rounds \ {r} : task'[q] = task[q]
           /\ \A o \in Orders : \/ o \in round[r].fetched /\ task'[r][o].pc = "quote"
                                \/ task'[r][o].pc = "none"
  <1>1. RoundTo(r, "prices")
    BY RoundGoToFlat DEF ExpireDone
  <1> DEFINE f == [o \in Orders |-> IF o \in round[r].fetched \ expired
                                    THEN [NoTask EXCEPT !.pc = "quote"] ELSE NoTask]
  <1>2. task' = [task EXCEPT ![r] = f]
    BY DEF ExpireDone
  <1>3. \A o \in Orders : \/ o \in round[r].fetched /\ f[o].pc = "quote"
                          \/ f[o].pc = "none"
    BY DEF NoTask
  <1> HIDE DEF f
  <1>4. QED
    BY <1>1, <1>2, <1>3 DEF MonitorTyped0, ExpireDone

LEMMA EndRoundFlat ==
    ASSUME MonitorTyped0, NEW r \in Rounds, EndRound(r)
    PROVE  /\ round[r].pc = "prices" /\ UNCHANGED task /\ OtherRounds(r)
           /\ \A o \in Orders : task[r][o].pc = "none"
           /\ round'[r].pc = "idle" /\ round'[r].fetched = {} /\ round'[r].todo = {}
           /\ round'[r].cur = {}
  BY DEF MonitorTyped0, EndRound, OtherRounds, IdleRound

\* A price check from quote to quote, with what it stores in between.
LEMMA TaskFlat ==
    ASSUME MonitorTyped0, NEW r \in Rounds, NEW o \in Orders,
           CheckPrice(r, o) \/ TriggerStep(r, o)
    PROVE  /\ UNCHANGED round
           /\ \/ task[r][o].pc = "quote" /\ UNCHANGED docVars /\ TaskTo(r, o, "quote")
              \/ TaskTo(r, o, "none")
              \/ task[r][o].pc = "quote" /\ UNCHANGED docVars /\ TaskTo(r, o, "find")
              \/ /\ task[r][o].pc = "find" /\ UNCHANGED docVars
                 /\ status[o] = "WAITING_FOR_PRICE" /\ TaskTo(r, o, "read")
              \/ task[r][o].pc = "read" /\ UNCHANGED docVars /\ TaskTo(r, o, "save")
              \/ task[r][o].pc = "save" /\ TaskTo(r, o, "enqueue")
              \/ task[r][o].pc \in {"find", "read", "save", "enqueue"} /\ TaskTo(r, o, "catchFind")
              \/ /\ task[r][o].pc = "catchFind" /\ UNCHANGED docVars
                 /\ status[o] \in {"WAITING_FOR_PRICE", "PENDING"} /\ TaskTo(r, o, "catchRead")
              \/ task[r][o].pc = "catchRead" /\ UNCHANGED docVars /\ TaskTo(r, o, "catchSave")
              \/ /\ task[r][o].pc \in {"catchFind", "catchRead", "catchSave"}
                 /\ TaskTo(r, o, "quote")
           /\ task[r][o].pc # "none"
  <1>0. NoTask.pc = "none"
    BY DEF NoTask
  <1>1. UNCHANGED round
    BY DEF CheckPrice, TriggerStep, TriggerFind, TriggerRead, TriggerSave, TriggerEnqueue,
           CatchFind, CatchRead, CatchSave
  <1>2. TaskIs(r, o, NoTask) => TaskTo(r, o, "none")
    BY <1>0, TaskIsFlat
  <1>3. CASE CheckPrice(r, o)
    BY <1>1, <1>2, <1>3, TaskGoToFlat, RetryCheckFlat DEF CheckPrice
  <1>4. CASE TriggerFind(r, o) \/ TriggerRead(r, o)
    BY <1>1, <1>2, <1>4, TaskGoToFlat, TaskReadFlat DEF TriggerFind, TriggerRead
  <1>5. CASE TriggerSave(r, o) \/ TriggerEnqueue(r, o)
    BY <1>1, <1>2, <1>5, TaskGoToFlat DEF TriggerSave, TriggerEnqueue
  <1>6. CASE CatchFind(r, o) \/ CatchRead(r, o) \/ CatchSave(r, o)
    BY <1>1, <1>2, <1>6, TaskGoToFlat, TaskReadFlat, RetryCheckFlat
    DEF CatchFind, CatchRead, CatchSave
  <1>7. QED
    BY <1>3, <1>4, <1>5, <1>6 DEF TriggerStep

LEMMA MonitorMoves ==
    ASSUME TypeInv, [Next]_vars
    PROVE  /\ MonitorTyped0
           /\ \/ UNCHANGED <<round, task>>
              \/ \A r \in Rounds :
                   /\ round'[r] = IdleRound
                   /\ \A o \in Orders : task'[r][o].pc = "none"
              \/ /\ Monitor
                 /\ \E r \in Rounds :
                   \/ StartCheck(r) \/ StartCleanup(r) \/ ExpireRead(r) \/ ExpireSave(r)
                   \/ ExpireAnnounce(r) \/ ExpireDone(r) \/ EndRound(r)
                   \/ \E o \in Orders : CheckPrice(r, o) \/ TriggerStep(r, o)
  <1>0. MonitorTyped0
    BY DEF TypeInv, TypeOK, MonitorTypeOK, MonitorTyped0
  <1>1. CASE Monitor
    BY <1>0, <1>1 DEF Monitor, MonitorNext, RoundStep
  <1>2. CASE Crash
    BY <1>0, <1>2 DEF Crash, MonitorCrash, NoTask
  <1>3. CASE ~Monitor /\ ~Crash
    BY <1>0, <1>3 DEF Next, Worker, Api, Queue, Clock, Deadline, monitorVars, vars
  <1>4. QED
    BY <1>1, <1>2, <1>3

-----------------------------------------------------------------------------
(***************************************************************************)
(* Limit orders.                                                           *)
(***************************************************************************)

\* No update makes an order wait for a price.
LEMMA StepWaiting ==
    ASSUME TypeInv, ControlInv, [Next]_vars, NEW o \in Orders,
           status'[o] = "WAITING_FOR_PRICE"
    PROVE  status[o] = "WAITING_FOR_PRICE" \/ o \in LimitOrders
  <1>1. ASSUME NEW p \in Orders, NEW snap, NEW target, NEW hash, Save(p, snap, target, hash),
               target # "WAITING_FOR_PRICE"
        PROVE  status[o] = "WAITING_FOR_PRICE"
    BY <1>1, SaveFlat
  <1>2. ASSUME NEW w \in Slots, WorkerSaves(w)
        PROVE  status[o] = "WAITING_FOR_PRICE"
    <2>1. slot[w].target # "WAITING_FOR_PRICE" /\ slot[w].order \in Orders
      BY <1>2 DEF WorkerSaves, ControlInv, Controlled, Updating, WorkerTarget, TypeInv,
                  SlotsWellFormed, Busy
    <2>2. QED
      BY <1>1, <1>2, <2>1 DEF WorkerSaves
  <1>3. ASSUME NEW p \in Orders, Inserts(p)
        PROVE  status[o] = "WAITING_FOR_PRICE" \/ o \in LimitOrders
    BY <1>3, InsertDocFlat DEF Inserts, InitialStatus
  <1>4. ASSUME NEW r \in Rounds, NEW p \in Orders, RoundSaves(r, p) \/ TaskSaves(r, p)
        PROVE  status[o] = "WAITING_FOR_PRICE"
    BY <1>1, <1>4 DEF RoundSaves, TaskSaves
  <1>5. ASSUME NEW p \in Orders, CancelSaves(p)
        PROVE  status[o] = "WAITING_FOR_PRICE"
    BY <1>1, <1>5 DEF CancelSaves
  <1>6. QED
    BY <1>2, <1>3, <1>4, <1>5, StepWrites DEF DocWrites, docVars

LEMMA StepLimits ==
    ASSUME TypeInv, ControlInv, LimitsInv, [Next]_vars
    PROVE  LimitsInv'
  <1> DEFINE Lists(r) == round[r].fetched \cup round[r].todo \cup round[r].cur
             Lists2(r) == round'[r].fetched \cup round'[r].todo \cup round'[r].cur
  <1>1. \A o \in Orders : status'[o] = "WAITING_FOR_PRICE" => o \in LimitOrders
    BY StepWaiting DEF LimitsInv
  <1>2. Waiting \subseteq LimitOrders
    BY DEF Waiting, LimitsInv
  <1>3. \A r \in Rounds : Lists(r) \subseteq LimitOrders
    BY DEF LimitsInv
  <1>4. ASSUME NEW r \in Rounds, StartCheck(r) \/ StartCleanup(r) \/ ExpireRead(r)
                  \/ ExpireSave(r) \/ ExpireAnnounce(r) \/ ExpireDone(r) \/ EndRound(r),
               MonitorTyped0
        PROVE  LimitsInv'
    <2>1. OtherRounds(r) /\ Lists2(r) \subseteq Lists(r) \cup Waiting
      <3>1. CASE StartCheck(r) \/ StartCleanup(r)
        BY <1>4, <3>1, StartFlat
      <3>2. CASE ExpireRead(r)
        BY <1>4, <3>2, ExpireReadFlat
      <3>3. CASE ExpireSave(r)
        BY <1>4, <3>3, ExpireSaveFlat DEF RoundTo
      <3>4. CASE ExpireAnnounce(r)
        BY <1>4, <3>4, ExpireAnnounceFlat
      <3>5. CASE ExpireDone(r)
        BY <1>4, <3>5, ExpireDoneFlat DEF RoundTo
      <3>6. CASE EndRound(r)
        BY <1>4, <3>6, EndRoundFlat
      <3>7. QED
        BY <1>4, <3>1, <3>2, <3>3, <3>4, <3>5, <3>6
    <2>2. \A q \in Rounds : Lists2(q) \subseteq LimitOrders
      BY <1>2, <1>3, <2>1 DEF OtherRounds
    <2>3. \A q \in Rounds, o \in Orders :
             task'[q][o].pc # "none" => task[q][o].pc # "none" \/ o \in Lists(q)
      BY <1>4, StartFlat, ExpireReadFlat, ExpireSaveFlat, ExpireAnnounceFlat, ExpireDoneFlat,
         EndRoundFlat
    <2>4. \A q \in Rounds, o \in Orders : task'[q][o].pc # "none" => o \in LimitOrders
      BY <1>3, <2>3 DEF LimitsInv
    <2>5. QED
      BY <1>1, <2>2, <2>4 DEF LimitsInv
  <1>5. ASSUME NEW r \in Rounds, NEW o \in Orders, CheckPrice(r, o) \/ TriggerStep(r, o),
               MonitorTyped0
        PROVE  LimitsInv'
    <2>1. UNCHANGED round /\ task[r][o].pc # "none"
      BY <1>5, TaskFlat
    <2>2. \A q \in Rounds, p \in Orders : task'[q][p].pc # "none" => task[q][p].pc # "none"
      BY <1>5, <2>1, TaskFlat DEF TaskTo
    <2>3. QED
      BY <1>1, <2>1, <2>2 DEF LimitsInv
  <1>6. CASE UNCHANGED <<round, task>>
    BY <1>1, <1>6 DEF LimitsInv
  <1>7. CASE \A r \in Rounds : /\ round'[r] = IdleRound
                               /\ \A o \in Orders : task'[r][o].pc = "none"
    BY <1>1, <1>7 DEF LimitsInv, IdleRound
  <1>8. QED
    BY <1>4, <1>5, <1>6, <1>7, MonitorMoves

LEMMA LimitsInvariant == Spec => []LimitsInv
  <1>1. Init => LimitsInv
    BY DEF Init, StoreInit, MonitorInit, IdleRound, NoTask, LimitsInv, NoDoc
  <1>2. QED
    BY <1>1, StepLimits, TypeInvariant, ControlInvariant, PTL DEF Spec

-----------------------------------------------------------------------------
(***************************************************************************)
(* Nothing refers to an order without a document.                          *)
(***************************************************************************)

\* Who broadcasts, puts jobs on the queue, and takes requests.
LEMMA StepNotifies ==
    ASSUME TypeInv, [Next]_vars
    PROVE  \/ UNCHANGED notified
           \/ \E w \in Slots : Announce(w)
           \/ \E o \in Orders : CancelAnnounce(o)
           \/ \E r \in Rounds : ExpireAnnounce(r)
           \/ \E r \in Rounds, o \in Orders :
                task[r][o].pc = "quote" /\ Broadcast(o, "WAITING_FOR_PRICE")
  <1>1. CASE Worker
    BY <1>1 DEF Worker, WorkerNext, ProcessStep, FindOrder, ReadForUpdate, SaveUpdate, GetQuote,
                ExecuteSwap, Refetch, UpdateProgress, SettleJob, PickJob, storeVars
  <1>2. CASE Api
    BY <1>2 DEF Api, ApiNext, ExecuteStep, CountActive, CreateOrder, EnqueueOrder, CancelCheck,
                CancelStep, CancelRead, CancelSave, CancelRefetch, storeVars
  <1>3. CASE Monitor
    <2>1. PICK r \in Rounds : StartCheck(r) \/ StartCleanup(r) \/ RoundStep(r)
      BY <1>3 DEF Monitor, MonitorNext
    <2>2. ASSUME NEW o \in Orders, CheckPrice(r, o) \/ TriggerStep(r, o)
          PROVE  \/ UNCHANGED notified
                 \/ task[r][o].pc = "quote" /\ Broadcast(o, "WAITING_FOR_PRICE")
      BY <2>2 DEF CheckPrice, TriggerStep, TriggerFind, TriggerRead, TriggerSave, TriggerEnqueue,
                  CatchFind, CatchRead, CatchSave, storeVars
    <2>3. QED
      BY <2>1, <2>2 DEF StartCheck, StartCleanup, RoundStep, ExpireRead, ExpireSave, ExpireDone,
                        EndRound, storeVars
  <1>4. QED
    BY <1>1, <1>2, <1>3 DEF Next, Queue, Clock, Crash, vars, storeVars

LEMMA StepAddsJob ==
    ASSUME TypeInv, [Next]_vars, NEW o \in Orders, job[o].state = "none", job'[o].state # "none"
    PROVE  EnqueueOrder(o) \/ \E r \in Rounds : TriggerEnqueue(r, o)
  <1>0. job \in [Orders -> Job] /\ job[o].owner = NoSlot
    BY DEF TypeInv, TypeOK, QueueTypeOK, JobsBounded
  <1>1. CASE Worker
    <2>1. PICK w \in Slots : ProcessStep(w) \/ \E p \in Orders : PickJob(w, p)
      BY <1>1 DEF Worker, WorkerNext
    <2>2. CASE SettleJob(w)
      <3>1. w # NoSlot
        BY QueueAssumption
      <3>2. job'[o] = job[o]
        BY <1>0, <2>2, <3>1 DEF SettleJob, MoveToCompleted, MoveToFailed
      <3>3. QED
        BY <3>2
    <2>3. CASE ProcessStep(w) /\ ~SettleJob(w)
      BY <2>3, ProcessKeeps DEF TypeInv, TypeOK, WorkerTypeOK
    <2>4. CASE \E p \in Orders : PickJob(w, p)
      BY <1>0, <2>4 DEF PickJob, Take
    <2>5. QED
      BY <2>1, <2>2, <2>3, <2>4
  <1>2. ASSUME NEW p \in Orders, Add(p)
        PROVE  p = o
    BY <1>0, <1>2 DEF Add
  <1>3. CASE Api
    <2>1. PICK p \in Orders : ExecuteStep(p) \/ CancelCheck(p) \/ CancelStep(p)
      BY <1>3 DEF Api, ApiNext
    <2>2. EnqueueOrder(p) /\ Add(p)
      BY <2>1 DEF ExecuteStep, CountActive, CreateOrder, EnqueueOrder, CancelCheck, CancelStep,
                  CancelRead, CancelSave, CancelAnnounce, CancelRefetch, queueVars
    <2>3. QED
      BY <1>2, <2>2
  <1>4. CASE Monitor
    <2>1. PICK r \in Rounds : StartCheck(r) \/ StartCleanup(r) \/ RoundStep(r)
      BY <1>4 DEF Monitor, MonitorNext
    <2>2. PICK p \in Orders : CheckPrice(r, p) \/ TriggerStep(r, p)
      BY <2>1 DEF StartCheck, StartCleanup, RoundStep, ExpireRead, ExpireSave, ExpireAnnounce,
                  ExpireDone, EndRound, queueVars
    <2>3. TriggerEnqueue(r, p) /\ Add(p)
      BY <2>2 DEF CheckPrice, TriggerStep, TriggerFind, TriggerRead, TriggerSave, TriggerEnqueue,
                  CatchFind, CatchRead, CatchSave, queueVars
    <2>4. QED
      BY <1>2, <2>3
  <1>5. CASE Queue
    <2>1. PICK p \in Orders : Promote(p) \/ LoseLock(p) \/ Stall(p) \/ Remove(p)
      BY <1>5 DEF Queue
    <2>2. p # o => job'[o] = job[o]
      BY <1>0, <2>1 DEF Promote, LoseLock, Stall, Remove
    <2>3. p # o
      <3>1. ~Promote(o) /\ ~LoseLock(o) /\ ~Stall(o) /\ ~Remove(o)
        BY <1>0 DEF Promote, LoseLock, Stall, Unheld, Remove, Settled
      <3>2. QED
        BY <2>1, <3>1
    <2>4. QED
      BY <2>2, <2>3
  <1>6. CASE Crash
    BY <1>0, <1>6 DEF Crash, QueueCrash, Abandoned, Job
  <1>7. CASE Clock \/ UNCHANGED vars
    BY <1>7 DEF Clock, vars, queueVars
  <1>8. QED
    BY <1>1, <1>3, <1>4, <1>5, <1>6, <1>7 DEF Next

LEMMA StepTakesOrder ==
    ASSUME TypeInv, [Next]_vars, NEW w \in Slots, slot'[w].order # slot[w].order
    PROVE  \/ slot'[w].order = NoOrder
           \/ slot'[w].order \in Orders /\ job[slot'[w].order].state = "waiting"
  <1>0. slot \in [Slots -> Slot]
    BY DEF TypeInv, TypeOK, WorkerTypeOK
  <1>1. CASE Worker
    <2>1. PICK v \in Slots : ProcessStep(v) \/ \E o \in Orders : PickJob(v, o)
      BY <1>1 DEF Worker, WorkerNext
    <2>2. CASE SettleJob(v)
      BY <1>0, <2>2, SettleJobFlat
    <2>3. CASE ProcessStep(v) /\ ~SettleJob(v)
      BY <1>0, <2>3, ProcessKeeps DEF KeepsOrders
    <2>4. ASSUME NEW o \in Orders, PickJob(v, o)
          PROVE  slot'[w].order = o /\ job[o].state = "waiting"
      BY <1>0, <2>4, PickJobFlat DEF PickJob, Take
    <2>5. QED
      BY <2>1, <2>2, <2>3, <2>4
  <1>2. CASE Crash
    BY <1>2 DEF Crash, WorkerCrash, IdleSlot
  <1>3. QED
    BY <1>1, <1>2 DEF Next, Api, Monitor, Queue, Clock, workerVars, vars

LEMMA StepCancels ==
    ASSUME TypeInv, [Next]_vars, NEW o \in Orders, cancel[o].pc = "idle", cancel'[o].pc # "idle"
    PROVE  status[o] # NoDoc /\ o \in Cancellable
  <1>0. cancel \in [Orders -> Cancel]
    BY DEF TypeInv, TypeOK, ApiTypeOK
  <1>1. CASE Api
    <2>1. PICK p \in Orders : ExecuteStep(p) \/ CancelCheck(p) \/ CancelStep(p)
      BY <1>1 DEF Api, ApiNext
    <2>2. CASE ExecuteStep(p)
      BY <2>2 DEF ExecuteStep, CountActive, CreateOrder, EnqueueOrder
    <2>3. CASE CancelStep(p)
      <3>1. p # o
        BY <2>3 DEF CancelStep, CancelRead, CancelSave, CancelAnnounce, CancelRefetch
      <3>2. cancel'[o] = cancel[o]
        BY <1>0, <2>3, <3>1 DEF CancelStep, CancelRead, CancelSave, CancelAnnounce, CancelRefetch,
                                CancelGoTo
      <3>3. QED
        BY <3>2
    <2>4. CASE CancelCheck(p)
      <3>1. p = o
        BY <1>0, <2>4 DEF CancelCheck, CancelGoTo
      <3>2. QED
        BY <2>4, <3>1 DEF CancelCheck
    <2>5. QED
      BY <2>1, <2>2, <2>3, <2>4
  <1>2. CASE Crash
    BY <1>0, <1>2 DEF Crash, ApiCrash
  <1>3. QED
    BY <1>1, <1>2 DEF Next, Worker, Monitor, Queue, Clock, apiVars, vars

\* A round refers to the orders it fetched and to those that wait.
LEMMA StepRefers ==
    ASSUME TypeInv, [Next]_vars, NEW r \in Rounds, NEW o \in Orders
    PROVE  /\ o \in round'[r].fetched \cup round'[r].todo \cup round'[r].cur =>
                o \in round[r].fetched \cup round[r].todo \cup round[r].cur \cup Waiting
           /\ task'[r][o].pc # "none" => task[r][o].pc # "none" \/ o \in round[r].fetched
  <1>1. ASSUME NEW q \in Rounds, StartCheck(q) \/ StartCleanup(q) \/ ExpireRead(q)
                  \/ ExpireSave(q) \/ ExpireAnnounce(q) \/ ExpireDone(q) \/ EndRound(q),
               MonitorTyped0
        PROVE  /\ o \in round'[r].fetched \cup round'[r].todo \cup round'[r].cur =>
                     o \in round[r].fetched \cup round[r].todo \cup round[r].cur \cup Waiting
               /\ task'[r][o].pc # "none" => task[r][o].pc # "none" \/ o \in round[r].fetched
    <2>1. CASE StartCheck(q) \/ StartCleanup(q)
      BY <1>1, <2>1, StartFlat DEF OtherRounds
    <2>2. CASE ExpireRead(q)
      BY <1>1, <2>2, ExpireReadFlat DEF OtherRounds
    <2>3. CASE ExpireSave(q)
      BY <1>1, <2>3, ExpireSaveFlat DEF RoundTo, OtherRounds
    <2>4. CASE ExpireAnnounce(q)
      BY <1>1, <2>4, ExpireAnnounceFlat DEF OtherRounds
    <2>5. CASE ExpireDone(q)
      BY <1>1, <2>5, ExpireDoneFlat DEF RoundTo, OtherRounds
    <2>6. CASE EndRound(q)
      BY <1>1, <2>6, EndRoundFlat DEF OtherRounds
    <2>7. QED
      BY <1>1, <2>1, <2>2, <2>3, <2>4, <2>5, <2>6
  <1>2. ASSUME NEW q \in Rounds, NEW p \in Orders, CheckPrice(q, p) \/ TriggerStep(q, p),
               MonitorTyped0
        PROVE  /\ round' = round
               /\ task'[r][o].pc # "none" => task[r][o].pc # "none"
    BY <1>2, TaskFlat DEF TaskTo
  <1>3. CASE \A q \in Rounds : /\ round'[q] = IdleRound
                               /\ \A p \in Orders : task'[q][p].pc = "none"
    BY <1>3 DEF IdleRound
  <1>4. QED
    BY <1>1, <1>2, <1>3, MonitorMoves

\* Every save is of an order that exists: the savers refer to it.
Referred(o) == ~Fresh(o)

LEMMA SaversRefer ==
    ASSUME TypeInv
    PROVE  /\ \A w \in Slots : WorkerSaves(w) =>
                slot[w].order \in Orders /\ Referred(slot[w].order)
                /\ slot[w].target \in OrderStatus
           /\ \A o \in Orders : CancelSaves(o) => Referred(o)
           /\ \A r \in Rounds, o \in Orders : RoundSaves(r, o) \/ TaskSaves(r, o) => Referred(o)
  <1>1. ASSUME NEW w \in Slots, WorkerSaves(w)
        PROVE  slot[w].order \in Orders /\ slot[w].target \in OrderStatus
    BY <1>1 DEF WorkerSaves, TypeInv, SlotsWellFormed, Busy
  <1>2. QED
    BY <1>1 DEF CancelSaves, RoundSaves, TaskSaves, Referred, Fresh

\* A document never goes away; an order without one stays out of every history,
\* unless its request inserts it.
LEMMA StepKeepsDocs ==
    ASSUME TypeInv, FreshInv, [Next]_vars, NEW o \in Orders
    PROVE  /\ status[o] # NoDoc => status'[o] # NoDoc
           /\ status[o] = NoDoc =>
                \/ status'[o] = NoDoc /\ recorded'[o] = recorded[o]
                \/ Inserts(o) /\ status'[o] # NoDoc
           /\ recorded[o] \subseteq recorded'[o]
  <1>1. ASSUME NEW p \in Orders, NEW snap, NEW target \in OrderStatus, NEW hash,
               Save(p, snap, target, hash), Referred(p)
        PROVE  /\ status[o] # NoDoc => status'[o] # NoDoc
               /\ status[o] = NoDoc => status'[o] = NoDoc /\ recorded'[o] = recorded[o]
               /\ recorded[o] \subseteq recorded'[o]
    <2>1. status[p] # NoDoc
      BY <1>1 DEF FreshInv, Referred
    <2>2. NoDoc \notin OrderStatus
      BY DEF NoDoc, OrderStatus
    <2>3. QED
      BY <1>1, <2>1, <2>2, SaveFlat
  <1>2. {"CANCELLED", "EXPIRED", "PENDING", "FAILED", "WAITING_FOR_PRICE"} \subseteq OrderStatus
    BY DEF OrderStatus
  <1>3. ASSUME NEW w \in Slots, WorkerSaves(w)
        PROVE  /\ status[o] # NoDoc => status'[o] # NoDoc
               /\ status[o] = NoDoc => status'[o] = NoDoc /\ recorded'[o] = recorded[o]
               /\ recorded[o] \subseteq recorded'[o]
    BY <1>1, <1>3, SaversRefer DEF WorkerSaves
  <1>4. ASSUME NEW p \in Orders,
               CancelSaves(p) \/ \E r \in Rounds : RoundSaves(r, p) \/ TaskSaves(r, p)
        PROVE  /\ status[o] # NoDoc => status'[o] # NoDoc
               /\ status[o] = NoDoc => status'[o] = NoDoc /\ recorded'[o] = recorded[o]
               /\ recorded[o] \subseteq recorded'[o]
    BY <1>1, <1>2, <1>4, SaversRefer DEF CancelSaves, RoundSaves, TaskSaves
  <1>5. ASSUME NEW p \in Orders, Inserts(p)
        PROVE  /\ status[o] # NoDoc => status'[o] # NoDoc
               /\ status[o] = NoDoc =>
                    \/ status'[o] = NoDoc /\ recorded'[o] = recorded[o]
                    \/ Inserts(o) /\ status'[o] # NoDoc
               /\ recorded[o] \subseteq recorded'[o]
    <2>1. status[p] = NoDoc /\ recorded[p] = {}
      BY <1>5 DEF Inserts, FreshInv
    <2>2. status'[p] # NoDoc
      BY <1>5, InsertDocFlat DEF Inserts, InitialStatus, NoDoc
    <2>3. \A q \in Orders \ {p} : status'[q] = status[q] /\ recorded'[q] = recorded[q]
      BY <1>5, InsertDocFlat DEF Inserts
    <2>4. QED
      BY <1>5, <2>1, <2>2, <2>3
  <1>6. QED
    BY <1>3, <1>4, <1>5, StepWrites DEF DocWrites, docVars

\* Nothing starts to refer to an order without a document.
LEMMA StaysFresh ==
    ASSUME TypeInv, FreshInv, [Next]_vars, NEW o \in Orders, status[o] = NoDoc
    PROVE  Fresh(o)'
  <1>1. Fresh(o) /\ request[o] \notin {"inserted", "accepted"}
    BY DEF FreshInv
  <1>2. notified'[o] = {}
    <2>1. notified \in [Orders -> SUBSET OrderStatus]
      BY DEF TypeInv, TypeOK, StoreTypeOK
    <2>2. ASSUME NEW p, NEW s, Broadcast(p, s), p # o
          PROVE  notified'[o] = notified[o]
      BY <2>1, <2>2 DEF Broadcast
    <2>3. ASSUME NEW w \in Slots, Announce(w)
          PROVE  notified'[o] = notified[o]
      BY <1>1, <2>2, <2>3 DEF Announce, Fresh
    <2>4. ASSUME NEW p \in Orders, CancelAnnounce(p)
          PROVE  notified'[o] = notified[o]
      BY <1>1, <2>2, <2>4 DEF CancelAnnounce, Fresh
    <2>5. ASSUME NEW r \in Rounds, ExpireAnnounce(r)
          PROVE  notified'[o] = notified[o]
      BY <1>1, <2>2, <2>5 DEF ExpireAnnounce, Fresh
    <2>6. ASSUME NEW r \in Rounds, NEW p \in Orders, task[r][p].pc = "quote",
                 Broadcast(p, "WAITING_FOR_PRICE")
          PROVE  notified'[o] = notified[o]
      BY <1>1, <2>2, <2>6 DEF Fresh
    <2>7. QED
      BY <1>1, <2>3, <2>4, <2>5, <2>6, StepNotifies DEF Fresh
  <1>3. job'[o].state = "none"
    <2>1. ~EnqueueOrder(o) /\ \A r \in Rounds : ~TriggerEnqueue(r, o)
      BY <1>1 DEF EnqueueOrder, TriggerEnqueue, Fresh
    <2>2. QED
      BY <1>1, <2>1, StepAddsJob DEF Fresh
  <1>4. cancel'[o].pc = "idle"
    BY <1>1, StepCancels DEF Fresh
  <1>5. ASSUME NEW w \in Slots
        PROVE  slot'[w].order # o
    BY <1>1, WorkerAssumption, StepTakesOrder DEF Fresh
  <1>6. ASSUME NEW r \in Rounds
        PROVE  /\ o \notin round'[r].fetched \cup round'[r].todo \cup round'[r].cur
               /\ task'[r][o].pc = "none"
    <2>1. o \notin Waiting
      BY DEF Waiting, NoDoc
    <2>2. QED
      BY <1>1, <2>1, StepRefers DEF Fresh
  <1>7. QED
    BY <1>2, <1>3, <1>4, <1>5, <1>6 DEF Fresh

LEMMA StepRequests ==
    ASSUME TypeInv, [Next]_vars, NEW o \in Orders
    PROVE  /\ request'[o] \in {"new", "counted"} => request[o] \in {"new", "counted"}
           /\ request'[o] \in {"inserted", "accepted"} =>
                request[o] \in {"inserted", "accepted"} \/ InsertDoc(o)
  <1>0. request \in [Orders -> RequestPC]
    BY DEF TypeInv, TypeOK, ApiTypeOK
  <1>1. CASE Api
    <2>1. PICK p \in Orders : ExecuteStep(p) \/ CancelCheck(p) \/ CancelStep(p)
      BY <1>1 DEF Api, ApiNext
    <2>2. CASE CancelCheck(p) \/ CancelStep(p)
      BY <2>2 DEF CancelCheck, CancelStep, CancelRead, CancelSave, CancelAnnounce, CancelRefetch
    <2>3. CASE CountActive(p)
      BY <1>0, <2>3 DEF CountActive, Respond
    <2>4. CASE CreateOrder(p)
      BY <1>0, <2>4 DEF CreateOrder, Respond
    <2>5. CASE EnqueueOrder(p)
      BY <1>0, <2>5 DEF EnqueueOrder, Respond
    <2>6. QED
      BY <2>1, <2>2, <2>3, <2>4, <2>5 DEF ExecuteStep
  <1>2. CASE Crash
    BY <1>0, <1>2 DEF Crash, ApiCrash
  <1>3. QED
    BY <1>1, <1>2 DEF Next, Worker, Monitor, Queue, Clock, apiVars, vars

LEMMA StepFresh ==
    ASSUME TypeInv, FreshInv, [Next]_vars
    PROVE  FreshInv'
  <1>1. SUFFICES ASSUME NEW o \in Orders
                 PROVE  /\ status'[o] = NoDoc => Fresh(o)' /\ recorded'[o] = {}
                        /\ request'[o] \in {"new", "counted"} => status'[o] = NoDoc
                        /\ request'[o] \in {"inserted", "accepted"} => status'[o] # NoDoc
    BY DEF FreshInv
  <1>2. ASSUME status'[o] = NoDoc
        PROVE  Fresh(o)' /\ recorded'[o] = {}
    <2>1. status[o] = NoDoc
      BY <1>2, StepKeepsDocs
    <2>2. recorded[o] = {}
      BY <2>1 DEF FreshInv
    <2>3. QED
      BY <1>2, <2>1, <2>2, StaysFresh, StepKeepsDocs
  <1>3. ASSUME request'[o] \in {"new", "counted"}
        PROVE  status'[o] = NoDoc
    <2>1. status[o] = NoDoc
      BY <1>3, StepRequests DEF FreshInv
    <2>2. ~Inserts(o)
      BY <1>3 DEF Inserts, TypeInv, TypeOK, ApiTypeOK
    <2>3. QED
      BY <2>1, <2>2, StepKeepsDocs
  <1>4. ASSUME request'[o] \in {"inserted", "accepted"}
        PROVE  status'[o] # NoDoc
    <2>1. CASE InsertDoc(o)
      BY <2>1, InsertDocFlat DEF InitialStatus, NoDoc
    <2>2. CASE status[o] # NoDoc
      BY <2>2, StepKeepsDocs
    <2>3. QED
      BY <1>4, <2>1, <2>2, StepRequests DEF FreshInv
  <1>5. QED
    BY <1>2, <1>3, <1>4

LEMMA FreshInvariant == Spec => []FreshInv
  <1>1. Init => FreshInv
    BY WorkerAssumption
    DEF Init, StoreInit, QueueInit, WorkerInit, ApiInit, MonitorInit, NoJob, IdleSlot, IdleRound,
        NoTask, FreshInv, Fresh
  <1>2. QED
    BY <1>1, StepFresh, TypeInvariant, PTL DEF Spec

-----------------------------------------------------------------------------
(***************************************************************************)
(* Broadcasts and histories.                                               *)
(***************************************************************************)

\* What the stored status is, the history names.
LEMMA StepKnowsStatus ==
    ASSUME TypeInv, FreshInv, HistoryInv, [Next]_vars, NEW o \in Orders
    PROVE  Known(o, status[o])'
  <1>1. Known(o, status[o]) /\ recorded[o] \subseteq recorded'[o]
    BY StepKeepsDocs DEF HistoryInv
  <1>2. ASSUME NEW p \in Orders, NEW snap, NEW target, NEW hash, Save(p, snap, target, hash)
        PROVE  Known(o, status[o])'
    BY <1>1, <1>2, SaveFlat DEF Known
  <1>3. ASSUME NEW w \in Slots, WorkerSaves(w)
        PROVE  Known(o, status[o])'
    BY <1>2, <1>3, SaversRefer DEF WorkerSaves
  <1>4. ASSUME NEW p \in Orders, CancelSaves(p) \/ \E r \in Rounds : RoundSaves(r, p) \/ TaskSaves(r, p)
        PROVE  Known(o, status[o])'
    BY <1>2, <1>4 DEF CancelSaves, RoundSaves, TaskSaves
  <1>5. ASSUME NEW p \in Orders, Inserts(p)
        PROVE  Known(o, status[o])'
    BY <1>1, <1>5, InsertDocFlat DEF Inserts, Known
  <1>6. CASE UNCHANGED docVars
    BY <1>1, <1>6 DEF docVars, Known
  <1>7. QED
    BY <1>3, <1>4, <1>5, <1>6, StepWrites DEF DocWrites

\* After a save the history names its target, if it names what was read.
LEMMA SavedIsKnown ==
    ASSUME TypeInv, NEW o \in Orders, NEW snap, NEW target, NEW hash, target # NoDoc,
           Save(o, snap, target, hash), Known(o, snap)
    PROVE  target \in recorded'[o]
  BY SaveFlat DEF Known

SlotKnows(w) ==
    /\ slot[w].pc = "save" => Known(slot[w].order, slot[w].snap)
    /\ slot[w].pc = "announce" => slot[w].target \in recorded[slot[w].order]
CancelKnows(o) ==
    /\ cancel[o].pc = "save" => Known(o, cancel[o].snap)
    /\ cancel[o].pc = "announce" => "CANCELLED" \in recorded[o]
RoundKnows(r) ==
    /\ \A o \in round[r].cur :
         /\ round[r].pc = "save" => Known(o, round[r].snap)
         /\ round[r].pc = "announce" => "EXPIRED" \in recorded[o]
    /\ \A o \in round[r].fetched : "WAITING_FOR_PRICE" \in recorded[o]
    /\ \A o, p \in round[r].cur : o = p
    /\ \A o \in Orders : task[r][o].pc # "none" => "WAITING_FOR_PRICE" \in recorded[o]

LEMMA HistoryParts ==
    HistoryInv <=> /\ BroadcastsArePersisted
                   /\ \A o \in Orders : Known(o, status[o]) /\ CancelKnows(o)
                   /\ \A w \in Slots : SlotKnows(w)
                   /\ \A r \in Rounds : RoundKnows(r)
  BY DEF HistoryInv, CancelKnows, SlotKnows, RoundKnows

LEMMA StepSlotKnows ==
    ASSUME TypeInv, FreshInv, HistoryInv, [Next]_vars, NEW w \in Slots
    PROVE  SlotKnows(w)'
  <1>0. slot \in [Slots -> Slot] /\ SlotKnows(w)
    BY HistoryParts DEF TypeInv, TypeOK, WorkerTypeOK
  <1>1. CASE slot'[w] = slot[w]
    <2>1. slot[w].pc \in {"save", "announce"} => slot[w].order \in Orders
      BY DEF TypeInv, SlotsWellFormed, Busy
    <2>2. QED
      BY <1>0, <1>1, <2>1, StepKeepsDocs DEF SlotKnows, Known
  <1>2. CASE slot'[w].pc \notin {"save", "announce"}
    BY <1>2 DEF SlotKnows
  <1>3. ASSUME NEW v \in Slots, ProcessStep(v), slot'[w].pc \in {"save", "announce"}
        PROVE  SlotKnows(w)'
    <2>1. CASE v # w
      <3>1. slot'[w] = slot[w]
        <4>1. CASE FindOrder(v) \/ ReadForUpdate(v) \/ SaveUpdate(v)
          BY <1>0, <2>1, <4>1, FindOrderFlat, ReadForUpdateFlat, SaveUpdateFlat
          DEF To, Thrown, SameOrder
        <4>2. CASE Announce(v) \/ GetQuote(v) \/ ExecuteSwap(v)
          BY <1>0, <2>1, <4>2, AnnounceFlat, GetQuoteFlat, ExecuteSwapFlat
          DEF To, Thrown, SameOrder
        <4>3. CASE Refetch(v) \/ UpdateProgress(v) \/ SettleJob(v)
          BY <1>0, <2>1, <4>3, RefetchFlat, UpdateProgressFlat, SettleJobFlat
          DEF To, Thrown, SameOrder
        <4>4. QED
          BY <1>3, <4>1, <4>2, <4>3 DEF ProcessStep
      <3>2. QED
        BY <1>1, <3>1
    <2>2. CASE v = w /\ ReadForUpdate(w)
      <3>1. /\ slot[w].pc = "read" /\ slot'[w].pc = "save" /\ slot'[w].order = slot[w].order
            /\ slot'[w].snap = status[slot[w].order]
        BY <1>0, <1>3, <2>2, ReadForUpdateFlat DEF To, Thrown, SameOrder
      <3>2. slot[w].order \in Orders
        BY <3>1 DEF TypeInv, SlotsWellFormed, Busy
      <3>3. Known(slot[w].order, status[slot[w].order])
        BY <3>2, HistoryParts
      <3>4. QED
        BY <3>1, <3>2, <3>3, StepKeepsDocs DEF SlotKnows, Known
    <2>3. CASE v = w /\ SaveUpdate(w)
      <3>1. /\ slot[w].pc = "save" /\ slot'[w].pc = "announce"
            /\ slot'[w].order = slot[w].order /\ slot'[w].target = slot[w].target
            /\ Save(slot[w].order, slot[w].snap, slot[w].target, HashToSave(slot[w]))
        BY <1>0, <1>3, <2>3, SaveUpdateFlat DEF To, Thrown, SameOrder
      <3>2. slot[w].order \in Orders /\ slot[w].target \in OrderStatus
        BY <3>1 DEF TypeInv, SlotsWellFormed, Busy
      <3>3. slot[w].target # NoDoc
        BY <3>2 DEF OrderStatus, NoDoc
      <3>4. Known(slot[w].order, slot[w].snap)
        BY <1>0, <3>1 DEF SlotKnows
      <3>5. slot[w].target \in recorded'[slot[w].order]
        BY <3>1, <3>2, <3>3, <3>4, SavedIsKnown
      <3>6. QED
        BY <3>1, <3>5 DEF SlotKnows
    <2>4. CASE v = w /\ ~ReadForUpdate(w) /\ ~SaveUpdate(w)
      <3>1. slot'[w].pc \notin {"save", "announce"}
        BY <1>0, <1>3, <2>4, FindOrderFlat, AnnounceFlat, GetQuoteFlat, ExecuteSwapFlat,
           RefetchFlat, UpdateProgressFlat, SettleJobFlat
        DEF ProcessStep, To, Thrown
      <3>2. QED
        BY <1>3, <3>1
    <2>5. QED
      BY <2>1, <2>2, <2>3, <2>4
  <1>4. ASSUME NEW v \in Slots, NEW o \in Orders, PickJob(v, o)
        PROVE  SlotKnows(w)'
    BY <1>0, <1>1, <1>2, <1>4, PickJobFlat
  <1>5. CASE Crash
    BY <1>2, <1>5 DEF Crash, WorkerCrash, IdleSlot
  <1>6. QED
    BY <1>1, <1>2, <1>3, <1>4, <1>5
    DEF Next, Worker, WorkerNext, Api, Monitor, Queue, Clock, workerVars, vars

LEMMA StepCancelKnows ==
    ASSUME TypeInv, FreshInv, HistoryInv, [Next]_vars, NEW o \in Orders
    PROVE  CancelKnows(o)'
  <1>0. cancel \in [Orders -> Cancel] /\ CancelKnows(o) /\ Known(o, status[o])
    BY HistoryParts DEF TypeInv, TypeOK, ApiTypeOK
  <1>1. recorded[o] \subseteq recorded'[o]
    BY StepKeepsDocs
  <1>2. CASE cancel'[o] = cancel[o]
    BY <1>0, <1>1, <1>2 DEF CancelKnows, Known
  <1>3. CASE cancel'[o].pc \notin {"save", "announce"}
    BY <1>3 DEF CancelKnows
  <1>4. ASSUME NEW p \in Orders, ExecuteStep(p) \/ CancelCheck(p) \/ CancelStep(p)
        PROVE  CancelKnows(o)'
    <2>1. CASE p # o
      <3>1. cancel'[o] = cancel[o]
        BY <1>0, <1>4, <2>1
        DEF ExecuteStep, CountActive, CreateOrder, EnqueueOrder, CancelCheck, CancelStep,
            CancelRead, CancelSave, CancelAnnounce, CancelRefetch, CancelGoTo
      <3>2. QED
        BY <1>2, <3>1
    <2>2. CASE p = o /\ CancelRead(o)
      <3>1. \/ cancel'[o].pc = "save" /\ cancel'[o].snap = status[o]
            \/ cancel'[o].pc = "dbError"
        BY <1>0, <2>2 DEF CancelRead, CancelGoTo, Cancel
      <3>2. QED
        BY <1>0, <1>1, <3>1 DEF CancelKnows, Known
    <2>3. CASE p = o /\ CancelSave(o)
      <3>1. \/ cancel'[o].pc = "dbError"
            \/ cancel'[o].pc = "announce" /\ Save(o, cancel[o].snap, "CANCELLED", NoTx)
        BY <1>0, <2>3 DEF CancelSave, CancelGoTo, Cancel
      <3>2. Known(o, cancel[o].snap)
        BY <1>0, <2>3 DEF CancelSave, CancelKnows
      <3>3. "CANCELLED" # NoDoc
        BY DEF NoDoc
      <3>4. QED
        BY <3>1, <3>2, <3>3, SavedIsKnown DEF CancelKnows
    <2>4. CASE p = o /\ (CancelCheck(o) \/ CancelAnnounce(o) \/ CancelRefetch(o))
      <3>1. cancel'[o].pc \notin {"save", "announce"}
        BY <1>0, <2>4 DEF CancelCheck, CancelAnnounce, CancelRefetch, CancelGoTo, Cancel
      <3>2. QED
        BY <1>3, <3>1
    <2>5. CASE p = o /\ ExecuteStep(o)
      BY <1>2, <2>5 DEF ExecuteStep, CountActive, CreateOrder, EnqueueOrder
    <2>6. QED
      BY <1>4, <2>1, <2>2, <2>3, <2>4, <2>5 DEF CancelStep
  <1>5. CASE Crash
    <2>1. cancel'[o] = cancel[o] \/ cancel'[o].pc = "lost"
      BY <1>0, <1>5 DEF Crash, ApiCrash, Cancel
    <2>2. QED
      BY <1>2, <1>3, <2>1
  <1>6. QED
    BY <1>2, <1>4, <1>5 DEF Next, Worker, Api, ApiNext, Monitor, Queue, Clock, apiVars, vars

LEMMA StepRoundKnows ==
    ASSUME TypeInv, FreshInv, HistoryInv, [Next]_vars, NEW r \in Rounds
    PROVE  RoundKnows(r)'
  <1>0. RoundKnows(r) /\ round[r] \in Round /\ \A o \in Orders : Known(o, status[o])
    BY HistoryParts DEF TypeInv, TypeOK, MonitorTypeOK
  <1>1. \A o \in Orders : recorded[o] \subseteq recorded'[o]
    BY StepKeepsDocs
  <1>2. round[r].cur \subseteq Orders /\ round[r].fetched \subseteq Orders
                                      /\ round[r].todo \subseteq Orders
    BY <1>0 DEF Round
  <1>3. \A o \in Waiting : o \in Orders /\ "WAITING_FOR_PRICE" \in recorded[o]
    BY <1>0 DEF Waiting, Known, NoDoc
  <1>4. ASSUME \A o \in Orders : task'[r][o].pc # "none" =>
                  task[r][o].pc # "none" \/ o \in round[r].fetched,
               round'[r] = round[r]
                 \/ /\ round'[r].fetched \subseteq round[r].fetched \cup Waiting
                    /\ round'[r].cur \in {{}, round[r].cur}
                    /\ round'[r].pc \notin {"save", "announce"}
        PROVE  RoundKnows(r)'
    BY <1>0, <1>1, <1>2, <1>3, <1>4 DEF RoundKnows, Known
  <1>5. ASSUME NEW q \in Rounds, q # r, MonitorTyped0,
               StartCheck(q) \/ StartCleanup(q) \/ ExpireRead(q) \/ ExpireSave(q)
                 \/ ExpireAnnounce(q) \/ ExpireDone(q) \/ EndRound(q)
        PROVE  round'[r] = round[r] /\ task'[r] = task[r]
    BY <1>5, StartFlat, ExpireReadFlat, ExpireSaveFlat, ExpireAnnounceFlat, ExpireDoneFlat,
       EndRoundFlat DEF OtherRounds, RoundTo
  <1>6. CASE MonitorTyped0 /\ (StartCheck(r) \/ StartCleanup(r))
    BY <1>4, <1>6, StartFlat
  <1>7. CASE MonitorTyped0 /\ ExpireRead(r)
    <2>1. PICK o \in round[r].todo :
             \/ round'[r].pc = "save" /\ round'[r].cur = {o} /\ round'[r].snap = status[o]
             \/ round'[r].pc = "expire" /\ round'[r].cur = round[r].cur
      BY <1>7, ExpireReadFlat
    <2>2. UNCHANGED task /\ round'[r].fetched = round[r].fetched
      BY <1>7, ExpireReadFlat
    <2>3. o \in Orders
      BY <1>2
    <2>4. QED
      BY <1>0, <1>1, <1>2, <2>1, <2>2, <2>3 DEF RoundKnows, Known
  <1>8. CASE MonitorTyped0 /\ ExpireSave(r)
    <2>1. PICK o \in round[r].cur :
             \/ Save(o, round[r].snap, "EXPIRED", NoTx) /\ RoundTo(r, "announce")
             \/ RoundTo(r, "expire")
      BY <1>8, ExpireSaveFlat
    <2>2. UNCHANGED task /\ round[r].pc = "save"
      BY <1>8, ExpireSaveFlat
    <2>3. CASE RoundTo(r, "expire")
      BY <1>4, <2>2, <2>3 DEF RoundTo
    <2>4. CASE Save(o, round[r].snap, "EXPIRED", NoTx) /\ RoundTo(r, "announce")
      <3>1. o \in Orders /\ Known(o, round[r].snap) /\ "EXPIRED" # NoDoc
        BY <1>0, <1>2, <2>2 DEF RoundKnows, NoDoc
      <3>2. "EXPIRED" \in recorded'[o]
        BY <2>4, <3>1, SavedIsKnown
      <3>3. \A p \in round[r].cur : p = o
        BY <1>0 DEF RoundKnows
      <3>4. QED
        BY <1>0, <1>1, <1>2, <2>2, <2>4, <3>2, <3>3 DEF RoundKnows, RoundTo
    <2>5. QED
      BY <2>1, <2>3, <2>4
  <1>9. CASE MonitorTyped0 /\ (ExpireAnnounce(r) \/ EndRound(r))
    BY <1>4, <1>9, ExpireAnnounceFlat, EndRoundFlat
  <1>10. CASE MonitorTyped0 /\ ExpireDone(r)
    BY <1>4, <1>10, ExpireDoneFlat DEF RoundTo
  <1>11. ASSUME NEW q \in Rounds, NEW p \in Orders, CheckPrice(q, p) \/ TriggerStep(q, p),
                MonitorTyped0
         PROVE  RoundKnows(r)'
    BY <1>4, <1>11, TaskFlat DEF TaskTo
  <1>12. CASE UNCHANGED <<round, task>>
    BY <1>4, <1>12
  <1>13. CASE round'[r] = IdleRound /\ \A o \in Orders : task'[r][o].pc = "none"
    BY <1>4, <1>13 DEF IdleRound
  <1>14. QED
    BY <1>4, <1>5, <1>6, <1>7, <1>8, <1>9, <1>10, <1>11, <1>12, <1>13, MonitorMoves

LEMMA StepBroadcasts ==
    ASSUME TypeInv, FreshInv, HistoryInv, [Next]_vars
    PROVE  BroadcastsArePersisted'
  <1>0. notified \in [Orders -> SUBSET OrderStatus] /\ BroadcastsArePersisted
    BY HistoryParts DEF TypeInv, TypeOK, StoreTypeOK
  <1>1. \A o \in Orders : notified[o] \subseteq recorded'[o] /\ recorded[o] \subseteq recorded'[o]
    BY <1>0, StepKeepsDocs DEF BroadcastsArePersisted
  <1>2. ASSUME NEW p \in Orders, NEW s, Broadcast(p, s), s \in recorded[p]
        PROVE  BroadcastsArePersisted'
    BY <1>0, <1>1, <1>2 DEF Broadcast, BroadcastsArePersisted
  <1>3. ASSUME NEW w \in Slots, Announce(w)
        PROVE  BroadcastsArePersisted'
    <2>1. slot[w].order \in Orders /\ slot[w].target \in recorded[slot[w].order]
      BY <1>3, HistoryParts DEF Announce, SlotKnows, TypeInv, SlotsWellFormed, Busy
    <2>2. QED
      BY <1>2, <1>3, <2>1 DEF Announce
  <1>4. ASSUME NEW o \in Orders, CancelAnnounce(o)
        PROVE  BroadcastsArePersisted'
    BY <1>2, <1>4, HistoryParts DEF CancelAnnounce, CancelKnows
  <1>5. ASSUME NEW r \in Rounds, ExpireAnnounce(r)
        PROVE  BroadcastsArePersisted'
    <2>1. PICK o \in round[r].cur : Broadcast(o, "EXPIRED")
      BY <1>5 DEF ExpireAnnounce
    <2>2. o \in Orders /\ "EXPIRED" \in recorded[o]
      BY <1>5, HistoryParts
      DEF ExpireAnnounce, RoundKnows, TypeInv, TypeOK, MonitorTypeOK, Round
    <2>3. QED
      BY <1>2, <2>1, <2>2
  <1>6. ASSUME NEW r \in Rounds, NEW o \in Orders, task[r][o].pc = "quote",
               Broadcast(o, "WAITING_FOR_PRICE")
        PROVE  BroadcastsArePersisted'
    BY <1>2, <1>6, HistoryParts DEF RoundKnows
  <1>7. CASE UNCHANGED notified
    BY <1>1, <1>7 DEF BroadcastsArePersisted
  <1>8. QED
    BY <1>3, <1>4, <1>5, <1>6, <1>7, StepNotifies

\* Whatever status a client was told of an order was in its stored history
\* before: no broadcast runs ahead of the save it reports, whichever of the
\* worker, the cancel requests and the monitor writes in between.
THEOREM BroadcastsFollowSaves == Spec => []BroadcastsArePersisted
  <1>1. Init => HistoryInv
    BY DEF Init, StoreInit, WorkerInit, IdleSlot, ApiInit, MonitorInit, IdleRound, NoTask,
           HistoryInv, BroadcastsArePersisted, Known
  <1>2. TypeInv /\ FreshInv /\ HistoryInv /\ [Next]_vars => HistoryInv'
    <2>1. SUFFICES ASSUME TypeInv, FreshInv, HistoryInv, [Next]_vars
                   PROVE  HistoryInv'
      OBVIOUS
    <2>2. BroadcastsArePersisted' /\ \A o \in Orders : Known(o, status[o])'
      BY <2>1, StepBroadcasts, StepKnowsStatus
    <2>3. /\ \A o \in Orders : CancelKnows(o)'
          /\ \A w \in Slots : SlotKnows(w)'
          /\ \A r \in Rounds : RoundKnows(r)'
      BY <2>1, StepCancelKnows, StepSlotKnows, StepRoundKnows
    <2>4. QED
      BY <2>2, <2>3 DEF HistoryInv, CancelKnows, SlotKnows, RoundKnows
  <1>3. HistoryInv => BroadcastsArePersisted
    BY DEF HistoryInv
  <1>4. QED
    BY <1>1, <1>2, <1>3, TypeInvariant, FreshInvariant, PTL DEF Spec

-----------------------------------------------------------------------------
(***************************************************************************)
(* Limit orders that have ended.                                           *)
(***************************************************************************)

LEMMA CancelInvariant == Spec => []CancelInv
  <1>1. Init => CancelInv
    BY DEF Init, ApiInit, CancelInv
  <1>2. TypeInv /\ CancelInv /\ [Next]_vars => CancelInv'
    BY StepCancels DEF CancelInv
  <1>3. QED
    BY <1>1, <1>2, TypeInvariant, PTL DEF Spec

\* A round takes up an order only when it waits for a price; so does a price check, which
\* in its catch block takes up a pending one as well.
LEMMA StepRoundHolds ==
    ASSUME TypeInv, [Next]_vars, NEW r \in Rounds, NEW o \in Orders, status[o] \in LimitEnd,
           RoundHolds(r, o)'
    PROVE  RoundHolds(r, o)
  <1>0. MonitorTyped0 /\ o \notin Waiting
    BY DEF TypeInv, TypeOK, MonitorTypeOK, MonitorTyped0, Waiting, LimitEnd
  <1>1. CASE UNCHANGED <<round, task>>
    BY <1>1 DEF RoundHolds
  <1>2. CASE \A q \in Rounds : /\ round'[q] = IdleRound
                               /\ \A p \in Orders : task'[q][p].pc = "none"
    BY <1>2 DEF RoundHolds, IdleRound
  <1>3. ASSUME NEW q \in Rounds, StartCheck(q) \/ StartCleanup(q)
        PROVE  RoundHolds(r, o)
    BY <1>0, <1>3, StartFlat DEF RoundHolds, OtherRounds
  <1>4. ASSUME NEW q \in Rounds, ExpireRead(q)
        PROVE  RoundHolds(r, o)
    <2>1. UNCHANGED task /\ OtherRounds(q)
      BY <1>0, <1>4, ExpireReadFlat
    <2>2. CASE r = q
      <3>1. PICK p \in round[q].todo :
               /\ round'[q].todo = round[q].todo \ {p}
               /\ \/ round'[q].pc = "save" /\ round'[q].cur = {p}
                  \/ round'[q].pc = "expire"
        BY <1>0, <1>4, ExpireReadFlat
      <3>2. QED
        BY <2>1, <2>2, <3>1 DEF RoundHolds
    <2>3. CASE r # q
      BY <2>1, <2>3 DEF RoundHolds, OtherRounds
    <2>4. QED
      BY <2>2, <2>3
  <1>5. ASSUME NEW q \in Rounds, ExpireSave(q)
        PROVE  RoundHolds(r, o)
    BY <1>0, <1>5, ExpireSaveFlat DEF RoundHolds, RoundTo, OtherRounds
  <1>6. ASSUME NEW q \in Rounds, ExpireAnnounce(q) \/ EndRound(q)
        PROVE  RoundHolds(r, o)
    BY <1>0, <1>6, ExpireAnnounceFlat, EndRoundFlat DEF RoundHolds, OtherRounds
  <1>7. ASSUME NEW q \in Rounds, ExpireDone(q)
        PROVE  RoundHolds(r, o)
    BY <1>0, <1>7, ExpireDoneFlat DEF RoundHolds, RoundTo, OtherRounds
  <1>8. ASSUME NEW q \in Rounds, NEW p \in Orders, CheckPrice(q, p) \/ TriggerStep(q, p)
        PROVE  RoundHolds(r, o)
    <2>1. UNCHANGED round
      BY <1>0, <1>8, TaskFlat
    <2>2. CASE q = r /\ p = o
      <3>1. task'[r][o].pc \in {"read", "save", "catchRead", "catchSave"} =>
               task[r][o].pc \in {"read", "save", "catchRead", "catchSave"}
        BY <1>0, <1>8, <2>2, TaskFlat DEF TaskTo, LimitEnd
      <3>2. QED
        BY <2>1, <3>1 DEF RoundHolds
    <2>3. CASE q # r \/ p # o
      <3>1. task'[r][o] = task[r][o]
        BY <1>0, <1>8, <2>3, TaskFlat DEF TaskTo
      <3>2. QED
        BY <2>1, <3>1 DEF RoundHolds
    <2>4. QED
      BY <2>2, <2>3
  <1>9. QED
    BY <1>1, <1>2, <1>3, <1>4, <1>5, <1>6, <1>7, <1>8, MonitorMoves

\* A cancel request goes on only with an order that waits or is pending.
LEMMA StepCancelHolds ==
    ASSUME TypeInv, [Next]_vars, NEW o \in Orders, status[o] \in LimitEnd, CancelHolds(o)'
    PROVE  CancelHolds(o)
  <1>0. cancel \in [Orders -> Cancel]
    BY DEF TypeInv, TypeOK, ApiTypeOK
  <1>1. CASE Api
    <2>1. PICK p \in Orders : ExecuteStep(p) \/ CancelCheck(p) \/ CancelStep(p)
      BY <1>1 DEF Api, ApiNext
    <2>2. CASE ExecuteStep(p)
      BY <2>2 DEF ExecuteStep, CountActive, CreateOrder, EnqueueOrder, CancelHolds
    <2>3. CASE p # o /\ (CancelCheck(p) \/ CancelStep(p))
      <3>1. cancel'[o] = cancel[o]
        BY <1>0, <2>3 DEF CancelCheck, CancelStep, CancelRead, CancelSave, CancelAnnounce,
                          CancelRefetch, CancelGoTo
      <3>2. QED
        BY <3>1 DEF CancelHolds
    <2>4. CASE p = o /\ CancelCheck(p)
      BY <1>0, <2>4 DEF CancelCheck, CancelGoTo, CancelHolds, LimitEnd, Cancel
    <2>5. CASE p = o /\ CancelStep(p)
      BY <1>0, <2>5 DEF CancelStep, CancelRead, CancelSave, CancelAnnounce, CancelRefetch,
                        CancelGoTo, CancelHolds, Cancel
    <2>6. QED
      BY <2>1, <2>2, <2>3, <2>4, <2>5
  <1>2. CASE Crash
    BY <1>0, <1>2 DEF Crash, ApiCrash, CancelHolds, Cancel
  <1>3. CASE ~Api /\ ~Crash
    BY <1>3 DEF Next, Worker, Monitor, Queue, Clock, apiVars, vars, CancelHolds
  <1>4. QED
    BY <1>1, <1>2, <1>3

\* Whoever stores another status of a limit order that has ended held it.
LEMMA EndsOverwritten ==
    ASSUME TypeInv, ControlInv, FreshInv, [Next]_vars, NEW o \in LimitOrders,
           status[o] \in LimitEnd
    PROVE  \/ status'[o] = status[o]
           \/ CancelHolds(o) \/ \E r \in Rounds : RoundHolds(r, o)
  <1>0. o \in Orders /\ status[o] # NoDoc
    BY DEF Orders, LimitEnd, NoDoc
  <1>1. ASSUME NEW p \in Orders, NEW snap, NEW target, NEW hash, Save(p, snap, target, hash),
               p # o
        PROVE  status'[o] = status[o]
    BY <1>0, <1>1, SaveFlat
  <1>2. ASSUME NEW w \in Slots, WorkerSaves(w)
        PROVE  status'[o] = status[o]
    <2>1. slot[w].order # o
      BY <1>2 DEF WorkerSaves, ControlInv, Controlled
    <2>2. QED
      BY <1>1, <1>2, <2>1, SaversRefer DEF WorkerSaves
  <1>3. ASSUME NEW p \in Orders, CancelSaves(p)
        PROVE  status'[o] = status[o] \/ CancelHolds(o)
    BY <1>1, <1>3 DEF CancelSaves, CancelHolds
  <1>4. ASSUME NEW p \in Orders, Inserts(p)
        PROVE  status'[o] = status[o]
    <2>1. p # o
      BY <1>0, <1>4 DEF Inserts, FreshInv
    <2>2. QED
      BY <1>0, <1>4, <2>1, InsertDocFlat DEF Inserts
  <1>5. ASSUME NEW r \in Rounds, NEW p \in Orders, RoundSaves(r, p) \/ TaskSaves(r, p)
        PROVE  status'[o] = status[o] \/ RoundHolds(r, o)
    BY <1>1, <1>5 DEF RoundSaves, TaskSaves, RoundHolds
  <1>6. QED
    BY <1>2, <1>3, <1>4, <1>5, StepWrites DEF DocWrites, docVars

\* A limit order that has ended is taken up by nobody any more, however many rounds
\* overlap, price checks are retried and cancel requests run: its end is overwritten only
\* by what was past its last check of the order when it ended.
THEOREM EndedRest == Spec => EndedLimitsRest
  <1>1. TypeInv /\ ControlInv /\ FreshInv /\ [Next]_vars
          => [\A o \in LimitOrders : status[o] \in LimitEnd =>
                 /\ \A r \in Rounds : RoundHolds(r, o)' => RoundHolds(r, o)
                 /\ CancelHolds(o)' => CancelHolds(o)
                 /\ \/ status'[o] = status[o]
                    \/ CancelHolds(o) \/ \E r \in Rounds : RoundHolds(r, o)]_vars
    <2>1. SUFFICES ASSUME TypeInv, ControlInv, FreshInv, [Next]_vars, NEW o \in LimitOrders,
                          status[o] \in LimitEnd
                   PROVE  /\ \A r \in Rounds : RoundHolds(r, o)' => RoundHolds(r, o)
                          /\ CancelHolds(o)' => CancelHolds(o)
                          /\ \/ status'[o] = status[o]
                             \/ CancelHolds(o) \/ \E r \in Rounds : RoundHolds(r, o)
      OBVIOUS
    <2>2. o \in Orders
      BY DEF Orders
    <2>3. QED
      BY <2>1, <2>2, StepRoundHolds, StepCancelHolds, EndsOverwritten
  <1>2. QED
    BY <1>1, TypeInvariant, ControlInvariant, FreshInvariant, PTL DEF Spec, EndedLimitsRest
=============================================================================
