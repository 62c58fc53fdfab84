------------------------------ MODULE PriceMonitor ------------------------------
(***************************************************************************)
(* PriceMonitorService: the rounds its two timers start and the price      *)
(* checks a round runs in parallel.  setInterval starts a round whether or *)
(* not the previous one has ended, so several rounds run at once; Rounds   *)
(* bounds how many.  A round works on the list its query returned: its     *)
(* expiry loop does not look at the stored status again, its price checks  *)
(* do so once, before the update.                                          *)
(***************************************************************************)
EXTENDS JobQueue

CONSTANTS
    Rounds,         \* bound: the rounds that may be in progress at once
    MaxPriceTries   \* maxRetries of checkOrderPrice (3 in the code)

ASSUME MonitorAssumption == MaxPriceTries \in Nat \ {0}

VARIABLES
    round,      \* round[r]: a run of checkLimitOrders or cleanupExpiredOrders
    task,       \* task[r][o]: the price check of o that round r runs
    expired     \* the limit orders whose expiresAt has passed

monitorVars == <<round, task, expired>>

\* fetched is the list of checkLimitOrders, todo the part of it still to expire,
\* cur the order being expired and snap its status when it was read.
Round == [pc : {"idle", "expire", "save", "announce", "prices"},
          fetched : SUBSET Orders, todo : SUBSET Orders,
          cur : SUBSET Orders, snap : OrderStatus \cup {NoDoc}]

IdleRound == [pc |-> "idle", fetched |-> {}, todo |-> {}, cur |-> {}, snap |-> NoDoc]

TaskPC == {"none", "quote", "find", "read", "save", "enqueue",
           "catchFind", "catchRead", "catchSave"}

Task == [pc : TaskPC, tries : 0 .. MaxPriceTries, snap : OrderStatus \cup {NoDoc}]

NoTask == [pc |-> "none", tries |-> 0, snap |-> NoDoc]

MonitorTypeOK ==
    /\ round \in [Rounds -> Round]
    /\ task \in [Rounds -> [Orders -> Task]]
    /\ expired \in SUBSET LimitOrders

MonitorInit ==
    /\ round = [r \in Rounds |-> IdleRound]
    /\ task = [r \in Rounds |-> [o \in Orders |-> NoTask]]
    /\ expired = {}

-----------------------------------------------------------------------------

\* The deadline of a created limit order passes.
Deadline(o) ==
    /\ o \in LimitOrders \ expired
    /\ status[o] # NoDoc
    /\ expired' = expired \cup {o}
    /\ UNCHANGED <<round, task>>

Waiting == {o \in Orders : status[o] = "WAITING_FOR_PRICE"}

RoundGoTo(r, pc) == round' = [round EXCEPT ![r].pc = pc]

\* checkLimitOrders up to its query; a failed query ends the round.
StartCheck(r) ==
    /\ round[r].pc = "idle"
    /\ \/ /\ DbOk
          /\ round' = [round EXCEPT ![r] =
                         IF Waiting = {} THEN @
                         ELSE [IdleRound EXCEPT !.pc = "expire", !.fetched = Waiting,
                                                !.todo = Waiting \cap expired]]
       \/ DbError /\ UNCHANGED round
    /\ UNCHANGED <<docVars, notified, queueVars, task, expired>>

\* Mutant of StartCleanup: the query forgets the expiresAt condition.
StartCleanupAll(r) ==
    /\ round[r].pc = "idle"
    /\ \/ /\ DbOk
          /\ round' = [round EXCEPT ![r] =
                         IF Waiting = {} THEN @
                         ELSE [IdleRound EXCEPT !.pc = "expire", !.todo = Waiting]]
       \/ DbError /\ UNCHANGED round
    /\ UNCHANGED <<docVars, notified, queueVars, task, expired>>

\* cleanupExpiredOrders up to its query.
StartCleanup(r) ==
    /\ round[r].pc = "idle"
    /\ \/ /\ DbOk
          /\ round' = [round EXCEPT ![r] =
                         IF Waiting \cap expired = {} THEN @
                         ELSE [IdleRound EXCEPT !.pc = "expire",
                                                !.todo = Waiting \cap expired]]
       \/ DbError /\ UNCHANGED round
    /\ UNCHANGED <<docVars, notified, queueVars, task, expired>>

\* The expiry loop: the update of the next order reads its document; an error
\* is logged and the loop goes on.
ExpireRead(r) ==
    /\ round[r].pc = "expire"
    /\ \E o \in round[r].todo :
         LET rest == round[r].todo \ {o} IN
         \/ /\ DbOk
            /\ round' = [round EXCEPT ![r] =
                           [@ EXCEPT !.pc = "save", !.todo = rest,
                                     !.cur = {o}, !.snap = status[o]]]
         \/ DbError /\ round' = [round EXCEPT ![r] = [@ EXCEPT !.todo = rest]]
    /\ UNCHANGED <<docVars, notified, queueVars, task, expired>>

ExpireSave(r) ==
    /\ round[r].pc = "save"
    /\ \E o \in round[r].cur :
         \/ /\ DbOk
            /\ Save(o, round[r].snap, "EXPIRED", NoTx)
            /\ RoundGoTo(r, "announce")
         \/ /\ SaveError(o, round[r].snap, "EXPIRED", NoTx)
            /\ RoundGoTo(r, "expire")
    /\ UNCHANGED <<notified, queueVars, task, expired>>

ExpireAnnounce(r) ==
    /\ round[r].pc = "announce"
    /\ \E o \in round[r].cur : Broadcast(o, "EXPIRED")
    /\ round' = [round EXCEPT ![r] = [@ EXCEPT !.pc = "expire", !.cur = {}, !.snap = NoDoc]]
    /\ UNCHANGED <<docVars, dbFaults, queueVars, task, expired>>

\* The loop has ended: a cleanup round ends, a check round starts the price
\* checks of the fetched orders that have not expired by now.
ExpireDone(r) ==
    /\ round[r].pc = "expire"
    /\ round[r].todo = {}
    /\ task' = [task EXCEPT ![r] =
                  [o \in Orders |-> IF o \in round[r].fetched \ expired
                                    THEN [NoTask EXCEPT !.pc = "quote"] ELSE NoTask]]
    /\ RoundGoTo(r, "prices")
    /\ UNCHANGED <<storeVars, queueVars, expired>>

\* Promise.allSettled: a round ends when all its price checks have.
EndRound(r) ==
    /\ round[r].pc = "prices"
    /\ \A o \in Orders : task[r][o].pc = "none"
    /\ round' = [round EXCEPT ![r] = IdleRound]
    /\ UNCHANGED <<storeVars, queueVars, task, expired>>

-----------------------------------------------------------------------------

TaskIs(r, o, t) == task' = [task EXCEPT ![r][o] = t]
TaskGoTo(r, o, pc) == task' = [task EXCEPT ![r][o].pc = pc]

\* Mutant of RetryCheck: the count starts again instead of giving up.
RetryCheckForever(r, o) ==
    TaskIs(r, o, [NoTask EXCEPT !.pc = "quote",
                                !.tries = (task[r][o].tries + 1) % MaxPriceTries])

\* checkOrderPrice catches an error and starts again, or gives up.
RetryCheck(r, o) ==
    TaskIs(r, o, IF task[r][o].tries < MaxPriceTries - 1
                 THEN [NoTask EXCEPT !.pc = "quote", !.tries = task[r][o].tries + 1]
                 ELSE NoTask)

\* The quote arrives: the target is not reached, or it is and the clients are
\* told so, or no DEX answers.
CheckPrice(r, o) ==
    /\ task[r][o].pc = "quote"
    /\ \/ TaskIs(r, o, NoTask) /\ UNCHANGED notified
       \/ Broadcast(o, "WAITING_FOR_PRICE") /\ TaskGoTo(r, o, "find")
       \/ RetryCheck(r, o) /\ UNCHANGED notified
    /\ UNCHANGED <<docVars, dbFaults, queueVars, round, expired>>

\* Mutant of TriggerFind: no double check.
TriggerFindAny(r, o) ==
    /\ task[r][o].pc = "find"
    /\ \/ DbOk /\ TaskGoTo(r, o, "read")
       \/ DbError /\ TaskGoTo(r, o, "catchFind")
    /\ UNCHANGED <<docVars, notified, queueVars, round, expired>>

\* triggerLimitOrderExecution double-checks that the order is still waiting.
TriggerFind(r, o) ==
    /\ task[r][o].pc = "find"
    /\ \/ /\ DbOk
          /\ IF status[o] = "WAITING_FOR_PRICE"
             THEN TaskGoTo(r, o, "read") ELSE TaskIs(r, o, NoTask)
       \/ DbError /\ TaskGoTo(r, o, "catchFind")
    /\ UNCHANGED <<docVars, notified, queueVars, round, expired>>

TriggerRead(r, o) ==
    /\ task[r][o].pc = "read"
    /\ \/ /\ DbOk
          /\ TaskIs(r, o, [task[r][o] EXCEPT !.pc = "save", !.snap = status[o]])
       \/ DbError /\ TaskGoTo(r, o, "catchFind")
    /\ UNCHANGED <<docVars, notified, queueVars, round, expired>>

TriggerSave(r, o) ==
    /\ task[r][o].pc = "save"
    /\ \/ /\ DbOk
          /\ Save(o, task[r][o].snap, "PENDING", NoTx)
          /\ TaskGoTo(r, o, "enqueue")
       \/ /\ SaveError(o, task[r][o].snap, "PENDING", NoTx)
          /\ TaskGoTo(r, o, "catchFind")
    /\ UNCHANGED <<notified, queueVars, round, expired>>

TriggerEnqueue(r, o) ==
    /\ task[r][o].pc = "enqueue"
    /\ \/ RedisOk /\ Add(o) /\ TaskIs(r, o, NoTask)
       \/ RedisError /\ UNCHANGED job /\ TaskGoTo(r, o, "catchFind")
    /\ UNCHANGED <<storeVars, lockLosses, round, expired>>

\* The catch block of the trigger; an error in it is checkOrderPrice's to retry.
CatchFind(r, o) ==
    /\ task[r][o].pc = "catchFind"
    /\ \/ /\ DbOk
          /\ IF status[o] \in {"WAITING_FOR_PRICE", "PENDING"}
             THEN TaskGoTo(r, o, "catchRead") ELSE TaskIs(r, o, NoTask)
       \/ DbError /\ RetryCheck(r, o)
    /\ UNCHANGED <<docVars, notified, queueVars, round, expired>>

CatchRead(r, o) ==
    /\ task[r][o].pc = "catchRead"
    /\ \/ /\ DbOk
          /\ TaskIs(r, o, [task[r][o] EXCEPT !.pc = "catchSave", !.snap = status[o]])
       \/ DbError /\ RetryCheck(r, o)
    /\ UNCHANGED <<docVars, notified, queueVars, round, expired>>

CatchSave(r, o) ==
    /\ task[r][o].pc = "catchSave"
    /\ \/ /\ DbOk
          /\ Save(o, task[r][o].snap, "FAILED", NoTx)
          /\ TaskIs(r, o, NoTask)
       \/ /\ SaveError(o, task[r][o].snap, "FAILED", NoTx)
          /\ RetryCheck(r, o)
    /\ UNCHANGED <<notified, queueVars, round, expired>>

TriggerStep(r, o) ==
    \/ TriggerFind(r, o) \/ TriggerRead(r, o) \/ TriggerSave(r, o) \/ TriggerEnqueue(r, o)
    \/ CatchFind(r, o) \/ CatchRead(r, o) \/ CatchSave(r, o)

\* What a round does once started.
RoundStep(r) ==
    \/ ExpireRead(r) \/ ExpireSave(r) \/ ExpireAnnounce(r) \/ ExpireDone(r) \/ EndRound(r)
    \/ \E o \in Orders : CheckPrice(r, o) \/ TriggerStep(r, o)

MonitorNext == \E r \in Rounds : StartCheck(r) \/ StartCleanup(r) \/ RoundStep(r)

\* Process death: the rounds end, the deadlines do not.
MonitorCrash ==
    /\ round' = [r \in Rounds |-> IdleRound]
    /\ task' = [r \in Rounds |-> [o \in Orders |-> NoTask]]
    /\ UNCHANGED expired
=============================================================================
