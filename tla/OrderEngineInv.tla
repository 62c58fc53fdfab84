---------------------------- MODULE OrderEngineInv ----------------------------
(***************************************************************************)
(* The facts about the reachable states of OrderEngine that make its       *)
(* invariants inductive.                                                   *)
(***************************************************************************)
EXTENDS OrderEngine

\* A job that can still run has an attempt and a stall left; a lock is held on
\* active jobs only.
JobsBounded ==
    \A o \in Orders :
        /\ job[o].state \in Live => /\ job[o].made < MaxRetryAttempts
                                    /\ job[o].stalls <= MaxStalledCount
        /\ job[o].owner # NoSlot => job[o].state = "active"

\* A busy slot works on an order, and an update in progress has a target.
SlotsWellFormed ==
    \A w \in Slots :
        /\ Busy(w) => slot[w].order \in Orders
        /\ slot[w].pc \in {"read", "save", "announce"} => slot[w].target \in OrderStatus

TypeInv == TypeOK /\ JobsBounded /\ SlotsWellFormed

-----------------------------------------------------------------------------

\* Slot w carries the hash of a swap of its order from the swap to CONFIRMED.
CarriesHash(w) ==
    slot[w].pc \in {"read", "save", "announce"}
      /\ slot[w].target \in {"SUBMITTED", "CONFIRMED"}
        => slot[w].hash \in 1 .. swaps[slot[w].order]

HashInv == ConfirmedHasTx /\ \A w \in Slots : CarriesHash(w)

\* While no lock is lost, a busy slot holds the lock of its order's job.
LockInv == lockLosses = 0 => \A w \in Slots : Busy(w) => job[slot[w].order].owner = w

-----------------------------------------------------------------------------

\* Only the expiry loops set EXPIRED, and their lists hold expired orders only.
ExpiryInv ==
    /\ ExpiredOnlyAfterDeadline
    /\ \A r \in Rounds : round[r].todo \subseteq expired /\ round[r].cur \subseteq expired
    /\ \A w \in Slots : slot[w].target # "EXPIRED"

\* A status that was read from a document is in its history.
Known(o, s) == s # NoDoc => s \in recorded[o]

\* What will be broadcast has been saved: the stored status and every status
\* read by an update in progress is in the history, every announced one is, and
\* price checks run for orders that have been waiting.
HistoryInv ==
    /\ BroadcastsArePersisted
    /\ \A o \in Orders : Known(o, status[o])
    /\ \A w \in Slots :
         /\ slot[w].pc = "save" => Known(slot[w].order, slot[w].snap)
         /\ slot[w].pc = "announce" => slot[w].target \in recorded[slot[w].order]
    /\ \A o \in Orders :
         /\ cancel[o].pc = "save" => Known(o, cancel[o].snap)
         /\ cancel[o].pc = "announce" => "CANCELLED" \in recorded[o]
    /\ \A r \in Rounds :
         /\ \A o \in round[r].cur :
              /\ round[r].pc = "save" => Known(o, round[r].snap)
              /\ round[r].pc = "announce" => "EXPIRED" \in recorded[o]
         /\ \A o \in round[r].fetched : "WAITING_FOR_PRICE" \in recorded[o]
         /\ \A o, p \in round[r].cur : o = p
         /\ \A o \in Orders :
              task[r][o].pc # "none" => "WAITING_FOR_PRICE" \in recorded[o]

-----------------------------------------------------------------------------

\* Nothing refers to an order that has no document yet and its history is empty; a
\* request that has not created its document has none.
Fresh(o) ==
    /\ notified[o] = {} /\ job[o].state = "none" /\ cancel[o].pc = "idle"
    /\ \A w \in Slots : slot[w].order # o
    /\ \A r \in Rounds : /\ o \notin round[r].fetched \cup round[r].todo \cup round[r].cur
                         /\ task[r][o].pc = "none"

FreshInv ==
    \A o \in Orders :
        /\ status[o] = NoDoc => Fresh(o) /\ recorded[o] = {}
        /\ request[o] \in {"new", "counted"} => status[o] = NoDoc
        /\ request[o] \in {"inserted", "accepted"} => status[o] # NoDoc

\* The monitor works on limit orders only, for no other order waits for a price.
LimitsInv ==
    /\ \A o \in Orders : status[o] = "WAITING_FOR_PRICE" => o \in LimitOrders
    /\ \A r \in Rounds :
         /\ round[r].fetched \cup round[r].todo \cup round[r].cur \subseteq LimitOrders
         /\ \A o \in Orders : task[r][o].pc # "none" => o \in LimitOrders

-----------------------------------------------------------------------------

WorkerTarget == {"ROUTING", "BUILDING", "SUBMITTED", "CONFIRMED", "FAILED"}
Updating(w) == slot[w].pc \in {"read", "save", "announce"}

\* What processOrder sets, where its catch block can be, that a limit order is only
\* registered, and that an attempt is rejected for a failure of a database or Redis call only.
Controlled(w) ==
    /\ Updating(w) => slot[w].target \in WorkerTarget
    /\ slot[w].inCatch => /\ slot[w].pc \notin {"idle", "find", "quote", "swap"}
                          /\ Updating(w) => slot[w].target = "FAILED"
    /\ slot[w].order \in LimitOrders => slot[w].pc \in {"progress", "resolve", "reject"}
    /\ slot[w].pc = "reject" => dbFaults + redisFaults > 0

ControlInv == \A w \in Slots : Controlled(w)

\* Who holds the lock of a job works on it.
OwnerInv ==
    \A o \in Orders, w \in Slots : job[o].owner = w => Busy(w) /\ slot[w].order = o

\* Every time a job is not held by a worker that runs it, something failed.
StallsInv ==
    \A o \in Orders :
        job[o].stalls + (IF Unheld(o) THEN 1 ELSE 0) <= redisFaults + lockLosses + crashes

-----------------------------------------------------------------------------

\* Slot w has yet to swap its order.
BeforeSwap(w) ==
    \/ slot[w].pc \in {"find", "quote", "swap"}
    \/ Updating(w) /\ slot[w].target \in {"ROUTING", "BUILDING"}

\* The attempts at o that may still swap it, some of them without the lock.
Swappers(o) == {w \in Slots : slot[w].order = o /\ BeforeSwap(w)}

\* How often the job of o has been taken.
Taken(o) ==
    job[o].made + job[o].stalls + (IF job[o].state \in {"active", "completed"} THEN 1 ELSE 0)

\* The next attempt at o, if there is one, has been paid for by a failure.
Repaid(o) ==
    \/ job[o].state \in {"waiting", "delayed"}
    \/ Unheld(o)
    \/ job[o].state = "active" /\ slot[job[o].owner].pc = "reject"

\* The swaps of o that have been executed or that a running attempt may still execute.
Claims(o) == swaps[o] + Cardinality(Swappers(o))

\* The request for o has not put a job on the queue and may still do so.
Unqueued(o) == request[o] \in {"new", "counted", "inserted"}

\* The claims on o are covered by the times its job was taken, also when the job has
\* been removed since; a job that is put on the queue finds none.
AttemptsInv ==
    \A o \in Orders :
        /\ IsFiniteSet(Swappers(o))
        /\ Claims(o) <= MaxRetryAttempts + MaxStalledCount /\ Claims(o) <= 1 + Failures
        /\ o \in LimitOrders => Claims(o) = 0
        /\ o \notin LimitOrders /\ Unqueued(o) => job[o].state = "none" /\ Claims(o) = 0
        /\ job[o].state # "none" =>
              /\ Claims(o) <= Taken(o)
              /\ Taken(o) <= MaxRetryAttempts + MaxStalledCount
              /\ Taken(o) <= 1 + Failures
              /\ Repaid(o) => Taken(o) <= Failures

-----------------------------------------------------------------------------

\* Slot w has stored the end of its order.
Ended(w) ==
    \/ slot[w].pc \in {"refetch", "progress", "resolve"}
    \/ slot[w].pc = "announce" /\ slot[w].target \in FinalStatus
    \/ slot[w].pc = "save" /\ slot[w].target \in FinalStatus /\ slot[w].snap = slot[w].target

EndInv ==
    /\ CompletedJobIsFinal
    /\ lockLosses = 0 =>
          \A w \in Slots : slot[w].order \in MarketOrders /\ Ended(w)
                             => status[slot[w].order] \in FinalStatus

\* Slot w has seen or stored that its order is not PENDING any more.
Begun(w) ==
    \/ slot[w].pc \in {"quote", "swap", "refetch", "progress", "resolve"}
    \/ slot[w].pc = "announce"
    \/ Updating(w) /\ slot[w].target # "ROUTING" /\ ~slot[w].inCatch
    \/ slot[w].pc = "save" /\ slot[w].snap # "PENDING"

\* Which failures an accepted order survives while it is PENDING.
Mild == dbFaults = 0 /\ redisFaults = 0 /\ crashes + lockLosses <= MaxStalledCount

BegunInv ==
    /\ Mild => \A o \in MarketOrders :
           request[o] = "accepted" /\ status[o] = "PENDING" => job[o].state \in Live
    /\ dbFaults = 0 =>
          \A w \in Slots : slot[w].order \in MarketOrders /\ Begun(w)
                             => status[slot[w].order] # "PENDING"

-----------------------------------------------------------------------------

\* No order is cancelled that no user tries to cancel.
CancelInv == \A o \in Orders \ Cancellable : cancel[o].pc = "idle"

-----------------------------------------------------------------------------

\* The steps of the lifecycle that follow the insertion.
Advances(from, to) ==
    \/ from = "PENDING" /\ to = "ROUTING"
    \/ from = "ROUTING" /\ to \in {"BUILDING", "FAILED"}
    \/ from = "BUILDING" /\ to \in {"SUBMITTED", "FAILED"}
    \/ from = "SUBMITTED" /\ to = "CONFIRMED"

\* When nothing fails, a worker finds its market order where its own last update left it.
OnCourse(w) ==
    LET now == status[slot[w].order] IN
    /\ slot[w].pc = "find" => now = "PENDING"
    /\ slot[w].pc \in {"read", "save"} => Advances(now, slot[w].target)
    /\ slot[w].pc = "save" => slot[w].snap = now
    /\ slot[w].pc = "announce" => slot[w].target = now
    /\ slot[w].pc = "quote" => now = "ROUTING"
    /\ slot[w].pc = "swap" => now = "BUILDING"

\* Then an order is PENDING from its insertion to the first time its job is taken.
CourseInv ==
    /\ \A w \in Slots : slot[w].order \in MarketOrders => OnCourse(w)
    /\ \A o \in MarketOrders :
          request[o] = "inserted" \/ job[o].state \in {"waiting", "delayed"}
              => status[o] = "PENDING"

=============================================================================
