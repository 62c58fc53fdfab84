-------------------------------- MODULE OrderApi --------------------------------
(***************************************************************************)
(* The two handlers of controllers/OrderController.ts that change state:   *)
(* executeOrder (with OrderService.createOrder and addOrderToQueue) and    *)
(* cancelOrder (OrderService.cancelOrder).  Each order stands for one      *)
(* valid POST /api/orders/execute, and each order of Cancellable for one   *)
(* DELETE /api/orders/:orderId/cancel sent at any time after it exists.    *)
(***************************************************************************)
EXTENDS JobQueue

CONSTANTS
    Cancellable,        \* the orders a user tries to cancel
    MaxActiveLimits     \* the cap on active limit orders (1000 in the code)

ASSUME ApiAssumption ==
    /\ Cancellable \subseteq Orders
    /\ MaxActiveLimits \in Nat \ {0}

VARIABLES
    request,    \* request[o]: the execute request of o
    cancel      \* cancel[o]: the cancel request of o

apiVars == <<request, cancel>>

\* The last five are answers: 201, 400, 500 with the document created, 500, and
\* a connection that was reset.
RequestPC == {"new", "counted", "inserted",
              "accepted", "refused", "queueError", "dbError", "lost"}

CancelPC == {"idle", "read", "save", "announce", "refetch",
             "cancelled", "refused", "dbError", "lost"}

Cancel == [pc : CancelPC, snap : OrderStatus \cup {NoDoc}]

ApiTypeOK ==
    /\ request \in [Orders -> RequestPC]
    /\ cancel \in [Orders -> Cancel]

ApiInit ==
    /\ request = [o \in Orders |-> "new"]
    /\ cancel = [o \in Orders |-> [pc |-> "idle", snap |-> NoDoc]]

-----------------------------------------------------------------------------

Respond(o, pc) == request' = [request EXCEPT ![o] = pc]

ActiveLimits == {o \in Orders : status[o] = "WAITING_FOR_PRICE"}

\* A LIMIT request first counts the active limit orders.
CountActive(o) ==
    /\ o \in LimitOrders
    /\ request[o] = "new"
    /\ \/ /\ DbOk
          /\ Respond(o, IF Cardinality(ActiveLimits) >= MaxActiveLimits
                        THEN "refused" ELSE "counted")
       \/ DbError /\ Respond(o, "dbError")
    /\ UNCHANGED <<docVars, notified, queueVars, cancel>>

\* createOrder; a rejected insert may have reached the server.
CreateOrder(o) ==
    /\ request[o] = IF o \in LimitOrders THEN "counted" ELSE "new"
    /\ \/ DbOk /\ InsertDoc(o) /\ Respond(o, "inserted")
       \/ DbError /\ (InsertDoc(o) \/ UNCHANGED docVars) /\ Respond(o, "dbError")
    /\ UNCHANGED <<notified, queueVars, cancel>>

\* The 201 answer is sent only once the job is queued; when the add fails the
\* document stays and the request is answered with a QueueError.
EnqueueOrder(o) ==
    /\ request[o] = "inserted"
    /\ \/ RedisOk /\ Add(o) /\ Respond(o, "accepted")
       \/ RedisError /\ UNCHANGED job /\ Respond(o, "queueError")
    /\ UNCHANGED <<storeVars, lockLosses, cancel>>

-----------------------------------------------------------------------------

CancelGoTo(o, pc) == cancel' = [cancel EXCEPT ![o].pc = pc]

\* The first findById of cancelOrder and the status check on its result.
CancelCheck(o) ==
    /\ o \in Cancellable
    /\ cancel[o].pc = "idle"
    /\ status[o] # NoDoc
    /\ \/ /\ DbOk
          /\ CancelGoTo(o, IF status[o] \in {"WAITING_FOR_PRICE", "PENDING"}
                           THEN "read" ELSE "refused")
       \/ DbError /\ CancelGoTo(o, "dbError")
    /\ UNCHANGED <<docVars, notified, queueVars, request>>

\* updateExecutionDetails reads the order again, without checking it again.
CancelRead(o) ==
    /\ cancel[o].pc = "read"
    /\ \/ DbOk /\ cancel' = [cancel EXCEPT ![o] = [pc |-> "save", snap |-> status[o]]]
       \/ DbError /\ CancelGoTo(o, "dbError")
    /\ UNCHANGED <<docVars, notified, queueVars, request>>

CancelSave(o) ==
    /\ cancel[o].pc = "save"
    /\ \/ /\ DbOk
          /\ Save(o, cancel[o].snap, "CANCELLED", NoTx)
          /\ CancelGoTo(o, "announce")
       \/ /\ SaveError(o, cancel[o].snap, "CANCELLED", NoTx)
          /\ CancelGoTo(o, "dbError")
    /\ UNCHANGED <<notified, queueVars, request>>

CancelAnnounce(o) ==
    /\ cancel[o].pc = "announce"
    /\ Broadcast(o, "CANCELLED")
    /\ CancelGoTo(o, "refetch")
    /\ UNCHANGED <<docVars, dbFaults, queueVars, request>>

CancelRefetch(o) ==
    /\ cancel[o].pc = "refetch"
    /\ \/ DbOk /\ CancelGoTo(o, "cancelled")
       \/ DbError /\ CancelGoTo(o, "dbError")
    /\ UNCHANGED <<docVars, notified, queueVars, request>>

ExecuteStep(o) == CountActive(o) \/ CreateOrder(o) \/ EnqueueOrder(o)

\* A cancel request that has been received runs to its answer.
CancelStep(o) ==
    CancelRead(o) \/ CancelSave(o) \/ CancelAnnounce(o) \/ CancelRefetch(o)

ApiNext == \E o \in Orders : ExecuteStep(o) \/ CancelCheck(o) \/ CancelStep(o)

\* Process death: the requests in flight are never answered.
ApiCrash ==
    /\ request' = [o \in Orders |->
                     IF request[o] \in {"counted", "inserted"} THEN "lost"
                     ELSE request[o]]
    /\ cancel' = [o \in Orders |->
                    IF cancel[o].pc \in {"read", "save", "announce", "refetch"}
                    THEN [cancel[o] EXCEPT !.pc = "lost"] ELSE cancel[o]]
=============================================================================
