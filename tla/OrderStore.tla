------------------------------ MODULE OrderStore ------------------------------
(***************************************************************************)
(* The orders collection: the Mongoose model of models/Order.model.ts as   *)
(* repositories/OrderRepository.ts drives it, and what the WebSocket       *)
(* manager has told the clients of each order.                             *)
(*                                                                         *)
(* The two update methods of the repository read the document, change the  *)
(* copy and save it: two awaits.  Saving writes only the paths that differ *)
(* from the copy that was read and takes no version lock, so a save is     *)
(* described by the status its caller had READ (snap) and the status it    *)
(* sets (target).  Every caller of these operators is a process with one   *)
(* action for the read and one for the save.                               *)
(***************************************************************************)
EXTENDS Naturals, FiniteSets

CONSTANTS
    MarketOrders,   \* orders of type MARKET or SNIPER: the code never tells them apart
    LimitOrders,    \* orders of type LIMIT
    MaxDbFaults     \* bound: how many database calls may be rejected

Orders == MarketOrders \cup LimitOrders

ASSUME OrdersAssumption ==
    /\ MarketOrders \cap LimitOrders = {}
    /\ IsFiniteSet(Orders)
    /\ MaxDbFaults \in Nat

OrderStatus == {"PENDING", "WAITING_FOR_PRICE", "ROUTING", "BUILDING",
                "SUBMITTED", "CONFIRMED", "FAILED", "EXPIRED", "CANCELLED"}

\* No document: the order has not been created yet.
NoDoc == "NONE"

\* No transaction hash; the k-th swap executed for an order has hash k.
NoTx == 0

VARIABLES
    status,     \* status[o]: the stored status, or NoDoc
    txHash,     \* txHash[o]: the stored transaction hash, or NoTx
    recorded,   \* recorded[o]: the statuses that appear in statusHistory
    notified,   \* notified[o]: the statuses broadcast to WebSocket clients
    dbFaults    \* how many database calls have been rejected so far

docVars == <<status, txHash, recorded>>
storeVars == <<status, txHash, recorded, notified, dbFaults>>

StoreTypeOK ==
    /\ status \in [Orders -> OrderStatus \cup {NoDoc}]
    /\ txHash \in [Orders -> Nat]
    /\ recorded \in [Orders -> SUBSET OrderStatus]
    /\ notified \in [Orders -> SUBSET OrderStatus]
    /\ dbFaults \in 0 .. MaxDbFaults

StoreInit ==
    /\ status = [o \in Orders |-> NoDoc]
    /\ txHash = [o \in Orders |-> NoTx]
    /\ recorded = [o \in Orders |-> {}]
    /\ notified = [o \in Orders |-> {}]
    /\ dbFaults = 0

-----------------------------------------------------------------------------

\* The status createOrder gives a new document.
InitialStatus(o) ==
    IF o \in LimitOrders THEN "WAITING_FOR_PRICE" ELSE "PENDING"

\* Inserting the document; its history already names the initial status.
InsertDoc(o) ==
    /\ status' = [status EXCEPT ![o] = InitialStatus(o)]
    /\ recorded' = [recorded EXCEPT ![o] = {InitialStatus(o)}]
    /\ UNCHANGED txHash

\* The targets set through updateStatus, whose callers all pass a message:
\* the method appends a history entry whether or not the status changes.
MessagedStatus == {"PENDING", "ROUTING", "BUILDING", "SUBMITTED"}

\* Mutant of Save: the pre-save hook is gone, only updateStatus keeps history.
SaveWithoutHook(o, snap, target, hash) ==
    /\ status' = [status EXCEPT ![o] = IF snap = target THEN @ ELSE target]
    /\ txHash' = [txHash EXCEPT ![o] = IF hash = NoTx THEN @ ELSE hash]
    /\ recorded' = [recorded EXCEPT ![o] =
                      @ \cup {s \in {target} : s \in MessagedStatus}]

\* document.save() of a copy read at status snap and set to target: the status
\* is written only if it differs from the copy; the hook appends to the history
\* when it does; the hash is written only when the caller has one.
Save(o, snap, target, hash) ==
    /\ status' = [status EXCEPT ![o] = IF snap = target THEN @ ELSE target]
    /\ txHash' = [txHash EXCEPT ![o] = IF hash = NoTx THEN @ ELSE hash]
    /\ recorded' = [recorded EXCEPT ![o] =
                      @ \cup {s \in {target} : snap # target \/ s \in MessagedStatus}]

\* A database call that resolves, and one that is rejected.
DbOk == UNCHANGED dbFaults
DbError == /\ dbFaults < MaxDbFaults
           /\ dbFaults' = dbFaults + 1

\* A rejected save: the write reached the server and its answer was lost, or it
\* did not.
SaveError(o, snap, target, hash) ==
    /\ DbError
    /\ \/ Save(o, snap, target, hash)
       \/ UNCHANGED docVars

\* wsManager.broadcastOrderUpdate: synchronous, never fails.
Broadcast(o, s) == notified' = [notified EXCEPT ![o] = @ \cup {s}]
=============================================================================
