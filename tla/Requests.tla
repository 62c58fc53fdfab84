------------------------------- MODULE Requests -------------------------------
(***************************************************************************)
(* POST /api/orders/execute with bodies that clients may really send: what *)
(* executeOrder of controllers/OrderController.ts and createOrder of       *)
(* services/OrderService.ts make of missing, wrong and odd fields, what    *)
(* the schema of models/Order.model.ts lets into the collection, and the   *)
(* cap on active limit orders, which is counted in one call and used in a  *)
(* later one.  OrderApi continues from the well-formed requests.           *)
(*                                                                         *)
(* Nothing checks the body before the handler: a field may be missing,     *)
(* null or of another type, and the comparisons are those of JsValues.     *)
(* Prices and amounts are integers, slippages percent and expiry dates     *)
(* days from now; Text is any text that is no number and no date.  ""      *)
(* and false are to this code what null and 0 are, true and blank text     *)
(* numerals (of 1 and 0); lists and objects are left out.                  *)
(***************************************************************************)
EXTENDS Errors, JsValues, FiniteSets

CONSTANTS
    Requesters,         \* requests, each sent once
    Bodies,             \* the bodies they may carry
    Crowd,              \* bound: bodies of which several are under way at once
    Cap,                \* active limit orders allowed (1000 in the code)
    DefaultSlippage     \* config.trading.defaultSlippage, in percent

OrderType == {"market", "limit", "sniper"}

\* A body, as far as the code tells its fields apart; "MARKET", the type in README.md's
\* example, is any other one.
RequestBody == [type : OrderType \cup {"absent", "MARKET"}, pair : {"supported", "unsupported", "absent"},
                amount : JsValue, slippage : JsValue, limitPrice : JsValue,
                expiresAt : JsValue \ Numerals]

\* No body, or null, which Fastify hands over as it is; not the same as {}.
NoBody == [type |-> "no body", pair |-> "absent", amount |-> Absent, slippage |-> Absent,
           limitPrice |-> Absent, expiresAt |-> Absent]

ASSUME RequestsAssumption ==
    /\ IsFiniteSet(Requesters)
    /\ Bodies \subseteq RequestBody \cup {NoBody}
    /\ Crowd \subseteq Bodies
    /\ Cap \in Nat \ {0}
    /\ DefaultSlippage \in 1 .. 100

VARIABLES
    execute,    \* execute[r]: the handler of r
    document,   \* document[r]: the order stored for r, or {}
    active,     \* the requests whose orders wait for their price
    rush        \* rush[r]: limit orders stored between r's count and r's insert

requestVars == <<execute, document, active, rush>>

-----------------------------------------------------------------------------

\* A date that is not there is one that is falsy; a day of 0 is the present moment.
Given(date) == date \notin {Absent, Null}

\* Mutant of BadLimit: no upper bound on the expiry date.
BadLimitForever(b) ==
    /\ b.type = "limit"
    /\ \/ Falsy(b.limitPrice) \/ AtMost(b.limitPrice, 0)
       \/ Given(b.expiresAt) /\ (b.expiresAt = Text \/ AtMost(b.expiresAt, 0))

BadLimit(b) ==
    /\ b.type = "limit"
    /\ \/ Falsy(b.limitPrice) \/ AtMost(b.limitPrice, 0)
       \/ /\ Given(b.expiresAt)
          /\ b.expiresAt = Text \/ AtMost(b.expiresAt, 0) \/ Above(b.expiresAt, 30)

BadMarket(b) == b.type = "market" /\ (b.limitPrice # Absent \/ b.expiresAt # Absent)

\* What executeOrder answers with a ValidationError before it calls anything.
Refused(b) ==
    \/ "absent" \in {b.type, b.pair} \/ Falsy(b.amount)
    \/ b.type \notin OrderType
    \/ AtMost(b.amount, 0)
    \/ Below(b.slippage, 0) \/ Above(b.slippage, 100)
    \/ BadLimit(b) \/ BadMarket(b)

\* Mutant of OrderOf: limit orders get no default expiry date.
OrderOfNoDefault(b) ==
    [type |-> b.type, amount |-> b.amount,
     slippage |-> IF Falsy(b.slippage) THEN DefaultSlippage ELSE b.slippage,
     limitPrice |-> b.limitPrice, expiresAt |-> IF Given(b.expiresAt) THEN b.expiresAt ELSE Absent,
     status |-> IF b.type = "limit" THEN "WAITING_FOR_PRICE" ELSE "PENDING"]

\* createOrder: what is handed to the repository.
OrderOf(b) ==
    [type |-> b.type, amount |-> b.amount,
     slippage |-> IF Falsy(b.slippage) THEN DefaultSlippage ELSE b.slippage,
     limitPrice |-> b.limitPrice,
     expiresAt |-> CASE Given(b.expiresAt) -> b.expiresAt
                     [] ~Given(b.expiresAt) /\ b.type = "limit" -> 1
                     [] OTHER -> Absent,
     status |-> IF b.type = "limit" THEN "WAITING_FOR_PRICE" ELSE "PENDING"]

\* What the schema takes: its casts fail on text, its minimum on a negative price.
SchemaTakes(d) ==
    /\ Text \notin {d.amount, d.slippage, d.limitPrice, d.expiresAt}
    /\ ~Below(d.amount, 0) /\ ~Below(d.limitPrice, 0)
    /\ ~Below(d.slippage, 0) /\ ~Above(d.slippage, 100)

\* What it makes of them: its casts turn text of a number into the number.
Cast(v) == IF v \in Numerals THEN NumeralValue[v] ELSE v
CastOrder(d) == [d EXCEPT !.amount = Cast(@), !.slippage = Cast(@), !.limitPrice = Cast(@)]

-----------------------------------------------------------------------------

\* broken: a call to the database or to Redis was rejected.
NewHandler == [pc |-> "idle", body |-> NoBody, code |-> 0, broken |-> FALSE]

RequestsTypeOK ==
    /\ \A r \in Requesters :
          /\ execute[r].pc \in {"idle", "counting", "creating", "queueing", "answered"}
          /\ execute[r].pc \in {"counting", "creating", "queueing"} => ~Refused(execute[r].body)
          /\ execute[r].code \in {0, 201, 400, 500}
          /\ execute[r].broken \in BOOLEAN
          /\ document[r] \subseteq {CastOrder(OrderOf(execute[r].body))}
    /\ active \subseteq Requesters
    /\ rush \in [Requesters -> SUBSET Requesters]

RequestsInit ==
    /\ execute = [r \in Requesters |-> NewHandler]
    /\ document = [r \in Requesters |-> {}]
    /\ active = {}
    /\ rush = [r \in Requesters |-> {}]

GoOn(r, pc) == execute' = [execute EXCEPT ![r].pc = pc]
Succeed(r) == execute' = [execute EXCEPT ![r] = [@ EXCEPT !.pc = "answered", !.code = 201]]
Fail(r, e) == execute' = [execute EXCEPT ![r] = [@ EXCEPT !.pc = "answered", !.code = CodeFor(e)]]
Break(r, e) ==
    execute' = [execute EXCEPT ![r] =
                  [@ EXCEPT !.pc = "answered", !.code = CodeFor(e), !.broken = TRUE]]

\* The bound Crowd: a body that is not of it has the server to itself.
MayArrive(r) ==
    LET others == {execute[q].body : q \in {q \in Requesters \ {r} : execute[q].pc # "idle"}}
    IN  CASE others = {} -> Bodies
          [] others # {} /\ others \subseteq Crowd -> Crowd
          [] OTHER -> {}

\* A request is parsed and checked up to its first call.  Taking a body that is not
\* there apart is a TypeError.
Arrive(r) ==
    /\ execute[r].pc = "idle"
    /\ \E b \in MayArrive(r) :
          execute' = [execute EXCEPT ![r] =
                IF b = NoBody \/ Refused(b)
                THEN [@ EXCEPT !.pc = "answered", !.body = b,
                          !.code = CodeFor(IF b = NoBody THEN "TypeError" ELSE "ValidationError")]
                ELSE [@ EXCEPT !.pc = IF b.type = "limit" THEN "counting" ELSE "creating",
                               !.body = b]]
    /\ UNCHANGED <<document, active, rush>>

\* Mutant of CapReached: one more is let in.
CapReachedLate == Cardinality(active) > Cap

CapReached == Cardinality(active) >= Cap

\* getActiveLimitOrders: the whole list, its parameter limit is not used.
CountOrders(r) ==
    /\ execute[r].pc = "counting"
    /\ \/ CapReached /\ Fail(r, "ValidationError")
       \/ ~CapReached /\ GoOn(r, "creating")
       \/ Break(r, "MongoError")
    /\ UNCHANGED <<document, active, rush>>

KeepOrder(r) ==
    LET d == OrderOf(execute[r].body)
        waits == d.status = "WAITING_FOR_PRICE"
    IN  /\ document' = [document EXCEPT ![r] = {CastOrder(d)}]
        /\ active' = IF waits THEN active \cup {r} ELSE active
        /\ rush' = [q \in Requesters |->
                      IF waits /\ q # r /\ execute[q].pc = "creating"
                      THEN rush[q] \cup {r} ELSE rush[q]]

\* createOrder: the pair, then the schema, then the insert, whose answer may be lost.
StoreOrder(r) ==
    LET b == execute[r].body
        Creates == b.pair = "supported" /\ SchemaTakes(OrderOf(b))
    IN  /\ execute[r].pc = "creating"
        /\ \/ Creates /\ KeepOrder(r) /\ GoOn(r, "queueing")
           \/ Creates /\ KeepOrder(r) /\ Break(r, "MongoError")
           \/ Creates /\ Break(r, "MongoError") /\ UNCHANGED <<document, active, rush>>
           \/ ~Creates /\ Fail(r, "Error") /\ UNCHANGED <<document, active, rush>>

\* addOrderToQueue, and the answer.
QueueOrder(r) ==
    /\ execute[r].pc = "queueing"
    /\ Succeed(r) \/ Break(r, "QueueError")
    /\ UNCHANGED <<document, active, rush>>

\* An active limit order is triggered, cancelled or expires.
LeaveActive(r) ==
    /\ r \in active
    /\ active' = active \ {r}
    /\ UNCHANGED <<execute, document, rush>>

RequestsNext ==
    \E r \in Requesters :
        Arrive(r) \/ CountOrders(r) \/ StoreOrder(r) \/ QueueOrder(r) \/ LeaveActive(r)

RequestsSpec == RequestsInit /\ [][RequestsNext]_requestVars
-----------------------------------------------------------------------------

\* Every stored order is one the worker and the monitor can take, although no single
\* check sees all of it: the handler's comparisons let text pass, the schema's casts
\* let missing fields pass.  Numbers have become numbers; a slippage of 0 is stored for
\* text only, which || takes for something, where the number 0 gets the default.
StoredOrdersAreSound ==
    \A r \in Requesters : \A d \in document[r] :
        /\ d.type \in OrderType
        /\ d.amount \in Int /\ d.amount > 0
        /\ d.slippage \in 0 .. 100
        /\ d.slippage = 0 => execute[r].body.slippage \in Numerals
        /\ d.type = "limit" =>
              d.limitPrice \in Int /\ d.limitPrice > 0 /\ d.expiresAt \in 1 .. 30
        /\ d.type = "market" => d.limitPrice = Absent /\ d.expiresAt = Absent

\* The cap is counted before the insert, so requests that arrive together can exceed
\* it, but by no more than were stored between the count and the insert of one of them.
CapExceededByRushOnly ==
    Cardinality(active) > Cap =>
        \E r \in active : Cardinality(rush[r]) >= Cardinality(active) - Cap

\* A body that keeps to what the messages of executeOrder ask for, in the types of
\* types/order.types.ts; the numbers may come as text.
IsNumber(v) == v \in Int \cup Numerals

WellFormed(b) ==
    /\ b.type \in {"market", "limit"} /\ b.pair = "supported"
    /\ IsNumber(b.amount) /\ Number(b.amount) > 0
    /\ b.slippage \in {Absent, Null} \/ (IsNumber(b.slippage) /\ Number(b.slippage) \in 0 .. 100)
    /\ b.type = "limit" =>
          /\ IsNumber(b.limitPrice) /\ Number(b.limitPrice) > 0
          /\ b.expiresAt \in {Absent, Null} \cup 1 .. 30
    /\ b.type = "market" => b.limitPrice = Absent /\ b.expiresAt = Absent

Unseen(b) ==
    \/ b = NoBody \/ b.pair = "unsupported"
    \/ Text \in {b.amount, b.slippage, b.limitPrice, b.expiresAt}
    \/ b.type = "sniper" /\ Below(b.limitPrice, 0)

\* The answers of the handler to bodies that pass three checks, none of which sees all:
\* a well-formed one is taken, but for the cap; what is taken is well-formed, but for
\* snipers; and without a fault of the server a 500 is for the mistakes that no
\* comparison of the handler sees, a body that is not there among them.
AnsweredByTheMistake ==
    \A r \in Requesters : LET b == execute[r].body IN
        (execute[r].pc = "answered" /\ ~execute[r].broken) =>
            /\ WellFormed(b) => execute[r].code = 201 \/ (b.type = "limit" /\ execute[r].code = 400)
            /\ execute[r].code = 201 => WellFormed(b) \/ b.type = "sniper"
            /\ execute[r].code = 500 => Unseen(b)
=============================================================================
