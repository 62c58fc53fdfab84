-------------------------------- MODULE Errors --------------------------------
(***************************************************************************)
(* The error classes of utils/errors.ts by the status code of their        *)
(* answer, and what the handlers of controllers/OrderController.ts make of *)
(* an error they catch.  An error that is none of these classes is a plain *)
(* Error: of the database driver, the schema or the code itself.           *)
(***************************************************************************)
EXTENDS Integers

StatusOf == [
    ValidationError |-> 400, InsufficientBalanceError |-> 400, SlippageExceededError |-> 400,
    NotFoundError |-> 404, PoolNotFoundError |-> 404,
    OrderProcessingError |-> 500, DexExecutionError |-> 500, DatabaseError |-> 500,
    QueueError |-> 500, WebSocketError |-> 500, BlockchainError |-> 500,
    ConfigurationError |-> 500,
    NetworkError |-> 503, TransactionTimeoutError |-> 504]

IsAppError(e) == e \in DOMAIN StatusOf

\* The catch block of every handler.
CodeFor(e) == IF IsAppError(e) THEN StatusOf[e] ELSE 500
=============================================================================
