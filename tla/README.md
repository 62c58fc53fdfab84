# Verification of the order execution engine

This directory holds TLA+ models of the order execution engine in `src/`, the TLC
configurations that check them on small instances, and proofs, checked by TLAPS, that hold for
every instance. The models follow the code in `src/src/`; line references below are to files there.

## 1. The system

The server is one Node process. It takes orders over HTTP, keeps them in MongoDB, queues them in
Redis through BullMQ, executes them against two simulated Solana DEXs and tells clients about
status changes over WebSockets. Node runs one callback at a time, so two pieces of code interleave
only at an `await`. Everything that is difficult about this program happens there: what was
read before an `await` may be out of date after it, and each awaited call can fail on its own.

| part | code | state it keeps | operations | interacts with |
|---|---|---|---|---|
| orders collection, repository | `models/Order.model.ts`, `repositories/OrderRepository.ts` | one document per order: status, hash, history | create, `updateStatus`, `updateExecutionDetails`, queries | every process calls it |
| job queue | `queue/orderQueue.ts` (BullMQ) | jobs by order id, attempts, locks, retention | add, take, complete, fail, delay, stall, remove | filled by the API and the monitor, drained by the worker |
| order worker, order processing | `queue/orderWorker.ts`, `services/OrderService.ts` | the attempt each processor runs | `processOrder`, `updateProgress` | queue, repository, DEX router, WebSockets |
| order API | `controllers/OrderController.ts`, `services/OrderService.ts` | requests in flight | execute, cancel, read | repository, queue |
| price monitor | `services/PriceMonitorService.ts` | timers, rounds, price checks | check, expire, trigger, clean up | repository, queue, DEX router |
| server process | `server.ts`, `config/redis.ts`, `config/database.ts`, `queue/orderWorker.ts` | how far the start is, registered signal handlers | start, signal handlers, exit | everything in memory dies with it |
| DEX router, DEX services | `services/dex/*` | – | quote on both DEXs with retries, choose, swap | called by the worker and the monitor |
| WebSocket manager | `services/WebSocketManager.ts`, `router/orderRoutes.ts` | clients, subscriptions | subscribe, unsubscribe, broadcast | called by all the above |
| monitoring | `services/MonitoringService.ts`, `app.ts` | probes in flight | `/health`, `/health/metrics` | asks queue, Redis, driver, Solana |
| configuration | `config/index.ts`, `utils/configValidator.ts`, `utils/securityValidation.ts` | settings, read once | parse, validate | validators are called by scripts |
| utilities | `utils/errors.ts`, `feeEstimation.ts`, `transactionUtils.ts`, `walletManager.ts`, … | – | status codes, fees, confirmation loop, key | errors by the controllers, the others by scripts and real mode |
| scripts | `src/scripts/` | – | demonstrations and checks | the HTTP API, the utilities |

What makes each part correct, and which of it is hard:

* **Collection.** A status that is announced was stored; a hash belongs to the order it is stored
  with. Hard because both update methods read, change and save without a version check, and because
  a rejected save may have been applied.
* **Queue and worker.** One attempt per order at a time; bounded attempts; every job settles; no
  order is swapped more often than failures explain; a completed job means a final status. Hard
  because of retries from the beginning, stalls after a crash, and locks that expire under a live
  worker.
* **API.** An accepted order is not forgotten; a cancelled order is not executed; at most 1000
  active limit orders.
* **Monitor.** Only orders past their deadline expire; a passed deadline is noticed; a triggered order
  is executed, once; nobody takes up an order that has ended. Hard because rounds overlap (`setInterval`
  does not wait), work on lists fetched earlier, and retry from the quote after half a trigger.
* **Requests.** What is stored is what the worker and the monitor can take, whatever the body held. Hard because
  no single check sees all: the handler compares values that may be text, numbers as text, null or missing, the schema casts.
* **Documents.** The history tells what happened although updates are computed on copies; whoever reads all pages
  of the list misses nothing, although orders are inserted between the pages.
* **Process.** Whatever is in flight at an exit is recovered from the database and the queue; nothing is served
  by a process that lacks a part. Hard because four modules register handlers for the same signal.
* **Monitoring.** A probe is answered, and 200 only if all parts were found well. Hard because the checks overlap,
  the counts of the queue are no snapshot, and a Redis that is down answers nothing at all.
* **Validators.** Settings and wallets that pass are ones the server can work with. Hard because of NaN, and because
  three files have their own limits for the same thing.
* **Confirmation, fees.** A verdict on a transaction fits the chain, although nodes lag behind and blocks are
  dropped; more urgency never costs less.
* **DEX router.** A quote is found when one DEX answers; the choice between two costs little; the swap is held to the
  price that was compared. Hard because two retry loops run side by side, and because the tests, which
  run in mock mode, never reach one of the two criteria of the choice.
* **WebSockets.** A subscriber sees the updates of its order from its subscription on, each once, in order, and of no
  other; a closed connection is forgotten. Hard because the events of a socket come in any order.

The hazards are listed, at their lines, in `PROJECT.json`.

## 2. Modules

| module | models | extends |
|---|---|---|
| `OrderStore` | the collection: `Save`, `SaveError`, `InsertDoc`, `Broadcast` | – |
| `JobQueue` | the BullMQ queue: `Add`, `Take`, `MoveToCompleted`, `MoveToFailed`, `Promote`, `LoseLock`, `Stall`, `Remove` | `OrderStore` |
| `OrderWorker` | the processors and `processOrder`, one action per `await` | `JobQueue` |
| `OrderApi` | `executeOrder` and `cancelOrder` handlers, one action per `await` | `JobQueue` |
| `PriceMonitor` | check and cleanup rounds, price checks, trigger and its catch block | `JobQueue` |
| `OrderEngine` | the server: all of the above, the clock, the end of the process; the properties | the three processes |
| `OrderLifecycle` | abstract specification: the life of a market order | – |
| `DexRouter` | one trade: `Answer`, `Refuse`, `Retry` on each DEX, `ChooseQuote`, `CheckSwap`, `CheckBalance`, `ExecuteSwap`; its properties | – |
| `DexTrade` | abstract specification: what `processOrder` takes a trade to be | – |
| `WebSocketHub` | connections, their events and messages, subscriptions, broadcasts, a restart | – |
| `Health` | probes of `/health` and `/health/metrics`, one action per answered command; Redis up, loading or down; jobs that move meanwhile | – |
| `JsValues` | JavaScript's comparisons of numbers, numbers as text, null, other text and missing values | – |
| `Errors` | error classes, their status codes | – |
| `Requests` | `executeOrder` for any body and several requests at once: checks, cap, schema, answer | `Errors`, `JsValues` |
| `OrderCollection` | documents with their history as a list, copies held by updaters, paging; implements `OrderStore` | – |
| `ServerProcess` | one life of the process: `start`, the worker's and the monitor's start, signal handlers | – |
| `Configuration` | parsing with defaults; errors and warnings of `configValidator.ts` | `JsValues` |
| `RealModeSetup` | `validateRealModeSetup`, step by step, beside `Configuration` and the swaps' own limit | `Configuration` |
| `Confirmation` | `confirmTransactionWithTimeout`, the chain and a node that lags behind | – |
| `Fees` | the answers of `feeEstimation.ts` from samples of the network's fees | – |
| `MCOrderEngine`, `MCDexRouter`, `MCServices` | small instances for TLC | `OrderEngineInv`, `DexRouter`, all from `WebSocketHub` on |
| `OrderEngineInv` | inductive strengthenings of the invariants | `OrderEngine` |
| `OrderEngineProofs` | typing theorem | `OrderEngineInv` |
| `OrderEngineSafety` | theorems on locks, deadlines and hashes | `OrderEngineProofs` |
| `OrderEngineHistory` | theorems on broadcasts and on the end of limit orders | `OrderEngineSafety` |
| `OrderEngineAttempts` | theorems on the number of swaps, completed jobs and accepted orders | `OrderEngineHistory` |
| `OrderEngineLifecycle` | the steps of the engine as steps of `OrderLifecycle` | `OrderEngineAttempts` |
| `DexRouterProofs` | theorems about a trade | `DexRouter` |
| `WebSocketHubProofs` | theorems about subscriptions and broadcasts | `WebSocketHub` |
| `ServicesProofs` | theorems about the other parts beside the engine, and the types of all of them side by side | `MCServices`, `WebSocketHubProofs` |

### How state and actions correspond to the code

* `status[o]`, `txHash[o]`: the fields of the document (`models/Order.model.ts`). `recorded[o]` is
  the set of statuses in `statusHistory`; `notified[o]` the set of statuses that have been broadcast.
  A transaction hash is the number of the swap that produced it, so that a hash can be compared with
  the swaps that took place.
* `Save(o, snap, target, hash)` is `document.save()` of a copy that was read with status `snap`. Mongoose
  writes only the changed paths: when the copy already had the target status, the status is not
  written, even if the document has changed since. The pre-save hook (lines 108-116) adds to the history when
  the status path changed; `updateStatus` with a message adds to it anyway. `SaveError` is a rejected
  save: it has been applied or not.
* `job[o]`: the job with the id `o` (`addOrderToQueue` uses the order id as job id, so an add is
  ignored as long as a job with that id is kept). `made` counts failed attempts, `stalls` stalled
  ones, `owner` is the processor that holds the lock.
* `slot[w]`: what processor `w` of the worker does. `pc` names the awaited call; `target` the status
  being set, `snap` the status that was read for it, `inCatch` whether the catch block runs. One
  pass through `processOrder` is the sequence `FindOrder`, then `ReadForUpdate`, `SaveUpdate` and
  `Announce` for each of ROUTING, BUILDING, SUBMITTED and CONFIRMED with `GetQuote` and `ExecuteSwap`
  between them, then `Refetch`, `UpdateProgress` and `SettleJob`. A rejected call goes where the code goes: before the
  `try` it rejects the attempt, inside it enters the catch block, which sets FAILED, inside the catch
  block it rejects the attempt.
* `request[o]`, `cancel[o]`: where the two requests for `o` are, up to the answer the user gets.
* `round[r]`, `task[r][o]`: a run of `checkLimitOrders` or `cleanupExpiredOrders`, and the
  price check of `o` in it. `expired` holds the orders whose `expiresAt` has passed.
* `swaps[o]` counts the swaps that took place: it is what the user's wallet would see.
* `quote[d]`: the call of `getQuote` on DEX `d`: where `retryOperation` is and what was quoted. `pc`, `chosen`
  and `executed` follow `getBestQuote` and `executeSwap`; `mode`, `wallet`, `pair` and `asked` are the
  settings and the request, which do not change. `OrderWorker` has `GetQuote` and
  `ExecuteSwap` where `DexRouter` has a whole trade; `DexTrade` is what the first assumes and the second does.

* `WebSocketHub`: `registered`, `subscriptions`, `ready` are the manager's map and the sockets' `readyState`; `mail` holds what
  a client has sent and the server has not read. A handler runs without awaiting, so each is one action. `since` and
  `asked` record when and for what a client subscribed; `sent`, `received` and `threw` count the updates.
* `Health`: `probe[p]` has one field per component, either what its check waits for or its verdict; `counts` are the five answers
  of `getQueueMetrics`, `moved[p]` the jobs that moved since the probe began. `backlog` jobs wait all the time.
* `Requests`: `execute[r]` is the handler of request `r`, named by the awaited call; `document[r]` what was stored for it; `active`
  what `findActiveLimitOrders` would return; `rush[r]` the limit orders stored between `r`'s count and its insert.
* `OrderCollection`: `doc[o].history` is `statusHistory` with both entries of an update, the one of `updateStatus` and the one of the hook;
  an updater keeps the status of the copy it read. `client` reads pages with `skip` and `limit`.
* `ServerProcess`: `boot` is the line `start()` waits at; `listeners` the handlers of a signal that have yet to run in
  the same turn, in the order in which the modules were imported.
* `RealModeSetup`: `settings` is the parsed environment, `setup` the validation; `Confirmation`: `level` is the truth on the chain, `node`
  what the RPC node knows of it, `poll` the loop; `Fees`: `quotes` are answers with the sample they came from.

### Modelling decisions

* SNIPER orders are market orders: the code never distinguishes the two types.
* A crash is any end of the process. The signal handlers call `process.exit` without waiting for work in flight, so a
  clean shutdown loses the same things.
* A database fault is a rejected call. A Redis fault is an error reply; a lost connection is not a
  fault of the model, because commands then wait (`maxRetriesPerRequest: null`).
* The serving order of jobs, the backoff delays and the rate limit decide only when a job runs;
  the model lets it run at any time.
* Swaps are simulated by the DEX services, so a swap is either done and reported or not done:
  there is no transaction that lands without an answer.
* An order is cancelled by at most one request. In the order engine `Broadcast` is taken not to throw: `WebSocketHub` says
  when it does, which is never if the argument of the WebSocket handlers has a property `socket`. That depends on the version of
  `@fastify/websocket` (since 10 the argument is the socket itself; `package.json` asks for 11), which is not part of the repository, so
  `WebSocketHub` allows both.
* The parts of `MCServices` share no variable with the order engine or with each other. `OrderCollection` refines `OrderStore`, and the
  events that `WebSocketHub` and `Health` see of the engine (updates, moves of jobs) are unconstrained there, which is more than the engine does.
* In `Requests` amounts and prices are small integers, slippages percent, dates days from now: only the side of a limit matters.
  Bodies with up to two odd fields are tried alone; several requests at once have the bodies of `Crowd`, for the races are those of well-formed
  requests. Text of a number (`Numerals`) is compared as the number, is never falsy and is cast when it is stored (`Cast`); the empty text
  and `false` are to this code what null and 0 are, `true` and blank text numerals of 1 and 0; lists and objects as field values are left out, and
  so is text of a number as a date. `NoBody` is a request without a body or with the body null, whose destructuring throws. The type `MARKET`
  stands for every unknown type.
* `Configuration` keeps of a private key its length and form, of a URL whether it is one. Errors and warnings are the names of the
  settings they are about. `SOLANA_RPC_URL`, `REDIS_HOST` and `MONGODB_URI` have defaults, so the validator's tests for
  their absence never fail and are left out.
* `Fees` computes in integers and fractions; the code in doubles, which keep the order of the fees. `Total` is a recursive function, not
  an operator, so that theorems can be stated about it.
* The environment is any record of `ProcessEnv`: integers, text or nothing for each number. Text that is no number is parsed to NaN, of
  which none of the validators' comparisons holds.
* The verdicts of `Health` are written as `IF ... ELSE`, in the order of the code's tests. Where the guards of a `CASE` overlap, TLA+ leaves open which
  one counts (TLC takes the first), and nothing about the order of the tests could be proved of such a definition.
* The DEX services draw prices, fees and slippages from intervals of floating point numbers. `DexRouter` draws samples
  of them, scaled to integers; amount and base price cancel out of every comparison. Rounding
  is not modelled: it matters for quotes within one unit in the last place of the 0.1% limit.
* Both services know the same three pairs (`checkPoolExists`, `BASE_PRICES`), although 25 pairs are accepted. So
  today the router's fallback to one DEX cannot happen: no run reaches it. The constants allow different pairs, and
  the theorems hold for them.
* A trade is seen from the DEXs: that `processOrder` may give up between quote and swap because the database
  rejects a call is in `OrderWorker`. Each attempt of an order makes a trade of its own, and the services keep no state between trades.
* `checkSpecificOrder` has no caller and is left out. Prices are abstract: a price check finds the target reached,
  not reached, or no quote.

## 3. Runs

Every run has a configuration file of the same name. `dex_trade` uses `MCDexRouter`, `services` and `action_ignored` use `MCServices`, the
others `MCOrderEngine`.

| run | instance | question |
|---|---|---|
| `market_faults` | one market order, two processors, 2 attempts, 2 database faults, 1 Redis fault, 1 lost lock, 1 crash | `TypeOK`, `ConfirmedHasTx`, `SwapsWithinAttempts`, `ExtraSwapsCostFailures` |
| `market_live` | one market order that is also being cancelled, two processors, 2 attempts, 1 Redis fault, 1 crash, with fairness | `CompletedJobIsFinal`, `AcceptedNotForgotten`, `JobsSettle`, `QueuedMarketEnds` |
| `limit_rounds` | one limit order being cancelled, two processors, two overlapping rounds, 2 tries per price check, 1 database fault | `OneAttemptPerOrder`, `BroadcastsArePersisted`, `ExpiredOnlyAfterDeadline`, `EndedLimitsRest` |
| `limit_live` | one limit order, one round at a time, 2 database faults, 1 Redis fault, 1 crash, 3 tries per price check, with fairness | `DeadlineIsNoticed` |
| `lifecycle` | one market and one limit order, two processors, no faults, with fairness | `LifecycleSpec`: the market order implements `OrderLifecycle`, its liveness included |
| `limit_never_runs` | one limit order, no faults, with fairness | violates `TriggeredLimitIsProcessed` |
| `cancelled_swapped` | one market order, one cancel request, no faults | violates `CancelledIsNotSwapped` |
| `final_overwritten` | one market order, 1 database fault | violates `FinalMeansFinal` |
| `swapped_twice` | one market order, 1 Redis fault | violates `OneSwapPerOrder` |
| `dex_trade` | one trade, both modes, with and without wallet, a priced and an unpriced pair, slippages 0, 2, 50, 51 and 100%, with fairness | `TypeOK`, `SmallLossForFee`, `QuotedPriceKept`, `MockTakesRaydium`; `TradeSpec`: a trade implements `DexTrade`, its liveness included |
| `services` | the parts beside the engine, one per behaviour (below) | 15 invariants and 4 action and liveness properties, listed by part below |
| `action_ignored` | the same without liveness properties | violates `ReadmeMessageSubscribes` |

`services` begins with a choice of the `part` that moves; the others keep their initial states. The parts share no variable, so
behaviours in which several move are shuffles of these, and each property is about one part. It takes not quite three minutes; each part is:

| part | instance | properties |
|---|---|---|
| hub | two connections, one of which sends up to two messages (subscribe, unsubscribe, and README's `action`), one order with two updates, one restart | `OnlyWhatWasAskedFor`, `ToldInOrder`, `NothingMissedWhileSubscribed`, `GhostsHarmTheirOrderOnly`, `ClosedClientsLeave` |
| health | one probe, one moving job and 4 or 6 waiting ones (one failure is more than 20% or more than 10% of them), Redis up, loading or down at any time, real mode with 4 | `StillJobsCountOnce`, `TrafficNeedsAllParts`, `ProbesAreAnswered` |
| requests | three requests, a cap of 1, every body with at most two odd fields, numbers as text among them, and no body | `StoredOrdersAreSound`, `CapExceededByRushOnly`, `AnsweredByTheMistake` |
| collection | a market and a limit order, two updaters, two statuses, pages of 1, three milliseconds | `PagingMissesTiesOnly`, `RecordedIsHistory` |
| server | two jobs, any signals at any time | `ServesWithAllParts`, `SignalEndsTheProcess` |
| confirmation | a timeout of two polls, a clock up to 5 | `VerdictFitsChain` |
| setup | environments with one odd setting, or with it, a key and a least balance; five balances | `ReadyMeansSwapsPay` |
| fees | four answers of the network, three questions | `FeesAreOrdered` |

### What the passing runs show

* With every combination of those faults, an order that is CONFIRMED has the hash of a swap made for it, and
  is swapped at most `MaxRetryAttempts + MaxStalledCount` times and at most once more than
  the number of failures. These two bounds are the truth behind the missing idempotence of
  `processOrder`: a retried job swaps again, but never without a failure to blame.
* A completed job leaves its market order CONFIRMED, FAILED or CANCELLED, also when a cancel request
  that passed its check earlier is still running, because that request stores CANCELLED whatever it finds.
* An order that was answered with 201 is not forgotten; its job settles; and it reaches a final status
  unless its job stalls more than `maxStalledCount` times, which is a real exception: BullMQ then fails the
  job without running the code that would set FAILED.
* Two rounds, the registration job, the cancellation and the deadline of a limit order never make two
  processors run it at once, never announce a status that was not stored, and expire nothing early.
* Nobody takes up a limit order that has ended: no round lists it, no price check gets past the double check, no cancellation past its test.
  What had passed these before the end may still overwrite it, and nothing else does. So an end does not last: the expiry loop turns CANCELLED into EXPIRED
  although the user was told of the cancellation, and the second of two price checks turns EXPIRED or CANCELLED into PENDING, the double check
  notwithstanding. How far this can go is what `EndedLimitsRest` says.
* With one round at a time a passed deadline is noticed, also if calls are rejected and the process restarts.
* The router does not always choose "the one with highest net output after fees" (repository README,
  line 91): the outputs it compares are already net of fees, and within 0.1% it takes the lower fee instead. What it
  loses is less than 0.1%, and never for a higher fee. In mock mode, where the router's tests run, none of this happens: with the
  default price variation Raydium is always better by more than 1%.
* A swap keeps the price quoted by the DEX it is made on, less the slippage stored with the order. Every trade ends:
  with a swap, a failed swap, or no quote.

* A WebSocket client is told of every update from its subscription on, once and in order, whatever the other sockets do. If
  `addClient` throws, the stored client makes the broadcasts about its own order throw, and no others.
* While Redis is down `/health` and `/health/metrics` hang, since its client waits without a limit. If it does not stay down every probe is answered, and a
  200 of `/health` is earned by all parts. The counts of the queue are wrong by at most the jobs that moved while they were taken.
* Stored orders are sound although the handler lets text pass as a number. What keeps to the handler's own messages is taken, but for the cap; mistakes
  that only the schema or the pair check sees are answered with 500, and so is a request without a body. A slippage of 0 becomes the
  default of 1%, although "Slippage must be between 0 and 1" allows it; only the text "0" is stored as 0.
* The cap on active limit orders is exceeded only by orders stored between the count and the insert of one of those in excess.
* A client that pages through the orders misses only orders that share their millisecond with another, since all inserts go
  to the front. Sorting by the time of the last update would lose others.
* The history of a document follows from the statuses of the copies as `OrderStore` says; its last entry may differ from
  the stored status after a stale save.
* A signal ends the process with jobs under way, whatever the handlers called "Graceful shutdown" intend: on SIGINT the handler of
  Redis exits before those of the worker and the server run, on SIGTERM that of the server right after the worker's has begun to close.
* A `true` of `confirmTransactionWithTimeout` is final but may stand for a transaction with an error; a timeout says nothing
  of the transaction.
* A setup that is valid without a warning about SOL has enough for a swap; with one it may not. This holds for a `MIN_SOL_BALANCE` that is no number, too, which
  passes the validators and is replaced by the default.

### Observed beside the runs

Differences between code and documents that the models follow the code in, without a run of their own. About orders: CANCELLED limit orders become EXPIRED, and
the double check of the trigger is not the lock its comment says it is (both above); the order of a request whose add is rejected stays PENDING,
and one whose job stalls too often stays in ROUTING, BUILDING or SUBMITTED, for ever. About requests: the README's example body has the
type `MARKET`, which is answered with 400 (the values are lower case); a slippage of 0 is replaced; `GET /api/orders` takes `skip`, not `page`;
`getActiveLimitOrders` ignores its limit; `cancelOrder` answers failures of the database with 400; a new document has two entries in its
history. About the rest: NaN passes the validators, so that `REDIS_PORT=redis` is valid, and so is `MAX_RETRY_ATTEMPTS=0`;
`checkQueueHealth` divides the failures by the unfinished jobs, so a queue that has drained is healthy however many failed, and
`getPerformanceMetrics` divides the completed jobs by the same number, which can give more than 100%.

### What the violations show

* `limit_never_runs`: a limit order is queued when it is created, only so that the worker can register it.
  When its price is reached the monitor stores PENDING and adds a job with the same id; the add is ignored
  while the first job is kept (an hour for completed jobs), and if it were not, the processor returns early for LIMIT
  orders. The order stays PENDING. The comment at the update says it "will be processed like a market order".
* `cancelled_swapped`: `processOrder` does not look at the status it finds. A cancelled PENDING order is swapped
  and overwritten with CONFIRMED after the user was told "Order cancelled successfully".
* `final_overwritten`: the `findById` after CONFIRMED is inside the `try`; if it is rejected, the catch block stores FAILED
  over CONFIRMED. A retry moves FAILED back to ROUTING. The README calls both statuses final.
* `swapped_twice`: an error after the swap rejects the job, and the retry swaps again, although the DEX services take care
  not to retry swaps ("they may have been partially executed").
* `action_ignored`: the README's example for the general stream sends `action: "subscribe"`; `handleClientMessage` looks at `type` only, so that
  the client is neither subscribed nor answered.

### Bounds

| bound | values | why it is enough |
|---|---|---|
| orders | 1 or 2 | jobs, documents, requests and price checks of different orders share nothing but processors, rounds and the cap; `lifecycle` has two orders competing for processors |
| `Slots` | 1 or 2 | two processors are needed for two attempts at one order; a third adds nothing new |
| `Rounds` | 0 to 2 | two overlapping rounds show every race of the monitor with itself |
| `MaxRetryAttempts` | 1 or 2 (3 in the code) | 2 has a first, a middle (delayed) and a last failure |
| `MaxStalledCount` | 1 | BullMQ's default, not changed by the code |
| `MaxPriceTries` | 1, 2 or 3 (3 in the code) | `limit_live` uses the code's value; 2 has a price check that starts again |
| `MaxActiveLimits` | 1 (1000 in the code) | only whether the cap is reached matters |
| `PriceSamples` | 12 prices | the ends of every interval of prices, and quotes on both sides of the 0.1% limit |
| `FeeSamples` | 4 fees | the least and the greatest dynamic fee, and one below and one above Raydium's |
| `DrawSamples` | 0, 5 and 10 tenths | no, half and all of the slippage that a service may use |
| `Slippages` | 5 percentages | none, an ordinary one, both sides of the real services' limit, all |
| `Pairs` | 2 | one that has a price and one that has none |
| `MaxRetries` | 3 | the code's value |
| `Numerals` | text of 0, 1 and -1 | a value that `\|\|` takes for something although it is 0, one that is in range, one that is refused |
| `MaxUpdates`, `Quota`, `MaxRestarts` | 2 updates, 2 messages, 1 restart | a subscription before, between and after updates; subscribing again after leaving; a map that is emptied |
| `Backlogs`, `QueueJobs` | 4 or 6, and 1 | each verdict of the queue; one job shows all ways to be counted wrongly |
| `Cap`, `Crowd` | 1; a limit and a market order | three requests can exceed the cap by one and by two |
| `MaxTime`, `PageSizes` | 2 ms, pages of 1 | ties and three different times of creation; more than one page |
| `Timeout`, `MaxClock` | 2 and 5 polls | a loop that ends early, late, and not before the deadline |
| `Samples`, `MaxAnswers` | none, three with an average that is rounded, equal, far apart; 3 questions | every pair of questions of each sample |
| faults, crashes, lost locks | 0 to 2 | one to break something, one to hit what recovers from it |

`Symmetry` is used by `market_faults` only, which checks invariants. Deadlock checking is off where the
system may stop: when all requests are answered and no monitor round can start, nothing more happens.

### Fairness

`FairSpec` assumes weak fairness of: each processor (an awaited call settles and its continuation runs), taking the job of each
order (BullMQ serves waiting jobs, the configured rate limit only delays), promoting and stalled-checking each
job (timers of BullMQ), answering requests that were received, and rounds of the monitor, started
and continued (`setInterval` timers). The `FairSpec` of `DexRouter` assumes that each awaited call of a trade settles and each
`sleep` ends. Users, deadlines, faults, crashes and the removal of old jobs are not
fair. No strong fairness is used.

In `MCServices` the fair actions are the end of a connection that is closing and its close event, the next answer or step of a probe
that has one (Redis serves commands while it is up), and the next handler of a signal that came, which node runs in the same turn. Clients, Redis,
signals, jobs and the start are not fair.

## 4. Proofs

Every invariant and action property of the passing runs is proved, and of the three refinements (`LifecycleSpec`, `TradeSpec`,
`RecordedIsHistory`) everything but the liveness of the abstract specification. The theorems hold for any sets of
orders, processors, rounds, clients, probes, requests and documents and any values of the bounds that satisfy the named assumptions of the
modules. What these ask for: market and limit orders are disjoint and finitely many, null values are not members of the sets they complete,
bounds are naturals, those that count attempts positive (`OrdersAssumption`, `QueueAssumption`, `WorkerAssumption`, `ApiAssumption`,
`MonitorAssumption`, `EngineAssumption`, `RouterAssumption`, `HubAssumption`, `HealthAssumption`, `ServerAssumption`, `ConfirmationAssumption`);
`Absent`, `Null`, `Text` and the members of `Numerals` are
different and no integers, numerals have integer values (`JsAssumption`); bodies are records of the fields the handler reads, with any such value in each, or none (`RequestsAssumption`); environments are records of `ProcessEnv` and balances naturals
(`SetupAssumption`); documents are finitely many and updates set statuses (`CollectionAssumption`); fees are sequences of naturals (`FeesAssumption`).

Each inductive invariant also holds on a run's instance, where TLC found the ones that were too weak before they were proved.

### The order engine

* **`TypeCorrect`** (`OrderEngineProofs`): `Spec => []TypeOK`. Typing is not inductive alone: that `made`
  and `stalls` stay in their ranges needs `JobsBounded` (a job that may still run has an attempt and a stall left, and a lock is held
  on active jobs only), and that an update writes a status to an order's document needs `SlotsWellFormed` (a busy processor has an order, an
  update has a target). `TypeInv` is their conjunction; there is one lemma per action.
* **`OneAttempt`** (`OrderEngineSafety`): `Spec => []OneAttemptPerOrder`. `LockInv` says that a busy processor
  holds the lock of its order's job as long as no lock was lost; a lock has one holder. The
  cases are taking a job (its lock is free), settling one (the others hold other locks) and `Add` (an existing job is kept:
  this is where the job id matters). All other actions of a processor only `KeepsOrders`.
* **`ExpiryIsRight`**: `Spec => []ExpiredOnlyAfterDeadline`. `ExpiryInv` adds that the lists of the expiry
  loops contain expired orders only, and that no update of `processOrder` sets EXPIRED. Deadlines do not
  come back, so stale lists are harmless in this respect, for any number of rounds.
* **`ConfirmedCarriesTx`**: `Spec => []ConfirmedHasTx`. `HashInv` adds that a processor carries the hash of
  a swap of its order from SUBMITTED to CONFIRMED (`CarriesHash`). Saves with a stale copy, rejected saves that were applied
  and two processors on one order are all covered by `SaveKeepsHashes`.
* **`BroadcastsFollowSaves`** (`OrderEngineHistory`): `Spec => []BroadcastsArePersisted`. `HistoryInv` says of every update in progress, of
  whichever process, that the status its copy was read with is in the history, and of every announcement that its status is. It leans on
  `FreshInv` (nothing refers to an order that has no document, so an insert, which starts the history anew, disturbs no update) and on
  `LimitsInv` (the monitor's lists hold orders that have been waiting).
* **`EndedRest`**: `Spec => EndedLimitsRest`, for any number of overlapping rounds and cancellations. `ControlInv` bounds what a
  processor does with a limit order (it only reports progress) and `FreshInv` lets no insert touch an order that has a document, so all writers left are
  rounds and cancellations. `StepRoundHolds` and `StepCancelHolds` show for each of their steps that it takes up an order only if it waits, and
  `EndsOverwritten` that a step changes the status of an ended order only if it had it in hand (`RoundHolds`, `CancelHolds`).
* **`SwapsAreBounded`**, **`ExtraSwapsArePaid`** (`OrderEngineAttempts`): the two bounds on swaps. `AttemptsInv` counts `Claims`, the swaps made and the
  attempts that may still make one, some of them without their lock, against `Taken`, how often the job was taken, and both against the
  failures. A retry must have been `Repaid` before it starts; `ControlInv` says that an attempt is rejected only after a rejected
  call, `OwnerInv` and `StallsInv` that a job stalls only after a crash, a lost lock or a failed command. That a removed job's attempts still count is why the bound is
  on claims and not on the job's fields alone.
* **`CompletedIsFinal`**: `Spec => []CompletedJobIsFinal`, from `EndInv` (a processor that has stored an end finds it there until its job is completed).
* **`AcceptedIsKept`**: `Spec => []AcceptedNotForgotten`, from `BegunInv` (a processor that is past the first update left no PENDING behind) and
  `StallsInv`, so that crashes alone do not use up the stalls.
* **`FollowsLifecycle`** (`OrderEngineLifecycle`): under `Calm` (no faults, market orders are not cancelled; the constants of `lifecycle`), every step is a
  step of `OrderLifecycle` for the market orders or a stutter: the safety half of `LifecycleSpec`. `CourseInv` ties the status of an order to the place
  in `processOrder` of the one processor that has its lock; that there is one is `LockInv`, and that an attempt is the first is `AttemptsInv`.

### The router

* **`LossIsSmall`**, **`QuotedPriceIsKept`**, **`MockAlwaysTakesRaydium`**, **`FallbackIsSound`** and another
  **`TypeCorrect`** (`DexRouterProofs`) hold for any pairs of the two services, slippages, retry limit and samples.
  The invariant `IInv` keeps quotes in the ranges of their services and relates the chosen DEX to
  the settled quotes; the rest is arithmetic: what `Better` can lose (`BetterLoses`), and that a share of
  the slippage is within the slippage (`ImpactWithinSlippage`).
* **`TradeImplementsDexTrade`**: `Spec => Trade!SafeSpec`. Every step of a trade is a step of `DexTrade` or stutters.

### The hub

* **`OnlyAskedFor`**, **`InOrder`**, **`NothingMissed`** and **`GhostsAreConfined`** (`WebSocketHubProofs`) hold for any clients, orders,
  messages, numbers of updates and restarts, with and without `connection.socket`. `HubInv` strengthens the four
  with `AwayInv` (a connection that is yet to come has no endpoint and was told nothing, so that `AddClient` starts from nothing), `AskedInv`
  (a subscription was asked for or is the endpoint's, and messages not read yet count as asked) and `SentInv` (what was
  received has been sent, so that the next update is larger). Its inductive part has one lemma per handler; the ways a connection can end share
  `CloseHubInv`, as none of them opens a socket or adds a client.

### The other services (`ServicesProofs`)

Each theorem is about the specification of one part. `SideBySide` shows that a behaviour of `MCServices` is one of each part, so that all of them hold in
`services`, and **`TypesHold`** is its type invariant.

* **`VerdictsFit`**: the node never knows of a block that is not confirmed on the chain (`ConfirmationInv`), as only unconfirmed blocks are dropped.
* **`ServesWhole`**: `StartedSoFar` lists what runs at each stage of `start()` while no signal has come. That it need not hold afterwards is enough because
  the last handler of each signal exits in the same turn (`HandlerSteps`).
* **`ReadinessPays`**: what each step of the validation has established (`SetupInv`), and the arithmetic of the
  limits in the three files, for any integer and any NaN.
* **`TrafficNeedsAll`**, **`TotalsAreClose`**: `HealthInv` says which fields of a probe go together, and of each count taken of
  unfinished jobs that it is at least the number of those that stayed in their place and exceeds it by at most those that moved. A job that moves while counts are taken joins
  `moved` and leaves the first number; nothing else can change.
* **`StoredAreSound`**, **`MistakesAreAnswered`**: `HandlerOK` ties the place of a handler to what its body has passed; the rest is a case analysis on what handler,
  `createOrder` and schema say of each field (`Passes`), and on what a cast makes of it (`TakenSlippage`).
* **`CapIsExceededByRush`**: `RushInv`. The property speaks of one order of all active ones; orders leave the active ones in any order, so it is kept for every set of
  active orders: one of the set was in a rush with all others but at most `Cap`. A counted limit order that is not stored yet must find room (`RoomIfCounted`):
  it was below the cap when counted, and all that came since are in its rush.
* **`HistoryIsRecorded`**: `CollectionSpec => RecordedIsHistory`. A save of a copy is a `Save` of `OrderStore` with the status the copy was read with; the history gets
  the entries that were pushed (`SavedDocument`).
* **`PagesMissTiesOnly`**: `PagingInv`. An expected order that was not seen and has its millisecond for itself is still ahead: at least `skip` orders are newer, and they do not get
  fewer. That the next page shows it then follows from its position in any listing being the number of newer orders plus one.
* **`FeesAreInOrder`**: sums of samples by induction over the sequence, the mean between the least and the greatest fee, and rounding down keeps the order.
  The induction theorems of the library cannot be used, as they take an operator as parameter; `CountingUp` is induction for a set of
  naturals, from the least element of its complement (`WFMin`, `NatLessThanWellFounded`), and the recursive function is shown to exist from it (`SumsExist`).

### What is only model-checked

Liveness, because fairness and ENABLED are out of the proof system's reach: `JobsSettle`, `QueuedMarketEnds`, `DeadlineIsNoticed`,
`ClosedClientsLeave`, `ProbesAreAnswered`, `SignalEndsTheProcess`, that a trade ends (the liveness of `TradeSpec`) and that a market order
reaches its end in the lifecycle (the liveness of `LifecycleSpec`). The violations are counterexamples and need no proof.

## 5. Not modelled, and the plan

Not modelled, for good: the command line scripts (demonstrations that call the HTTP API or the utilities); rendering of answers,
logging, `getConfigSummary` and `getSecurityChecklist`, which print; `GET /health/mode`, which reads settings only; reading a single order, which
changes nothing; and code that nothing in the server calls: `checkSpecificOrder`, `sendError`, `closeAll`, `countByStatus`,
`getQuoteComparison`, building, simulating and sending transactions, `isRetryableError`, `safeExecute`.

`services` checks its parts side by side, not together with the order engine. Composing `WebSocketHub` with the engine, so that a broadcast that throws ends in the catch
block of `processOrder`, would multiply the states of both; `market_faults` already lets any database call at that place fail with the same
continuation.

Left to prove: the safety steps that the liveness properties rest on, as far as they can be stated without ENABLED, such as that a step of a processor never
puts its place in `processOrder` back within an attempt, and that each round's lists only get shorter. Each would be a measure that fair steps decrease
and no other step increases.
