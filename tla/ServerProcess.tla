----------------------------- MODULE ServerProcess -----------------------------
(***************************************************************************)
(* One life of the process: start() and shutdown() of server.ts, the       *)
(* worker's start and stop in queue/orderWorker.ts, the monitor's timers,  *)
(* and the signal handlers, which four files register one after the other. *)
(*                                                                         *)
(* Node runs the handlers of a signal in one turn, in the order of their   *)
(* registration, each up to its first await; process.exit ends everything  *)
(* on the spot.  In OrderEngine any end of the process is a Crash: this    *)
(* module says why there is no gentler one.                                *)
(***************************************************************************)
EXTENDS Naturals, Sequences

CONSTANT MaxJobs    \* config.orderProcessing.maxConcurrent

ASSUME ServerAssumption == MaxJobs \in Nat

VARIABLES
    boot,       \* how far start() is
    database,   \* "off", "connected", "closing"
    worker,     \* "off", "running", "closing"
    monitor,    \* isMonitoring, and the pairs of timers that run
    jobs,       \* jobs the worker is running
    listeners,  \* handlers that have yet to run for the signal that came
    exitCode    \* 2 while the process runs

serverVars == <<boot, database, worker, monitor, jobs, listeners, exitCode>>

Alive == exitCode = 2
Turn == Alive /\ listeners = <<>>

\* Registration follows the imports: config/database.ts, config/redis.ts,
\* queue/orderWorker.ts, server.ts.
Listeners == [SIGINT |-> <<"database", "redis", "worker", "server">>,
              SIGTERM |-> <<"worker", "server">>]

\* What may be left of them.
Handlers == {<<>>, <<"server">>, <<"worker", "server">>, <<"redis", "worker", "server">>,
             <<"database", "redis", "worker", "server">>}

ServerTypeOK ==
    /\ boot \in {"connecting", "starting", "checking", "listening", "serving"}
    /\ database \in {"off", "connected", "closing"}
    /\ worker \in {"off", "running", "closing"}
    /\ monitor \in [isMonitoring : BOOLEAN, timers : 0 .. 1]
    /\ jobs \in 0 .. MaxJobs
    /\ listeners \in Handlers
    /\ exitCode \in 0 .. 2

ServerInit ==
    /\ boot = "connecting"
    /\ database = "off"
    /\ worker = "off"
    /\ monitor = [isMonitoring |-> FALSE, timers |-> 0]
    /\ jobs = 0
    /\ listeners = <<>>
    /\ exitCode = 2

Exit(code) == exitCode' = code

-----------------------------------------------------------------------------

\* Mutant of Connect: the error is logged and not thrown again.
ConnectSwallowsError ==
    /\ boot = "connecting"
    /\ boot' = "starting"
    /\ database' \in {"off", "connected"}
    /\ UNCHANGED exitCode

\* connectDatabase; its error ends start() and the process.
Connect ==
    /\ boot = "connecting"
    /\ \/ boot' = "starting" /\ database' = "connected" /\ UNCHANGED exitCode
       \/ Exit(1) /\ UNCHANGED <<boot, database>>

\* startWorker: run() is not waited for, 100 ms are.
StartWorker ==
    /\ boot = "starting"
    /\ worker' = IF worker = "off" THEN "running" ELSE worker
    /\ boot' = "checking"

\* startMonitoring: the flag is set before the first check, the timers after it, which
\* catches all its errors.
BeginMonitoring ==
    /\ boot = "checking" /\ ~monitor.isMonitoring
    /\ monitor' = [monitor EXCEPT !.isMonitoring = TRUE]

\* Mutant of FirstCheckEnds: the start may check once more, and starts the timers again.
FirstCheckEndsAgain ==
    /\ boot = "checking" /\ monitor.isMonitoring
    /\ monitor' = [monitor EXCEPT !.timers = @ + 1]
    /\ boot' \in {"checking", "listening"}

FirstCheckEnds ==
    /\ boot = "checking" /\ monitor.isMonitoring
    /\ monitor' = [monitor EXCEPT !.timers = @ + 1]
    /\ boot' = "listening"

\* buildApp and listen; an error exits while timers and jobs run.
Listen ==
    /\ boot = "listening"
    /\ \/ boot' = "serving" /\ UNCHANGED exitCode
       \/ Exit(1) /\ UNCHANGED boot

Start ==
    /\ Turn
    /\ \/ Connect /\ UNCHANGED <<worker, monitor>>
       \/ StartWorker /\ UNCHANGED <<database, monitor, exitCode>>
       \/ BeginMonitoring /\ UNCHANGED <<boot, database, worker, exitCode>>
       \/ FirstCheckEnds /\ UNCHANGED <<database, worker, exitCode>>
       \/ Listen /\ UNCHANGED <<database, worker, monitor>>
    /\ UNCHANGED <<jobs, listeners>>

-----------------------------------------------------------------------------

\* The worker takes jobs as soon as it runs, whatever start() is doing.
TakeJob ==
    /\ Turn
    /\ worker = "running" /\ jobs < MaxJobs
    /\ jobs' = jobs + 1
    /\ UNCHANGED <<boot, database, worker, monitor, listeners, exitCode>>

EndJob ==
    /\ Turn
    /\ jobs > 0
    /\ jobs' = jobs - 1
    /\ UNCHANGED <<boot, database, worker, monitor, listeners, exitCode>>

-----------------------------------------------------------------------------

Signal(s) ==
    /\ Turn
    /\ listeners' = Listeners[s]
    /\ UNCHANGED <<boot, database, worker, monitor, jobs, exitCode>>

\* stopMonitoring.
StopMonitoring == monitor' = [isMonitoring |-> FALSE, timers |-> 0]

\* Mutant of Shutdown: it waits for the worker, as graceful shutdown would.
ShutdownWaits ==
    /\ StopMonitoring
    /\ IF jobs = 0 THEN Exit(0) ELSE UNCHANGED exitCode

\* server.ts.
Shutdown == StopMonitoring /\ Exit(0)

\* config/database.ts: disconnectDatabase waits for the driver.
CloseDatabase == database' = "closing" /\ UNCHANGED <<worker, monitor, exitCode>>

\* config/redis.ts: nothing to wait for.
CloseRedis == Exit(0) /\ UNCHANGED <<database, worker, monitor>>

\* queue/orderWorker.ts: close() waits for the jobs.
StopWorker == worker' = "closing" /\ UNCHANGED <<database, monitor, exitCode>>

\* The next handler, up to its first await.
RunListener ==
    /\ Alive /\ listeners # <<>>
    /\ LET l == Head(listeners)
       IN  \/ l = "database" /\ CloseDatabase
           \/ l = "redis" /\ CloseRedis
           \/ l = "worker" /\ StopWorker
           \/ l = "server" /\ Shutdown /\ UNCHANGED <<database, worker>>
    /\ listeners' = Tail(listeners)
    /\ UNCHANGED <<boot, jobs>>

ServerNext ==
    Start \/ TakeJob \/ EndJob \/ RunListener \/ \E s \in DOMAIN Listeners : Signal(s)

ServerFairness == WF_serverVars(RunListener)

ServerSpec == ServerInit /\ [][ServerNext]_serverVars /\ ServerFairness
-----------------------------------------------------------------------------

\* Requests are served only by a process with a database, a worker and a monitor whose
\* timers run once: the parts start in that order and each error on the way exits.
ServesWithAllParts ==
    (boot = "serving" /\ Turn) =>
        /\ database = "connected"
        /\ worker = "running"
        /\ monitor = [isMonitoring |-> TRUE, timers |-> 1]

\* A signal ends the process whatever the worker is doing, at any point of the start:
\* no handler waits for a job, although each is headed Graceful shutdown.
SignalEndsTheProcess == (Alive /\ listeners # <<>>) ~> ~Alive
=============================================================================
