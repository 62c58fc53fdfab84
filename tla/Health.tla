-------------------------------- MODULE Health --------------------------------
(***************************************************************************)
(* GET /health and GET /health/metrics: services/MonitoringService.ts      *)
(* behind the routes of app.ts. A probe of the first asks MongoDB's        *)
(* driver, Redis, the job queue and, in real mode, Solana at once, asks    *)
(* the queue a second time for its figures, and turns the worst of the     *)
(* answers into a status code; a probe of the second asks for the figures  *)
(* only.                                                                   *)
(*                                                                         *)
(* Redis answers commands in the order they were sent.  While it is down   *)
(* they wait in the client, which is told never to give up on a command    *)
(* (maxRetriesPerRequest: null in config/redis.ts); a Redis that is        *)
(* loading answers each with an error.  MongoDB's ready state and Solana's *)
(* answers come from outside and are inputs.                               *)
(*                                                                         *)
(* The five counts of the queue are five commands, between which the       *)
(* worker's own commands are served: they are no snapshot.                 *)
(***************************************************************************)
EXTENDS Integers, Sequences, FiniteSets

CONSTANTS
    Probes,     \* requests, each of one probe
    QueueJobs,  \* the jobs that move while a probe runs
    Backlogs    \* numbers of jobs that wait all the time

ASSUME HealthAssumption == IsFiniteSet(QueueJobs) /\ Backlogs \subseteq Nat

VARIABLES
    realMode,   \* MOCK_MODE=false
    backlog,    \* the jobs that wait all the time
    redis,      \* "up", "loading" or "down"
    jobAt,      \* jobAt[j]: the BullMQ set that j is in
    moved,      \* moved[p]: the jobs that have moved since p began
    probe       \* probe[p]: how far the probe is

healthVars == <<realMode, backlog, redis, jobAt, moved, probe>>

JobSet == {"none", "waiting", "active", "delayed", "completed", "failed"}
Verdict == {"healthy", "degraded", "unhealthy"}

\* The order in which getQueueMetrics asks for its counts.
Counts == <<"waiting", "active", "completed", "failed", "delayed">>

In(s) == Cardinality({j \in QueueJobs : jobAt[j] = s}) + IF s = "waiting" THEN backlog ELSE 0

\* Mutant of Unfinished: jobs that wait for their next attempt are forgotten.
UnfinishedWithoutDelayed(n) == n["waiting"] + n["active"]

\* The total of getQueueMetrics, which completed and failed jobs are no part of.
Unfinished(n) == n["waiting"] + n["active"] + n["delayed"]

\* checkQueueHealth: more than 20%, more than 10% of failures.
QueueVerdict(n) ==
    LET total == Unfinished(n)
    IN  IF total > 0 /\ 5 * n["failed"] > total THEN "unhealthy"
        ELSE IF total > 0 /\ 10 * n["failed"] > total THEN "degraded"
        ELSE "healthy"

\* checkDatabaseHealth, by mongoose's readyState.
DatabaseVerdict(readyState) ==
    CASE readyState = 1 -> "healthy"
      [] readyState = 2 -> "degraded"
      [] OTHER -> "unhealthy"

\* Mutant of Overall: a component that is degraded hides one that is unhealthy.
OverallDegradedFirst(V) ==
    IF "degraded" \in V THEN "degraded"
    ELSE IF "unhealthy" \in V THEN "unhealthy" ELSE "healthy"

\* getSystemHealth: the worst of the components.
Overall(V) ==
    IF "unhealthy" \in V THEN "unhealthy"
    ELSE IF "degraded" \in V THEN "degraded" ELSE "healthy"

\* The route of app.ts.
StatusCode(v) == IF v = "unhealthy" THEN 503 ELSE 200

-----------------------------------------------------------------------------

\* What a component's check waits for, or its verdict.
Waiting == {"idle", "ping", "info", "counting", "slot", "version"}

NoCounts == [s \in JobSet \ {"none"} |-> 0]

Idle == [pc |-> "idle", of |-> "health", database |-> "healthy", redis |-> "idle", queue |-> "idle",
         solana |-> "idle", next |-> 1, counts |-> NoCounts, code |-> 0]

HealthTypeOK ==
    /\ realMode \in BOOLEAN
    /\ backlog \in Backlogs
    /\ redis \in {"up", "loading", "down"}
    /\ jobAt \in [QueueJobs -> JobSet]
    /\ moved \in [Probes -> SUBSET QueueJobs]
    /\ \A p \in Probes :
          /\ probe[p].pc \in {"idle", "checking", "metrics", "answered"}
          /\ probe[p].of \in {"health", "metrics"}
          /\ probe[p].database \in Verdict
          /\ {probe[p].redis, probe[p].queue, probe[p].solana} \subseteq Verdict \cup Waiting
          /\ probe[p].next \in 1 .. Len(Counts) + 1
          /\ probe[p].code \in {0, 200, 500, 503}

HealthInit ==
    /\ realMode \in BOOLEAN
    /\ backlog \in Backlogs
    /\ redis = "up"
    /\ jobAt = [j \in QueueJobs |-> "none"]
    /\ moved = [p \in Probes |-> {}]
    /\ probe = [p \in Probes |-> Idle]

\* The route's handler starts the checks; the database's is over at once.
StartProbe(p) ==
    /\ probe[p].pc = "idle"
    /\ \E readyState \in 0 .. 3 :
          probe' = [probe EXCEPT ![p] =
              [@ EXCEPT !.pc = "checking", !.database = DatabaseVerdict(readyState),
                        !.redis = "ping", !.queue = "counting",
                        !.solana = IF realMode THEN "slot" ELSE "healthy"]]
    /\ UNCHANGED <<realMode, backlog, redis, jobAt, moved>>

\* GET /health/metrics: getPerformanceMetrics asks nothing but the queue for its figures.
StartMetrics(p) ==
    /\ probe[p].pc = "idle"
    /\ probe' = [probe EXCEPT ![p] = [@ EXCEPT !.pc = "metrics", !.of = "metrics"]]
    /\ UNCHANGED <<realMode, backlog, redis, jobAt, moved>>

\* A Redis command is answered, or answered with an error; while Redis is down it waits.
Replied == redis = "up"
Rejected == redis = "loading"

\* checkRedisHealth: ping, then info.
RedisReply(p) ==
    /\ probe[p].redis \in {"ping", "info"}
    /\ \/ Replied /\ probe' = [probe EXCEPT ![p].redis = IF @ = "ping" THEN "info" ELSE "healthy"]
       \/ Rejected /\ probe' = [probe EXCEPT ![p].redis = "unhealthy"]
    /\ UNCHANGED <<realMode, backlog, redis, jobAt, moved>>

\* checkQueueHealth: the next count arrives; the last one decides.
CountReply(p) ==
    /\ probe[p].queue = "counting"
    /\ \/ /\ Replied
          /\ LET i == probe[p].next
                 n == [probe[p].counts EXCEPT ![Counts[i]] = In(Counts[i])]
             IN  probe' = [probe EXCEPT ![p] =
                    [@ EXCEPT !.counts = n, !.next = i + 1,
                              !.queue = IF i = Len(Counts) THEN QueueVerdict(n) ELSE "counting"]]
       \/ Rejected /\ probe' = [probe EXCEPT ![p].queue = "unhealthy"]
    /\ UNCHANGED <<realMode, backlog, redis, jobAt, moved>>

\* checkSolanaHealth: getSlot, then getVersion; a slot of 0 or an error will not do.
SolanaReply(p) ==
    /\ probe[p].solana \in {"slot", "version"}
    /\ \E answer \in {"good", "bad"} :
          probe' = [probe EXCEPT ![p].solana =
                      IF answer = "bad" THEN "unhealthy"
                      ELSE IF @ = "slot" THEN "version" ELSE "healthy"]
    /\ UNCHANGED <<realMode, backlog, redis, jobAt, moved>>

\* Promise.all is fulfilled, collectMetrics asks the queue again.
ChecksDone(p) ==
    /\ probe[p].pc = "checking"
    /\ {probe[p].redis, probe[p].queue, probe[p].solana} \subseteq Verdict
    /\ probe' = [probe EXCEPT ![p].pc = "metrics"]
    /\ UNCHANGED <<realMode, backlog, redis, jobAt, moved>>

\* The status code if the figures are there.
SuccessCode(p) ==
    IF probe[p].of = "metrics" THEN 200
    ELSE StatusCode(Overall({probe[p].database, probe[p].redis, probe[p].queue, probe[p].solana}))

\* Mutant of MetricsReply: an error of collectMetrics is caught and never answered.
MetricsReplyHangs(p) ==
    /\ probe[p].pc = "metrics"
    /\ LET Answer(code) == [probe EXCEPT ![p] = [@ EXCEPT !.pc = "answered", !.code = code]]
       IN  \/ Replied /\ probe' = Answer(SuccessCode(p))
           \/ Rejected /\ probe' = [probe EXCEPT ![p] = Idle]
    /\ UNCHANGED <<realMode, backlog, redis, jobAt, moved>>

\* The answer.  No try surrounds collectMetrics: its error goes to the error
\* handler of app.ts, whatever the checks have found.
MetricsReply(p) ==
    /\ probe[p].pc = "metrics"
    /\ LET Answer(code) == [probe EXCEPT ![p] = [@ EXCEPT !.pc = "answered", !.code = code]]
       IN  \/ Replied /\ probe' = Answer(SuccessCode(p))
           \/ Rejected /\ probe' = Answer(500)
    /\ UNCHANGED <<realMode, backlog, redis, jobAt, moved>>

ProbeStep(p) ==
    \/ RedisReply(p) \/ CountReply(p) \/ SolanaReply(p) \/ ChecksDone(p) \/ MetricsReply(p)

-----------------------------------------------------------------------------

\* The queue serves others: a job is added, taken, finished, retried.
MoveJob(j) ==
    /\ redis = "up"
    /\ \E to \in JobSet :
          /\ <<jobAt[j], to>> \in {<<"none", "waiting">>, <<"waiting", "active">>,
                <<"active", "completed">>, <<"active", "failed">>, <<"active", "delayed">>,
                <<"delayed", "waiting">>}
          /\ jobAt' = [jobAt EXCEPT ![j] = to]
    /\ moved' = [p \in Probes |-> IF probe[p].pc = "idle" THEN {} ELSE moved[p] \cup {j}]
    /\ UNCHANGED <<realMode, backlog, redis, probe>>

RedisChanges ==
    /\ \E r \in {"up", "loading", "down"} \ {redis} : redis' = r
    /\ UNCHANGED <<realMode, backlog, jobAt, moved, probe>>

HealthNext ==
    \/ \E p \in Probes : StartProbe(p) \/ StartMetrics(p) \/ ProbeStep(p)
    \/ \E j \in QueueJobs : MoveJob(j)
    \/ RedisChanges

\* A probe takes finitely many steps, so it is enough that it goes on.
HealthFairness == \A p \in Probes : WF_healthVars(ProbeStep(p))

HealthSpec == HealthInit /\ [][HealthNext]_healthVars /\ HealthFairness
-----------------------------------------------------------------------------

Counted(p) == probe[p].next > Len(Counts)
UnfinishedNow == {j \in QueueJobs : jobAt[j] \in {"waiting", "active", "delayed"}}

\* The five counts are no snapshot, but only a job that moves while they are taken is
\* counted wrongly, up to three times or not at all: every job that keeps its place
\* is counted once (getQueueMetrics).
StillJobsCountOnce ==
    \A p \in Probes : Counted(p) =>
        LET still == Cardinality(UnfinishedNow \ moved[p]) + backlog
            total == Unfinished(probe[p].counts)
        IN  still <= total /\ total <= still + 3 * Cardinality(moved[p])

\* Traffic is sent to a process (200) only if the driver was connected or connecting,
\* Redis answered all it was asked, Solana did in real mode and the queue's verdict
\* allows it, however the checks overlap.
TrafficNeedsAllParts ==
    \A p \in Probes : (probe[p].of = "health" /\ probe[p].code = 200) =>
        /\ probe[p].database # "unhealthy"
        /\ probe[p].redis = "healthy" /\ Counted(p)
        /\ probe[p].queue # "unhealthy"
        /\ probe[p].solana = "healthy"

\* Every probe is answered if Redis does not stay down, also by errors.
ProbesAreAnswered ==
    <>[](redis # "down") =>
        \A p \in Probes : probe[p].pc \in {"checking", "metrics"} ~> probe[p].pc = "answered"
=============================================================================
