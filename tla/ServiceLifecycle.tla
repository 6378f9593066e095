-------------------------- MODULE ServiceLifecycle --------------------------
(***************************************************************************)
(* How the service starts and stops: New and Close of server/server.go,    *)
(* Start and Stop of the queue (internal/enricher/queue.go) and of the     *)
(* scheduler (internal/scheduler/cron.go), and the cron library as cron.go *)
(* uses it.                                                                *)
(*                                                                         *)
(* New runs first and may fail at each resource it opens.  A service that  *)
(* is up has the queue's workers, the goroutine that New starts for the    *)
(* scheduler, the syncs of the cold start, the jobs that cron starts, and  *)
(* any number of callers of Close.  What a worker or a sync does with the  *)
(* rows is EnrichPipeline's subject; here it only uses the store.          *)
(***************************************************************************)
EXTENDS Naturals, FiniteSets

CONSTANTS
  Workers,      \* goroutines of EnrichQueue, 2 in the code
  Closers,      \* callers of Close: the signal handler, main, an embedding gateway
  ColdJobs,     \* jobs the scheduler starts at once: three periods and the languages
  CronJobs,     \* jobs it registers with cron: three periods, the long tail, the cleanup
  SpecFields,   \* how many fields the cron spec of a job has, 5 in the code
  ParserFields  \* how many fields the parser wants, 6 with cron.WithSeconds()

ASSUME ServiceAssumption ==
  /\ SpecFields \in [CronJobs -> Nat]
  /\ ParserFields \in Nat

\* A goroutine that runs a job, started by the cold start or by cron.
Tasks == (ColdJobs \X {"cold"}) \cup (CronJobs \X {"cron"})

BootLabels == {"options", "store", "queue", "scheduler", "metrics", "collector", "launch"}
FailLabels == {"undoMetrics", "undoQueue", "undoWorkers", "undoStore"}

VARIABLES
  boot,         \* where New is; then "serving", or "failed" if it returned an error
  store,        \* the trending database: "none", "open", "closed"
  metrics,      \* the metrics database, the same
  queueOn,      \* EnrichQueue.running
  stopped,      \* stopCh is closed
  worker,       \* where each worker is
  entries,      \* the jobs that cron knows
  cronOn,       \* cron's loop runs
  starter,      \* where the goroutine of sch.Start() is
  tasks,        \* the job goroutines that run
  overdue,      \* the jobs whose time has come and that have not run since
  once,         \* closeOnce: "free", "taken", "done"
  closer        \* where each caller of Close is

vars == <<boot, store, metrics, queueOn, stopped, worker, entries, cronOn,
          starter, tasks, overdue, once, closer>>

WorkerVars == <<worker>>
CronVars   == <<entries, cronOn, starter, tasks, overdue>>
CloseVars  == <<once, closer>>

TypeOK ==
  /\ boot \in BootLabels \cup FailLabels \cup {"serving", "failed"}
  /\ store \in {"none", "open", "closed"} /\ metrics \in {"none", "open", "closed"}
  /\ queueOn \in BOOLEAN /\ stopped \in BOOLEAN
  /\ stopped => ~ queueOn
  /\ worker \in [Workers -> {"off", "check", "fetch", "enrich", "sleep", "gone"}]
  /\ entries \subseteq CronJobs
  /\ cronOn \in BOOLEAN
  /\ starter \in {"none", "cold", "cron", "done"}
  /\ tasks \subseteq Tasks
  /\ overdue \subseteq CronJobs
  /\ once \in {"free", "taken", "done"}
  /\ closer \in [Closers -> {"none", "enter", "cron", "jobs", "queue", "drain",
                             "metrics", "store", "done"}]

Init ==
  /\ boot = "options"
  /\ store = "none" /\ metrics = "none"
  /\ queueOn = FALSE /\ stopped = FALSE
  /\ worker = [w \in Workers |-> "off"]
  /\ entries = {} /\ cronOn = FALSE /\ starter = "none"
  /\ tasks = {} /\ overdue = {}
  /\ once = "free"
  /\ closer = [c \in Closers |-> "none"]

----------------------------------------------------------------------------
\* Worker w moves on in its loop.
Step(w, from, to) ==
  /\ worker[w] = from
  /\ worker' = [worker EXCEPT ![w] = to]

(***************************************************************************)
(* Variants with one plausible bug each, used by PROJECT.json only.        *)
(***************************************************************************)

\* Stop closes the channel but leaves running set.
StopQueueOn ==
  /\ queueOn
  /\ stopped' = TRUE
  /\ UNCHANGED queueOn

\* Stop does not wait for the workers.
DrainedAtOnce == TRUE

\* The loop has no select at its head.
CheckNothing(w) == Step(w, "check", "fetch")

\* New forgets the queue when the metrics database cannot be opened.
ForgetQueue == boot' = "undoStore"

\* Close keeps a flag instead of a sync.Once: a second call returns at once.
JoinTaken == once # "free"

----------------------------------------------------------------------------
(***************************************************************************)
(* EnrichQueue.                                                            *)
(***************************************************************************)

StartQueue ==
  /\ ~ queueOn
  /\ queueOn' = TRUE
  /\ worker' = [w \in Workers |-> "check"]

\* The first half of Stop: running is set back and stopCh is closed.
StopQueue ==
  /\ queueOn
  /\ queueOn' = FALSE
  /\ stopped' = TRUE

\* wg.Wait() returns.
Drained == \A w \in Workers : worker[w] = "gone"

\* The select at the head of the loop.
Check(w) == IF stopped THEN Step(w, "check", "gone") ELSE Step(w, "check", "fetch")

\* GetUnenrichedRepos returns a row, or else the worker sleeps; a closed store
\* gives errors.
Fetch(w) ==
  \/ store = "open" /\ Step(w, "fetch", "enrich")
  \/ Step(w, "fetch", "sleep")

\* EnrichOne returns; sleepOrStop returns, be it that the time is over or that
\* stopCh is closed, and the worker goes back to the head of the loop.
Loop(w) == Step(w, "enrich", "check") \/ Step(w, "sleep", "check")

----------------------------------------------------------------------------
(***************************************************************************)
(* New, statement by statement.                                            *)
(***************************************************************************)

\* Missing keys or tokens: an error before anything is opened.
CheckOptions ==
  /\ boot = "options"
  /\ boot' \in {"store", "failed"}
  /\ UNCHANGED <<store, metrics, queueOn, stopped, WorkerVars, CronVars, CloseVars>>

OpenStore ==
  /\ boot = "store"
  /\ \/ boot' = "queue" /\ store' = "open"
     \/ boot' = "failed" /\ UNCHANGED store
  /\ UNCHANGED <<metrics, queueOn, stopped, WorkerVars, CronVars, CloseVars>>

BootQueue ==
  /\ boot = "queue"
  /\ StartQueue
  /\ boot' = "scheduler"
  /\ UNCHANGED <<store, metrics, stopped, CronVars, CloseVars>>

\* scheduler.New: AddFunc returns an error for a spec that the parser does not
\* accept, and the caller drops it.
NewScheduler ==
  /\ boot = "scheduler"
  /\ entries' = {j \in CronJobs : SpecFields[j] = ParserFields}
  /\ boot' = "metrics"
  /\ UNCHANGED <<store, metrics, queueOn, stopped, WorkerVars,
                 cronOn, starter, tasks, overdue, CloseVars>>

\* What New does first when the metrics database or the collector fails.
UndoQueue == boot' = "undoQueue"

OpenMetrics ==
  /\ boot = "metrics"
  /\ \/ boot' = "collector" /\ metrics' = "open"
     \/ UndoQueue /\ UNCHANGED metrics
  /\ UNCHANGED <<store, queueOn, stopped, WorkerVars, CronVars, CloseVars>>

NewCollector ==
  /\ boot = "collector"
  /\ boot' \in {"launch", "undoMetrics"}
  /\ UNCHANGED <<store, metrics, queueOn, stopped, WorkerVars, CronVars, CloseVars>>

\* go sch.Start(), and New returns the service.
LaunchScheduler ==
  /\ boot = "launch"
  /\ starter' = "cold"
  /\ boot' = "serving"
  /\ UNCHANGED <<store, metrics, queueOn, stopped, WorkerVars,
                 entries, cronOn, tasks, overdue, CloseVars>>

\* The error paths: metricsStore.Close, enrichQueue.Stop, sqliteStore.Close.
UndoMetrics ==
  /\ boot = "undoMetrics"
  /\ metrics' = "closed"
  /\ UndoQueue
  /\ UNCHANGED <<store, queueOn, stopped, WorkerVars, CronVars, CloseVars>>

UndoStop ==
  /\ boot = "undoQueue"
  /\ StopQueue
  /\ boot' = "undoWorkers"
  /\ UNCHANGED <<store, metrics, WorkerVars, CronVars, CloseVars>>

UndoWorkers ==
  /\ boot = "undoWorkers"
  /\ Drained
  /\ boot' = "undoStore"
  /\ UNCHANGED <<store, metrics, queueOn, stopped, WorkerVars, CronVars, CloseVars>>

UndoStore ==
  /\ boot = "undoStore"
  /\ store' = "closed"
  /\ boot' = "failed"
  /\ UNCHANGED <<metrics, queueOn, stopped, WorkerVars, CronVars, CloseVars>>

Boot ==
  \/ CheckOptions \/ OpenStore \/ BootQueue \/ NewScheduler \/ OpenMetrics
  \/ NewCollector \/ LaunchScheduler
  \/ UndoMetrics \/ UndoStop \/ UndoWorkers \/ UndoStore

----------------------------------------------------------------------------
(***************************************************************************)
(* The scheduler: Start in a goroutine of its own, jobs, and cron.         *)
(***************************************************************************)

\* The go statements of Start.
StartCold ==
  /\ starter = "cold"
  /\ tasks' = tasks \cup (ColdJobs \X {"cold"})
  /\ starter' = "cron"
  /\ UNCHANGED <<boot, store, metrics, queueOn, stopped, WorkerVars,
                 entries, cronOn, overdue, CloseVars>>

\* cron.Start().
StartCron ==
  /\ starter = "cron"
  /\ cronOn' = TRUE
  /\ starter' = "done"
  /\ UNCHANGED <<boot, store, metrics, queueOn, stopped, WorkerVars,
                 entries, tasks, overdue, CloseVars>>

\* The time of job j comes.  Cron starts it if it runs and knows the job; a
\* period whose sync is under way is skipped by tryLock.
Due(j) ==
  /\ starter = "done"
  /\ overdue' = overdue \cup {j}
  /\ tasks' = IF cronOn /\ j \in entries /\ <<j, "cold">> \notin tasks
                THEN tasks \cup {<<j, "cron">>} ELSE tasks
  /\ UNCHANGED <<boot, store, metrics, queueOn, stopped, WorkerVars,
                 entries, cronOn, starter, CloseVars>>

EndTask(t) ==
  /\ t \in tasks
  /\ tasks' = tasks \ {t}
  /\ overdue' = overdue \ {t[1]}
  /\ UNCHANGED <<boot, store, metrics, queueOn, stopped, WorkerVars,
                 entries, cronOn, starter, CloseVars>>

----------------------------------------------------------------------------
(***************************************************************************)
(* Close.                                                                  *)
(***************************************************************************)
CloserStep(c, from, to) ==
  /\ closer[c] = from
  /\ closer' = [closer EXCEPT ![c] = to]

CallClose(c) ==
  /\ boot = "serving"
  /\ CloserStep(c, "none", "enter")
  /\ UNCHANGED <<boot, store, metrics, queueOn, stopped, WorkerVars, CronVars, once>>

\* closeOnce.Do: the first caller runs the function.
RunClose(c) ==
  /\ once = "free"
  /\ once' = "taken"
  /\ CloserStep(c, "enter", "cron")
  /\ UNCHANGED <<boot, store, metrics, queueOn, stopped, WorkerVars, CronVars>>

\* The others wait for it to return.
Joined == once = "done"

JoinClose(c) ==
  /\ Joined
  /\ CloserStep(c, "enter", "done")
  /\ UNCHANGED <<boot, store, metrics, queueOn, stopped, WorkerVars, CronVars, once>>

\* scheduler.Stop: cron's loop ends, then the jobs it has started.
StopCron(c) ==
  /\ CloserStep(c, "cron", "jobs")
  /\ cronOn' = FALSE
  /\ UNCHANGED <<boot, store, metrics, queueOn, stopped, WorkerVars,
                 entries, starter, tasks, overdue, once>>

AwaitJobs(c) ==
  /\ \A t \in tasks : t[2] # "cron"
  /\ CloserStep(c, "jobs", "queue")
  /\ UNCHANGED <<boot, store, metrics, queueOn, stopped, WorkerVars, CronVars, once>>

CloseQueue(c) ==
  /\ StopQueue
  /\ CloserStep(c, "queue", "drain")
  /\ UNCHANGED <<boot, store, metrics, WorkerVars, CronVars, once>>

AwaitWorkers(c) ==
  /\ Drained
  /\ CloserStep(c, "drain", "metrics")
  /\ UNCHANGED <<boot, store, metrics, queueOn, stopped, WorkerVars, CronVars, once>>

CloseMetrics(c) ==
  /\ CloserStep(c, "metrics", "store")
  /\ metrics' = "closed"
  /\ UNCHANGED <<boot, store, queueOn, stopped, WorkerVars, CronVars, once>>

\* The store is closed whether or not closing the metrics failed.
CloseStore(c) ==
  /\ CloserStep(c, "store", "done")
  /\ store' = "closed"
  /\ once' = "done"
  /\ UNCHANGED <<boot, metrics, queueOn, stopped, WorkerVars, CronVars>>

Close(c) ==
  \/ RunClose(c) \/ JoinClose(c) \/ StopCron(c) \/ AwaitJobs(c) \/ CloseQueue(c)
  \/ AwaitWorkers(c) \/ CloseMetrics(c) \/ CloseStore(c)

----------------------------------------------------------------------------
Work(w) ==
  /\ Check(w) \/ Fetch(w) \/ Loop(w)
  /\ UNCHANGED <<boot, store, metrics, queueOn, stopped, CronVars, CloseVars>>

Next ==
  \/ Boot
  \/ StartCold \/ StartCron
  \/ \E w \in Workers : Work(w)
  \/ \E j \in CronJobs : Due(j)
  \/ \E t \in Tasks : EndTask(t)
  \/ \E c \in Closers : CallClose(c) \/ Close(c)

Spec == Init /\ [][Next]_vars

(***************************************************************************)
(* Goroutines run; a job ends (EnrichPipeline's SyncEnds: a GitHub that    *)
(* answers); the time of every job comes again and again.  Nobody has to   *)
(* call Close.                                                             *)
(***************************************************************************)
FairSpec ==
  /\ Spec
  /\ WF_vars(Boot) /\ WF_vars(StartCold) /\ WF_vars(StartCron)
  /\ \A w \in Workers : WF_vars(Work(w))
  /\ \A j \in CronJobs : WF_vars(Due(j))
  /\ \A t \in Tasks : WF_vars(EndTask(t))
  /\ \A c \in Closers : WF_vars(Close(c))

----------------------------------------------------------------------------
(***************************************************************************)
(* Properties                                                              *)
(***************************************************************************)

(* No worker is left when the trending database is closed, on the way of   *)
(* Close and on the error paths of New: a worker never loses the store in  *)
(* the middle of an enrichment (queue.go: Stop waits for the current one). *)
StoreOutlivesWorkers ==
  store = "closed" => \A w \in Workers : worker[w] = "gone"

(* A New that fails leaves nothing behind: no open database, no worker, no *)
(* scheduler.                                                              *)
FailedNewLeavesNothing ==
  boot = "failed" => /\ store # "open" /\ metrics # "open"
                     /\ \A w \in Workers : worker[w] \in {"off", "gone"}
                     /\ ~ cronOn /\ tasks = {} /\ starter = "none"

(* Whoever gets an answer from Close, the second caller included, finds    *)
(* both databases closed and the workers gone.                             *)
CloseMeansClosed ==
  (\E c \in Closers : closer[c] = "done")
    => /\ store = "closed" /\ metrics = "closed"
       /\ \A w \in Workers : worker[w] = "gone"

(* Every call of Close returns, whatever the workers are doing.            *)
CloseReturns == \A c \in Closers : (closer[c] = "enter") ~> (closer[c] = "done")

(* cron.go, New: daily runs "every hour at minute 7", weekly every 6 hours,*)
(* monthly every 2 days: when the time of a job has come, it runs, unless  *)
(* the service is told to stop.                                            *)
JobsRunWhenDue ==
  \A j \in CronJobs :
    (j \in overdue) ~> (j \notin overdue \/ \E c \in Closers : closer[c] # "none")

=============================================================================
