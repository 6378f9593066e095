----------------------- MODULE ServiceLifecycleProofs -----------------------
(***************************************************************************)
(* Theorems about ServiceLifecycle, for every number of workers, callers   *)
(* of Close and jobs, and whatever cron specs the parser accepts.          *)
(***************************************************************************)
EXTENDS ServiceLifecycle, TLAPS

AllGone == \A w \in Workers : worker[w] = "gone"

\* Before New returns nobody else runs, and what it has opened is what its
\* place says.
BootOK ==
  /\ boot # "serving" => /\ starter = "none" /\ tasks = {} /\ ~ cronOn
                         /\ once = "free"
                         /\ \A c \in Closers : closer[c] = "none"
  /\ boot \in {"options", "store"} => store = "none"
  /\ boot \in {"options", "store", "queue"} => ~ stopped /\ \A w \in Workers : worker[w] = "off"
  /\ boot \in {"options", "store", "queue", "scheduler", "metrics"} => metrics = "none"
  /\ boot \in {"undoQueue", "undoWorkers", "undoStore"} => metrics # "open"
  /\ boot = "undoStore" => AllGone

\* Whoever is behind the wait for the workers finds them gone, and whoever is
\* out finds everything closed.
CloseOK ==
  /\ \A c \in Closers : closer[c] \in {"metrics", "store"} => AllGone
  /\ \A c \in Closers : closer[c] = "store" => metrics = "closed"
  /\ \A c \in Closers : closer[c] = "done" => once = "done"
  /\ once = "done" => store = "closed" /\ metrics = "closed" /\ AllGone

IInv == /\ TypeOK /\ BootOK /\ CloseOK
        /\ StoreOutlivesWorkers /\ FailedNewLeavesNothing

----------------------------------------------------------------------------
(* Nothing runs and nothing is open before New.                            *)
LEMMA ServiceInit == Init => IInv
  BY DEF Init, IInv, TypeOK, BootOK, CloseOK, StoreOutlivesWorkers,
         FailedNewLeavesNothing, BootLabels

(* Every step of New keeps the invariant.                                  *)
LEMMA BootStep == IInv /\ Boot => IInv'
<1> SUFFICES ASSUME IInv, Boot PROVE IInv'
  OBVIOUS
<1> USE DEF IInv, TypeOK, BootOK, CloseOK, StoreOutlivesWorkers, FailedNewLeavesNothing,
            AllGone, BootLabels, FailLabels, WorkerVars, CronVars, CloseVars
<1>1. CASE CheckOptions
  BY <1>1 DEF CheckOptions
<1>2. CASE OpenStore
  BY <1>2 DEF OpenStore
<1>3. CASE BootQueue
  BY <1>3 DEF BootQueue, StartQueue
<1>4. CASE NewScheduler
  BY <1>4 DEF NewScheduler
<1>5. CASE OpenMetrics
  BY <1>5 DEF OpenMetrics, UndoQueue
<1>6. CASE NewCollector
  BY <1>6 DEF NewCollector
<1>7. CASE LaunchScheduler
  BY <1>7 DEF LaunchScheduler
<1>8. CASE UndoMetrics
  BY <1>8 DEF UndoMetrics, UndoQueue
<1>9. CASE UndoStop
  BY <1>9 DEF UndoStop, StopQueue
<1>10. CASE UndoWorkers
  BY <1>10 DEF UndoWorkers, Drained
<1>11. CASE UndoStore
  BY <1>11 DEF UndoStore
<1> QED
  BY <1>1, <1>2, <1>3, <1>4, <1>5, <1>6, <1>7, <1>8, <1>9, <1>10, <1>11 DEF Boot

(* Every step of a worker keeps it: a worker that is gone or was never     *)
(* started takes no step.                                                  *)
LEMMA WorkStep == ASSUME IInv, NEW w \in Workers, Work(w) PROVE IInv'
<1> USE DEF IInv, TypeOK, Step
<1>1. /\ worker[w] \notin {"off", "gone"}
      /\ worker' \in [Workers -> {"off", "check", "fetch", "enrich", "sleep", "gone"}]
      /\ UNCHANGED <<boot, store, metrics, queueOn, stopped, entries, cronOn, starter,
                     tasks, overdue, once, closer>>
  BY DEF Work, Check, Fetch, Loop, CronVars, CloseVars
<1>2. ~ AllGone
  BY <1>1 DEF AllGone
<1> QED
  BY <1>1, <1>2 DEF BootOK, CloseOK, StoreOutlivesWorkers, FailedNewLeavesNothing, AllGone

(* Every step of the scheduler and of a job keeps it.                      *)
LEMMA SchedulerStep ==
  ASSUME IInv,
         \/ StartCold \/ StartCron
         \/ \E j \in CronJobs : Due(j)
         \/ \E t \in Tasks : EndTask(t)
  PROVE  IInv'
<1> USE DEF IInv, TypeOK, BootOK, CloseOK, StoreOutlivesWorkers, FailedNewLeavesNothing,
            AllGone, WorkerVars, CloseVars
<1>1. CASE StartCold
  BY <1>1 DEF StartCold, Tasks
<1>2. CASE StartCron
  BY <1>2 DEF StartCron
<1>3. ASSUME NEW j \in CronJobs, Due(j) PROVE IInv'
  BY <1>3 DEF Due, Tasks
<1>4. ASSUME NEW t \in Tasks, EndTask(t) PROVE IInv'
  BY <1>4 DEF EndTask
<1> QED
  BY <1>1, <1>2, <1>3, <1>4

(* Every step of a caller of Close keeps it.                               *)
LEMMA CloseStep == ASSUME IInv, NEW c \in Closers, CallClose(c) \/ Close(c) PROVE IInv'
<1> USE DEF IInv, TypeOK, BootOK, CloseOK, StoreOutlivesWorkers, FailedNewLeavesNothing,
            AllGone, WorkerVars, CronVars, CloserStep
<1>1. CASE CallClose(c)
  BY <1>1 DEF CallClose
<1>2. CASE RunClose(c)
  BY <1>2 DEF RunClose
<1>3. CASE JoinClose(c)
  BY <1>3 DEF JoinClose, Joined
<1>4. CASE StopCron(c)
  BY <1>4 DEF StopCron
<1>5. CASE AwaitJobs(c)
  BY <1>5 DEF AwaitJobs
<1>6. CASE CloseQueue(c)
  BY <1>6 DEF CloseQueue, StopQueue
<1>7. CASE AwaitWorkers(c)
  BY <1>7 DEF AwaitWorkers, Drained
<1>8. CASE CloseMetrics(c)
  BY <1>8 DEF CloseMetrics
<1>9. CASE CloseStore(c)
  BY <1>9 DEF CloseStore
<1> QED
  BY <1>1, <1>2, <1>3, <1>4, <1>5, <1>6, <1>7, <1>8, <1>9 DEF Close

(* Every step keeps it.                                                    *)
LEMMA ServiceStep == IInv /\ [Next]_vars => IInv'
<1> SUFFICES ASSUME IInv, [Next]_vars PROVE IInv'
  OBVIOUS
<1>1. CASE UNCHANGED vars
  BY <1>1 DEF vars, IInv, TypeOK, BootOK, CloseOK, StoreOutlivesWorkers,
              FailedNewLeavesNothing, AllGone
<1> QED
  BY <1>1, BootStep, WorkStep, SchedulerStep, CloseStep DEF Next

(* Type correctness.                                                       *)
THEOREM ServiceTyping == Spec => []TypeOK
<1>1. IInv => TypeOK
  BY DEF IInv
<1> QED
  BY <1>1, ServiceInit, ServiceStep, PTL DEF Spec

(* The trending database is closed only when every worker is gone, on the  *)
(* way of Close and on the error paths of New.                             *)
THEOREM StoreClosedLast == Spec => []StoreOutlivesWorkers
<1>1. IInv => StoreOutlivesWorkers
  BY DEF IInv
<1> QED
  BY <1>1, ServiceInit, ServiceStep, PTL DEF Spec

(* A New that returns an error leaves neither a database nor a goroutine.  *)
THEOREM FailedNewIsClean == Spec => []FailedNewLeavesNothing
<1>1. IInv => FailedNewLeavesNothing
  BY DEF IInv
<1> QED
  BY <1>1, ServiceInit, ServiceStep, PTL DEF Spec

(* Every call of Close that returns, the first or not, returns to a closed *)
(* service.                                                                *)
THEOREM CloseIsDone == Spec => []CloseMeansClosed
<1>1. IInv => CloseMeansClosed
  BY DEF IInv, CloseOK, CloseMeansClosed, AllGone
<1> QED
  BY <1>1, ServiceInit, ServiceStep, PTL DEF Spec

=============================================================================
