--------------------------- MODULE EnrichPipeline ---------------------------
(***************************************************************************)
(* How rows of trending_repos are discovered, enriched and dropped by the  *)
(* goroutines of the service:                                              *)
(*                                                                         *)
(*   - the workers of internal/enricher/queue.go, which poll the store for *)
(*     the row with the highest priority, forever;                         *)
(*   - tasks: the goroutines of the cold start, of SyncAll, of a cron tick *)
(*     and of the admin endpoints.  A task runs a plan, a sequence of jobs *)
(*     where a job is the sync of one period (syncDaily, syncWeekly,       *)
(*     syncMonthly) or a bare EnrichAll (Sweep).                           *)
(*                                                                         *)
(* Every statement on the store, every lock operation and every request to *)
(* GitHub is a step of its own; steps of different goroutines interleave.  *)
(* The state other than rows is in memory: Crash loses it.                 *)
(***************************************************************************)
EXTENDS TrendingStore, Sequences

CONSTANTS
  OldTables,    \* what the database may hold when the program first opens it
  Workers,      \* goroutines of EnrichQueue
  Tasks,        \* slots for task goroutines; a slot is free again when its plan is done
  Sweep,        \* the job that is a bare EnrichAll
  Plans,        \* the plans a task may be launched with
  Pages,        \* the results a scrape may have: sets of <<repo, language>>
  Answers,      \* Answers[r]: what GitHub may answer about repo r
  NotFound,     \* answer: 404
  Failure,      \* answer: any other error that GetRepo returns
  NoRepo,       \* cur[p] when process p holds no repo
  BatchSize,    \* batchSize of EnrichAll, 30 in the code
  TopLimit,     \* LIMIT 30 of RecomputePriorities
  NextLimit,    \* LIMIT 70 of RecomputePriorities
  AllowForce,   \* whether POST /internal/enrich/force is called
  StoreFaults,  \* whether a statement on the store may fail
  MaxCrashes    \* bound on the number of crashes

ASSUME PipelineAssumption ==
  /\ OldTables \subseteq Table
  /\ Workers \cap Tasks = {}
  /\ Sweep \notin Sinces
  /\ Plans \subseteq Seq(Sinces \cup {Sweep})
  /\ Pages \subseteq SUBSET (Repos \X (Langs \cup {NoLang}))
  /\ Answers \in [Repos -> SUBSET (Language \cup {NotFound, Failure})]
  /\ NotFound \notin Language /\ Failure \notin Language /\ NotFound # Failure
  /\ NoRepo \notin [key : Keys, language : Language, priority : Priorities]
  /\ BatchSize \in Nat \ {0} /\ TopLimit \in Nat /\ NextLimit \in Nat
  /\ AllowForce \in BOOLEAN /\ StoreFaults \in BOOLEAN
  /\ MaxCrashes \in Nat

Processes == Workers \cup Tasks
Jobs      == Sinces \cup {Sweep}

\* What GetUnenrichedRepos returns of a row, as the caller keeps it.
Snapshot == [key : Keys, language : Language, priority : Priorities]

\* Where a task is between the steps of a sync, and where anyone is in the enricher.
SyncLabels   == {"upsert", "zero", "top", "next", "rest", "invalidate", "unlock"}
EnrichLabels == {"fetch", "batch", "github", "write", "release"}
HoldLabels   == {"github", "write", "release"}

VARIABLES
  rows,      \* the table trending_repos
  inflight,  \* Enricher.inflight: keys being enriched
  running,   \* Scheduler.running: periods being synced
  pc,        \* where each process is
  todo,      \* jobs a task still has to do, the current one first
  page,      \* scraped items a task still has to upsert
  batch,     \* snapshots a process still has to enrich
  cur,       \* the snapshot EnrichOne works on, or NoRepo
  answer,    \* GitHub's last answer to the process
  crashes    \* how often the program crashed

vars == <<rows, inflight, running, pc, todo, page, batch, cur, answer, crashes>>

EnricherVars == <<inflight, batch, cur, answer>>
TaskVars     == <<running, todo, page>>

TypeOK ==
  /\ rows \in Table
  /\ inflight \subseteq Keys
  /\ running \subseteq Sinces
  /\ pc \in [Processes -> {"jobs"} \cup SyncLabels \cup EnrichLabels]
  /\ todo \in [Tasks -> Seq(Jobs)]
  /\ page \in [Tasks -> SUBSET (Repos \X Language)]
  /\ batch \in [Processes -> SUBSET Snapshot]
  /\ cur \in [Processes -> Snapshot \cup {NoRepo}]
  /\ answer \in [Processes -> Language \cup {NotFound}]
  /\ crashes \in 0..MaxCrashes

\* Where the processes of a program that has just started are: the queue's
\* workers run, and no task does.
StartLabel == [p \in Processes |-> IF p \in Workers THEN "fetch" ELSE "jobs"]

\* The database is new, or earlier versions of the program have filled it.
Init ==
  /\ rows \in OldTables
  /\ inflight = {}
  /\ running = {}
  /\ pc     = StartLabel
  /\ todo   = [g \in Tasks |-> <<>>]
  /\ page   = [g \in Tasks |-> {}]
  /\ batch  = [p \in Processes |-> {}]
  /\ cur    = [p \in Processes |-> NoRepo]
  /\ answer = [p \in Processes |-> NoLang]
  /\ crashes = 0

At(p, label) == pc[p] = label
Goto(p, label) == pc' = [pc EXCEPT ![p] = label]

Idle(g) == At(g, "jobs") /\ todo[g] = <<>>

\* Task g has taken the lock of period s and not given it back.
InSync(g, s) == ~ At(g, "jobs") /\ todo[g] # <<>> /\ Head(todo[g]) = s

----------------------------------------------------------------------------
(***************************************************************************)
(* Starting goroutines.  Launch stands for the four places that start one: *)
(* the cold start and SyncAll of the scheduler, a cron tick, and the       *)
(* long-tail enrichment.                                                   *)
(***************************************************************************)
Launch(g) ==
  /\ Idle(g)
  /\ \E plan \in Plans : todo' = [todo EXCEPT ![g] = plan]
  /\ UNCHANGED <<rows, running, page, pc, EnricherVars, crashes>>

\* POST /internal/enrich/force: the table is reset by the request handler,
\* which then starts EnrichAll.  A failed reset answers 500 and starts nothing.
ForceEnrich(g) ==
  /\ AllowForce
  /\ Idle(g)
  /\ rows' = ResetAllEnriched(rows)
  /\ todo' = [todo EXCEPT ![g] = <<Sweep>>]
  /\ UNCHANGED <<running, page, pc, EnricherVars, crashes>>

----------------------------------------------------------------------------
(***************************************************************************)
(* Variants with one plausible bug each, used by PROJECT.json only.        *)
(***************************************************************************)

\* syncXxx starts without tryLock's test of running.
BeginSyncUnlocked(g) ==
  /\ At(g, "jobs") /\ todo[g] # <<>> /\ Head(todo[g]) # Sweep
  /\ running' = running \cup {Head(todo[g])}
  /\ \E items \in Pages : page' = [page EXCEPT ![g] = items]
  /\ Goto(g, "upsert")
  /\ UNCHANGED <<rows, todo, EnricherVars, crashes>>

\* EnrichAll handles a single batch instead of looping.
SingleBatch(g) ==
  /\ At(g, "batch") /\ batch[g] = {}
  /\ IF g \in Tasks /\ Head(todo[g]) # Sweep
       THEN Goto(g, "invalidate")
       ELSE Goto(g, "fetch")
  /\ UNCHANGED <<rows, TaskVars, EnricherVars, crashes>>

\* tryAcquire looks the key up but never stores it.
AcquireUnmarked(p, snap) ==
  /\ snap.key \notin inflight
  /\ cur' = [cur EXCEPT ![p] = snap]
  /\ Goto(p, "github")
  /\ UNCHANGED inflight

\* EnrichOne goes on to the write when GetRepo fails.
ReplyOrFailure(p) ==
  /\ At(p, "github")
  /\ \E a \in Answers[cur[p].key[1]] : answer' = [answer EXCEPT ![p] = a]
  /\ Goto(p, "write")
  /\ UNCHANGED <<rows, inflight, batch, cur, TaskVars, crashes>>

\* unlock is forgotten.
KeepLock(g) ==
  /\ At(g, "unlock")
  /\ todo' = [todo EXCEPT ![g] = Tail(@)]
  /\ Goto(g, "jobs")
  /\ UNCHANGED <<rows, running, page, EnricherVars, crashes>>

\* The enricher stores what GitHub says even if it says nothing.
WrittenBlank(t, snap, ans) ==
  IF ans = NotFound THEN MarkUnavailable(t, snap.key)
  ELSE IF Stored(t, snap.key)
    THEN [t EXCEPT ![snap.key] = [t[snap.key] EXCEPT !.language = ans, !.enriched = TRUE]]
    ELSE t

----------------------------------------------------------------------------
(***************************************************************************)
(* syncDaily, syncWeekly, syncMonthly.                                     *)
(***************************************************************************)

\* tryLock succeeds and the page is scraped, which touches nothing shared.
BeginSync(g) ==
  /\ At(g, "jobs") /\ todo[g] # <<>> /\ Head(todo[g]) # Sweep
  /\ Head(todo[g]) \notin running
  /\ running' = running \cup {Head(todo[g])}
  /\ \E items \in Pages : page' = [page EXCEPT ![g] = items]
  /\ Goto(g, "upsert")
  /\ UNCHANGED <<rows, todo, EnricherVars, crashes>>

\* tryLock fails: the sync returns at once.
SkipSync(g) ==
  /\ At(g, "jobs") /\ todo[g] # <<>> /\ Head(todo[g]) # Sweep
  /\ Head(todo[g]) \in running
  /\ todo' = [todo EXCEPT ![g] = Tail(@)]
  /\ UNCHANGED <<rows, running, page, pc, EnricherVars, crashes>>

\* One iteration of scrapeAndPersist: a failed upsert skips the item.
Upsert(g) ==
  /\ At(g, "upsert")
  /\ \E item \in page[g] :
       /\ page' = [page EXCEPT ![g] = @ \ {item}]
       /\ \/ rows' = UpsertRepo(rows, <<item[1], Head(todo[g])>>, item[2])
          \/ StoreFaults /\ UNCHANGED rows
  /\ UNCHANGED <<running, todo, pc, EnricherVars, crashes>>

EndUpserts(g) ==
  /\ At(g, "upsert") /\ page[g] = {}
  /\ Goto(g, "zero")
  /\ UNCHANGED <<rows, TaskVars, EnricherVars, crashes>>

\* RecomputePriorities, statement by statement.  The first error is ignored;
\* an error of the second or third ends it, and syncXxx ignores that error.
RecomputeZero(g) ==
  /\ At(g, "zero")
  /\ \/ rows' = ZeroPriorities(rows, Head(todo[g]))
     \/ StoreFaults /\ UNCHANGED rows
  /\ Goto(g, "top")
  /\ UNCHANGED <<TaskVars, EnricherVars, crashes>>

RecomputeTop(g) ==
  /\ At(g, "top")
  /\ \/ rows' \in PromoteTop(rows, Head(todo[g]), TopLimit) /\ Goto(g, "next")
     \/ StoreFaults /\ UNCHANGED rows /\ Goto(g, "fetch")
  /\ UNCHANGED <<TaskVars, EnricherVars, crashes>>

RecomputeNext(g) ==
  /\ At(g, "next")
  /\ \/ rows' \in PromoteNext(rows, Head(todo[g]), NextLimit) /\ Goto(g, "rest")
     \/ StoreFaults /\ UNCHANGED rows /\ Goto(g, "fetch")
  /\ UNCHANGED <<TaskVars, EnricherVars, crashes>>

RecomputeRest(g) ==
  /\ At(g, "rest")
  /\ \/ rows' = RestPriorities(rows, Head(todo[g]))
     \/ StoreFaults /\ UNCHANGED rows
  /\ Goto(g, "fetch")
  /\ UNCHANGED <<TaskVars, EnricherVars, crashes>>

\* cache.Invalidate(since), the last statement of the sync.
Invalidate(g) ==
  /\ At(g, "invalidate")
  /\ Goto(g, "unlock")
  /\ UNCHANGED <<rows, TaskVars, EnricherVars, crashes>>

\* The deferred unlock.
Unlock(g) ==
  /\ At(g, "unlock")
  /\ running' = running \ {Head(todo[g])}
  /\ todo' = [todo EXCEPT ![g] = Tail(@)]
  /\ Goto(g, "jobs")
  /\ UNCHANGED <<rows, page, EnricherVars, crashes>>

----------------------------------------------------------------------------
(***************************************************************************)
(* EnrichAll and the worker loop share everything but the batch size and   *)
(* what they do when there is no work: a worker sleeps and asks again,     *)
(* EnrichAll returns.                                                      *)
(***************************************************************************)
BeginSweep(g) ==
  /\ At(g, "jobs") /\ todo[g] # <<>> /\ Head(todo[g]) = Sweep
  /\ Goto(g, "fetch")
  /\ UNCHANGED <<rows, TaskVars, EnricherVars, crashes>>

SnapshotOf(k) == [key |-> k, language |-> rows[k].language, priority |-> rows[k].priority]

FetchLimit(p) == IF p \in Workers THEN 1 ELSE BatchSize

\* GetUnenrichedRepos returns rows.
Fetch(p) ==
  /\ At(p, "fetch")
  /\ \E B \in GetUnenrichedRepos(rows, FetchLimit(p)) :
       /\ B # {}
       /\ batch' = [batch EXCEPT ![p] = {SnapshotOf(k) : k \in B}]
  /\ Goto(p, "batch")
  /\ UNCHANGED <<rows, inflight, cur, answer, TaskVars, crashes>>

\* GetUnenrichedRepos returns no row or an error: EnrichAll returns either way.
EndSweep(g) ==
  /\ At(g, "fetch")
  /\ Pending(rows) = {} \/ StoreFaults
  /\ IF Head(todo[g]) = Sweep
       THEN Goto(g, "jobs") /\ todo' = [todo EXCEPT ![g] = Tail(@)]
       ELSE Goto(g, "invalidate") /\ UNCHANGED todo
  /\ UNCHANGED <<rows, running, page, EnricherVars, crashes>>

\* The next repo of the batch, in the order of the query.
Foremost(p) ==
  {snap \in batch[p] : \A other \in batch[p] : snap.priority >= other.priority}

\* tryAcquire takes the repo.
Acquire(p, snap) ==
  /\ snap.key \notin inflight
  /\ inflight' = inflight \cup {snap.key}
  /\ cur' = [cur EXCEPT ![p] = snap]
  /\ Goto(p, "github")

\* tryAcquire fails: EnrichOne returns nil, and the loop goes on.
Busy(snap) ==
  /\ snap.key \in inflight
  /\ UNCHANGED <<inflight, cur, pc>>

Take(p) ==
  /\ At(p, "batch")
  /\ \E snap \in Foremost(p) :
       /\ batch' = [batch EXCEPT ![p] = @ \ {snap}]
       /\ Acquire(p, snap) \/ Busy(snap)
  /\ UNCHANGED <<rows, answer, TaskVars, crashes>>

EndBatch(p) ==
  /\ At(p, "batch") /\ batch[p] = {}
  /\ Goto(p, "fetch")
  /\ UNCHANGED <<rows, TaskVars, EnricherVars, crashes>>

\* GetRepo answers with a language, with none, or with 404.
Reply(p) ==
  /\ At(p, "github")
  /\ \E a \in Answers[cur[p].key[1]] \ {Failure} : answer' = [answer EXCEPT ![p] = a]
  /\ Goto(p, "write")
  /\ UNCHANGED <<rows, inflight, batch, cur, TaskVars, crashes>>

\* GetRepo returns an error other than 404: the row stays pending.
Fail(p) ==
  /\ At(p, "github")
  /\ Failure \in Answers[cur[p].key[1]]
  /\ Goto(p, "release")
  /\ UNCHANGED <<rows, TaskVars, EnricherVars, crashes>>

\* buildEnrichedRepo keeps the language of the snapshot when GitHub names none.
Written(t, snap, ans) ==
  IF ans = NotFound
    THEN MarkUnavailable(t, snap.key)
    ELSE UpdateEnriched(t, snap.key, Coalesce(ans, snap.language))

\* A failed write is either ignored or logged; the row stays as it was.
Write(p) ==
  /\ At(p, "write")
  /\ \/ rows' = Written(rows, cur[p], answer[p])
     \/ StoreFaults /\ UNCHANGED rows
  /\ Goto(p, "release")
  /\ UNCHANGED <<TaskVars, EnricherVars, crashes>>

\* The deferred release.
Release(p) ==
  /\ At(p, "release")
  /\ inflight' = inflight \ {cur[p].key}
  /\ cur' = [cur EXCEPT ![p] = NoRepo]
  /\ answer' = [answer EXCEPT ![p] = NoLang]
  /\ Goto(p, "batch")
  /\ UNCHANGED <<rows, batch, TaskVars, crashes>>

\* The process dies and is started again: the table survives, the rest does not.
Crash ==
  /\ crashes < MaxCrashes
  /\ crashes' = crashes + 1
  /\ inflight' = {}
  /\ running' = {}
  /\ pc'     = StartLabel
  /\ todo'   = [g \in Tasks |-> <<>>]
  /\ page'   = [g \in Tasks |-> {}]
  /\ batch'  = [p \in Processes |-> {}]
  /\ cur'    = [p \in Processes |-> NoRepo]
  /\ answer' = [p \in Processes |-> NoLang]
  /\ UNCHANGED rows

----------------------------------------------------------------------------
Enrich(p) ==
  \/ Fetch(p) \/ Take(p) \/ EndBatch(p)
  \/ Reply(p) \/ Fail(p) \/ Write(p) \/ Release(p)

Sync(g) ==
  \/ BeginSync(g) \/ SkipSync(g) \/ Upsert(g) \/ EndUpserts(g)
  \/ RecomputeZero(g) \/ RecomputeTop(g) \/ RecomputeNext(g) \/ RecomputeRest(g)
  \/ Invalidate(g) \/ Unlock(g) \/ BeginSweep(g) \/ EndSweep(g)

Next ==
  \/ \E p \in Processes : Enrich(p)
  \/ \E g \in Tasks : Sync(g) \/ Launch(g) \/ ForceEnrich(g)
  \/ Crash

Spec == Init /\ [][Next]_vars

(***************************************************************************)
(* The Go scheduler runs every goroutine, a request to GitHub times out    *)
(* after 30 s and a worker's sleep after 10 or 30 s, so a process that can *)
(* step does.  Nobody is obliged to call an endpoint or to crash.          *)
(***************************************************************************)
Fairness ==
  /\ \A p \in Processes : WF_vars(Enrich(p))
  /\ \A g \in Tasks : WF_vars(Sync(g))

FairSpec == Spec /\ Fairness

----------------------------------------------------------------------------
(***************************************************************************)
(* Safety                                                                  *)
(***************************************************************************)

Holding(p) == pc[p] \in HoldLabels

(* tryAcquire: at any moment at most one goroutine works on a key, whatever *)
(* mix of workers, cold start, SyncAll and force runs (github.go: "prevent *)
(* enriching the same repo concurrently"), and the inflight map holds      *)
(* exactly the keys being worked on, so that no key is blocked for good.   *)
OneHolderPerKey ==
  /\ \A p, q \in Processes : Holding(p) /\ Holding(q) /\ p # q => cur[p].key # cur[q].key
  /\ inflight = {cur[p].key : p \in {q \in Processes : Holding(q)}}

(* tryLock: a period is marked running exactly while one task is in its    *)
(* sync, so that a failed lock really means that someone else does the     *)
(* work, and a finished one never locks later runs out.                    *)
OneSyncPerPeriod ==
  /\ \A g, h \in Tasks, s \in Sinces : InSync(g, s) /\ InSync(h, s) => g = h
  /\ running = {s \in Sinces : \E g \in Tasks : InSync(g, s)}

(* When a sync drops the cached pages of its period, no row of the period  *)
(* waits for the enricher: what it found was enriched or is gone, by       *)
(* itself or by a goroutine that is still releasing it (cron.go: "scrape + *)
(* enrich are done, then invalidate").  Holds when no statement fails and  *)
(* nobody forces a new enrichment; the runs bind the constants so.         *)
SettledWhenInvalidated ==
  \A g \in Tasks :
    At(g, "invalidate") => \A k \in Pending(rows) : SinceOf(k) # Head(todo[g])

\* GitHub has named no language, and p writes back the '' that its snapshot has.
WritesBlank(p, k) ==
  Write(p) /\ cur[p].key = k /\ Coalesce(answer[p], cur[p].language) = Empty

(* A stored language may be replaced, but no crawl and no answer without a *)
(* language erases it (sqlite.go, UpsertRepo: the hourly crawl must not    *)
(* blank what the enricher has found), with one exception that the code    *)
(* has: UpdateEnriched takes '' for a language.  A row of an old database  *)
(* that has '' when the enricher fetches it loses the name that a crawl    *)
(* stores meanwhile, if GitHub names none.                                 *)
LanguageNeverErased ==
  [][\A k \in Keys :
       HasLanguage(rows, k) => HasLanguage(rows', k) \/ \E p \in Processes : WritesBlank(p, k)]_vars

\* The stage of RowLifecycle that a row of the table is in.
LifeOf(t) ==
  [k \in Keys |-> IF ~ Stored(t, k)         THEN "absent"
                  ELSE IF ~ t[k].available  THEN "gone"
                  ELSE IF t[k].enriched     THEN "visible"
                  ELSE "pending"]

Lifecycle == INSTANCE RowLifecycle WITH life <- LifeOf(rows)

(* Every row goes through the stages of RowLifecycle whatever the          *)
(* goroutines do: a repo that GitHub does not know never comes back, even  *)
(* if it is on the page again and others still hold older snapshots of it; *)
(* no upsert, however late, hides a row that clients can see; and only the *)
(* force endpoint takes rows from the clients, all of them in one step.    *)
ImplementsLifecycle == Lifecycle!Spec

(***************************************************************************)
(* Liveness, under FairSpec                                                *)
(***************************************************************************)

(* A row that waits for the enricher is eventually enriched or gone, also  *)
(* across a crash that loses the task that found it: the workers pick it   *)
(* up.  Needs a GitHub that answers about every repo.                      *)
PendingIsServed == \A k \in Keys : (k \in Pending(rows)) ~> (k \notin Pending(rows))

(* Every sync ends and gives its lock back, so that later ones can run.    *)
SyncEnds == \A s \in Sinces : (s \in running) ~> (s \notin running)

(***************************************************************************)
(* What comments of the code say and the code does not do                  *)
(***************************************************************************)

(* cron.go, before syncWeekly: a row that is already enriched is not       *)
(* enriched again, so that no token is spent twice.                        *)
NeverEnrichedTwice ==
  [][\A p \in Processes : At(p, "batch") /\ pc'[p] = "github"
                            => cur'[p].key \in Pending(rows)]_vars

(* admin.go, HandleEnrichForce, and store.go, ResetAllEnriched: between the *)
(* reset and the end of the new enrichment clients go on seeing the rows    *)
(* with what the spider has found: a row leaves the clients' view only when *)
(* GitHub does not know the repo.                                           *)
RowsStayVisible ==
  [][\A k \in Keys : LifeOf(rows)[k] = "visible"
                        => LifeOf(rows')[k] \in {"visible", "gone"}]_vars

============================================================================
